-------------------------- MODULE AppManagerProofs --------------------------
(***************************************************************************)
(* Proofs about AppManager for any names and any number of installs.       *)
(***************************************************************************)
EXTENDS AppManager, ListLemmas

\* Ids beyond the last one given out have left no trace.
Fresh ==
  \A m \in Ids : m > module_id_max =>
    /\ ~Listed(m) /\ m \notin ctxs /\ thread[m] = "none"
    /\ \A k \in Kinds : m \notin held[k]

\* What holds of the module at hand, at every program point of the manager: how
\* far an install has come, and what an uninstall has taken away already.
AtHand ==
  /\ pc = "idle" <=> cur = NoModule
  /\ pc # "idle" => cur <= module_id_max /\ mem[cur] = "live"
  /\ pc \in {"timer ctx", "thread", "join", "cleanup resource", "cleanup event",
             "cleanup callback", "unlist"} => Listed(cur)
  /\ pc \in {"timer ctx", "thread"} => queue[cur] = "live"
  /\ pc \notin {"idle", "join"} => thread[cur] # "running"
  /\ pc \in {"timer ctx", "free"} => cur \notin ctxs
  /\ pc = "thread" => cur \in ctxs
  /\ pc \in {"release queue", "release ctx", "free"} =>
       ~Listed(cur) \/ (cur \in failed /\ cur \notin ctxs)

\* What the cleanup has taken from the module at hand stays away, and a module
\* that was never started holds nothing.
Cleaned ==
  \A k \in Kinds :
    \/ pc \in {"timer ctx", "thread", "unlist", "release queue", "release ctx", "free"}
    \/ pc \in {"cleanup event", "cleanup callback"} /\ k = "resource"
    \/ pc = "cleanup callback" /\ k = "event"
    => cur \notin held[k]

\* A running thread has all of its module; nothing is held for a module that is
\* neither listed nor at hand.
Owned ==
  \A m \in Ids :
    /\ thread[m] = "running" => mem[m] = "live" /\ queue[m] = "live" /\ m \in ctxs /\ Listed(m)
    /\ m \in ctxs => mem[m] = "live" /\ (Listed(m) \/ m = cur)
    /\ \A k \in Kinds : m \in held[k] => Listed(m) \/ m = cur
    /\ Listed(m) => mem[m] = "live" \/ m \in failed

\* The timer thread keeps the context of the module it has found.
TimerHand == at["timer"] # "idle" => hand["timer"] \in ctxs

IInv == TypeOK /\ UniqueNames /\ Fresh /\ AtHand /\ Cleaned /\ Owned /\ TimerHand

\* Nothing is installed yet.
LEMMA InitIInv == ASSUME Init PROVE IInv
  <1>1. TypeOK
    BY ManagerAssumption DEF Init, TypeOK, Ids, NoModule
  <1>2. UniqueNames /\ \A m \in Ids : ~Listed(m)
    BY DEF Init, UniqueNames, Listed
  <1>3. Fresh /\ AtHand /\ Cleaned /\ Owned /\ TimerHand
    BY <1>2 DEF Init, Fresh, AtHand, Cleaned, Owned, TimerHand, Kinds, Posters, NoModule
  <1> QED BY <1>1, <1>2, <1>3 DEF IInv

\* module_data_list_remove takes the module at hand off the list, and only that one.
LEMMA ListRemoved ==
  ASSUME TypeOK, UniqueNames, ListRemove, name' = name
  PROVE  /\ list' \in Seq(Ids) /\ UniqueNames'
         /\ \A m \in Ids : Listed(m)' <=> Listed(m) /\ m # cur
  <1>1. CASE Found({cur}) = {}
    <2>1. list' = list
      BY <1>1 DEF ListRemove
    <2>2. ~Listed(cur)
      BY <1>1 DEF Listed, Found, UniqueNames
    <2> QED BY <2>1, <2>2 DEF TypeOK, UniqueNames, Listed
  <1>2. CASE Found({cur}) # {}
    <2>1. PICK k \in Found({cur}) : list' = Without(list, k)
      BY <1>2 DEF ListRemove, RemoveAt, Without
    <2>2. list \in Seq(Ids) /\ k \in 1..Len(list) /\ list[k] = cur
      BY DEF TypeOK, Found
    <2>3. /\ list' \in Seq(Ids) /\ Len(list') = Len(list) - 1
          /\ \A i \in 1..Len(list) - 1 : list'[i] = IF i < k THEN list[i] ELSE list[i + 1]
      <3>1. list' \in Seq(Ids) /\ TakenOut(list', list, k)
        BY <2>1, <2>2, RemoveElements, Zenon
      <3> QED BY <3>1 DEF TakenOut
    <2>4. UniqueNames'
      <3>1. Len(list) \in Nat /\ k \in Nat /\ k <= Len(list)
        BY <2>2
      <3>2. ASSUME NEW i \in 1..Len(list) - 1
            PROVE  \E u \in 1..Len(list) : list'[i] = list[u] /\ u = IF i < k THEN i ELSE i + 1
        <4>1. (IF i < k THEN i ELSE i + 1) \in 1..Len(list)
          BY <3>1
        <4>2. list'[i] = list[IF i < k THEN i ELSE i + 1]
          BY <2>3
        <4> QED BY <4>1, <4>2
      <3>3. ASSUME NEW i \in 1..Len(list) - 1, NEW j \in 1..Len(list) - 1,
                   name[list'[i]] = name[list'[j]]
            PROVE  i = j
        <4>1. PICK u \in 1..Len(list) : list'[i] = list[u] /\ u = IF i < k THEN i ELSE i + 1
          BY <3>2
        <4>2. PICK v \in 1..Len(list) : list'[j] = list[v] /\ v = IF j < k THEN j ELSE j + 1
          BY <3>2
        <4>3. u = v
          BY <4>1, <4>2, <3>3, Zenon DEF UniqueNames
        <4> QED BY <4>1, <4>2, <4>3, <3>1
      <3> QED BY <2>3, <3>3 DEF UniqueNames
    <2>5. \A m : Occurs(list', m) <=> Occurs(list, m) /\ m # cur
      <3>1. Distinct(list)
        BY DEF UniqueNames, Distinct
      <3> QED BY <2>1, <2>2, <3>1, RemoveDistinct
    <2> QED BY <2>3, <2>4, <2>5 DEF Occurs, Listed
  <1> QED BY <1>1, <1>2

\* Every step of the manager, of an application's thread and of a poster keeps
\* the inductive invariant.
LEMMA NextIInv == IInv /\ [Next]_vars => IInv'
  <1>a. SUFFICES ASSUME IInv, [Next]_vars PROVE IInv'
    OBVIOUS
  <1>b. /\ TypeOK /\ UniqueNames /\ Fresh /\ AtHand /\ Cleaned /\ Owned /\ TimerHand
    BY <1>a DEF IInv
  <1> USE DEF Kinds, Posters
  <1>n. /\ NoModule \notin Ids /\ module_id_max \in Nat
        /\ \A m \in Ids : m \in Nat
    <2>1. MaxInstalls \in Nat
      BY ManagerAssumption
    <2>2. module_id_max \in 0..MaxInstalls
      BY <1>b DEF TypeOK
    <2> QED BY <2>1, <2>2 DEF Ids, NoModule
  <1>l. list \in Seq(Ids) /\ Len(list) \in Nat /\ \A i \in 1..Len(list) : list[i] \in Ids
    <2>1. list \in Seq(Ids)
      BY <1>b DEF TypeOK
    <2> QED BY <2>1
  <1>1. ASSUME NEW n \in Names, Install(n) PROVE IInv'
    <2>0. PICK m \in Ids : m = module_id_max + 1
      BY <1>1 DEF Install
    <2>1. /\ m \in Ids /\ list' = <<m>> \o list /\ name' = [name EXCEPT ![m] = n]
          /\ \A i \in 1..Len(list) : name[list[i]] # n
      BY <1>1, <2>0 DEF Install, MayInstall
    <2>2. /\ list' \in Seq(Ids) /\ Len(list') = Len(list) + 1 /\ list'[1] = m
          /\ \A i \in 2..Len(list) + 1 : list'[i] = list[i - 1]
      BY <2>1, <1>l, ConsElements
    <2>3. \A i \in 1..Len(list) : list[i] \in Ids /\ list[i] # m
      <3>1. ~Listed(m)
        BY <2>0, <1>b, <1>n DEF Fresh
      <3> QED BY <3>1, <1>l DEF Listed
    <2>4. \A x \in Ids : Listed(x)' <=> Listed(x) \/ x = m
      <3>1. ASSUME NEW x \in Ids, Listed(x)' PROVE Listed(x) \/ x = m
        BY <3>1, <2>2 DEF Listed
      <3>2. ASSUME NEW x \in Ids, Listed(x) PROVE Listed(x)'
        <4>1. PICK i \in 1..Len(list) : list[i] = x
          BY <3>2 DEF Listed
        <4>2. i + 1 \in 1..Len(list') /\ list'[i + 1] = x
          <5>1. i + 1 \in 2..Len(list) + 1 /\ i + 1 \in 1..Len(list') /\ (i + 1) - 1 = i
            BY <1>l, <2>2
          <5> QED BY <5>1, <4>1, <2>2
        <4> QED BY <4>2 DEF Listed
      <3>3. Listed(m)'
        <4>1. 1 \in 1..Len(list')
          BY <2>2, <1>l
        <4> QED BY <4>1, <2>2 DEF Listed
      <3> QED BY <3>1, <3>2, <3>3, <2>1
    <2>5. UniqueNames'
      <3>1. ASSUME NEW i \in 1..Len(list'), NEW j \in 1..Len(list'), name'[list'[i]] = name'[list'[j]]
            PROVE  i = j
        <4>1. name'[m] = n /\ \A k \in 1..Len(list) : name'[list[k]] = name[list[k]]
          BY <2>1, <2>3, <1>b DEF TypeOK
        <4>2. CASE i = 1
          BY <4>1, <4>2, <3>1, <2>1, <2>2, <1>l
        <4>3. CASE j = 1
          BY <4>1, <4>3, <3>1, <2>1, <2>2, <1>l
        <4>4. CASE i # 1 /\ j # 1
          <5>1. /\ i - 1 \in 1..Len(list) /\ j - 1 \in 1..Len(list)
                /\ list'[i] = list[i - 1] /\ list'[j] = list[j - 1]
            BY <4>4, <2>2, <1>l
          <5>2. i - 1 = j - 1
            BY <5>1, <4>1, <3>1, <1>b DEF UniqueNames
          <5> QED BY <5>1, <5>2
        <4> QED BY <4>2, <4>3, <4>4
      <3> QED BY <3>1 DEF UniqueNames
    <2>6. /\ module_id_max' = m /\ mem' = [mem EXCEPT ![m] = "live"] /\ queue' = [queue EXCEPT ![m] = "live"]
          /\ pc' = "timer ctx" /\ cur' = m /\ pc = "idle"
          /\ UNCHANGED <<thread, exit, deaf, ctxs, held, at, hand, failed, ub>>
      BY <1>1, <2>0 DEF Install, posters
    <2>m. m \in Nat /\ m > module_id_max
      BY <1>n, <2>0
    <2>7. module_id_max' \in 0..MaxInstalls
      <3>1. MaxInstalls \in Nat
        BY ManagerAssumption
      <3>2. m \in 0..MaxInstalls
        BY <2>0, <3>1 DEF Ids
      <3> QED BY <2>6, <3>2
    <2>8. TypeOK'
      BY <1>b, <2>1, <2>2, <2>6, <2>7 DEF TypeOK
    <2>9. Fresh'
      <3>1. ASSUME NEW x \in Ids, x > module_id_max' PROVE x > module_id_max /\ x # m
        <4>1. module_id_max' = m
          BY <2>6
        <4>2. x \in Nat /\ module_id_max \in Nat
          BY <1>n
        <4> QED BY <3>1, <4>1, <4>2, <2>m
      <3> QED BY <3>1, <1>b, <2>4, <2>6 DEF Fresh
    <2>10. AtHand'
      <3>1. /\ m # NoModule /\ m <= module_id_max' /\ mem'[m] = "live" /\ queue'[m] = "live"
            /\ Listed(m)' /\ thread'[m] # "running" /\ m \notin ctxs'
        <4>1. m # NoModule /\ Listed(m)'
          BY <1>n, <2>0, <2>4
        <4>2. module_id_max' = m
          BY <2>6
        <4>3. thread[m] # "running" /\ m \notin ctxs
          BY <1>b, <2>m DEF Fresh
        <4>4. mem'[m] = "live" /\ queue'[m] = "live"
          BY <1>b, <2>0, <2>6 DEF TypeOK
        <4>5. m <= module_id_max'
          BY <4>2, <2>m
        <4>6. thread' = thread /\ ctxs' = ctxs
          BY <2>6
        <4> QED BY <4>1, <4>3, <4>4, <4>5, <4>6
      <3> QED BY <3>1, <2>6 DEF AtHand
    <2>11. Cleaned'
      BY <1>b, <1>n, <2>6, <2>m, <2>1 DEF Fresh, Cleaned
    <2>12. Owned'
      <3>1. \A x \in Ids : mem'[x] = IF x = m THEN "live" ELSE mem[x]
        BY <1>b, <2>6 DEF TypeOK
      <3>2. \A x \in Ids : queue'[x] = IF x = m THEN "live" ELSE queue[x]
        BY <1>b, <2>6 DEF TypeOK
      <3>3. cur \notin Ids
        BY <1>b, <1>n, <2>6 DEF AtHand
      <3> QED BY <1>b, <2>4, <2>6, <3>1, <3>2, <3>3 DEF Owned
    <2>13. TimerHand'
      BY <1>b, <2>6 DEF TimerHand
    <2> QED BY <2>5, <2>8, <2>9, <2>10, <2>11, <2>12, <2>13 DEF IInv
  <1>2. ASSUME NEW n \in Names, Uninstall(n) PROVE IInv'
    <2>1. list' = list /\ name' = name
      BY <1>2 DEF Uninstall, ExitLoop, module
    <2>2. UniqueNames' /\ \A m : Listed(m)' <=> Listed(m)
      BY <2>1, <1>b DEF UniqueNames, Listed
    <2>e. PICK i \in Found(Named(n)) : mem[list[i]] = "live" /\ cur' = list[i] /\ exit' = exit \cup {list[i]}
      BY <1>2, <1>b DEF Uninstall, ExitLoop, WalkLives, Found, TypeOK
    <2>f. i \in 1..Len(list) /\ list[i] \in Ids /\ Listed(list[i])
      BY <1>l DEF Found, Listed
    <2>3. TypeOK'
      BY <1>2, <1>b, <1>n, <2>2, <2>e, <2>f DEF Uninstall, ExitLoop, module, posters, manager, TypeOK, AtHand
    <2>4. Fresh'
      BY <1>2, <1>b, <1>n, <2>2, <2>e, <2>f DEF Uninstall, ExitLoop, module, posters, manager, TypeOK, Fresh, AtHand
    <2>5. AtHand'
      BY <1>2, <1>b, <1>n, <2>2, <2>e, <2>f DEF Uninstall, ExitLoop, module, posters, manager, TypeOK, AtHand, Owned, Fresh
    <2>6. Cleaned'
      BY <1>2, <1>b, <1>n, <2>2, <2>e, <2>f DEF Uninstall, ExitLoop, module, posters, manager, TypeOK, Cleaned, AtHand
    <2>7. Owned'
      BY <1>2, <1>b, <1>n, <2>2, <2>e, <2>f DEF Uninstall, ExitLoop, module, posters, manager, TypeOK, Owned, AtHand, Cleaned
    <2>8. TimerHand'
      BY <1>2, <1>b, <1>n, <2>2, <2>e, <2>f DEF Uninstall, ExitLoop, module, posters, manager, TypeOK, TimerHand
    <2> QED BY <2>2, <2>3, <2>4, <2>5, <2>6, <2>7, <2>8 DEF IInv
  <1>3. ASSUME NEW n \in Names, LookupName(n) PROVE IInv'
    <2>1. list' = list /\ name' = name
      BY <1>3 DEF LookupName, module
    <2>2. UniqueNames' /\ \A m : Listed(m)' <=> Listed(m)
      BY <2>1, <1>b DEF UniqueNames, Listed
    <2>e. PICK i \in Found(Named(n)) : hand' = [hand EXCEPT !["host"] = list[i]]
      BY <1>3 DEF LookupName
    <2>f. i \in 1..Len(list) /\ list[i] \in Ids /\ Listed(list[i])
      BY <1>l DEF Found, Listed
    <2>t. UNCHANGED <<list, module_id_max, name, mem, queue, thread, exit, deaf, ctxs, held, pc, cur, failed, ub>>
      BY <1>3 DEF LookupName, module, manager
    <2>u. at' = [at EXCEPT !["host"] = "named"]
      BY <1>3 DEF LookupName
    <2>3. TypeOK'
      BY <1>b, <2>t, <2>u, <2>e, <2>f DEF TypeOK
    <2>4. Fresh'
      BY <1>3, <1>b, <1>n, <2>2, <2>e, <2>f DEF LookupName, module, posters, manager, TypeOK, Fresh, AtHand
    <2>5. AtHand'
      BY <1>3, <1>b, <1>n, <2>2, <2>e, <2>f DEF LookupName, module, posters, manager, TypeOK, AtHand, Owned, Fresh
    <2>6. Cleaned'
      BY <1>3, <1>b, <1>n, <2>2, <2>e, <2>f DEF LookupName, module, posters, manager, TypeOK, Cleaned, AtHand
    <2>7. Owned'
      BY <1>3, <1>b, <1>n, <2>2, <2>e, <2>f DEF LookupName, module, posters, manager, TypeOK, Owned, AtHand, Cleaned
    <2>8. TimerHand'
      BY <1>3, <1>b, <1>n, <2>2, <2>e, <2>f DEF LookupName, module, posters, manager, TypeOK, TimerHand
    <2> QED BY <2>2, <2>3, <2>4, <2>5, <2>6, <2>7, <2>8 DEF IInv
  <1>4. CASE CreateTimerCtx
    <2>1. list' = list /\ name' = name
      BY <1>4 DEF CreateTimerCtx, module
    <2>2. UniqueNames' /\ \A m : Listed(m)' <=> Listed(m)
      BY <2>1, <1>b DEF UniqueNames, Listed
    <2>3. TypeOK'
      BY <1>4, <1>b, <1>n, <2>2 DEF CreateTimerCtx, module, posters, manager, TypeOK, AtHand
    <2>4. Fresh'
      BY <1>4, <1>b, <1>n, <2>2 DEF CreateTimerCtx, module, posters, manager, TypeOK, Fresh, AtHand
    <2>5. AtHand'
      BY <1>4, <1>b, <1>n, <2>2 DEF CreateTimerCtx, module, posters, manager, TypeOK, AtHand, Owned, Fresh
    <2>6. Cleaned'
      BY <1>4, <1>b, <1>n, <2>2 DEF CreateTimerCtx, module, posters, manager, TypeOK, Cleaned, AtHand
    <2>7. Owned'
      BY <1>4, <1>b, <1>n, <2>2 DEF CreateTimerCtx, module, posters, manager, TypeOK, Owned, AtHand, Cleaned
    <2>8. TimerHand'
      BY <1>4, <1>b, <1>n, <2>2 DEF CreateTimerCtx, module, posters, manager, TypeOK, TimerHand
    <2> QED BY <2>2, <2>3, <2>4, <2>5, <2>6, <2>7, <2>8 DEF IInv
  <1>5. CASE CreateTimerCtxFails
    <2>1. list' = list /\ name' = name
      BY <1>5 DEF CreateTimerCtxFails, module
    <2>2. UniqueNames' /\ \A m : Listed(m)' <=> Listed(m)
      BY <2>1, <1>b DEF UniqueNames, Listed
    <2>3. TypeOK'
      BY <1>5, <1>b, <1>n, <2>2 DEF CreateTimerCtxFails, module, posters, manager, TypeOK, AtHand
    <2>4. Fresh'
      BY <1>5, <1>b, <1>n, <2>2 DEF CreateTimerCtxFails, module, posters, manager, TypeOK, Fresh, AtHand
    <2>5. AtHand'
      BY <1>5, <1>b, <1>n, <2>2 DEF CreateTimerCtxFails, module, posters, manager, TypeOK, AtHand, Owned, Fresh
    <2>6. Cleaned'
      BY <1>5, <1>b, <1>n, <2>2 DEF CreateTimerCtxFails, module, posters, manager, TypeOK, Cleaned, AtHand
    <2>7. Owned'
      BY <1>5, <1>b, <1>n, <2>2 DEF CreateTimerCtxFails, module, posters, manager, TypeOK, Owned, AtHand, Cleaned
    <2>8. TimerHand'
      BY <1>5, <1>b, <1>n, <2>2 DEF CreateTimerCtxFails, module, posters, manager, TypeOK, TimerHand
    <2> QED BY <2>2, <2>3, <2>4, <2>5, <2>6, <2>7, <2>8 DEF IInv
  <1>6. CASE StartThread
    <2>1. list' = list /\ name' = name
      BY <1>6 DEF StartThread, module
    <2>2. UniqueNames' /\ \A m : Listed(m)' <=> Listed(m)
      BY <2>1, <1>b DEF UniqueNames, Listed
    <2>3. TypeOK'
      BY <1>6, <1>b, <1>n, <2>2 DEF StartThread, module, posters, manager, TypeOK, AtHand
    <2>4. Fresh'
      BY <1>6, <1>b, <1>n, <2>2 DEF StartThread, module, posters, manager, TypeOK, Fresh, AtHand
    <2>5. AtHand'
      BY <1>6, <1>b, <1>n, <2>2 DEF StartThread, module, posters, manager, TypeOK, AtHand, Owned, Fresh
    <2>6. Cleaned'
      BY <1>6, <1>b, <1>n, <2>2 DEF StartThread, module, posters, manager, TypeOK, Cleaned, AtHand
    <2>7. Owned'
      BY <1>6, <1>b, <1>n, <2>2 DEF StartThread, module, posters, manager, TypeOK, Owned, AtHand, Cleaned
    <2>8. TimerHand'
      BY <1>6, <1>b, <1>n, <2>2 DEF StartThread, module, posters, manager, TypeOK, TimerHand
    <2> QED BY <2>2, <2>3, <2>4, <2>5, <2>6, <2>7, <2>8 DEF IInv
  <1>7. CASE StartThreadFails
    <2>1. ListRemove /\ name' = name
      BY <1>7 DEF StartThreadFails, module
    <2>2. /\ list' \in Seq(Ids) /\ UniqueNames'
          /\ \A m \in Ids : Listed(m)' <=> Listed(m) /\ m # cur
      BY <2>1, <1>b, ListRemoved
    <2>3. TypeOK'
      BY <1>7, <1>b, <1>n, <2>2 DEF StartThreadFails, module, posters, manager, TypeOK, AtHand
    <2>4. Fresh'
      BY <1>7, <1>b, <1>n, <2>2 DEF StartThreadFails, module, posters, manager, TypeOK, Fresh, AtHand
    <2>5. AtHand'
      BY <1>7, <1>b, <1>n, <2>2 DEF StartThreadFails, module, posters, manager, TypeOK, AtHand, Owned, Fresh
    <2>6. Cleaned'
      BY <1>7, <1>b, <1>n, <2>2 DEF StartThreadFails, module, posters, manager, TypeOK, Cleaned, AtHand
    <2>7. Owned'
      BY <1>7, <1>b, <1>n, <2>2 DEF StartThreadFails, module, posters, manager, TypeOK, Owned, AtHand, Cleaned
    <2>8. TimerHand'
      BY <1>7, <1>b, <1>n, <2>2 DEF StartThreadFails, module, posters, manager, TypeOK, TimerHand
    <2> QED BY <2>2, <2>3, <2>4, <2>5, <2>6, <2>7, <2>8 DEF IInv
  <1>8. CASE Join
    <2>1. list' = list /\ name' = name
      BY <1>8 DEF Join, module
    <2>2. UniqueNames' /\ \A m : Listed(m)' <=> Listed(m)
      BY <2>1, <1>b DEF UniqueNames, Listed
    <2>3. TypeOK'
      BY <1>8, <1>b, <1>n, <2>2 DEF Join, module, posters, manager, TypeOK, AtHand
    <2>4. Fresh'
      BY <1>8, <1>b, <1>n, <2>2 DEF Join, module, posters, manager, TypeOK, Fresh, AtHand
    <2>5. AtHand'
      BY <1>8, <1>b, <1>n, <2>2 DEF Join, module, posters, manager, TypeOK, AtHand, Owned, Fresh
    <2>6. Cleaned'
      BY <1>8, <1>b, <1>n, <2>2 DEF Join, module, posters, manager, TypeOK, Cleaned, AtHand
    <2>7. Owned'
      BY <1>8, <1>b, <1>n, <2>2 DEF Join, module, posters, manager, TypeOK, Owned, AtHand, Cleaned
    <2>8. TimerHand'
      BY <1>8, <1>b, <1>n, <2>2 DEF Join, module, posters, manager, TypeOK, TimerHand
    <2> QED BY <2>2, <2>3, <2>4, <2>5, <2>6, <2>7, <2>8 DEF IInv
  <1>9. CASE Cleanup("resource", "cleanup resource", "cleanup event")
    <2>1. list' = list /\ name' = name
      BY <1>9 DEF Cleanup, module
    <2>2. UniqueNames' /\ \A m : Listed(m)' <=> Listed(m)
      BY <2>1, <1>b DEF UniqueNames, Listed
    <2>3. TypeOK'
      BY <1>9, <1>b, <1>n, <2>2 DEF Cleanup, module, posters, manager, TypeOK, AtHand
    <2>4. Fresh'
      BY <1>9, <1>b, <1>n, <2>2 DEF Cleanup, module, posters, manager, TypeOK, Fresh, AtHand
    <2>5. AtHand'
      BY <1>9, <1>b, <1>n, <2>2 DEF Cleanup, module, posters, manager, TypeOK, AtHand, Owned, Fresh
    <2>6. Cleaned'
      BY <1>9, <1>b, <1>n, <2>2 DEF Cleanup, module, posters, manager, TypeOK, Cleaned, AtHand
    <2>7. Owned'
      BY <1>9, <1>b, <1>n, <2>2 DEF Cleanup, module, posters, manager, TypeOK, Owned, AtHand, Cleaned
    <2>8. TimerHand'
      BY <1>9, <1>b, <1>n, <2>2 DEF Cleanup, module, posters, manager, TypeOK, TimerHand
    <2> QED BY <2>2, <2>3, <2>4, <2>5, <2>6, <2>7, <2>8 DEF IInv
  <1>21. CASE Cleanup("event", "cleanup event", "cleanup callback")
    <2>1. list' = list /\ name' = name
      BY <1>21 DEF Cleanup, module
    <2>2. UniqueNames' /\ \A m : Listed(m)' <=> Listed(m)
      BY <2>1, <1>b DEF UniqueNames, Listed
    <2>3. TypeOK'
      BY <1>21, <1>b, <1>n, <2>2 DEF Cleanup, module, posters, manager, TypeOK, AtHand
    <2>4. Fresh'
      BY <1>21, <1>b, <1>n, <2>2 DEF Cleanup, module, posters, manager, TypeOK, Fresh, AtHand
    <2>5. AtHand'
      BY <1>21, <1>b, <1>n, <2>2 DEF Cleanup, module, posters, manager, TypeOK, AtHand, Owned, Fresh
    <2>6. Cleaned'
      BY <1>21, <1>b, <1>n, <2>2 DEF Cleanup, module, posters, manager, TypeOK, Cleaned, AtHand
    <2>7. Owned'
      BY <1>21, <1>b, <1>n, <2>2 DEF Cleanup, module, posters, manager, TypeOK, Owned, AtHand, Cleaned
    <2>8. TimerHand'
      BY <1>21, <1>b, <1>n, <2>2 DEF Cleanup, module, posters, manager, TypeOK, TimerHand
    <2> QED BY <2>2, <2>3, <2>4, <2>5, <2>6, <2>7, <2>8 DEF IInv
  <1>22. CASE Cleanup("callback", "cleanup callback", "unlist")
    <2>1. list' = list /\ name' = name
      BY <1>22 DEF Cleanup, module
    <2>2. UniqueNames' /\ \A m : Listed(m)' <=> Listed(m)
      BY <2>1, <1>b DEF UniqueNames, Listed
    <2>3. TypeOK'
      BY <1>22, <1>b, <1>n, <2>2 DEF Cleanup, module, posters, manager, TypeOK, AtHand
    <2>4. Fresh'
      BY <1>22, <1>b, <1>n, <2>2 DEF Cleanup, module, posters, manager, TypeOK, Fresh, AtHand
    <2>5. AtHand'
      BY <1>22, <1>b, <1>n, <2>2 DEF Cleanup, module, posters, manager, TypeOK, AtHand, Owned, Fresh
    <2>6. Cleaned'
      BY <1>22, <1>b, <1>n, <2>2 DEF Cleanup, module, posters, manager, TypeOK, Cleaned, AtHand
    <2>7. Owned'
      BY <1>22, <1>b, <1>n, <2>2 DEF Cleanup, module, posters, manager, TypeOK, Owned, AtHand, Cleaned
    <2>8. TimerHand'
      BY <1>22, <1>b, <1>n, <2>2 DEF Cleanup, module, posters, manager, TypeOK, TimerHand
    <2> QED BY <2>2, <2>3, <2>4, <2>5, <2>6, <2>7, <2>8 DEF IInv
  <1>10. CASE Unlist
    <2>1. ListRemove /\ name' = name
      BY <1>10 DEF Unlist, module
    <2>2. /\ list' \in Seq(Ids) /\ UniqueNames'
          /\ \A m \in Ids : Listed(m)' <=> Listed(m) /\ m # cur
      BY <2>1, <1>b, ListRemoved
    <2>3. TypeOK'
      BY <1>10, <1>b, <1>n, <2>2 DEF Unlist, module, posters, manager, TypeOK, AtHand
    <2>4. Fresh'
      BY <1>10, <1>b, <1>n, <2>2 DEF Unlist, module, posters, manager, TypeOK, Fresh, AtHand
    <2>5. AtHand'
      BY <1>10, <1>b, <1>n, <2>2 DEF Unlist, module, posters, manager, TypeOK, AtHand, Owned, Fresh
    <2>6. Cleaned'
      BY <1>10, <1>b, <1>n, <2>2 DEF Unlist, module, posters, manager, TypeOK, Cleaned, AtHand
    <2>7. Owned'
      BY <1>10, <1>b, <1>n, <2>2 DEF Unlist, module, posters, manager, TypeOK, Owned, AtHand, Cleaned
    <2>8. TimerHand'
      BY <1>10, <1>b, <1>n, <2>2 DEF Unlist, module, posters, manager, TypeOK, TimerHand
    <2> QED BY <2>2, <2>3, <2>4, <2>5, <2>6, <2>7, <2>8 DEF IInv
  <1>11. CASE ReleaseQueue
    <2>1. list' = list /\ name' = name
      BY <1>11 DEF ReleaseQueue, module
    <2>2. UniqueNames' /\ \A m : Listed(m)' <=> Listed(m)
      BY <2>1, <1>b DEF UniqueNames, Listed
    <2>3. TypeOK'
      BY <1>11, <1>b, <1>n, <2>2 DEF ReleaseQueue, module, posters, manager, TypeOK, AtHand
    <2>4. Fresh'
      BY <1>11, <1>b, <1>n, <2>2 DEF ReleaseQueue, module, posters, manager, TypeOK, Fresh, AtHand
    <2>5. AtHand'
      BY <1>11, <1>b, <1>n, <2>2 DEF ReleaseQueue, module, posters, manager, TypeOK, AtHand, Owned, Fresh
    <2>6. Cleaned'
      BY <1>11, <1>b, <1>n, <2>2 DEF ReleaseQueue, module, posters, manager, TypeOK, Cleaned, AtHand
    <2>7. Owned'
      BY <1>11, <1>b, <1>n, <2>2 DEF ReleaseQueue, module, posters, manager, TypeOK, Owned, AtHand, Cleaned
    <2>8. TimerHand'
      BY <1>11, <1>b, <1>n, <2>2 DEF ReleaseQueue, module, posters, manager, TypeOK, TimerHand
    <2> QED BY <2>2, <2>3, <2>4, <2>5, <2>6, <2>7, <2>8 DEF IInv
  <1>12. CASE ReleaseCtx
    <2>1. list' = list /\ name' = name
      BY <1>12 DEF ReleaseCtx, TimerListFree, module
    <2>2. UniqueNames' /\ \A m : Listed(m)' <=> Listed(m)
      BY <2>1, <1>b DEF UniqueNames, Listed
    <2>3. TypeOK'
      BY <1>12, <1>b, <1>n, <2>2 DEF ReleaseCtx, TimerListFree, module, posters, manager, TypeOK, AtHand
    <2>4. Fresh'
      BY <1>12, <1>b, <1>n, <2>2 DEF ReleaseCtx, TimerListFree, module, posters, manager, TypeOK, Fresh, AtHand
    <2>5. AtHand'
      BY <1>12, <1>b, <1>n, <2>2 DEF ReleaseCtx, TimerListFree, module, posters, manager, TypeOK, AtHand, Owned, Fresh
    <2>6. Cleaned'
      BY <1>12, <1>b, <1>n, <2>2 DEF ReleaseCtx, TimerListFree, module, posters, manager, TypeOK, Cleaned, AtHand
    <2>7. Owned'
      BY <1>12, <1>b, <1>n, <2>2 DEF ReleaseCtx, TimerListFree, module, posters, manager, TypeOK, Owned, AtHand, Cleaned
    <2>8. TimerHand'
      BY <1>12, <1>b, <1>n, <2>2 DEF ReleaseCtx, TimerListFree, module, posters, manager, TypeOK, TimerHand
    <2> QED BY <2>2, <2>3, <2>4, <2>5, <2>6, <2>7, <2>8 DEF IInv
  <1>13. CASE Free
    <2>1. list' = list /\ name' = name
      BY <1>13 DEF Free, module
    <2>2. UniqueNames' /\ \A m : Listed(m)' <=> Listed(m)
      BY <2>1, <1>b DEF UniqueNames, Listed
    <2>3. TypeOK'
      BY <1>13, <1>b, <1>n, <2>2 DEF Free, module, posters, manager, TypeOK, AtHand
    <2>4. Fresh'
      BY <1>13, <1>b, <1>n, <2>2 DEF Free, module, posters, manager, TypeOK, Fresh, AtHand
    <2>5. AtHand'
      BY <1>13, <1>b, <1>n, <2>2 DEF Free, module, posters, manager, TypeOK, AtHand, Owned, Fresh
    <2>6. Cleaned'
      BY <1>13, <1>b, <1>n, <2>2 DEF Free, module, posters, manager, TypeOK, Cleaned, AtHand
    <2>7. Owned'
      BY <1>13, <1>b, <1>n, <2>2 DEF Free, module, posters, manager, TypeOK, Owned, AtHand, Cleaned
    <2>8. TimerHand'
      BY <1>13, <1>b, <1>n, <2>2 DEF Free, module, posters, manager, TypeOK, TimerHand
    <2> QED BY <2>2, <2>3, <2>4, <2>5, <2>6, <2>7, <2>8 DEF IInv
  <1>14. ASSUME NEW m \in Ids, InitFails(m) \/ LoopEnds(m) PROVE IInv'
    <2>1. list' = list /\ name' = name
      BY <1>14 DEF InitFails, LoopEnds, module
    <2>2. UniqueNames' /\ \A x : Listed(x)' <=> Listed(x)
      BY <2>1, <1>b DEF UniqueNames, Listed
    <2>t. /\ thread' = [thread EXCEPT ![m] = "ended"]
          /\ UNCHANGED <<list, module_id_max, name, mem, queue, exit, deaf, ctxs, held, pc, cur, at, hand, failed, ub>>
      BY <1>14 DEF InitFails, LoopEnds, manager, posters
    <2>u. thread[m] = "running" /\ \A x \in Ids : thread'[x] = IF x = m THEN "ended" ELSE thread[x]
      BY <1>14, <1>b, <2>t DEF InitFails, LoopEnds, TypeOK
    <2>3. TypeOK'
      BY <1>b, <2>t DEF TypeOK
    <2>4. Fresh'
      BY <1>b, <2>2, <2>t, <2>u DEF Fresh
    <2>5. AtHand'
      <3>1. cur \in Ids => (thread'[cur] = "running" => thread[cur] = "running")
        BY <2>u
      <3>2. pc # "idle" => cur \in Ids
        BY <1>b DEF AtHand, TypeOK
      <3> QED BY <3>1, <3>2, <1>b, <2>2, <2>t DEF AtHand
    <2>6. Cleaned'
      BY <1>b, <2>t DEF Cleaned
    <2>7. Owned'
      BY <1>b, <2>2, <2>t, <2>u DEF Owned
    <2>8. TimerHand'
      BY <1>b, <2>t DEF TimerHand
    <2> QED BY <2>2, <2>3, <2>4, <2>5, <2>6, <2>7, <2>8 DEF IInv
  <1>15. ASSUME NEW m \in Ids, NEW k \in Kinds, Hold(m, k) PROVE IInv'
    <2>1. list' = list /\ name' = name
      BY <1>15 DEF Hold, module
    <2>2. UniqueNames' /\ \A x : Listed(x)' <=> Listed(x)
      BY <2>1, <1>b DEF UniqueNames, Listed
    <2>3. TypeOK'
      BY <1>15, <1>b, <1>n, <2>2 DEF Hold, module, posters, manager, TypeOK, AtHand
    <2>4. Fresh'
      BY <1>15, <1>b, <1>n, <2>2 DEF Hold, module, posters, manager, TypeOK, Fresh, AtHand
    <2>5. AtHand'
      BY <1>15, <1>b, <1>n, <2>2 DEF Hold, module, posters, manager, TypeOK, AtHand, Owned, Fresh
    <2>6. Cleaned'
      BY <1>15, <1>b, <1>n, <2>2 DEF Hold, module, posters, manager, TypeOK, Cleaned, AtHand
    <2>7. Owned'
      BY <1>15, <1>b, <1>n, <2>2 DEF Hold, module, posters, manager, TypeOK, Owned, AtHand, Cleaned
    <2>8. TimerHand'
      BY <1>15, <1>b, <1>n, <2>2 DEF Hold, module, posters, manager, TypeOK, TimerHand
    <2> QED BY <2>2, <2>3, <2>4, <2>5, <2>6, <2>7, <2>8 DEF IInv
  <1>16. ASSUME NEW p \in Posters, Post(p) PROVE IInv'
    <2>1. list' = list /\ name' = name
      BY <1>16 DEF Post, module
    <2>2. UniqueNames' /\ \A m : Listed(m)' <=> Listed(m)
      BY <2>1, <1>b DEF UniqueNames, Listed
    <2>t. UNCHANGED <<list, module_id_max, name, mem, queue, thread, exit, ctxs, held, pc, cur, failed>>
      BY <1>16 DEF Post, manager
    <2>d. deaf' \in SUBSET Ids
      BY <1>16, <1>b DEF Post, TypeOK
    <2>v. /\ ub' \in {ub, "poster"}
          /\ \/ at' = at /\ hand' = hand
             \/ at' = [at EXCEPT ![p] = "idle"] /\ hand' = [hand EXCEPT ![p] = NoModule]
      BY <1>16 DEF Post, posters
    <2>w. /\ at \in [Posters -> {"idle", "named", "found"}] /\ hand \in [Posters -> Ids \cup {NoModule}]
          /\ ub \in {"none", "list", "poster"}
      BY <1>b DEF TypeOK
    <2>x. hand' \in [Posters -> Ids \cup {NoModule}]
      BY <2>v, <2>w
    <2>y. ub' \in {"none", "list", "poster"}
      BY <2>v, <2>w
    <2>u. /\ at' \in [Posters -> {"idle", "named", "found"}] /\ hand' \in [Posters -> Ids \cup {NoModule}]
          /\ ub' \in {"none", "list", "poster"}
      BY <2>v, <2>w, <2>x, <2>y
    <2>3. TypeOK'
      BY <1>b, <2>t, <2>d, <2>u DEF TypeOK
    <2>4. Fresh'
      BY <1>16, <1>b, <1>n, <2>2 DEF Post, module, posters, manager, TypeOK, Fresh, AtHand
    <2>5. AtHand'
      BY <1>16, <1>b, <1>n, <2>2 DEF Post, module, posters, manager, TypeOK, AtHand, Owned, Fresh
    <2>6. Cleaned'
      BY <1>16, <1>b, <1>n, <2>2 DEF Post, module, posters, manager, TypeOK, Cleaned, AtHand
    <2>7. Owned'
      BY <1>16, <1>b, <1>n, <2>2 DEF Post, module, posters, manager, TypeOK, Owned, AtHand, Cleaned
    <2>8. TimerHand'
      BY <1>16, <1>b, <1>n, <2>2, ZenonT(60), SMTT(30) DEF Post, module, posters, manager, TypeOK, TimerHand
    <2> QED BY <2>2, <2>3, <2>4, <2>5, <2>6, <2>7, <2>8 DEF IInv
  <1>17. CASE LookupAgain
    <2>1. list' = list /\ name' = name
      BY <1>17 DEF LookupAgain, module
    <2>2. UniqueNames' /\ \A m : Listed(m)' <=> Listed(m)
      BY <2>1, <1>b DEF UniqueNames, Listed
    <2>t. UNCHANGED <<list, module_id_max, name, mem, queue, thread, exit, deaf, ctxs, held, pc, cur, failed>>
      BY <1>17 DEF LookupAgain, module, manager
    <2>v. /\ ub' \in {ub, "poster"}
          /\ \/ at' = at /\ hand' = hand
             \/ at' = [at EXCEPT !["host"] = "found"] /\ hand' = hand
             \/ at' = [at EXCEPT !["host"] = "idle"] /\ hand' = [hand EXCEPT !["host"] = NoModule]
      BY <1>17 DEF LookupAgain, posters
    <2>w. /\ at \in [Posters -> {"idle", "named", "found"}] /\ hand \in [Posters -> Ids \cup {NoModule}]
          /\ ub \in {"none", "list", "poster"}
      BY <1>b DEF TypeOK
    <2>x. hand' \in [Posters -> Ids \cup {NoModule}]
      BY <2>v, <2>w
    <2>y. ub' \in {"none", "list", "poster"}
      BY <2>v, <2>w
    <2>u. /\ at' \in [Posters -> {"idle", "named", "found"}] /\ hand' \in [Posters -> Ids \cup {NoModule}]
          /\ ub' \in {"none", "list", "poster"}
      BY <2>v, <2>w, <2>x, <2>y
    <2>3. TypeOK'
      BY <1>b, <2>t, <2>u DEF TypeOK
    <2>4. Fresh'
      BY <1>17, <1>b, <1>n, <2>2 DEF LookupAgain, module, posters, manager, TypeOK, Fresh, AtHand
    <2>5. AtHand'
      BY <1>17, <1>b, <1>n, <2>2 DEF LookupAgain, module, posters, manager, TypeOK, AtHand, Owned, Fresh
    <2>6. Cleaned'
      BY <1>17, <1>b, <1>n, <2>2 DEF LookupAgain, module, posters, manager, TypeOK, Cleaned, AtHand
    <2>7. Owned'
      BY <1>17, <1>b, <1>n, <2>2 DEF LookupAgain, module, posters, manager, TypeOK, Owned, AtHand, Cleaned
    <2>8. TimerHand'
      BY <1>17, <1>b, <1>n, <2>2 DEF LookupAgain, module, posters, manager, TypeOK, TimerHand
    <2> QED BY <2>2, <2>3, <2>4, <2>5, <2>6, <2>7, <2>8 DEF IInv
  <1>18. ASSUME NEW p \in Posters, NEW id \in Ids, LookupId(p, id) PROVE IInv'
    <2>1. list' = list /\ name' = name
      BY <1>18 DEF LookupId, Targets, module
    <2>2. UniqueNames' /\ \A m : Listed(m)' <=> Listed(m)
      BY <2>1, <1>b DEF UniqueNames, Listed
    <2>e. PICK i \in Found({id}) : hand' = [hand EXCEPT ![p] = list[i]] /\ list[i] = id
      BY <1>18 DEF LookupId, Found
    <2>f. i \in 1..Len(list) /\ list[i] \in Ids /\ Listed(list[i])
      BY <1>l DEF Found, Listed
    <2>t. UNCHANGED <<list, module_id_max, name, mem, queue, thread, exit, deaf, ctxs, held, pc, cur, failed, ub>>
      BY <1>18 DEF LookupId, module, manager
    <2>u. at' = [at EXCEPT ![p] = "found"]
      BY <1>18 DEF LookupId
    <2>3. TypeOK'
      BY <1>b, <2>t, <2>u, <2>e, <2>f DEF TypeOK
    <2>4. Fresh'
      BY <1>18, <1>b, <1>n, <2>2, <2>e, <2>f DEF LookupId, Targets, module, posters, manager, TypeOK, Fresh, AtHand
    <2>5. AtHand'
      BY <1>18, <1>b, <1>n, <2>2, <2>e, <2>f DEF LookupId, Targets, module, posters, manager, TypeOK, AtHand, Owned, Fresh
    <2>6. Cleaned'
      BY <1>18, <1>b, <1>n, <2>2, <2>e, <2>f DEF LookupId, Targets, module, posters, manager, TypeOK, Cleaned, AtHand
    <2>7. Owned'
      BY <1>18, <1>b, <1>n, <2>2, <2>e, <2>f DEF LookupId, Targets, module, posters, manager, TypeOK, Owned, AtHand, Cleaned
    <2>8. TimerHand'
      BY <1>18, <1>b, <1>n, <2>2, <2>e, <2>f DEF LookupId, Targets, module, posters, manager, TypeOK, TimerHand
    <2> QED BY <2>2, <2>3, <2>4, <2>5, <2>6, <2>7, <2>8 DEF IInv
  <1>19. CASE WalkFreed
    <2>1. list' = list /\ name' = name
      BY <1>19 DEF WalkFreed, module
    <2>2. UniqueNames' /\ \A m : Listed(m)' <=> Listed(m)
      BY <2>1, <1>b DEF UniqueNames, Listed
    <2>3. TypeOK'
      BY <1>19, <1>b, <1>n, <2>2 DEF WalkFreed, module, posters, manager, TypeOK, AtHand
    <2>4. Fresh'
      BY <1>19, <1>b, <1>n, <2>2 DEF WalkFreed, module, posters, manager, TypeOK, Fresh, AtHand
    <2>5. AtHand'
      BY <1>19, <1>b, <1>n, <2>2 DEF WalkFreed, module, posters, manager, TypeOK, AtHand, Owned, Fresh
    <2>6. Cleaned'
      BY <1>19, <1>b, <1>n, <2>2 DEF WalkFreed, module, posters, manager, TypeOK, Cleaned, AtHand
    <2>7. Owned'
      BY <1>19, <1>b, <1>n, <2>2 DEF WalkFreed, module, posters, manager, TypeOK, Owned, AtHand, Cleaned
    <2>8. TimerHand'
      BY <1>19, <1>b, <1>n, <2>2 DEF WalkFreed, module, posters, manager, TypeOK, TimerHand
    <2> QED BY <2>2, <2>3, <2>4, <2>5, <2>6, <2>7, <2>8 DEF IInv
  <1>20. CASE UNCHANGED vars
    <2>1. list' = list /\ name' = name
      BY <1>20 DEF vars, module
    <2>2. UniqueNames' /\ \A m : Listed(m)' <=> Listed(m)
      BY <2>1, <1>b DEF UniqueNames, Listed
    <2>3. TypeOK'
      BY <1>20, <1>b, <1>n, <2>2 DEF vars, module, posters, manager, TypeOK, AtHand
    <2>4. Fresh'
      BY <1>20, <1>b, <1>n, <2>2 DEF vars, module, posters, manager, TypeOK, Fresh, AtHand
    <2>5. AtHand'
      BY <1>20, <1>b, <1>n, <2>2 DEF vars, module, posters, manager, TypeOK, AtHand, Owned, Fresh
    <2>6. Cleaned'
      BY <1>20, <1>b, <1>n, <2>2 DEF vars, module, posters, manager, TypeOK, Cleaned, AtHand
    <2>7. Owned'
      BY <1>20, <1>b, <1>n, <2>2 DEF vars, module, posters, manager, TypeOK, Owned, AtHand, Cleaned
    <2>8. TimerHand'
      BY <1>20, <1>b, <1>n, <2>2 DEF vars, module, posters, manager, TypeOK, TimerHand
    <2> QED BY <2>2, <2>3, <2>4, <2>5, <2>6, <2>7, <2>8 DEF IInv
  <1> QED
    BY <1>a, <1>1, <1>2, <1>3, <1>4, <1>5, <1>6, <1>7, <1>8, <1>9, <1>10, <1>11, <1>12, <1>13,
       <1>14, <1>15, <1>16, <1>17, <1>18, <1>19, <1>20, <1>21, <1>22
    DEF Next, Step, ManagerStep, CleanupResources, PosterStep

\* The inductive invariant holds in every state of every behaviour.
LEMMA Inductive == Spec => []IInv
  <1>1. Init => IInv
    BY InitIInv
  <1> QED BY <1>1, NextIInv, PTL DEF Spec

\* For any names and any number of installs, the list has no two modules of one
\* name, the thread of an application has its module, queue and timer context, only
\* a failed timer context leaves a freed module in the list, and the timer thread's
\* module is alive.
THEOREM LifetimesCorrect == Spec => []Lifetimes
  <1>1. IInv => Lifetimes
    <2> SUFFICES ASSUME IInv PROVE Lifetimes
      OBVIOUS
    <2>1. UniqueNames
      BY DEF IInv
    <2>2. ThreadHasModule
      BY DEF IInv, Owned, ThreadHasModule
    <2>3. ListedLives
      <3>1. ASSUME NEW i \in 1..Len(list) PROVE mem[list[i]] = "live" \/ list[i] \in failed
        <4>1. list[i] \in Ids /\ Listed(list[i])
          <5>1. list \in Seq(Ids)
            BY DEF IInv, TypeOK
          <5> QED BY <5>1 DEF Listed
        <4> QED BY <4>1 DEF IInv, Owned
      <3> QED BY <3>1 DEF ListedLives
    <2>4. TimerHoldsModule
      BY DEF IInv, TypeOK, Owned, TimerHand, TimerHoldsModule
    <2> QED BY <2>1, <2>2, <2>3, <2>4 DEF Lifetimes
  <1> QED BY <1>1, Inductive, PTL

\* For any names and any number of installs, between two requests everything held
\* belongs to a module of the list: uninstall leaves nothing behind.
THEOREM NothingLeftCorrect == Spec => []NothingLeft
  <1>1. IInv => NothingLeft
    <2> SUFFICES ASSUME IInv, pc = "idle", NEW m \in ctxs \cup UNION {held[k] : k \in Kinds}
                 PROVE  Listed(m)
      BY DEF NothingLeft
    <2>1. m \in Ids /\ (m \in ctxs \/ \E k \in Kinds : m \in held[k])
      BY DEF IInv, TypeOK
    <2>2. m # cur
      BY <2>1, ManagerAssumption DEF IInv, AtHand, Ids, NoModule
    <2> QED BY <2>1, <2>2 DEF IInv, Owned
  <1> QED BY <1>1, Inductive, PTL
=============================================================================
