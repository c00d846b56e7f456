----------------------- MODULE TaskRegistryLocalProofs -----------------------
(* Theorems about the task registry of one process, for any number of tasks, *)
(* items and stop calls.                                                     *)
EXTENDS TaskRegistryLocal, SequenceTheorems, FiniteSetTheorems, TLAPS

-----------------------------------------------------------------------------
(* Lists without repetitions.                                              *)

Distinct(list) == \A m, n \in 1..Len(list) : list[m] = list[n] => m = n

\* The first position of an element is its only one.
LEMMA FirstPosition ==
  ASSUME NEW list, NEW e, NEW k \in 1..Len(list), list[k] = e, Distinct(list)
  PROVE  /\ {i \in 1..Len(list) : list[i] = e} # {}
         /\ Min({i \in 1..Len(list) : list[i] = e}) = k
  <1>1. {i \in 1..Len(list) : list[i] = e} = {k}
    BY DEF Distinct
  <1>2. Min({k}) = k
    BY DEF Min
  <1> QED BY <1>1, <1>2

\* list.remove(e) keeps a list without repetitions, and the rest of it.
LEMMA RemoveFromDistinct ==
  ASSUME NEW S, NEW list \in Seq(S), Distinct(list), NEW e, Contains(list, e)
  PROVE  /\ RemoveFirst(list, e) \in Seq(S)
         /\ Distinct(RemoveFirst(list, e))
         /\ \A x : Contains(RemoveFirst(list, e), x) <=> Contains(list, x) /\ x # e
  <1>1. PICK k \in 1..Len(list) : list[k] = e
    BY DEF Contains
  <1> DEFINE front == SubSeq(list, 1, k - 1)
             back  == SubSeq(list, k + 1, Len(list))
             rest  == front \o back
  <1>2. RemoveFirst(list, e) = rest
    <2>1. SelectInSeq(list, LAMBDA v : v = e) = k
      BY <1>1, FirstPosition DEF SelectInSeq
    <2> QED BY <1>1, <2>1 DEF RemoveFirst, RemoveAt
  <1>3. /\ Len(list) \in Nat
        /\ \A i \in 1..Len(list) : list[i] \in S
    BY LenProperties, ElementOfSeq
  <1>4. /\ front \in Seq(S) /\ Len(front) = k - 1
        /\ \A i \in 1..(k - 1) : front[i] = list[i]
    <2>1. \A i \in 1..(k - 1) : list[i] \in S
      BY <1>3
    <2> QED BY <1>3, <2>1, SubSeqProperties
  <1>5. /\ back \in Seq(S) /\ Len(back) = Len(list) - k
        /\ \A i \in 1..(Len(list) - k) : back[i] = list[k + i]
    <2>1. \A i \in (k + 1)..Len(list) : list[i] \in S
      BY <1>3
    <2>2. /\ SubSeq(list, k + 1, Len(list)) \in Seq(S)
          /\ Len(SubSeq(list, k + 1, Len(list)))
                = IF k + 1 <= Len(list) THEN Len(list) - (k + 1) + 1 ELSE 0
          /\ \A i \in 1..(Len(list) - (k + 1) + 1) :
                SubSeq(list, k + 1, Len(list))[i] = list[k + 1 + i - 1]
      BY <1>3, <2>1, SubSeqProperties
    <2> QED BY <1>3, <2>2
  <1>6. /\ rest \in Seq(S) /\ Len(rest) = Len(list) - 1
        /\ \A i \in 1..(Len(list) - 1) : rest[i] = IF i < k THEN list[i] ELSE list[i + 1]
    <2>1. /\ rest \in Seq(S) /\ Len(rest) = Len(front) + Len(back)
          /\ \A i \in 1..(Len(front) + Len(back)) :
                rest[i] = IF i <= Len(front) THEN front[i] ELSE back[i - Len(front)]
      BY <1>4, <1>5, ConcatProperties
    <2> HIDE DEF front, back, rest
    <2>2. Len(rest) = Len(list) - 1
      BY <2>1, <1>3, <1>4, <1>5
    <2>3. ASSUME NEW i \in 1..(Len(list) - 1), i < k PROVE rest[i] = list[i]
      <3>1. i \in 1..(Len(front) + Len(back)) /\ i <= Len(front) /\ i \in 1..(k - 1)
        BY <2>3, <1>3, <1>4, <1>5
      <3> QED BY <3>1, <2>1, <1>4
    <2>4. ASSUME NEW i \in 1..(Len(list) - 1), ~(i < k) PROVE rest[i] = list[i + 1]
      <3>1. rest[i] = back[i - (k - 1)]
        <4>1. i \in 1..(Len(front) + Len(back)) /\ ~(i <= Len(front))
          BY <2>4, <1>3, <1>4, <1>5
        <4> QED BY <4>1, <2>1, <1>4
      <3>2. i - (k - 1) \in 1..(Len(list) - k) /\ k + (i - (k - 1)) = i + 1
        BY <2>4, <1>3
      <3> QED BY <3>1, <3>2, <1>5
    <2> QED BY <2>1, <2>2, <2>3, <2>4
  <1> HIDE DEF rest
  <1>7. Distinct(rest)
    BY <1>3, <1>6 DEF Distinct
  <1>8. ASSUME NEW x PROVE Contains(rest, x) <=> Contains(list, x) /\ x # e
    <2>1. ASSUME Contains(rest, x) PROVE Contains(list, x) /\ x # e
      BY <2>1, <1>1, <1>3, <1>6 DEF Contains, Distinct
    <2>2. ASSUME Contains(list, x), x # e PROVE Contains(rest, x)
      <3>1. PICK j \in 1..Len(list) : list[j] = x
        BY <2>2 DEF Contains
      <3>2. CASE j < k
        BY <3>1, <3>2, <1>3, <1>6 DEF Contains
      <3>3. CASE j > k
        <4>1. j - 1 \in 1..Len(rest) /\ rest[j - 1] = x
          BY <3>1, <3>3, <1>3, <1>6
        <4> QED BY <4>1 DEF Contains
      <3>4. j # k
        BY <1>1, <2>2, <3>1
      <3> QED BY <3>1, <3>2, <3>3, <3>4, <1>3
    <2> QED BY <2>1, <2>2
  <1> QED BY <1>2, <1>6, <1>7, <1>8

\* list.append(e) of a new element.
LEMMA AppendToDistinct ==
  ASSUME NEW S, NEW list \in Seq(S), Distinct(list), NEW e \in S, ~Contains(list, e)
  PROVE  /\ Append(list, e) \in Seq(S)
         /\ Distinct(Append(list, e))
         /\ \A x : Contains(Append(list, e), x) <=> Contains(list, x) \/ x = e
  <1>1. /\ Append(list, e) \in Seq(S) /\ Len(Append(list, e)) = Len(list) + 1
        /\ \A i \in 1..Len(list) : Append(list, e)[i] = list[i]
        /\ Append(list, e)[Len(list) + 1] = e
    BY AppendProperties
  <1>2. Len(list) \in Nat
    BY LenProperties
  <1> DEFINE longer == Append(list, e)
  <1> HIDE DEF longer
  <1>3. /\ longer \in Seq(S) /\ Len(longer) = Len(list) + 1
        /\ \A i \in 1..Len(list) : longer[i] = list[i]
        /\ longer[Len(list) + 1] = e
    BY <1>1 DEF longer
  <1>4. Distinct(longer)
    BY <1>2, <1>3 DEF Distinct, Contains
  <1>5. \A x : Contains(longer, x) <=> Contains(list, x) \/ x = e
    BY <1>2, <1>3 DEF Contains
  <1> QED BY <1>3, <1>4, <1>5 DEF longer
-----------------------------------------------------------------------------
(* The inductive invariant.                                                *)

Live == {"scheduled", "running"}

\* The lists hold each task at most once.
ListsOK ==
    /\ item_tasks \in [Items -> Seq(Tasks)]
    /\ \A i \in Items : Distinct(item_tasks[i])

\* A task that was created has an item, and is listed under no other one; a
\* live task is listed, and either in `tasks` or awaited by a stopper.
TasksOK ==
    \A t \in Tasks :
        /\ state[t] # "new" => item[t] \in Items
        /\ \A i \in Items : Contains(item_tasks[i], t) => state[t] # "new" /\ item[t] = i
        /\ state[t] \in Live => Contains(item_tasks[item[t]], t)
        /\ t \in callbacks => state[t] \in Ended

\* Whatever is registered still has its finally block or its callback to come.
CleanupToCome ==
    \A t \in Tasks :
        t \in tasks \/ (\E i \in Items : Contains(item_tasks[i], t))
            => state[t] \in Live \cup {"finally", "emitting"} \/ t \in callbacks

\* A stop call has no result before it is over, and the task it has last
\* stopped is over when it goes on.
StopsOK ==
    \A s \in Stoppers :
        /\ stop[s].pc # "over" => stop[s].result = "none"
        /\ stop[s].pc = "idle" => stop[s].item = NoItem /\ stop[s].task = NoTask
        /\ stop[s].pc = "loop" => stop[s].item \in Items
        /\ stop[s].pc = "await" => stop[s].task \in Tasks
        /\ stop[s].pc = "loop" /\ stop[s].task # NoTask => state[stop[s].task] \in Ended

IInv ==
    /\ TypeOK /\ ListsOK /\ TasksOK /\ CleanupToCome /\ StopsOK
    /\ UnreachableOnlyWhileStopping /\ StoppedMeansEnded

-----------------------------------------------------------------------------
(* The steps.                                                              *)

\* A list of tasks holds tasks.
LEMMA ListTyped ==
  ASSUME NEW list \in Seq(Tasks)
  PROVE  /\ ToSet(list) \subseteq Tasks
         /\ \A n \in 1..Len(list) : list[n] \in Tasks /\ Contains(list, list[n])
  <1>1. /\ DOMAIN list = 1..Len(list)
        /\ \A n \in 1..Len(list) : list[n] \in Tasks
    BY LenProperties, ElementOfSeq
  <1> QED BY <1>1 DEF ToSet, Contains

LEMMA InitIInv == Init => IInv
  <1> SUFFICES ASSUME Init PROVE IInv
    OBVIOUS
  <1>1. <<>> \in Seq(Tasks) /\ Len(<<>>) = 0
    BY EmptySeq
  <1>2. item_tasks = [i \in Items |-> <<>>]
    BY DEF Init
  <1>3. ListsOK
    BY <1>1, <1>2 DEF ListsOK, Distinct
  <1>4. \A i \in Items, t \in Tasks : ~Contains(item_tasks[i], t)
    BY <1>1, <1>2 DEF Contains
  <1>5. TypeOK
    <2>1. \A i \in Items : ToSet(item_tasks[i]) \subseteq Tasks
      BY <1>3, ListTyped DEF ListsOK
    <2>2. IdleStop \in StopRecord
      BY DEF IdleStop, StopRecord
    <2> QED BY <1>2, <2>1, <2>2 DEF Init, TypeOK, States
  <1>6. TasksOK /\ CleanupToCome /\ StopsOK
    BY <1>4 DEF Init, TasksOK, CleanupToCome, StopsOK, IdleStop, Live
  <1>7. UnreachableOnlyWhileStopping /\ StoppedMeansEnded
    BY DEF Init, UnreachableOnlyWhileStopping, StoppedMeansEnded, IdleStop
  <1> QED BY <1>3, <1>5, <1>6, <1>7 DEF IInv

LEMMA CreateTaskKeeps ==
  ASSUME IInv, NEW t \in Tasks, NEW k \in {"chat", "save"}, NEW i \in Items, CreateTask(t, k, i)
  PROVE  IInv'
  <1>1. /\ state[t] = "new"
        /\ state' = [state EXCEPT ![t] = "scheduled"]
        /\ kind' = [kind EXCEPT ![t] = k]
        /\ item' = [item EXCEPT ![t] = i]
        /\ tasks' = tasks \cup {t}
        /\ UNCHANGED <<cancelled, callbacks, stop>>
    BY DEF CreateTask
  <1>2. /\ item_tasks[i] \in Seq(Tasks) /\ Distinct(item_tasks[i]) /\ ~Contains(item_tasks[i], t)
    BY <1>1 DEF IInv, ListsOK, TasksOK
  <1>3. item_tasks' = [item_tasks EXCEPT ![i] = Append(item_tasks[i], t)]
    BY DEF CreateTask
  <1>4. /\ ListsOK'
        /\ \A j \in Items, u \in Tasks :
              Contains(item_tasks'[j], u) <=> Contains(item_tasks[j], u) \/ (j = i /\ u = t)
    BY <1>2, <1>3, AppendToDistinct DEF IInv, ListsOK
  <1>5. TypeOK'
    <2>1. \A j \in Items : ToSet(item_tasks'[j]) \subseteq Tasks
      BY <1>4, ListTyped DEF ListsOK
    <2> QED BY <1>1, <1>3, <2>1 DEF IInv, TypeOK, States
  <1>6. TasksOK'
    BY <1>1, <1>4 DEF IInv, TasksOK, TypeOK, Ended, Live
  <1>7. CleanupToCome'
    BY <1>1, <1>4 DEF IInv, CleanupToCome, TypeOK, Live
  <1>8. StopsOK' /\ UnreachableOnlyWhileStopping' /\ StoppedMeansEnded'
    BY <1>1, DistinctNone DEF IInv, StopsOK, UnreachableOnlyWhileStopping, StoppedMeansEnded,
        TypeOK, Ended, StopRecord
  <1> QED BY <1>4, <1>5, <1>6, <1>7, <1>8 DEF IInv

\* The lists and stoppers stay; a task moves on.
LEMMA StartTaskKeeps ==
  ASSUME IInv, NEW t \in Tasks, StartTask(t)
  PROVE  IInv'
  <1>1. /\ state[t] = "scheduled"
        /\ state' = [state EXCEPT ![t] = state'[t]]
        /\ \/ state'[t] = "running" /\ callbacks' = callbacks /\ cancelled' = cancelled
           \/ state'[t] = "cancelled" /\ callbacks' = callbacks \cup {t} /\ cancelled' \subseteq Tasks
        /\ UNCHANGED <<kind, item, tasks, item_tasks, stop>>
    BY DEF StartTask, IInv, TypeOK
  <1>2. ListsOK' /\ TypeOK'
    BY <1>1 DEF IInv, TypeOK, ListsOK, States, Ended
  <1>3. TasksOK' /\ CleanupToCome'
    BY <1>1 DEF IInv, TasksOK, CleanupToCome, TypeOK, Ended, Live
  <1>4. StopsOK' /\ UnreachableOnlyWhileStopping' /\ StoppedMeansEnded'
    BY <1>1, DistinctNone DEF IInv, StopsOK, UnreachableOnlyWhileStopping, StoppedMeansEnded,
        TypeOK, Ended, StopRecord
  <1> QED BY <1>2, <1>3, <1>4 DEF IInv

LEMMA BodyEndsKeeps ==
  ASSUME IInv, NEW t \in Tasks, NEW how \in Ended, BodyEnds(t, how)
  PROVE  IInv'
  <1>1. /\ state[t] = "running"
        /\ state' = [state EXCEPT ![t] = state'[t]]
        /\ \/ state'[t] = "finally" /\ callbacks' = callbacks
           \/ state'[t] \in Ended /\ callbacks' = callbacks \cup {t}
        /\ cancelled' \subseteq Tasks
        /\ UNCHANGED <<kind, item, tasks, item_tasks, stop>>
    BY DEF BodyEnds, IInv, TypeOK
  <1>2. ListsOK' /\ TypeOK'
    BY <1>1 DEF IInv, TypeOK, ListsOK, States, Ended
  <1>3. TasksOK' /\ CleanupToCome'
    BY <1>1 DEF IInv, TasksOK, CleanupToCome, TypeOK, Ended, Live
  <1>4. StopsOK' /\ UnreachableOnlyWhileStopping' /\ StoppedMeansEnded'
    BY <1>1, DistinctNone DEF IInv, StopsOK, UnreachableOnlyWhileStopping, StoppedMeansEnded,
        TypeOK, Ended, StopRecord
  <1> QED BY <1>2, <1>3, <1>4 DEF IInv

\* A stopper whose list was dropped from item_tasks keeps its place in the loop:
\* only the list it iterates is no longer the registered one.
LEMMA DeadIteratorTyped ==
  ASSUME NEW r \in StopRecord
  PROVE  /\ [r EXCEPT !.live = FALSE] \in StopRecord
         /\ [r EXCEPT !.live = FALSE].pc = r.pc
         /\ [r EXCEPT !.live = FALSE].item = r.item
         /\ [r EXCEPT !.live = FALSE].task = r.task
         /\ [r EXCEPT !.live = FALSE].result = r.result
  <1>1. [r EXCEPT !.live = FALSE] \in StopRecord
    BY DEF StopRecord
  <1>2. DOMAIN r = {"pc", "item", "next", "live", "task", "result"}
    BY DEF StopRecord
  <1> QED BY <1>1, <1>2

\* cleanup_task takes a task out of `tasks` and of its list, and leaves the
\* stoppers but for the lists they iterate over.
LEMMA CleanupEffect ==
  ASSUME IInv, NEW t \in Tasks, state[t] # "new", Cleanup(t)
  PROVE  /\ tasks' = tasks \ {t}
         /\ ListsOK'
         /\ \A i \in Items, u \in Tasks :
               Contains(item_tasks'[i], u) <=> Contains(item_tasks[i], u) /\ u # t
         /\ DOMAIN stop' = Stoppers
         /\ \A s \in Stoppers :
               /\ stop'[s] \in StopRecord
               /\ stop'[s].pc = stop[s].pc /\ stop'[s].item = stop[s].item
               /\ stop'[s].task = stop[s].task /\ stop'[s].result = stop[s].result
  <1>1. /\ item[t] \in Items
        /\ \A i \in Items : Contains(item_tasks[i], t) => item[t] = i
    BY DEF IInv, TasksOK
  <1>2. \A s \in Stoppers : stop[s] \in StopRecord
    BY DEF IInv, TypeOK
  <1>3. tasks' = tasks \ {t}
    BY DEF Cleanup
  <1>4. CASE Contains(item_tasks[item[t]], t)
    <2>1. item_tasks' = [item_tasks EXCEPT ![item[t]] = RemoveFirst(item_tasks[item[t]], t)]
      BY <1>4 DEF Cleanup, RemoveFromItem
    <2>2. \/ stop' = stop
          \/ stop' = [s \in Stoppers |-> IF stop[s].item = item[t]
                                         THEN [stop[s] EXCEPT !.live = FALSE] ELSE stop[s]]
      BY <1>4 DEF Cleanup, RemoveFromItem
    <2>3. /\ item_tasks[item[t]] \in Seq(Tasks) /\ Distinct(item_tasks[item[t]])
      BY <1>1 DEF IInv, ListsOK
    <2>4. /\ RemoveFirst(item_tasks[item[t]], t) \in Seq(Tasks)
          /\ Distinct(RemoveFirst(item_tasks[item[t]], t))
          /\ \A u : Contains(RemoveFirst(item_tasks[item[t]], t), u)
                       <=> Contains(item_tasks[item[t]], u) /\ u # t
      BY <2>3, <1>4, RemoveFromDistinct
    <2>5. ListsOK'
      BY <1>1, <2>1, <2>4 DEF IInv, ListsOK
    <2>6. \A i \in Items, u \in Tasks :
              Contains(item_tasks'[i], u) <=> Contains(item_tasks[i], u) /\ u # t
      BY <1>1, <2>1, <2>4 DEF IInv, ListsOK
    <2>7. /\ DOMAIN stop' = Stoppers
          /\ \A s \in Stoppers :
                /\ stop'[s] \in StopRecord
                /\ stop'[s].pc = stop[s].pc /\ stop'[s].item = stop[s].item
                /\ stop'[s].task = stop[s].task /\ stop'[s].result = stop[s].result
      <3>1. CASE stop' = stop
        BY <3>1, <1>2 DEF IInv, TypeOK
      <3>2. CASE stop' = [s \in Stoppers |-> IF stop[s].item = item[t]
                                             THEN [stop[s] EXCEPT !.live = FALSE] ELSE stop[s]]
        <4>1. DOMAIN stop' = Stoppers
          BY <3>2
        <4>2. ASSUME NEW s \in Stoppers
              PROVE  stop'[s] = stop[s] \/ stop'[s] = [stop[s] EXCEPT !.live = FALSE]
          BY <3>2
        <4>3. ASSUME NEW s \in Stoppers
              PROVE  /\ stop'[s] \in StopRecord
                     /\ stop'[s].pc = stop[s].pc /\ stop'[s].item = stop[s].item
                     /\ stop'[s].task = stop[s].task /\ stop'[s].result = stop[s].result
          BY <1>2, <4>2, DeadIteratorTyped
        <4> QED BY <4>1, <4>3
      <3> QED BY <2>2, <3>1, <3>2
    <2> QED BY <1>3, <2>5, <2>6, <2>7
  <1>5. CASE ~Contains(item_tasks[item[t]], t)
    <2>1. UNCHANGED <<item_tasks, stop>>
      BY <1>5 DEF Cleanup
    <2>2. \A i \in Items, u \in Tasks : Contains(item_tasks[i], u) => u # t
      BY <1>1, <1>5
    <2> QED BY <1>2, <1>3, <2>1, <2>2 DEF IInv, ListsOK, TypeOK
  <1> QED BY <1>4, <1>5

LEMMA ChatFinallyKeeps ==
  ASSUME IInv, NEW t \in Tasks, NEW how \in {"returned", "cancelled"}, ChatFinally(t, how)
  PROVE  IInv'
  <1>1. /\ state[t] = "finally"
        /\ state' = [state EXCEPT ![t] = state'[t]]
        /\ \/ state'[t] = "emitting" /\ callbacks' = callbacks
           \/ state'[t] \in Ended /\ callbacks' = callbacks \cup {t}
        /\ cancelled' \subseteq Tasks
        /\ UNCHANGED <<kind, item>>
    BY DEF ChatFinally, IInv, TypeOK, Ended
  <1>2. /\ tasks' = tasks \ {t}
        /\ ListsOK'
        /\ \A i \in Items, u \in Tasks :
              Contains(item_tasks'[i], u) <=> Contains(item_tasks[i], u) /\ u # t
        /\ DOMAIN stop' = Stoppers
        /\ \A s \in Stoppers :
              /\ stop'[s] \in StopRecord
              /\ stop'[s].pc = stop[s].pc /\ stop'[s].item = stop[s].item
              /\ stop'[s].task = stop[s].task /\ stop'[s].result = stop[s].result
    BY <1>1, CleanupEffect DEF ChatFinally
  <1>3. TypeOK'
    <2>1. \A i \in Items : ToSet(item_tasks'[i]) \subseteq Tasks
      BY <1>2, ListTyped DEF ListsOK
    <2>2. DOMAIN item_tasks' = Items
      BY <1>2 DEF ListsOK
    <2> QED BY <1>1, <1>2, <2>1, <2>2 DEF IInv, TypeOK, States, Ended
  <1>4. TasksOK' /\ CleanupToCome'
    BY <1>1, <1>2 DEF IInv, TasksOK, CleanupToCome, TypeOK, Ended, Live
  <1>5. StopsOK' /\ UnreachableOnlyWhileStopping' /\ StoppedMeansEnded'
    BY <1>1, <1>2, DistinctNone DEF IInv, StopsOK, UnreachableOnlyWhileStopping,
        StoppedMeansEnded, TypeOK, Ended, StopRecord
  <1> QED BY <1>2, <1>3, <1>4, <1>5 DEF IInv

LEMMA ChatEmittedKeeps ==
  ASSUME IInv, NEW t \in Tasks, NEW how \in {"returned", "cancelled"}, ChatEmitted(t, how)
  PROVE  IInv'
  <1>1. /\ state[t] = "emitting"
        /\ state' = [state EXCEPT ![t] = how] /\ how \in Ended
        /\ callbacks' = callbacks \cup {t} /\ cancelled' \subseteq Tasks
        /\ UNCHANGED <<kind, item, tasks, item_tasks, stop>>
    BY DEF ChatEmitted, IInv, TypeOK, Ended
  <1>2. ListsOK' /\ TypeOK'
    BY <1>1 DEF IInv, TypeOK, ListsOK, States, Ended
  <1>3. TasksOK' /\ CleanupToCome'
    BY <1>1 DEF IInv, TasksOK, CleanupToCome, TypeOK, Ended, Live
  <1>4. StopsOK' /\ UnreachableOnlyWhileStopping' /\ StoppedMeansEnded'
    BY <1>1, DistinctNone DEF IInv, StopsOK, UnreachableOnlyWhileStopping, StoppedMeansEnded,
        TypeOK, Ended, StopRecord
  <1> QED BY <1>2, <1>3, <1>4 DEF IInv

LEMMA CallbackCleanupKeeps ==
  ASSUME IInv, NEW t \in Tasks, CallbackCleanup(t)
  PROVE  IInv'
  <1>1. /\ t \in callbacks /\ state[t] \in Ended
        /\ callbacks' = callbacks \ {t}
        /\ UNCHANGED <<state, kind, item, cancelled>>
    BY DEF CallbackCleanup, IInv, TasksOK
  <1>2. /\ tasks' = tasks \ {t}
        /\ ListsOK'
        /\ \A i \in Items, u \in Tasks :
              Contains(item_tasks'[i], u) <=> Contains(item_tasks[i], u) /\ u # t
        /\ DOMAIN stop' = Stoppers
        /\ \A s \in Stoppers :
              /\ stop'[s] \in StopRecord
              /\ stop'[s].pc = stop[s].pc /\ stop'[s].item = stop[s].item
              /\ stop'[s].task = stop[s].task /\ stop'[s].result = stop[s].result
    <2>1. Cleanup(t) /\ state[t] # "new"
      BY <1>1 DEF CallbackCleanup, Ended
    <2> QED BY <2>1, CleanupEffect
  <1>3. TypeOK'
    <2>1. \A i \in Items : ToSet(item_tasks'[i]) \subseteq Tasks
      BY <1>2, ListTyped DEF ListsOK
    <2>2. DOMAIN item_tasks' = Items
      BY <1>2 DEF ListsOK
    <2> QED BY <1>1, <1>2, <2>1, <2>2 DEF IInv, TypeOK
  <1>4. TasksOK' /\ CleanupToCome'
    BY <1>1, <1>2 DEF IInv, TasksOK, CleanupToCome, TypeOK, Ended, Live
  <1>5. StopsOK' /\ UnreachableOnlyWhileStopping' /\ StoppedMeansEnded'
    BY <1>1, <1>2, DistinctNone DEF IInv, StopsOK, UnreachableOnlyWhileStopping,
        StoppedMeansEnded, TypeOK, Ended, StopRecord
  <1> QED BY <1>2, <1>3, <1>4, <1>5 DEF IInv

\* stop_task pops a task, cancels it and waits: what the stopper then is.
LEMMA PopAndCancelKeeps ==
  ASSUME IInv, NEW s \in Stoppers, NEW t \in tasks, stop[s].pc \in {"idle", "loop"},
         PopAndCancel(s, t), UNCHANGED <<state, kind, item, item_tasks, callbacks>>
  PROVE  IInv'
  <1> DEFINE rec == [stop[s] EXCEPT !.pc = "await", !.task = t, !.next = @ + 1]
  <1>1. /\ t \in Tasks /\ stop[s] \in StopRecord
        /\ stop[s].result = "none" /\ stop[s].item \in Items \cup {NoItem}
        /\ stop[s].pc = "loop" => stop[s].item # NoItem
    BY DistinctNone DEF IInv, TypeOK, StopsOK, StopRecord
  <1>2. /\ rec \in StopRecord /\ rec.pc = "await" /\ rec.task = t
        /\ rec.item = stop[s].item /\ rec.result = "none"
    <2>1. stop[s].next + 1 \in Nat \ {0}
      BY <1>1 DEF StopRecord
    <2> QED BY <1>1, <2>1 DEF StopRecord
  <1>3. /\ tasks' = tasks \ {t}
        /\ cancelled' \subseteq Tasks
        /\ \/ state[t] \in Ended /\ stop' = [stop EXCEPT ![s] = AfterAwait(rec)]
           \/ state[t] \notin Ended /\ stop' = [stop EXCEPT ![s] = rec]
    BY <1>1 DEF PopAndCancel, IInv, TypeOK
  <1> HIDE DEF rec
  <1>4. /\ AfterAwait(rec) \in StopRecord /\ AfterAwait(rec).task = t
        /\ AfterAwait(rec).pc \in {"loop", "over"}
        /\ AfterAwait(rec).pc = "loop" => /\ AfterAwait(rec).item \in Items
                                          /\ AfterAwait(rec).result = "none"
    BY <1>1, <1>2 DEF AfterAwait, StopRecord
  <1>5. /\ DOMAIN stop' = Stoppers /\ stop'[s] \in StopRecord /\ stop'[s].task = t
        /\ \A q \in Stoppers \ {s} : stop'[q] = stop[q]
        /\ stop'[s].pc \in {"await", "loop", "over"}
        /\ stop'[s].pc = "await" => stop'[s].result = "none"
        /\ stop'[s].pc = "loop" => stop'[s].item \in Items /\ stop'[s].result = "none"
        /\ state[t] \notin Ended => stop'[s].pc = "await"
    BY <1>2, <1>3, <1>4 DEF IInv, TypeOK
  <1>6. TypeOK' /\ ListsOK'
    <2>1. \A q \in Stoppers : stop'[q] \in StopRecord
      BY <1>5 DEF IInv, TypeOK
    <2> QED BY <1>3, <1>5, <2>1 DEF IInv, TypeOK, ListsOK
  <1>7. TasksOK' /\ CleanupToCome'
    BY <1>3 DEF IInv, TasksOK, CleanupToCome
  <1>8. StopsOK'
    <2> SUFFICES ASSUME NEW q \in Stoppers
                 PROVE  /\ stop'[q].pc # "over" => stop'[q].result = "none"
                        /\ stop'[q].pc = "idle" => stop'[q].item = NoItem /\ stop'[q].task = NoTask
                        /\ stop'[q].pc = "loop" => stop'[q].item \in Items
                        /\ stop'[q].pc = "await" => stop'[q].task \in Tasks
                        /\ stop'[q].pc = "loop" /\ stop'[q].task # NoTask
                              => state'[stop'[q].task] \in Ended
      BY DEF StopsOK
    <2>1. CASE q = s
      BY <2>1, <1>1, <1>5
    <2>2. CASE q # s
      BY <2>2, <1>5 DEF IInv, StopsOK
    <2> QED BY <2>1, <2>2
  <1>9. UnreachableOnlyWhileStopping'
    <2> SUFFICES ASSUME NEW u \in Tasks, state[u] \in {"scheduled", "running"}, u \notin tasks'
                 PROVE  \E q \in Stoppers : stop'[q].pc = "await" /\ stop'[q].task = u
      BY DEF UnreachableOnlyWhileStopping
    <2>1. CASE u = t
      BY <2>1, <1>5 DEF Ended
    <2>2. CASE u # t
      <3>1. PICK q \in Stoppers : stop[q].pc = "await" /\ stop[q].task = u
        BY <2>2, <1>3 DEF IInv, UnreachableOnlyWhileStopping
      <3> QED BY <3>1, <1>5
    <2> QED BY <2>1, <2>2
  <1>10. StoppedMeansEnded'
    <2> SUFFICES ASSUME NEW q \in Stoppers, stop'[q].result = "stopped", stop'[q].task # NoTask
                 PROVE  state[stop'[q].task] \in Ended
      BY DEF StoppedMeansEnded
    <2>1. CASE q = s
      BY <2>1, <1>5
    <2>2. CASE q # s
      BY <2>2, <1>5 DEF IInv, StoppedMeansEnded
    <2> QED BY <2>1, <2>2
  <1> QED BY <1>6, <1>7, <1>8, <1>9, <1>10 DEF IInv

\* A stopper that returns, goes on or begins, and nothing else changes.
LEMMA StopperMovesKeeps ==
  ASSUME IInv, NEW s \in Stoppers, NEW rec \in StopRecord,
         stop' = [stop EXCEPT ![s] = rec],
         UNCHANGED <<state, kind, item, tasks, item_tasks, cancelled, callbacks>>,
         stop[s].pc = "await" => state[stop[s].task] \in Ended,
         \/ rec.pc = "loop" /\ rec.result = "none" /\ rec.item \in Items
         \/ rec.pc = "over",
         rec.task = NoTask \/ state[rec.task] \in Ended \/ rec.result = "not_found"
  PROVE  IInv'
  <1>1. DOMAIN stop' = Stoppers /\ stop'[s] = rec /\ \A q \in Stoppers \ {s} : stop'[q] = stop[q]
    BY DEF IInv, TypeOK
  <1>2. TypeOK' /\ ListsOK'
    <2>1. \A q \in Stoppers : stop'[q] \in StopRecord
      BY <1>1 DEF IInv, TypeOK
    <2> QED BY <1>1, <2>1 DEF IInv, TypeOK, ListsOK
  <1>3. TasksOK' /\ CleanupToCome'
    BY DEF IInv, TasksOK, CleanupToCome
  <1>4. StopsOK' /\ StoppedMeansEnded'
    BY <1>1 DEF IInv, StopsOK, StoppedMeansEnded
  <1>5. UnreachableOnlyWhileStopping'
    <2> SUFFICES ASSUME NEW u \in Tasks, state[u] \in {"scheduled", "running"}, u \notin tasks
                 PROVE  \E q \in Stoppers : stop'[q].pc = "await" /\ stop'[q].task = u
      BY DEF UnreachableOnlyWhileStopping
    <2>1. PICK q \in Stoppers : stop[q].pc = "await" /\ stop[q].task = u
      BY DEF IInv, UnreachableOnlyWhileStopping
    <2>2. q # s
      BY <2>1 DEF Ended
    <2> QED BY <1>1, <2>1, <2>2
  <1> QED BY <1>2, <1>3, <1>4, <1>5 DEF IInv

LEMMA StopTaskKeeps ==
  ASSUME IInv, NEW s \in Stoppers, NEW t \in Tasks, StopTask(s, t)
  PROVE  IInv'
  <1>1. CASE t \in tasks
    BY <1>1, PopAndCancelKeeps DEF StopTask
  <1>2. CASE t \notin tasks
    <2> DEFINE rec == [stop[s] EXCEPT !.pc = "over", !.result = "not_found"]
    <2>1. stop[s] \in StopRecord /\ stop[s].pc = "idle"
      BY DEF StopTask, IInv, TypeOK
    <2>2. /\ stop' = [stop EXCEPT ![s] = rec]
          /\ UNCHANGED <<state, kind, item, tasks, item_tasks, cancelled, callbacks>>
      BY <1>2 DEF StopTask, Return
    <2>3. rec \in StopRecord /\ rec.pc = "over" /\ rec.result = "not_found"
      BY <2>1 DEF StopRecord
    <2> HIDE DEF rec
    <2> QED BY <2>1, <2>2, <2>3, StopperMovesKeeps
  <1> QED BY <1>1, <1>2

LEMMA StopItemTasksKeeps ==
  ASSUME IInv, NEW s \in Stoppers, NEW i \in Items, StopItemTasks(s, i)
  PROVE  IInv'
  <1> DEFINE empty == [IdleStop EXCEPT !.pc = "over", !.item = i, !.result = "empty"]
             first == [IdleStop EXCEPT !.pc = "loop", !.item = i, !.live = TRUE]
  <1>1. /\ stop[s].pc = "idle"
        /\ UNCHANGED <<state, kind, item, tasks, item_tasks, cancelled, callbacks>>
        /\ stop' = [stop EXCEPT ![s] = empty] \/ stop' = [stop EXCEPT ![s] = first]
    BY DEF StopItemTasks
  <1>2. empty \in StopRecord /\ empty.pc = "over" /\ empty.task = NoTask
    <2>1. IdleStop \in StopRecord /\ IdleStop.task = NoTask
      BY DEF IdleStop, StopRecord
    <2> QED BY <2>1 DEF StopRecord
  <1>3. /\ first \in StopRecord /\ first.pc = "loop" /\ first.task = NoTask
        /\ first.result = "none" /\ first.item = i
    <2>1. IdleStop \in StopRecord /\ IdleStop.task = NoTask /\ IdleStop.result = "none"
      BY DEF IdleStop, StopRecord
    <2> QED BY <2>1 DEF StopRecord
  <1> HIDE DEF empty, first
  <1>4. CASE stop' = [stop EXCEPT ![s] = empty]
    BY <1>1, <1>2, <1>4, StopperMovesKeeps
  <1>5. CASE stop' = [stop EXCEPT ![s] = first]
    BY <1>1, <1>3, <1>5, StopperMovesKeeps
  <1> QED BY <1>1, <1>4, <1>5

LEMMA StopLoopKeeps ==
  ASSUME IInv, NEW s \in Stoppers, StopLoop(s)
  PROVE  IInv'
  <1> DEFINE list == IF stop[s].live THEN item_tasks[stop[s].item] ELSE <<>>
             over(result) == [stop[s] EXCEPT !.pc = "over", !.result = result]
  <1>1. /\ stop[s] \in StopRecord /\ stop[s].pc = "loop"
        /\ stop[s].task # NoTask => state[stop[s].task] \in Ended
    BY DEF StopLoop, IInv, TypeOK, StopsOK
  <1>2. \A result \in {"stopped", "not_found"} :
            /\ over(result) \in StopRecord /\ over(result).pc = "over"
            /\ over(result).result = result /\ over(result).task = stop[s].task
    BY <1>1 DEF StopRecord
  <1>3. CASE stop[s].next > Len(list)
    <2>1. /\ stop' = [stop EXCEPT ![s] = over("stopped")]
          /\ UNCHANGED <<state, kind, item, tasks, item_tasks, cancelled, callbacks>>
      BY <1>3 DEF StopLoop, Return
    <2> HIDE DEF over
    <2> QED BY <1>1, <1>2, <2>1, StopperMovesKeeps
  <1>4. CASE ~(stop[s].next > Len(list)) /\ list[stop[s].next] \in tasks
    BY <1>1, <1>4, PopAndCancelKeeps DEF StopLoop
  <1>5. CASE ~(stop[s].next > Len(list)) /\ list[stop[s].next] \notin tasks
    <2>1. /\ stop' = [stop EXCEPT ![s] = over("not_found")]
          /\ UNCHANGED <<state, kind, item, tasks, item_tasks, cancelled, callbacks>>
      BY <1>5 DEF StopLoop, Return
    <2> HIDE DEF over
    <2> QED BY <1>1, <1>2, <2>1, StopperMovesKeeps
  <1> QED BY <1>3, <1>4, <1>5

LEMMA StopAwaitedKeeps ==
  ASSUME IInv, NEW s \in Stoppers, StopAwaited(s)
  PROVE  IInv'
  <1> DEFINE rec == AfterAwait(stop[s])
  <1>1. /\ stop[s] \in StopRecord /\ stop[s].pc = "await" /\ stop[s].result = "none"
        /\ state[stop[s].task] \in Ended
        /\ UNCHANGED <<state, kind, item, tasks, item_tasks, cancelled, callbacks>>
        /\ stop' = [stop EXCEPT ![s] = rec]
    BY DEF StopAwaited, IInv, TypeOK, StopsOK
  <1>2. /\ rec \in StopRecord /\ rec.pc \in {"loop", "over"} /\ rec.task = stop[s].task
        /\ rec.pc = "loop" => rec.result = "none" /\ rec.item \in Items
    BY <1>1 DEF AfterAwait, StopRecord
  <1> HIDE DEF rec
  <1> QED BY <1>1, <1>2, StopperMovesKeeps

\* Every step keeps the invariant.
LEMMA NextKeeps == IInv /\ [Next]_vars => IInv'
  <1> SUFFICES ASSUME IInv, [Next]_vars PROVE IInv'
    OBVIOUS
  <1>1. CASE \E s \in Stoppers : StopLoop(s)
    BY <1>1, StopLoopKeeps
  <1>2. ASSUME NEW t \in Tasks, NEW k \in {"chat", "save"}, NEW i \in Items, CreateTask(t, k, i)
        PROVE  IInv'
    BY <1>2, CreateTaskKeeps
  <1>3. ASSUME NEW t \in Tasks, StartTask(t) \/ CallbackCleanup(t)
        PROVE  IInv'
    BY <1>3, StartTaskKeeps, CallbackCleanupKeeps
  <1>4. ASSUME NEW t \in Tasks, NEW how \in Ended, BodyEnds(t, how)
        PROVE  IInv'
    BY <1>4, BodyEndsKeeps
  <1>5. ASSUME NEW t \in Tasks, NEW how \in {"returned", "cancelled"},
               ChatFinally(t, how) \/ ChatEmitted(t, how)
        PROVE  IInv'
    BY <1>5, ChatFinallyKeeps, ChatEmittedKeeps
  <1>6. ASSUME NEW s \in Stoppers, NEW t \in Tasks, StopTask(s, t)
        PROVE  IInv'
    BY <1>6, StopTaskKeeps
  <1>7. ASSUME NEW s \in Stoppers, NEW i \in Items, StopItemTasks(s, i)
        PROVE  IInv'
    BY <1>7, StopItemTasksKeeps
  <1>8. ASSUME NEW s \in Stoppers, StopAwaited(s)
        PROVE  IInv'
    BY <1>8, StopAwaitedKeeps
  <1>9. CASE UNCHANGED vars
    BY <1>9 DEF vars, IInv, TypeOK, ListsOK, TasksOK, CleanupToCome, StopsOK,
        UnreachableOnlyWhileStopping, StoppedMeansEnded
  <1> QED BY <1>1, <1>2, <1>3, <1>4, <1>5, <1>6, <1>7, <1>8, <1>9 DEF Next

\* A list that is free of repetitions has one position per element.
LEMMA LiveTasksListed == IInv => LiveTasksAreListed
  <1> SUFFICES ASSUME IInv, NEW t \in Tasks, state[t] \in {"scheduled", "running"}, NEW i \in Items
               PROVE  Cardinality({n \in DOMAIN item_tasks[i] : item_tasks[i][n] = t})
                         = (IF i = item[t] THEN 1 ELSE 0)
    BY DEF LiveTasksAreListed
  <1> DEFINE at == {n \in DOMAIN item_tasks[i] : item_tasks[i][n] = t}
  <1>1. /\ DOMAIN item_tasks[i] = 1..Len(item_tasks[i])
        /\ Distinct(item_tasks[i])
        /\ Contains(item_tasks[i], t) <=> i = item[t]
    BY LenProperties DEF IInv, ListsOK, TasksOK, Live
  <1>2. CASE i = item[t]
    <2>1. PICK n \in 1..Len(item_tasks[i]) : item_tasks[i][n] = t
      BY <1>1, <1>2 DEF Contains
    <2>2. at = {n}
      BY <1>1, <2>1 DEF Distinct
    <2> QED BY <1>2, <2>2, FS_Singleton
  <1>3. CASE i # item[t]
    <2>1. at = {}
      BY <1>1, <1>3 DEF Contains
    <2> QED BY <1>3, <2>1, FS_EmptySet
  <1> QED BY <1>2, <1>3

LEMMA NothingLeaks == IInv => NoLeak
  <1> SUFFICES ASSUME IInv, \A t \in Tasks : state[t] \in Ended \cup {"new"}, callbacks = {}
               PROVE  tasks = {} /\ \A i \in Items : item_tasks[i] = <<>>
    BY DEF NoLeak
  <1>1. \A t \in Tasks : t \notin tasks /\ \A i \in Items : ~Contains(item_tasks[i], t)
    BY DEF IInv, CleanupToCome, Live, Ended
  <1>2. ASSUME NEW i \in Items PROVE item_tasks[i] = <<>>
    <2>1. /\ item_tasks[i] \in Seq(Tasks)
          /\ \A n \in 1..Len(item_tasks[i]) :
                item_tasks[i][n] \in Tasks /\ Contains(item_tasks[i], item_tasks[i][n])
      BY ListTyped DEF IInv, ListsOK
    <2>2. Len(item_tasks[i]) \notin Nat \ {0}
      BY <1>1, <2>1
    <2> QED BY <2>1, <2>2, EmptySeq
  <1> QED BY <1>1, <1>2 DEF IInv, TypeOK

-----------------------------------------------------------------------------
(* The theorems.                                                           *)

LEMMA Invariant == Spec => []IInv
  BY InitIInv, NextKeeps, PTL DEF Spec

\* The two dictionaries, the life cycles and the stop calls are well typed
\* (tasks.py:25-28).
THEOREM TypeCorrect == Spec => []TypeOK
  <1>1. IInv => TypeOK
    BY DEF IInv
  <1> QED BY Invariant, <1>1, PTL

\* In any process, with any interleaving of tasks, cleanups and stop calls,
\* live tasks are listed once and can be stopped, and both dictionaries are
\* empty when everything is over (tasks.py:36-195).
THEOREM Tracked == Spec => []TasksAreTracked
  <1>1. IInv => TasksAreTracked
    BY LiveTasksListed, NothingLeaks DEF IInv, TasksAreTracked, LiveTasksAreReachable
  <1> QED BY Invariant, <1>1, PTL

\* A stop that reports success has waited for the end of its task
\* (tasks.py:165-195).
THEOREM StopWaits == Spec => []StoppedMeansEnded
  <1>1. IInv => StoppedMeansEnded
    BY DEF IInv
  <1> QED BY Invariant, <1>1, PTL
=============================================================================
