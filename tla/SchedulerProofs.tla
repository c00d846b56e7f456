-------------------------- MODULE SchedulerProofs --------------------------
(***************************************************************************)
(* Theorems about the automation scheduler, for any number of automations, *)
(* instances, requests, moments and crashes, and about the loop that also  *)
(* gives the calendar alerts.                                              *)
(***************************************************************************)
EXTENDS MCScheduler, NaturalsInduction, WellFoundedInduction, FiniteSetTheorems, TLAPS

\* Every nonempty set of natural numbers has a least element.
LEMMA LeastExists ==
    ASSUME NEW S \in SUBSET Nat, S # {}
    PROVE  \E x \in S : \A y \in S : x <= y
<1>1. PICK x \in S : \A y \in S : <<y, x>> \notin OpToRel(<, Nat)
    BY WFMin, NatLessThanWellFounded, Zenon
<1>2. \A y \in S : ~(y < x)
    BY <1>1, Zenon DEF OpToRel
<1>. QED BY <1>2

\* The next run is a moment after now, or there is none.
LEMMA NextRunIsLater ==
    ASSUME now \in 0..MaxTime, NEW rule \in Rules
    PROVE  /\ NextRun(rule) \in 0..MaxTime
           /\ NextRun(rule) # 0 => NextRun(rule) > now
<1>. DEFINE later == {t \in rule : t > now}
<1>1. MaxTime \in Nat /\ \A t \in rule : t \in Nat /\ t >= 1 /\ t <= MaxTime
    BY SchedulerConstants
<1>2. CASE later = {}
    BY <1>1, <1>2 DEF NextRun
<1>3. CASE later # {}
    <2>1. later \in SUBSET Nat
        BY <1>1
    <2>2. \E x \in later : \A y \in later : x <= y
        BY <2>1, <1>3, LeastExists
    <2>3. Min(later) \in later
        BY <2>2 DEF Min
    <2>4. NextRun(rule) = Min(later)
        BY <1>3 DEF NextRun
    <2>. QED BY <2>3, <2>4, <1>1
<1>. QED BY <1>2, <1>3

-----------------------------------------------------------------------------
(* Type correctness, on either dialect.                                     *)

LEMMA NoRowTypes == NoRow \in Row /\ 0 \in 0..MaxTime /\ InitialRule \in Rules
BY SchedulerConstants DEF NoRow, Row

LEMMA TypeInit == Init => TypeOK
<1>. SUFFICES ASSUME Init PROVE TypeOK
    OBVIOUS
<1>. USE SchedulerConstants DEF Init
<1>1. NextRun(InitialRule) \in 0..MaxTime
    BY NextRunIsLater
<1>2. NoRow \in Row
    BY NoRowTypes
<1>3. row \in [Automations -> Row]
    BY <1>1, <1>2 DEF Row
<1>4. handler \in [Handlers -> Handler]
    <2>. SUFFICES ASSUME NEW h \in Handlers, NEW k \in Handlers
                  PROVE  handler[h] \in Handler
        BY DEF Handler
    <2>. QED BY <1>2 DEF Handler, Idle
<1>5. claims \in [Automations -> [Moments -> Nat]]
      /\ execs \in [Instances -> [Automations -> [Stages -> Nat]]]
    OBVIOUS
<1>6. \A f \in {edits, begun, recorded, lost} : f \in [Automations -> Nat]
    OBVIOUS
<1>7. /\ loaded \in [Instances -> [Automations -> Row]]
      /\ selected \in [Instances -> SUBSET Automations]
      /\ now \in 0..MaxTime /\ crashes \in 0..MaxCrashes
    BY <1>2
<1>. QED BY <1>3, <1>4, <1>5, <1>6, <1>7 DEF TypeOK

\* What a request holds stays a handler record.
LEMMA HandlerTypes ==
    ASSUME TypeOK, NEW a \in Automations, NEW rule \in Rules
    PROVE  /\ Idle(a) \in Handler /\ row[a] \in Row
           /\ NextRun(rule) \in 0..MaxTime
<1>1. NoRow \in Row
    BY NoRowTypes
<1>2. Idle(a) \in Handler
    BY SchedulerConstants, <1>1 DEF Idle, Handler
<1>. QED BY <1>2, NextRunIsLater DEF TypeOK

LEMMA GoTypes ==
    ASSUME TypeOK, NEW h \in Handlers, NEW next \in Handler, Go(h, next)
    PROVE  handler' \in [Handlers -> Handler]
BY DEF TypeOK, Go

LEMMA TypeTick == ASSUME TypeOK, Tick PROVE TypeOK'
BY SchedulerConstants DEF TypeOK, Tick, schedule, executions

LEMMA EndClaimTypes ==
    ASSUME TypeOK, NEW i \in Instances, EndClaim(i)
    PROVE  /\ selected' \in [Instances -> SUBSET Automations]
           /\ loaded' \in [Instances -> [Automations -> Row]]
<1>1. NoRow \in Row
    BY NoRowTypes
<1>. QED BY <1>1 DEF TypeOK, EndClaim

LEMMA TypeClaimSelect ==
    ASSUME TypeOK, NEW i \in Instances, ClaimSelect(i) PROVE TypeOK'
<1>1. NoRow \in Row
    BY NoRowTypes
<1>2. /\ selected' \in [Instances -> SUBSET Automations]
      /\ loaded' \in [Instances -> [Automations -> Row]]
    BY <1>1 DEF TypeOK, ClaimSelect
<1>. QED BY <1>2 DEF TypeOK, ClaimSelect, schedule, executions

LEMMA TypeClaimCommit ==
    ASSUME TypeOK, NEW i \in Instances, ClaimCommit(i) PROVE TypeOK'
<1>1. \A a \in Automations : NextRun(loaded[i][a].rule) \in 0..MaxTime
    BY NextRunIsLater DEF TypeOK, Row
<1>2. row' \in [Automations -> Row]
    <2>1. \A a \in Automations : row[a] \in Row
        BY DEF TypeOK
    <2>2. \A a \in Automations :
             [row[a] EXCEPT !.next = NextRun(loaded[i][a].rule)] \in Row
        BY <1>1, <2>1 DEF Row
    <2>. QED BY <2>1, <2>2, Zenon DEF ClaimCommit
<1>3. claims' \in [Automations -> [Moments -> Nat]]
    <2>1. \A a \in Automations : claims[a] \in [Moments -> Nat]
        BY DEF TypeOK
    <2>2. \A a \in Automations : \A t : [claims[a] EXCEPT ![t] = @ + 1] \in [Moments -> Nat]
        <3>. SUFFICES ASSUME NEW a \in Automations, NEW t, NEW u \in Moments
                      PROVE  /\ [claims[a] EXCEPT ![t] = @ + 1] = [v \in Moments |->
                                    IF v = t THEN claims[a][v] + 1 ELSE claims[a][v]]
                             /\ claims[a][u] + 1 \in Nat
            BY <2>1
        <3>. QED BY <2>1
    <2>. QED BY <2>1, <2>2, Zenon DEF ClaimCommit
<1>4. begun' \in [Automations -> Nat]
    BY DEF TypeOK, ClaimCommit
<1>5. execs' \in [Instances -> [Automations -> [Stages -> Nat]]]
    <2>. DEFINE more == [a \in Automations |->
              [execs[i][a] EXCEPT !["gate"] = IF a \in selected[i] THEN @ + 1 ELSE @]]
    <2>1. \A a \in Automations : execs[i][a] \in [Stages -> Nat]
        BY DEF TypeOK
    <2>3. more \in [Automations -> [Stages -> Nat]]
        BY <2>1 DEF Stages
    <2>4. execs' = [execs EXCEPT ![i] = more]
        BY DEF ClaimCommit
    <2>5. execs \in [Instances -> [Automations -> [Stages -> Nat]]]
        BY DEF TypeOK
    <2>. HIDE DEF more
    <2>. QED BY <2>3, <2>4, <2>5
<1>6. /\ selected' \in [Instances -> SUBSET Automations]
      /\ loaded' \in [Instances -> [Automations -> Row]]
    BY EndClaimTypes DEF ClaimCommit
<1>. QED BY <1>2, <1>3, <1>4, <1>5, <1>6 DEF TypeOK, ClaimCommit

LEMMA TypeClaimRollback ==
    ASSUME TypeOK, NEW i \in Instances, ClaimRollback(i) PROVE TypeOK'
BY EndClaimTypes DEF TypeOK, ClaimRollback, schedule, executions

LEMMA TypeExecution ==
    ASSUME TypeOK, NEW i \in Instances, NEW a \in Automations,
           ChatCreated(i, a) \/ RecordRun(i, a)
    PROVE  TypeOK'
<1>1. CASE ChatCreated(i, a)
    <2>1. execs' \in [Instances -> [Automations -> [Stages -> Nat]]]
        BY <1>1 DEF TypeOK, ChatCreated, Stages
    <2>. QED BY <1>1, <2>1 DEF TypeOK, ChatCreated, schedule
<1>2. CASE RecordRun(i, a)
    <2>1. execs' \in [Instances -> [Automations -> [Stages -> Nat]]]
        BY <1>2 DEF TypeOK, RecordRun
    <2>2. recorded' \in [Automations -> Nat]
        BY <1>2 DEF TypeOK, RecordRun
    <2>. QED BY <1>2, <2>1, <2>2 DEF TypeOK, RecordRun, schedule
<1>. QED BY <1>1, <1>2

LEMMA TypeCrash ==
    ASSUME TypeOK, NEW i \in Instances, Crash(i) PROVE TypeOK'
<1>1. execs' \in [Instances -> [Automations -> [Stages -> Nat]]]
    BY DEF TypeOK, Crash
<1>2. \A a \in Automations : Underway(i, a) \in Nat
    BY DEF TypeOK, Underway, Stages
<1>3. lost' \in [Automations -> Nat]
    BY <1>2 DEF TypeOK, Crash
<1>4. /\ selected' \in [Instances -> SUBSET Automations]
      /\ loaded' \in [Instances -> [Automations -> Row]]
    BY EndClaimTypes DEF Crash
<1>5. crashes' \in 0..MaxCrashes
    BY SchedulerConstants DEF TypeOK, Crash
<1>. QED BY <1>1, <1>3, <1>4, <1>5 DEF TypeOK, Crash, schedule

\* The steps of a request that only change what the request holds.
LEMMA TypeRequestOnly ==
    ASSUME TypeOK, NEW h \in Handlers, NEW next \in Handler, Go(h, next), OnlyHandler
    PROVE  TypeOK'
BY GoTypes DEF TypeOK, OnlyHandler, schedule, executions

LEMMA TypeCreateCheck ==
    ASSUME TypeOK, NEW h \in Handlers, NEW a \in Automations, NEW rule \in Rules,
           CreateCheck(h, a, rule)
    PROVE  TypeOK'
<1>. DEFINE next == [Idle(a) EXCEPT !.pc = "checked", !.op = "create", !.rule = rule]
<1>1. NoRow \in Row /\ 0 \in 0..MaxTime /\ InitialRule \in Rules
    BY NoRowTypes
<1>2. next \in Handler
    BY <1>1 DEF Handler, Idle
<1>. QED BY <1>2, TypeRequestOnly DEF CreateCheck

LEMMA TypeUpdateCompute ==
    ASSUME TypeOK, NEW h \in Handlers, NEW a \in Automations, NEW rule \in Rules,
           NEW active \in BOOLEAN, UpdateCompute(h, a, rule, active)
    PROVE  TypeOK'
<1>. DEFINE next == [Idle(a) EXCEPT !.pc = "computed", !.op = "update", !.rule = rule,
                                    !.active = active, !.next = NextRun(rule)]
<1>1. NoRow \in Row /\ NextRun(rule) \in 0..MaxTime
    BY NoRowTypes, HandlerTypes
<1>2. next \in Handler
    BY <1>1 DEF Handler, Idle
<1>. QED BY <1>2, TypeRequestOnly DEF UpdateCompute

LEMMA TypeToggleCompute ==
    ASSUME TypeOK, NEW h \in Handlers, NEW a \in Automations, ToggleCompute(h, a)
    PROVE  TypeOK'
<1>. DEFINE next == [Idle(a) EXCEPT !.pc = "computed", !.op = "toggle",
                                    !.next = NextRun(row[a].rule)]
<1>1. row[a].rule \in Rules
    BY DEF TypeOK, Row
<1>2. NoRow \in Row /\ NextRun(row[a].rule) \in 0..MaxTime
    BY <1>1, NoRowTypes, HandlerTypes
<1>3. next \in Handler
    BY <1>2, SchedulerConstants DEF Handler, Idle
<1>. QED BY <1>3, TypeRequestOnly DEF ToggleCompute

LEMMA TypeLoad == ASSUME TypeOK, NEW h \in Handlers, Load(h) PROVE TypeOK'
<1>. DEFINE a == handler[h].on
            next == IF Live(a) THEN [handler[h] EXCEPT !.pc = "loaded", !.old = row[a]]
                               ELSE [handler[h] EXCEPT !.pc = "done"]
<1>1. handler[h] \in Handler /\ a \in Automations
    BY DEF TypeOK, Handler
<1>2. row[a] \in Row
    BY <1>1 DEF TypeOK
<1>3. next \in Handler
    BY <1>1, <1>2 DEF Handler
<1>. QED BY <1>3, TypeRequestOnly DEF Load

LEMMA TypeDeleteRuns ==
    ASSUME TypeOK, NEW h \in Handlers, NEW a \in Automations, DeleteRuns(h, a)
    PROVE  TypeOK'
<1>. DEFINE next == [Idle(a) EXCEPT !.pc = "delete", !.op = "delete"]
<1>1. NoRow \in Row /\ 0 \in 0..MaxTime /\ InitialRule \in Rules
    BY NoRowTypes
<1>2. next \in Handler
    BY <1>1 DEF Handler, Idle
<1>. QED BY <1>2, TypeRequestOnly DEF DeleteRuns

LEMMA DoneTypes ==
    ASSUME TypeOK, NEW h \in Handlers
    PROVE  /\ handler[h] \in Handler /\ handler[h].on \in Automations
           /\ [handler[h] EXCEPT !.pc = "done"] \in Handler
           /\ row[handler[h].on] \in Row
BY DEF TypeOK, Handler

LEMMA TypeCreateInsert ==
    ASSUME TypeOK, NEW h \in Handlers, CreateInsert(h) PROVE TypeOK'
<1>1. NextRun(handler[h].rule) \in 0..MaxTime /\ handler[h].rule \in Rules
    BY NextRunIsLater DEF TypeOK, Handler
<1>2. row' \in [Automations -> Row]
    BY <1>1 DEF TypeOK, CreateInsert, Row
<1>3. handler' \in [Handlers -> Handler]
    BY DoneTypes, GoTypes DEF CreateInsert
<1>. QED BY <1>2, <1>3 DEF TypeOK, CreateInsert, schedule, executions

LEMMA EditedTypes ==
    ASSUME TypeOK, NEW h \in Handlers PROVE Edited(h) \in Row /\ handler[h].old \in Row
<1>. DEFINE old == handler[h].old  new == handler[h]
<1>1. /\ old \in Row /\ new.rule \in Rules /\ new.active \in BOOLEAN
      /\ new.next \in 0..MaxTime
    BY DEF TypeOK, Handler
<1>2. [old EXCEPT !.rule = new.rule, !.active = new.active, !.next = new.next] \in Row
    BY <1>1 DEF Row
<1>3. [old EXCEPT !.active = ~old.active,
                  !.next = IF old.active THEN 0 ELSE new.next] \in Row
    <2>1. old.active \in BOOLEAN /\ 0 \in 0..MaxTime
        BY <1>1, NoRowTypes DEF Row
    <2>2. CASE old.active
        BY <1>1, <2>1, <2>2 DEF Row
    <2>3. CASE ~old.active
        BY <1>1, <2>1, <2>3 DEF Row
    <2>. QED BY <2>2, <2>3
<1>. QED BY <1>1, <1>2, <1>3 DEF Edited

LEMMA TypeEditCommit ==
    ASSUME TypeOK, NEW h \in Handlers, EditCommit(h) PROVE TypeOK'
<1>. DEFINE a == handler[h].on  old == handler[h].old  new == Edited(h)
            changed == [row[a] EXCEPT !.active = Written(@, old.active, new.active),
                                      !.rule   = Written(@, old.rule, new.rule),
                                      !.next   = Written(@, old.next, new.next)]
<1>1. new \in Row /\ old \in Row /\ row[a] \in Row /\ a \in Automations
    BY EditedTypes, DoneTypes
<1>2. changed \in Row
    BY <1>1 DEF Row, Written
<1>3. row' = row \/ row' = [row EXCEPT ![a] = changed]
    <2>1. row \in [Automations -> Row]
        BY DEF TypeOK
    <2>. QED BY <2>1, <1>1 DEF EditCommit
<1>4. row' \in [Automations -> Row]
    <2>1. row \in [Automations -> Row]
        BY DEF TypeOK
    <2>. HIDE DEF changed, a
    <2>. QED BY <2>1, <1>2, <1>3
<1>5. edits' \in [Automations -> Nat]
    BY DEF TypeOK, EditCommit
<1>6. handler' \in [Handlers -> Handler]
    BY DoneTypes, GoTypes DEF EditCommit
<1>. QED BY <1>4, <1>5, <1>6 DEF TypeOK, EditCommit, executions

LEMMA TypeDeleteRow ==
    ASSUME TypeOK, NEW h \in Handlers, DeleteRow(h) PROVE TypeOK'
<1>1. row' \in [Automations -> Row]
    BY DoneTypes DEF TypeOK, DeleteRow, Row
<1>2. handler' \in [Handlers -> Handler]
    BY DoneTypes, GoTypes DEF DeleteRow
<1>. QED BY <1>1, <1>2 DEF TypeOK, DeleteRow, schedule, executions

LEMMA TypeRunNow ==
    ASSUME TypeOK, NEW h \in Handlers, NEW a \in Automations, NEW i \in Instances,
           RunNow(h, a, i)
    PROVE  TypeOK'
<1>1. [Idle(a) EXCEPT !.pc = "done"] \in Handler
    BY SchedulerConstants, HandlerTypes DEF Handler
<1>2. handler' \in [Handlers -> Handler]
    BY <1>1, GoTypes DEF RunNow
<1>3. begun' \in [Automations -> Nat]
    BY DEF TypeOK, RunNow
<1>4. execs' \in [Instances -> [Automations -> [Stages -> Nat]]]
    BY DEF TypeOK, RunNow, Stages
<1>. QED BY <1>2, <1>3, <1>4 DEF TypeOK, RunNow, schedule

\* Every reachable state is well typed, on either dialect.
THEOREM TypeCorrect == Spec => []TypeOK
<1>1. TypeOK /\ [Next]_vars => TypeOK'
    <2>. SUFFICES ASSUME TypeOK, [Next]_vars PROVE TypeOK'
        OBVIOUS
    <2>1. CASE Tick
        BY <2>1, TypeTick
    <2>2. ASSUME NEW i \in Instances, Claim(i) \/ Crash(i) PROVE TypeOK'
        BY <2>2, TypeClaimSelect, TypeClaimCommit, TypeClaimRollback, TypeCrash DEF Claim
    <2>3. ASSUME NEW i \in Instances, NEW a \in Automations,
                 ChatCreated(i, a) \/ RecordRun(i, a)
          PROVE  TypeOK'
        BY <2>3, TypeExecution
    <2>4. ASSUME NEW h \in Handlers, Request(h) PROVE TypeOK'
        BY <2>4, TypeCreateCheck, TypeUpdateCompute, TypeToggleCompute, TypeDeleteRuns,
           TypeRunNow, TypeCreateInsert, TypeLoad, TypeEditCommit, TypeDeleteRow DEF Request
    <2>5. CASE UNCHANGED vars
        BY <2>5 DEF TypeOK, vars, schedule, executions
    <2>. QED BY <2>1, <2>2, <2>3, <2>4, <2>5 DEF Next
<1>. QED BY <1>1, TypeInit, PTL DEF Spec

-----------------------------------------------------------------------------
(* On PostgreSQL no moment is claimed twice.  A selected row is locked: it  *)
(* stays what the claim loaded, in one claim only.  The invariant counts,   *)
(* for the moment a row stands at, one claim less than for the others.      *)

Selected(a) == \E i \in Instances : a \in selected[i]

\* A selected row is due and as it was loaded, and no other claim has it.
SelectionOK(i) ==
    \A a \in selected[i] :
        /\ Due(a) /\ loaded[i][a] = row[a]
        /\ \A j \in Instances \ {i} : a \notin selected[j]

Selections == \A i \in Instances : SelectionOK(i)

\* An automation is inserted once, and only rows that exist are deleted.
RequestOK(h) ==
    /\ handler[h].pc = "checked" =>
          handler[h].op = "create" /\ row[handler[h].on].st = "new"
    /\ handler[h].pc = "delete" => row[handler[h].on].st # "new"
    /\ \A g \in Handlers \ {h} :
          handler[h].op = "create" /\ handler[g].op = "create" =>
              handler[g].on # handler[h].on

Requests == \A h \in Handlers : RequestOK(h)

\* A moment is claimed when it has come, at most once more than the schedule
\* was written again; the moment a row stands at has a claim to its credit.
ClaimsOK(a) ==
    \A t \in Moments :
        /\ claims[a][t] <= 1 + edits[a]
        /\ row[a].next = t => claims[a][t] <= edits[a]
        /\ claims[a][t] > 0 => t <= now

Claims == \A a \in Automations : ClaimsOK(a)

IInv == TypeOK /\ Selections /\ Requests /\ Claims

LEMMA IInvInit == Init => IInv
<1>. SUFFICES ASSUME Init PROVE IInv
    OBVIOUS
<1>1. TypeOK
    BY TypeInit
<1>2. Selections
    BY DEF Init, Selections, SelectionOK
<1>3. Requests
    BY DEF Init, Requests, RequestOK, Idle
<1>4. Claims
    BY DEF Init, Claims, ClaimsOK
<1>. QED BY <1>1, <1>2, <1>3, <1>4 DEF IInv

\* What the claims hold survives a step that leaves the selected rows alone.
LEMMA SelectionsKept ==
    ASSUME Selections, UNCHANGED <<now, selected, loaded>>,
           \A a \in Automations : Selected(a) => row'[a] = row[a],
           TypeOK
    PROVE  Selections'
<1>. SUFFICES ASSUME NEW i \in Instances, NEW a \in selected[i] PROVE
              /\ Due(a)' /\ loaded'[i][a] = row'[a]
              /\ \A j \in Instances \ {i} : a \notin selected'[j]
    BY DEF Selections, SelectionOK
<1>1. a \in Automations
    BY DEF TypeOK
<1>2. row'[a] = row[a]
    BY <1>1 DEF Selected
<1>3. /\ Due(a) /\ loaded[i][a] = row[a]
      /\ \A j \in Instances \ {i} : a \notin selected[j]
    BY DEF Selections, SelectionOK
<1>. QED BY <1>2, <1>3 DEF Due, Live

\* No claim is touched, and no row moves to another moment.
LEMMA ClaimsKept ==
    ASSUME Claims, UNCHANGED <<now, claims, edits>>,
           \A a \in Automations : row'[a].next = row[a].next
    PROVE  Claims'
BY DEF Claims, ClaimsOK

LEMMA TickKeeps == ASSUME IInv, Tick PROVE IInv'
<1>1. TypeOK'
    BY TypeTick DEF IInv
<1>2. now \in Nat /\ now' = now + 1
    BY DEF IInv, TypeOK, Tick
<1>3. Selections'
    <2>. SUFFICES ASSUME NEW i \in Instances, NEW a \in selected[i] PROVE
                  /\ Due(a)' /\ loaded[i][a] = row[a]
                  /\ \A j \in Instances \ {i} : a \notin selected[j]
        BY DEF Tick, Selections, SelectionOK
    <2>1. /\ Due(a) /\ loaded[i][a] = row[a] /\ row[a] \in Row
          /\ \A j \in Instances \ {i} : a \notin selected[j]
        BY DEF IInv, TypeOK, Selections, SelectionOK
    <2>. QED BY <1>2, <2>1 DEF Due, Live, Tick, Row
<1>4. Requests'
    BY DEF IInv, Requests, RequestOK, Tick
<1>5. Claims'
    <2>. SUFFICES ASSUME NEW a \in Automations, NEW t \in Moments, claims[a][t] > 0
                  PROVE  t <= now'
        BY DEF IInv, Claims, ClaimsOK, Tick, schedule
    <2>. QED BY <1>2, SchedulerConstants DEF IInv, Claims, ClaimsOK, Moments
<1>. QED BY <1>1, <1>3, <1>4, <1>5 DEF IInv

LEMMA ClaimSelectKeeps ==
    ASSUME Postgres, IInv, NEW i \in Instances, ClaimSelect(i) PROVE IInv'
<1>1. TypeOK'
    BY TypeClaimSelect DEF IInv
<1>2. PICK B \in SUBSET {a \in Automations : Claimable(a)} :
          /\ selected' = [selected EXCEPT ![i] = B]
          /\ loaded' = [loaded EXCEPT ![i] =
                           [a \in Automations |-> IF a \in B THEN row[a] ELSE NoRow]]
    BY DEF ClaimSelect
<1>3. UNCHANGED <<now, row, handler, claims, edits>>
    BY DEF ClaimSelect, schedule
<1>4. Selections'
    <2>1. /\ selected' = [j \in Instances |-> IF j = i THEN B ELSE selected[j]]
          /\ \A j \in Instances \ {i} : loaded'[j] = loaded[j]
          /\ \A a \in B : loaded'[i][a] = row[a]
        BY <1>2 DEF IInv, TypeOK
    <2>2. \A a \in B : Due(a) /\ \A j \in Instances : a \notin selected[j]
        BY <1>2 DEF Claimable, Locked
    <2>3. \A a \in Automations : Due(a)' <=> Due(a)
        BY <1>3 DEF Due, Live
    <2>4. SelectionOK(i)'
        BY <1>3, <2>1, <2>2, <2>3 DEF SelectionOK
    <2>5. ASSUME NEW j \in Instances \ {i} PROVE SelectionOK(j)'
        <3>1. SelectionOK(j) /\ selected[j] \subseteq Automations
            BY DEF IInv, Selections, TypeOK
        <3>. QED BY <3>1, <1>3, <2>1, <2>2, <2>3 DEF SelectionOK
    <2>. QED BY <2>4, <2>5 DEF Selections
<1>5. Requests'
    BY <1>3 DEF IInv, Requests, RequestOK
<1>6. Claims'
    BY <1>3, ClaimsKept DEF IInv
<1>. QED BY <1>1, <1>4, <1>5, <1>6 DEF IInv

\* What a commit does to a row it has selected, and to the others.
LEMMA CommitEffect ==
    ASSUME IInv, NEW i \in Instances, ClaimCommit(i), NEW a \in Automations
    PROVE  /\ a \in selected[i] =>
                 /\ Due(a) /\ row[a].next \in Moments /\ row[a].next <= now
                 /\ claims'[a] = [claims[a] EXCEPT ![row[a].next] = @ + 1]
                 /\ row'[a] = [row[a] EXCEPT !.next = NextRun(row[a].rule)]
           /\ a \notin selected[i] => row'[a] = row[a] /\ claims'[a] = claims[a]
<1>1. CASE a \in selected[i]
    <2>1. Due(a) /\ loaded[i][a] = row[a]
        BY <1>1 DEF IInv, Selections, SelectionOK
    <2>2. row[a].next \in 0..MaxTime /\ now \in 0..MaxTime
        BY DEF IInv, TypeOK, Row
    <2>3. row[a].next \in Moments /\ row[a].next <= now
        BY <2>1, <2>2, SchedulerConstants DEF Due, Moments
    <2>. QED BY <1>1, <2>1, <2>3 DEF ClaimCommit
<1>2. CASE a \notin selected[i]
    BY <1>2 DEF ClaimCommit
<1>. QED BY <1>1, <1>2

\* A claim that ends leaves the selections of the other instances.
LEMMA EndClaimKeeps ==
    ASSUME IInv, NEW i \in Instances, EndClaim(i), now' = now,
           \A a \in Automations \ selected[i] : row'[a] = row[a]
    PROVE  Selections'
<1>1. /\ selected' = [j \in Instances |-> IF j = i THEN {} ELSE selected[j]]
      /\ \A j \in Instances \ {i} : loaded'[j] = loaded[j]
    BY DEF IInv, TypeOK, EndClaim
<1>2. SelectionOK(i)'
    BY <1>1 DEF SelectionOK
<1>3. ASSUME NEW j \in Instances \ {i}, NEW a \in selected[j]
      PROVE  /\ Due(a)' /\ loaded'[j][a] = row'[a]
             /\ \A k \in Instances \ {j} : a \notin selected'[k]
    <2>1. a \in Automations
        BY DEF IInv, TypeOK
    <2>2. /\ Due(a) /\ loaded[j][a] = row[a]
          /\ \A k \in Instances \ {j} : a \notin selected[k]
        BY DEF IInv, Selections, SelectionOK
    <2>3. row'[a] = row[a]
        BY <2>1, <2>2
    <2>. QED BY <1>1, <2>2, <2>3 DEF Due, Live
<1>4. ASSUME NEW j \in Instances \ {i} PROVE SelectionOK(j)'
    BY <1>1, <1>3 DEF SelectionOK
<1>. QED BY <1>2, <1>4 DEF Selections

LEMMA ClaimCommitKeeps ==
    ASSUME IInv, NEW i \in Instances, ClaimCommit(i) PROVE IInv'
<1>1. TypeOK'
    BY TypeClaimCommit DEF IInv
<1>2. UNCHANGED <<now, handler, edits>>
    BY DEF ClaimCommit
<1>3. Selections'
    BY <1>2, EndClaimKeeps, CommitEffect DEF ClaimCommit
<1>4. Requests'
    <2>1. ASSUME NEW a \in Automations PROVE row'[a].st = row[a].st
        <3>1. row[a] \in Row
            BY DEF IInv, TypeOK
        <3>2. row'[a] = row[a] \/ row'[a] = [row[a] EXCEPT !.next = NextRun(row[a].rule)]
            BY CommitEffect
        <3>. QED BY <3>1, <3>2 DEF Row
    <2>2. \A h \in Handlers : handler[h].on \in Automations
        BY DoneTypes DEF IInv
    <2>. QED BY <1>2, <2>1, <2>2 DEF IInv, Requests, RequestOK
<1>5. ASSUME NEW a \in Automations PROVE ClaimsOK(a)'
    <2>1. ClaimsOK(a) /\ claims[a] \in [Moments -> Nat] /\ edits[a] \in Nat
        BY DEF IInv, Claims, TypeOK
    <2>2. CASE a \in selected[i]
        <3>. DEFINE new == NextRun(row[a].rule)
        <3>1. /\ row[a].next \in Moments /\ row[a].next <= now
              /\ \A t \in Moments : claims'[a][t] =
                    IF t = row[a].next THEN claims[a][t] + 1 ELSE claims[a][t]
              /\ row'[a].next = new
            <4>1. /\ row[a].next \in Moments /\ row[a].next <= now
                  /\ claims'[a] = [claims[a] EXCEPT ![row[a].next] = @ + 1]
                  /\ row'[a] = [row[a] EXCEPT !.next = new]
                BY <2>2, CommitEffect
            <4>2. row[a] \in Row
                BY DEF IInv, TypeOK
            <4>3. row'[a].next = new
                BY <4>1, <4>2 DEF Row
            <4>. QED BY <2>1, <4>1, <4>3
        <3>2. row[a].rule \in Rules /\ now \in 0..MaxTime
            BY DEF IInv, TypeOK, Row
        <3>3. new # 0 => new > now
            BY <3>2, NextRunIsLater
        <3>4. \A t \in Moments : t = new => claims[a][t] = 0 /\ t # row[a].next
            BY <2>1, <3>1, <3>2, <3>3, SchedulerConstants DEF ClaimsOK, Moments
        <3>5. ASSUME NEW t \in Moments
              PROVE  /\ claims'[a][t] <= 1 + edits[a]
                     /\ row'[a].next = t => claims'[a][t] <= edits[a]
                     /\ claims'[a][t] > 0 => t <= now
            BY <2>1, <3>1, <3>4 DEF ClaimsOK
        <3>. QED BY <1>2, <3>5 DEF ClaimsOK
    <2>3. CASE a \notin selected[i]
        BY <1>2, <2>1, <2>3, CommitEffect DEF ClaimsOK
    <2>. QED BY <2>2, <2>3
<1>6. Claims'
    BY <1>5 DEF Claims
<1>. QED BY <1>1, <1>3, <1>4, <1>6 DEF IInv

LEMMA EndKeeps ==
    ASSUME IInv, NEW i \in Instances, ClaimRollback(i) \/ Crash(i) PROVE IInv'
<1>1. TypeOK'
    BY TypeClaimRollback, TypeCrash DEF IInv
<1>2. UNCHANGED <<now, row, handler, claims, edits>> /\ EndClaim(i)
    BY DEF ClaimRollback, Crash, schedule
<1>3. Selections'
    BY <1>2, EndClaimKeeps
<1>4. Requests'
    BY <1>2 DEF IInv, Requests, RequestOK
<1>5. Claims'
    BY <1>2, ClaimsKept DEF IInv
<1>. QED BY <1>1, <1>3, <1>4, <1>5 DEF IInv

LEMMA ExecutionKeeps ==
    ASSUME IInv, NEW i \in Instances, NEW a \in Automations,
           ChatCreated(i, a) \/ RecordRun(i, a)
    PROVE  IInv'
<1>1. TypeOK'
    BY TypeExecution DEF IInv
<1>2. UNCHANGED <<now, row, selected, loaded, handler, claims, edits>>
    BY DEF ChatCreated, RecordRun, schedule
<1>3. Selections'
    BY <1>2, SelectionsKept DEF IInv
<1>4. Requests'
    BY <1>2 DEF IInv, Requests, RequestOK
<1>5. Claims'
    BY <1>2, ClaimsKept DEF IInv
<1>. QED BY <1>1, <1>3, <1>4, <1>5 DEF IInv

\* Steps of a request that neither create nor delete nor write a row.
LEMMA RequestOnlyKeeps ==
    ASSUME IInv, NEW h \in Handlers, NEW next \in Handler, Go(h, next),
           UNCHANGED <<now, row, selected, loaded, claims, edits>>, TypeOK',
           next.pc # "checked",
           next.op = "create" => handler[h].op = "create" /\ next.on = handler[h].on,
           next.pc = "delete" => row[next.on].st # "new"
    PROVE  IInv'
<1>1. Selections'
    BY SelectionsKept DEF IInv
<1>2. Claims'
    BY ClaimsKept DEF IInv
<1>3. handler' = [g \in Handlers |-> IF g = h THEN next ELSE handler[g]]
    BY DEF Go, IInv, TypeOK
<1>4. RequestOK(h)'
    <2>1. RequestOK(h)
        BY DEF IInv, Requests
    <2>. QED BY <1>3, <2>1 DEF RequestOK
<1>5. ASSUME NEW g \in Handlers \ {h} PROVE RequestOK(g)'
    <2>1. RequestOK(g)
        BY DEF IInv, Requests
    <2>. QED BY <1>3, <2>1 DEF RequestOK
<1>. QED BY <1>1, <1>2, <1>4, <1>5 DEF IInv, Requests

LEMMA ComputeKeeps ==
    ASSUME IInv, NEW h \in Handlers, NEW a \in Automations, NEW rule \in Rules,
           NEW active \in BOOLEAN,
           UpdateCompute(h, a, rule, active) \/ ToggleCompute(h, a) \/ DeleteRuns(h, a)
    PROVE  IInv'
<1>1. TypeOK'
    BY TypeUpdateCompute, TypeToggleCompute, TypeDeleteRuns DEF IInv
<1>. DEFINE next == handler'[h]
<1>2. next \in Handler /\ Go(h, next) /\ UNCHANGED <<now, row, selected, loaded, claims, edits>>
    BY <1>1 DEF IInv, TypeOK, UpdateCompute, ToggleCompute, DeleteRuns, Go, OnlyHandler, schedule
<1>3. /\ next.pc \in {"computed", "delete"} /\ next.op # "create"
      /\ next.pc = "delete" => next.on = a /\ Live(a)
    <2>1. handler \in [Handlers -> Handler]
        BY DEF IInv, TypeOK
    <2>2. CASE UpdateCompute(h, a, rule, active)
        BY <2>1, <2>2 DEF UpdateCompute, Go, Idle
    <2>3. CASE ToggleCompute(h, a)
        BY <2>1, <2>3 DEF ToggleCompute, Go, Idle
    <2>4. CASE DeleteRuns(h, a)
        BY <2>1, <2>4 DEF DeleteRuns, Go, Idle
    <2>. QED BY <2>2, <2>3, <2>4
<1>. HIDE DEF next
<1>. QED BY <1>1, <1>2, <1>3, RequestOnlyKeeps DEF Live

LEMMA LoadKeeps == ASSUME IInv, NEW h \in Handlers, Load(h) PROVE IInv'
<1>1. TypeOK'
    BY TypeLoad DEF IInv
<1>. DEFINE next == handler'[h]
<1>2. next \in Handler /\ Go(h, next) /\ UNCHANGED <<now, row, selected, loaded, claims, edits>>
    BY <1>1 DEF IInv, TypeOK, Load, Go, OnlyHandler, schedule
<1>3. /\ next.pc \in {"loaded", "done"}
      /\ next.op = handler[h].op /\ next.on = handler[h].on
    BY DoneTypes DEF IInv, TypeOK, Load, Go, Handler
<1>. HIDE DEF next
<1>. QED BY <1>1, <1>2, <1>3, RequestOnlyKeeps

LEMMA RunNowKeeps ==
    ASSUME IInv, NEW h \in Handlers, NEW a \in Automations, NEW i \in Instances, RunNow(h, a, i)
    PROVE  IInv'
<1>1. TypeOK'
    BY TypeRunNow DEF IInv
<1>. DEFINE next == handler'[h]
<1>2. next \in Handler /\ Go(h, next) /\ UNCHANGED <<now, row, selected, loaded, claims, edits>>
    BY <1>1 DEF IInv, TypeOK, RunNow, Go, schedule
<1>3. next.pc = "done" /\ next.op = "none"
    BY DEF IInv, TypeOK, RunNow, Go, Idle
<1>. HIDE DEF next
<1>. QED BY <1>1, <1>2, <1>3, RequestOnlyKeeps

LEMMA CreateCheckKeeps ==
    ASSUME IInv, NEW h \in Handlers, NEW a \in Automations, NEW rule \in Rules,
           CreateCheck(h, a, rule)
    PROVE  IInv'
<1>1. TypeOK'
    BY TypeCreateCheck DEF IInv
<1>2. UNCHANGED <<now, row, selected, loaded, claims, edits>>
    BY DEF CreateCheck, OnlyHandler, schedule
<1>3. Selections'
    BY <1>2, SelectionsKept DEF IInv
<1>4. Claims'
    BY <1>2, ClaimsKept DEF IInv
<1>5. /\ handler'[h].pc = "checked" /\ handler'[h].op = "create" /\ handler'[h].on = a
      /\ \A g \in Handlers \ {h} : handler'[g] = handler[g]
    BY DEF IInv, TypeOK, CreateCheck, Go, Idle
<1>6. row[a].st = "new" /\ \A g \in Handlers : handler[g].op = "create" => handler[g].on # a
    BY DEF CreateCheck
<1>7. ASSUME NEW g \in Handlers PROVE RequestOK(g)'
    <2>1. RequestOK(g)
        BY DEF IInv, Requests
    <2>. QED BY <1>2, <1>5, <1>6, <2>1 DEF RequestOK
<1>. QED BY <1>1, <1>3, <1>4, <1>7 DEF IInv, Requests

\* What a request does to its record when it commits.
LEMMA DoneEffect ==
    ASSUME TypeOK, NEW h \in Handlers, Go(h, [handler[h] EXCEPT !.pc = "done"])
    PROVE  /\ handler'[h].pc = "done"
           /\ \A g \in Handlers : /\ handler'[g].op = handler[g].op
                                  /\ handler'[g].on = handler[g].on
                                  /\ g # h => handler'[g] = handler[g]
BY DoneTypes DEF TypeOK, Go, Handler

LEMMA CreateInsertKeeps ==
    ASSUME IInv, NEW h \in Handlers, CreateInsert(h) PROVE IInv'
<1>. DEFINE a == handler[h].on
            new == NextRun(handler[h].rule)
<1>1. TypeOK'
    BY TypeCreateInsert DEF IInv
<1>2. UNCHANGED <<now, selected, loaded, claims, edits>>
    BY DEF CreateInsert, schedule
<1>3. /\ a \in Automations /\ handler[h].op = "create" /\ row[a].st = "new"
      /\ handler[h].pc = "checked"
    BY DoneTypes DEF IInv, CreateInsert, Requests, RequestOK
<1>4. /\ row'[a].st = "live" /\ row'[a].next = new
      /\ \A b \in Automations \ {a} : row'[b] = row[b]
    BY <1>3 DEF IInv, TypeOK, CreateInsert
<1>5. Selections'
    <2>1. ~Selected(a)
        BY <1>3 DEF IInv, Selections, SelectionOK, Selected, Due, Live
    <2>. QED BY <1>2, <1>4, <2>1, SelectionsKept DEF IInv
<1>6. handler'[h].pc = "done" /\ \A g \in Handlers :
          /\ handler'[g].op = handler[g].op /\ handler'[g].on = handler[g].on
          /\ g # h => handler'[g] = handler[g]
    BY DoneEffect DEF IInv, CreateInsert
<1>7. ASSUME NEW g \in Handlers PROVE RequestOK(g)'
    <2>1. RequestOK(g) /\ handler[g].on \in Automations
        BY DoneTypes DEF IInv, Requests
    <2>2. g # h /\ handler[g].op = "create" => handler[g].on # a
        BY <1>3 DEF IInv, Requests, RequestOK
    <2>. HIDE DEF a
    <2>. QED BY <1>4, <1>6, <2>1, <2>2 DEF RequestOK
<1>8. ASSUME NEW b \in Automations PROVE ClaimsOK(b)'
    <2>1. ClaimsOK(b) /\ claims[b] \in [Moments -> Nat] /\ edits[b] \in Nat
        BY DEF IInv, Claims, TypeOK
    <2>2. CASE b = a
        <3>1. now \in 0..MaxTime /\ handler[h].rule \in Rules
            BY DEF IInv, TypeOK, Handler
        <3>2. new # 0 => new > now
            BY <3>1, NextRunIsLater
        <3>3. \A t \in Moments : t = new => claims[b][t] = 0
            BY <2>1, <3>1, <3>2, SchedulerConstants DEF ClaimsOK, Moments
        <3>. HIDE DEF a, new
        <3>. QED BY <1>2, <1>4, <2>1, <2>2, <3>3 DEF ClaimsOK
    <2>3. CASE b # a
        BY <1>2, <1>4, <2>1, <2>3 DEF ClaimsOK
    <2>. QED BY <2>2, <2>3
<1>. QED BY <1>1, <1>5, <1>7, <1>8 DEF IInv, Requests, Claims

LEMMA EditCommitKeeps ==
    ASSUME Postgres, IInv, NEW h \in Handlers, EditCommit(h) PROVE IInv'
<1>. DEFINE a == handler[h].on  old == handler[h].old  new == Edited(h)
<1>1. TypeOK'
    BY TypeEditCommit DEF IInv
<1>2. UNCHANGED <<now, selected, loaded, claims>>
    BY DEF EditCommit
<1>3. a \in Automations /\ row \in [Automations -> Row] /\ edits \in [Automations -> Nat]
    BY DoneTypes DEF IInv, TypeOK
<1>4. /\ \A b \in Automations \ {a} : row'[b] = row[b] /\ edits'[b] = edits[b]
      /\ row'[a].st = row[a].st
      /\ \/ row'[a].next = row[a].next /\ edits'[a] = edits[a]
         \/ edits'[a] = edits[a] + 1
    <2>1. CASE Live(a)
        <3>1. /\ row' = [row EXCEPT ![a].active = Written(@, old.active, new.active),
                                    ![a].rule   = Written(@, old.rule, new.rule),
                                    ![a].next   = Written(@, old.next, new.next)]
              /\ edits' = [edits EXCEPT ![a] = IF new.next = old.next THEN @ ELSE @ + 1]
            BY <2>1 DEF EditCommit
        <3>2. row[a] \in Row /\ edits[a] \in Nat
            BY <1>3
        <3>3. /\ \A b \in Automations \ {a} : row'[b] = row[b] /\ edits'[b] = edits[b]
              /\ row'[a].st = row[a].st /\ row'[a].next = Written(row[a].next, old.next, new.next)
              /\ edits'[a] = IF new.next = old.next THEN edits[a] ELSE edits[a] + 1
            <4>. HIDE DEF a, old, new
            <4>. QED BY <1>3, <3>1, <3>2 DEF Row
        <3>. QED BY <3>3 DEF Written
    <2>2. CASE ~Live(a)
        BY <2>2 DEF EditCommit
    <2>. QED BY <2>1, <2>2
<1>5. Selections'
    <2>1. ~Selected(a)
        BY DEF EditCommit, Locked, Selected
    <2>. QED BY <1>2, <1>4, <2>1, SelectionsKept DEF IInv
<1>6. handler'[h].pc = "done" /\ \A g \in Handlers :
          /\ handler'[g].op = handler[g].op /\ handler'[g].on = handler[g].on
          /\ g # h => handler'[g] = handler[g]
    BY DoneEffect DEF IInv, EditCommit
<1>7. ASSUME NEW g \in Handlers PROVE RequestOK(g)'
    <2>1. RequestOK(g) /\ handler[g].on \in Automations
        BY DoneTypes DEF IInv, Requests
    <2>2. row'[handler[g].on].st = row[handler[g].on].st
        BY <1>4, <2>1
    <2>3. \A k \in Handlers \ {g} :
              handler[g].op = "create" /\ handler[k].op = "create" => handler[k].on # handler[g].on
        BY <2>1 DEF RequestOK
    <2>. QED BY <1>6, <2>1, <2>2, <2>3 DEF RequestOK
<1>8. ASSUME NEW b \in Automations PROVE ClaimsOK(b)'
    <2>1. ClaimsOK(b) /\ claims[b] \in [Moments -> Nat] /\ edits[b] \in Nat
        BY DEF IInv, Claims, TypeOK
    <2>2. CASE b = a
        <3>. HIDE DEF a
        <3>. QED BY <1>2, <1>4, <2>1, <2>2 DEF ClaimsOK
    <2>3. CASE b # a
        BY <1>2, <1>4, <2>1, <2>3 DEF ClaimsOK
    <2>. QED BY <2>2, <2>3
<1>. QED BY <1>1, <1>5, <1>7, <1>8 DEF IInv, Requests, Claims

LEMMA DeleteRowKeeps ==
    ASSUME Postgres, IInv, NEW h \in Handlers, DeleteRow(h) PROVE IInv'
<1>. DEFINE a == handler[h].on
<1>1. TypeOK'
    BY TypeDeleteRow DEF IInv
<1>2. UNCHANGED <<now, selected, loaded, claims, edits>>
    BY DEF DeleteRow, schedule
<1>3. /\ a \in Automations /\ row[a] \in Row /\ handler[h].pc = "delete"
      /\ row[a].st # "new"
    BY DoneTypes DEF IInv, DeleteRow, Requests, RequestOK
<1>4. /\ row'[a].st = "deleted" /\ row'[a].next = row[a].next
      /\ \A b \in Automations \ {a} : row'[b] = row[b]
    BY <1>3 DEF IInv, TypeOK, DeleteRow, Row
<1>5. Selections'
    <2>1. ~Selected(a)
        BY DEF DeleteRow, Locked, Selected
    <2>. QED BY <1>2, <1>4, <2>1, SelectionsKept DEF IInv
<1>6. handler'[h].pc = "done" /\ \A g \in Handlers :
          /\ handler'[g].op = handler[g].op /\ handler'[g].on = handler[g].on
          /\ g # h => handler'[g] = handler[g]
    BY DoneEffect DEF IInv, DeleteRow
<1>7. ASSUME NEW g \in Handlers PROVE RequestOK(g)'
    <2>1. RequestOK(g) /\ handler[g].on \in Automations
        BY DoneTypes DEF IInv, Requests
    <2>. HIDE DEF a
    <2>. QED BY <1>3, <1>4, <1>6, <2>1 DEF RequestOK
<1>8. Claims'
    <2>1. \A b \in Automations : row'[b].next = row[b].next
        BY <1>4
    <2>. QED BY <1>2, <2>1, ClaimsKept DEF IInv
<1>. QED BY <1>1, <1>5, <1>7, <1>8 DEF IInv, Requests

LEMMA StutterKeeps == ASSUME IInv, UNCHANGED vars PROVE IInv'
<1>1. UNCHANGED <<now, row, selected, loaded, handler, claims, edits>>
    BY DEF vars, schedule
<1>2. TypeOK'
    BY DEF IInv, TypeOK, vars, schedule, executions
<1>3. Selections'
    BY <1>1, SelectionsKept DEF IInv
<1>4. Requests'
    BY <1>1 DEF IInv, Requests, RequestOK
<1>5. Claims'
    BY <1>1, ClaimsKept DEF IInv
<1>. QED BY <1>2, <1>3, <1>4, <1>5 DEF IInv

LEMMA NextKeeps == ASSUME Postgres, IInv, [Next]_vars PROVE IInv'
<1>1. CASE Tick
    BY <1>1, TickKeeps
<1>2. ASSUME NEW i \in Instances, Claim(i) \/ Crash(i) PROVE IInv'
    BY <1>2, ClaimSelectKeeps, ClaimCommitKeeps, EndKeeps DEF Claim
<1>3. ASSUME NEW i \in Instances, NEW a \in Automations,
             ChatCreated(i, a) \/ RecordRun(i, a)
      PROVE  IInv'
    BY <1>3, ExecutionKeeps
<1>4. ASSUME NEW h \in Handlers, Request(h) PROVE IInv'
    <2>1. ASSUME NEW a \in Automations, NEW rule \in Rules,
                 \/ CreateCheck(h, a, rule)
                 \/ \E active \in BOOLEAN : UpdateCompute(h, a, rule, active)
          PROVE  IInv'
        BY <2>1, CreateCheckKeeps, ComputeKeeps
    <2>2. ASSUME NEW a \in Automations, ToggleCompute(h, a) \/ DeleteRuns(h, a)
          PROVE  IInv'
        BY <2>2, ComputeKeeps, NoRowTypes
    <2>3. ASSUME NEW a \in Automations, NEW i \in Instances, RunNow(h, a, i)
          PROVE  IInv'
        BY <2>3, RunNowKeeps
    <2>4. CASE CreateInsert(h) \/ Load(h) \/ EditCommit(h) \/ DeleteRow(h)
        BY <2>4, CreateInsertKeeps, LoadKeeps, EditCommitKeeps, DeleteRowKeeps
    <2>. QED BY <1>4, <2>1, <2>2, <2>3, <2>4 DEF Request
<1>. QED BY <1>1, <1>2, <1>3, <1>4, StutterKeeps DEF Next

\* On PostgreSQL a moment of a schedule is claimed once, by whichever
\* instance, and again only for a user who wrote the schedule again.
THEOREM NoDoubleClaim == ASSUME Postgres PROVE Spec => []OncePerSchedule
<1>1. IInv /\ [Next]_vars => IInv'
    BY NextKeeps
<1>2. IInv => OncePerSchedule
    BY DEF IInv, Claims, ClaimsOK, OncePerSchedule
<1>. QED BY <1>1, <1>2, IInvInit, PTL DEF Spec

\* Nothing but the commit of a claim executes scheduled automations.
LEMMA OnlyCommitsClaim ==
    ASSUME Next, claims' # claims PROVE \E i \in Instances : ClaimCommit(i)
<1>1. ASSUME NEW h \in Handlers, Request(h) PROVE claims' = claims
    BY <1>1 DEF Request, CreateCheck, UpdateCompute, ToggleCompute, DeleteRuns, RunNow,
       CreateInsert, Load, EditCommit, DeleteRow, OnlyHandler, schedule
<1>2. ASSUME NEW i \in Instances, NEW a \in Automations,
             ChatCreated(i, a) \/ RecordRun(i, a)
      PROVE  claims' = claims
    BY <1>2 DEF ChatCreated, RecordRun, schedule
<1>3. ASSUME NEW i \in Instances, ClaimSelect(i) \/ ClaimRollback(i) \/ Crash(i)
      PROVE  claims' = claims
    BY <1>3 DEF ClaimSelect, ClaimRollback, Crash, schedule
<1>4. Tick => claims' = claims
    BY DEF Tick, schedule
<1>. QED BY <1>1, <1>2, <1>3, <1>4 DEF Next, Claim

\* On PostgreSQL a claim executes what the table says when it commits,
\* however long ago it selected the row.
THEOREM NoStaleClaim == ASSUME Postgres PROVE Spec => ClaimsAreCurrent
<1>. DEFINE Current ==
          \A a \in Automations : claims'[a] # claims[a] =>
              /\ Due(a)
              /\ claims'[a] = [claims[a] EXCEPT ![row[a].next] = @ + 1]
              /\ row'[a].rule = row[a].rule
<1>1. IInv /\ [Next]_vars => [Current]_vars
    <2>. SUFFICES ASSUME IInv, Next, NEW a \in Automations, claims'[a] # claims[a]
                  PROVE  /\ Due(a)
                         /\ claims'[a] = [claims[a] EXCEPT ![row[a].next] = @ + 1]
                         /\ row'[a].rule = row[a].rule
        OBVIOUS
    <2>1. PICK i \in Instances : ClaimCommit(i)
        BY OnlyCommitsClaim
    <2>2. /\ Due(a)
          /\ claims'[a] = [claims[a] EXCEPT ![row[a].next] = @ + 1]
          /\ row'[a] = [row[a] EXCEPT !.next = NextRun(row[a].rule)]
        BY <2>1, CommitEffect
    <2>3. row[a] \in Row
        BY DEF IInv, TypeOK
    <2>. QED BY <2>2, <2>3 DEF Row
<1>2. IInv /\ [Next]_vars => IInv'
    BY NextKeeps
<1>. QED BY <1>1, <1>2, IInvInit, PTL DEF Spec, ClaimsAreCurrent

\* On either dialect no deleted automation is executed by the scheduler.
THEOREM NoClaimOfDeleted == Spec => DeletedIsNotClaimed
<1>. DEFINE OnlyLive == \A a \in Automations : claims'[a] # claims[a] => Live(a)
<1>1. TypeOK /\ [Next]_vars => [OnlyLive]_vars
    <2>. SUFFICES ASSUME TypeOK, Next, NEW a \in Automations, claims'[a] # claims[a]
                  PROVE  Live(a)
        OBVIOUS
    <2>1. PICK i \in Instances : ClaimCommit(i)
        BY OnlyCommitsClaim
    <2>2. a \in selected[i]
        BY <2>1 DEF ClaimCommit
    <2>. QED BY <2>1, <2>2 DEF ClaimCommit, AllMatched
<1>. QED BY <1>1, TypeCorrect, PTL DEF Spec, DeletedIsNotClaimed

-----------------------------------------------------------------------------
(* Refinement: on PostgreSQL the transactions implement AtomicClaims.       *)

\* NextRun is the one AtomicClaims allows.
LEMMA NextRunIsNext ==
    ASSUME now \in 0..MaxTime, NEW rule \in Rules
    PROVE  Atomic!IsNextRun(rule, NextRun(rule))
<1>. DEFINE later == {t \in rule : t > now}
<1>1. MaxTime \in Nat /\ \A t \in rule : t \in Nat
    BY SchedulerConstants
<1>2. CASE later = {}
    <2>1. \A u \in rule : u <= now
        BY <1>1, <1>2
    <2>. QED BY <1>2, <2>1 DEF NextRun, Atomic!IsNextRun
<1>3. CASE later # {}
    <2>1. later \in SUBSET Nat
        BY <1>1
    <2>2. \E x \in later : \A y \in later : x <= y
        BY <2>1, <1>3, LeastExists
    <2>3. Min(later) \in later /\ \A y \in later : Min(later) <= y
        BY <2>2 DEF Min
    <2>4. NextRun(rule) = Min(later)
        BY <1>3 DEF NextRun
    <2>. QED BY <2>3, <2>4 DEF Atomic!IsNextRun
<1>. QED BY <1>2, <1>3

\* The commit of a claim is the atomic claim of what it has selected.
LEMMA CommitIsClaim ==
    ASSUME IInv, NEW i \in Instances, ClaimCommit(i)
    PROVE  Atomic!Claim(selected[i])
<1>. DEFINE S == selected[i]
            next == [a \in S |-> NextRun(row[a].rule)]
<1>1. S \subseteq Automations /\ now \in 0..MaxTime /\ MaxTime \in Nat
    BY SchedulerConstants DEF IInv, TypeOK
<1>2. \A a \in S : row[a].rule \in Rules /\ row[a] \in Row
    BY <1>1 DEF IInv, TypeOK, Row
<1>3. \A a \in S : Due(a) /\ loaded[i][a] = row[a]
    BY DEF IInv, Selections, SelectionOK
<1>4. \A a \in S : Atomic!Due(a)
    BY <1>1, <1>2, <1>3 DEF Due, Live, Atomic!Due, Row
<1>5. next \in [S -> 0..MaxTime]
    BY <1>1, <1>2, NextRunIsLater
<1>6. \A a \in S : Atomic!IsNextRun(row[a].rule, next[a])
    BY <1>1, <1>2, NextRunIsNext
<1>7. row' = [a \in Automations |->
                 IF a \in S THEN [row[a] EXCEPT !.next = next[a]] ELSE row[a]]
    BY <1>1, <1>3 DEF ClaimCommit
<1>8. claims' = [a \in Automations |->
                    IF a \in S THEN [claims[a] EXCEPT ![row[a].next] = @ + 1]
                               ELSE claims[a]]
    BY <1>3 DEF ClaimCommit
<1>9. now' = now
    BY DEF ClaimCommit
<1>. HIDE DEF S, next
<1>10. \E n \in [S -> 0..MaxTime] :
          /\ \A a \in S : Atomic!IsNextRun(row[a].rule, n[a])
          /\ row' = [a \in Automations |->
                        IF a \in S THEN [row[a] EXCEPT !.next = n[a]] ELSE row[a]]
    BY <1>5, <1>6, <1>7
<1>11. Atomic!Claim(S)
    BY <1>4, <1>8, <1>9, <1>10, Zenon DEF Atomic!Claim
<1>. QED BY <1>11 DEF S

\* What a request commits is the write of one row.
LEMMA CommitIsWrite ==
    ASSUME IInv, NEW h \in Handlers,
           CreateInsert(h) \/ EditCommit(h) \/ DeleteRow(h)
    PROVE  Atomic!Write(handler[h].on) \/ UNCHANGED Atomic!vars
<1>. DEFINE a == handler[h].on
<1>1. /\ a \in Automations /\ row \in [Automations -> Row] /\ row[a] \in Row
      /\ row' \in [Automations -> Row]
    BY DoneTypes, TypeCreateInsert, TypeEditCommit, TypeDeleteRow DEF IInv, TypeOK
<1>2. UNCHANGED <<now, claims>>
    BY DEF CreateInsert, EditCommit, DeleteRow, schedule
<1>3. \/ row' = row
      \/ row' = [row EXCEPT ![a] = row'[a]] /\ row'[a].st \in Atomic!Follows(row[a].st)
    <2>1. CASE CreateInsert(h)
        <3>1. row[a].st = "new" /\ row'[a].st = "live"
            BY <1>1, <2>1 DEF IInv, Requests, RequestOK, CreateInsert
        <3>2. row' = [row EXCEPT ![a] = row'[a]]
            BY <1>1, <2>1 DEF CreateInsert
        <3>. QED BY <3>1, <3>2 DEF Atomic!Follows
    <2>2. CASE EditCommit(h)
        <3>1. CASE Live(a)
            <4>1. PICK r : row' = [row EXCEPT ![a] = r] /\ r.st = row[a].st
                BY <1>1, <2>2, <3>1 DEF EditCommit, Row
            <4>2. row'[a] = r /\ row'[a].st = "live" /\ row[a].st = "live"
                BY <1>1, <3>1, <4>1 DEF Live
            <4>3. row'[a].st \in Atomic!Follows(row[a].st)
                BY <4>2 DEF Atomic!Follows
            <4>. QED BY <4>1, <4>2, <4>3, Zenon
        <3>2. CASE ~Live(a)
            BY <2>2, <3>2 DEF EditCommit
        <3>. QED BY <3>1, <3>2
    <2>3. CASE DeleteRow(h)
        <3>1. row[a].st \in {"live", "deleted"}
            BY <1>1, <2>3 DEF IInv, Requests, RequestOK, DeleteRow, Row
        <3>2. row' = [row EXCEPT ![a] = row'[a]] /\ row'[a].st = "deleted"
            BY <1>1, <2>3 DEF DeleteRow, Row
        <3>. QED BY <3>1, <3>2 DEF Atomic!Follows
    <2>. QED BY <2>1, <2>2, <2>3
<1>4. row'[a] \in Atomic!Row
    BY <1>1 DEF Row, Atomic!Row
<1>. HIDE DEF a
<1>5. Atomic!Write(a) \/ UNCHANGED Atomic!vars
    BY <1>2, <1>3, <1>4 DEF Atomic!Write, Atomic!vars
<1>. QED BY <1>5 DEF a

\* Every step is an atomic claim, the write of one row, a tick, or none of
\* the table's business.
LEMMA NextRefines ==
    ASSUME Postgres, IInv, [Next]_vars PROVE [Atomic!Next]_(Atomic!vars)
<1>1. CASE Tick
    BY <1>1 DEF Tick, schedule, Atomic!Tick, Atomic!Next
<1>2. ASSUME NEW i \in Instances, Claim(i) \/ Crash(i)
      PROVE  [Atomic!Next]_(Atomic!vars)
    <2>1. CASE ClaimCommit(i)
        <3>1. selected[i] \in SUBSET Automations
            BY DEF IInv, TypeOK
        <3>. QED BY <2>1, <3>1, CommitIsClaim DEF Atomic!Next
    <2>2. CASE ClaimSelect(i) \/ ClaimRollback(i) \/ Crash(i)
        BY <2>2 DEF ClaimSelect, ClaimRollback, Crash, schedule, Atomic!vars
    <2>. QED BY <1>2, <2>1, <2>2 DEF Claim
<1>3. ASSUME NEW i \in Instances, NEW a \in Automations,
             ChatCreated(i, a) \/ RecordRun(i, a)
      PROVE  [Atomic!Next]_(Atomic!vars)
    BY <1>3 DEF ChatCreated, RecordRun, schedule, Atomic!vars
<1>4. ASSUME NEW h \in Handlers, Request(h) PROVE [Atomic!Next]_(Atomic!vars)
    <2>1. CASE CreateInsert(h) \/ EditCommit(h) \/ DeleteRow(h)
        <3>1. handler[h].on \in Automations
            BY DoneTypes DEF IInv
        <3>. QED BY <2>1, <3>1, CommitIsWrite DEF Atomic!Next
    <2>2. CASE ~(CreateInsert(h) \/ EditCommit(h) \/ DeleteRow(h))
        BY <1>4, <2>2 DEF Request, CreateCheck, UpdateCompute, ToggleCompute, DeleteRuns,
           RunNow, Load, OnlyHandler, schedule, Atomic!vars
    <2>. QED BY <2>1, <2>2
<1>5. CASE UNCHANGED vars
    BY <1>5 DEF vars, schedule, Atomic!vars
<1>. QED BY <1>1, <1>2, <1>3, <1>4, <1>5 DEF Next

\* On PostgreSQL all instances together claim as one would in single steps.
THEOREM AtomicOnPostgres == ASSUME Postgres PROVE Spec => ImplementsAtomicClaims
<1>1. Init => Atomic!Init
    <2>. SUFFICES ASSUME Init PROVE Atomic!Init
        OBVIOUS
    <2>1. row \in [Automations -> Atomic!Row]
        BY TypeInit DEF TypeOK, Row, Atomic!Row
    <2>. QED BY <2>1 DEF Init, Moments, Atomic!Init
<1>2. IInv /\ [Next]_vars => IInv'
    BY NextKeeps
<1>3. IInv /\ [Next]_vars => [Atomic!Next]_(Atomic!vars)
    BY NextRefines
<1>. QED BY <1>1, <1>2, <1>3, IInvInit, PTL DEF Spec, ImplementsAtomicClaims, Atomic!Spec

-----------------------------------------------------------------------------
(* Calendar alerts: every one is given, repeated only for a reason, and     *)
(* marked after it was given, for any number of instances, events and       *)
(* requests.                                                                *)

-----------------------------------------------------------------------------
(* The inductive invariant.                                                *)

\* An event that has been announced; if it was never moved, where it stands.
Announced(e) ==
    /\ Calendar!Alerted(e)
    /\ e \notin moved => alerts[e][event[e].start] > 0

RowOK(e) ==
    /\ event[e].meta.alerted => Announced(e)
    /\ event[e].st = "none" =>
          e \notin moved /\ \A s \in Starts : alerts[e][s] = 0
RowsOK == \A e \in Events : RowOK(e)

\* What a pass holds of the events it has not come to yet.
LoopOK(i) ==
    /\ poll[i].pc = "sleep" <=> poll[i].todo = {}
    /\ poll[i].pc # "sleep" => gap[i] = 0
    /\ \A e \in poll[i].todo :
          /\ event[e].st # "none"
          /\ poll[i].seen[e].meta.alerted => Announced(e)
          /\ e \notin moved => poll[i].seen[e].start = event[e].start
    /\ poll[i].pc \in {"mark", "marking"} =>
          poll[i].on \in poll[i].todo /\ Announced(poll[i].on)
LoopsOK == \A i \in Instances : LoopOK(i)

FormOK(h) ==
    request[h].pc = "loaded" =>
        /\ event[request[h].on].st # "none"
        /\ request[h].new.meta.alerted => Announced(request[h].on)
HandlersOK == \A h \in AlertHandlers : FormOK(h)

\* The passes that may still alert e, and those that are marking it.
Emitters(e) ==
    {i \in Instances : /\ e \in poll[i].todo /\ ~poll[i].seen[e].meta.alerted
                       /\ poll[i].pc = "loop" \/ poll[i].on # e}
Markers(e) == {i \in Instances : poll[i].pc \in {"mark", "marking"} /\ poll[i].on = e}

\* Until a row is marked, each alert is either being marked, or its mark was
\* lost for a reason; once it is, only the passes that polled before alert.
Unmarked(e) == Calendar!Live(e) /\ ~event[e].meta.alerted
Reasons(e) == Cardinality(Instances) * (failures[e] + saves[e]) + alertCrashes
Counted(e) ==
    \A s \in Starts :
        IF Unmarked(e)
        THEN alerts[e][s] <= Reasons(e) + Cardinality(Markers(e))
        ELSE alerts[e][s] + Cardinality(Emitters(e)) <= Reasons(e) + Cardinality(Instances)
AlertsCounted == \A e \in Events : Counted(e)

\* An event whose alert is due, or will be; the instances that have polled
\* after its start and no longer hold it can only have crashed.
AlertDue(e) ==
    /\ Calendar!Live(e) /\ ~event[e].cancelled /\ event[e].meta.minutes >= 0
    /\ e \notin moved /\ settled[e] <= event[e].start
    /\ alerts[e][event[e].start] = 0
Passed(e) ==
    {i \in Instances : clock - gap[i] > event[e].start /\ e \notin poll[i].todo}
InTime(e) ==
    AlertDue(e) =>
        /\ Cardinality(Passed(e)) <= alertCrashes
        /\ \A i \in Instances : e \in poll[i].todo => event[e].start >= clock - Grace
PassedByCrash == \A e \in Events : InTime(e)

AlertInv ==
    /\ Calendar!TypeOK /\ RowsOK /\ LoopsOK /\ HandlersOK /\ AlertsCounted /\ PassedByCrash

-----------------------------------------------------------------------------
(* Records and sets of instances.                                          *)

Pass == [pc : {"sleep", "loop", "mark", "marking"}, todo : SUBSET Events,
         on : Events, seen : [Events -> Calendar!Event], old : Calendar!Event]
Form == [pc : {"ready", "loaded", "done"}, on : Events, new : Calendar!Event, old : Calendar!Event]

\* The values that stand for nothing have the type of what they stand for.
LEMMA Defaults ==
  ASSUME Calendar!AlertConstants
  PROVE  /\ Calendar!NoEvent \in Calendar!Event /\ ~Calendar!NoEvent.meta.alerted
         /\ Calendar!AnEvent \in Events
         /\ Calendar!Asleep \in Pass /\ Calendar!Asleep.pc = "sleep" /\ Calendar!Asleep.todo = {}
         /\ Calendar!Waiting \in Form
  <1>1. (CHOOSE s \in Starts : TRUE) \in Starts
    BY DEF Calendar!AlertConstants
  <1>2. (CHOOSE m \in AlertChoices : TRUE) \in AlertChoices
    BY DEF Calendar!AlertConstants
  <1>3. Calendar!AnEvent \in Events
    BY DEF Calendar!AlertConstants, Calendar!AnEvent
  <1>4. Calendar!NoEvent \in Calendar!Event /\ ~Calendar!NoEvent.meta.alerted
    BY <1>1, <1>2 DEF Calendar!NoEvent, Calendar!Event, Calendar!Meta
  <1> QED BY <1>3, <1>4 DEF Calendar!Asleep, Calendar!Waiting, Pass, Form

\* A pass that has dealt with e still holds what it held of the others.
LEMMA DroppedPass ==
  ASSUME Calendar!AlertConstants, NEW r \in Pass, NEW e \in r.todo
  PROVE  /\ Calendar!Dropped(r, e) \in Pass
         /\ Calendar!Dropped(r, e).pc \in {"sleep", "loop"}
         /\ Calendar!Dropped(r, e).pc = "sleep" <=> Calendar!Dropped(r, e).todo = {}
         /\ Calendar!Dropped(r, e).todo = r.todo \ {e}
         /\ \A x \in r.todo \ {e} : Calendar!Dropped(r, e).seen[x] = r.seen[x]
  <1>1. CASE r.todo = {e}
    BY <1>1, Defaults DEF Calendar!Dropped
  <1>2. CASE r.todo # {e}
    <2>1. e \in Events /\ r.seen \in [Events -> Calendar!Event]
      BY DEF Pass
    <2>2. [r.seen EXCEPT ![e] = Calendar!NoEvent] \in [Events -> Calendar!Event]
      BY <2>1, Defaults
    <2>3. Calendar!Dropped(r, e) = [r EXCEPT !.pc = "loop", !.todo = r.todo \ {e},
                                    !.seen = [r.seen EXCEPT ![e] = Calendar!NoEvent], !.old = Calendar!NoEvent]
      BY <1>2 DEF Calendar!Dropped, Pass
    <2>4. r.todo \ {e} # {}
      BY <1>2
    <2>5. Calendar!NoEvent \in Calendar!Event
      BY Defaults
    <2>6. Calendar!Dropped(r, e) = [pc |-> "loop", todo |-> r.todo \ {e}, on |-> r.on,
                           seen |-> [r.seen EXCEPT ![e] = Calendar!NoEvent], old |-> Calendar!NoEvent]
      BY <2>3 DEF Pass
    <2>7. Calendar!Dropped(r, e) \in Pass
      BY <2>6, <2>2, <2>5 DEF Pass
    <2> QED BY <2>1, <2>4, <2>6, <2>7
  <1> QED BY <1>1, <1>2

\* Sizes are the same numbers for the calendar as they are here.
LEMMA SameSizes ==
  /\ Calendar!IsFiniteSet(Instances) = IsFiniteSet(Instances)
  /\ Calendar!Cardinality(Instances) = Cardinality(Instances)
  <1>1. Calendar!IsFiniteSet(Instances) = IsFiniteSet(Instances)
    BY DEF Calendar!IsFiniteSet, IsFiniteSet
  <1>2. Calendar!Cardinality(Instances) = Cardinality(Instances)
    BY DEF Calendar!Cardinality, Cardinality
  <1> QED BY <1>1, <1>2

\* How many instances a set of them has.
LEMMA Sizes ==
  ASSUME Calendar!AlertConstants, NEW S \in SUBSET Instances, NEW T \in SUBSET Instances
  PROVE  /\ Cardinality(S) \in Nat /\ Cardinality(Instances) \in Nat
         /\ Cardinality(S) <= Cardinality(Instances)
         /\ S \subseteq T => Cardinality(S) <= Cardinality(T)
         /\ S \cap T = {} => Cardinality(S) + Cardinality(T) <= Cardinality(Instances)
  <1>1. IsFiniteSet(Instances)
    BY SameSizes DEF Calendar!AlertConstants
  <1>2. IsFiniteSet(S) /\ IsFiniteSet(T)
    BY <1>1, FS_Subset
  <1>3. Cardinality(S) \in Nat /\ Cardinality(T) \in Nat /\ Cardinality(Instances) \in Nat
    BY <1>1, <1>2, FS_CardinalityType
  <1>4. Cardinality(S) <= Cardinality(Instances)
    BY <1>1, FS_Subset
  <1>5. S \subseteq T => Cardinality(S) <= Cardinality(T)
    BY <1>2, FS_Subset
  <1>6. ASSUME S \cap T = {}
        PROVE  Cardinality(S) + Cardinality(T) <= Cardinality(Instances)
    <2>1. Cardinality(S \cup T) = Cardinality(S) + Cardinality(T)
      <3>1. Cardinality(S \cup T)
              = Cardinality(S) + Cardinality(T) - Cardinality(S \cap T)
        BY <1>2, FS_Union
      <3>2. Cardinality(S \cap T) = 0
        BY <1>6, FS_EmptySet
      <3> QED BY <1>3, <3>1, <3>2
    <2>2. Cardinality(S \cup T) <= Cardinality(Instances)
      BY <1>1, FS_Subset
    <2> QED BY <2>1, <2>2
  <1> QED BY <1>3, <1>4, <1>5, <1>6

\* One instance more, one instance less.
LEMMA OneInstance ==
  ASSUME Calendar!AlertConstants, NEW S \in SUBSET Instances, NEW i \in Instances
  PROVE  /\ Cardinality(S) <= Cardinality(S \ {i}) + 1
         /\ i \in S => Cardinality(S) = Cardinality(S \ {i}) + 1
         /\ Cardinality(Instances) >= 1
  <1>1. IsFiniteSet(Instances) /\ IsFiniteSet(S)
    BY SameSizes, FS_Subset DEF Calendar!AlertConstants
  <1>2. Cardinality(S) \in Nat /\ Cardinality(S \ {i}) \in Nat
    BY <1>1, FS_CardinalityType, FS_RemoveElement, Sizes, S \ {i} \in SUBSET Instances
  <1>3. i \in S => Cardinality(S) = Cardinality(S \ {i}) + 1
    <2>1. i \in S => Cardinality(S \ {i}) = Cardinality(S) - 1
      BY <1>1, FS_RemoveElement
    <2> QED BY <1>2, <2>1
  <1>4. i \notin S => S \ {i} = S
    OBVIOUS
  <1>5. Cardinality({i}) = 1 /\ {i} \subseteq Instances
    BY FS_Singleton
  <1>6. Cardinality({i}) <= Cardinality(Instances)
    BY <1>5, Sizes
  <1> QED BY <1>2, <1>3, <1>4, <1>5, <1>6, Sizes

-----------------------------------------------------------------------------
(* What most steps leave as it is.                                         *)

\* Rows stay, alerts stay given, and a start that changes is noted.
Onward ==
    \A e \in Events : event[e].st # "none" =>
        /\ event'[e].st # "none"
        /\ Announced(e) => Announced(e)'
        /\ e \notin moved' => e \notin moved /\ event'[e].start = event[e].start

\* A pass that does not move holds what it held.
LEMMA LoopKeeps ==
  ASSUME Calendar!TypeOK, Onward, NEW j \in Instances, LoopOK(j),
         poll'[j] = poll[j], gap'[j] = gap[j] \/ poll[j].pc = "sleep"
  PROVE  LoopOK(j)'
  <1>1. poll[j] \in Pass
    BY DEF Calendar!TypeOK, Pass
  <1>2. poll[j].todo \subseteq Events
    BY <1>1 DEF Pass
  <1>3. \A e \in poll[j].todo :
          /\ event'[e].st # "none"
          /\ poll[j].seen[e].meta.alerted => Announced(e)'
          /\ e \notin moved' => poll[j].seen[e].start = event'[e].start
    BY <1>2 DEF Onward, LoopOK
  <1>4. ASSUME poll[j].pc \in {"mark", "marking"}
        PROVE  poll[j].on \in poll[j].todo /\ Announced(poll[j].on)'
    BY <1>2, <1>4 DEF Onward, LoopOK
  <1> QED BY <1>3, <1>4 DEF LoopOK

\* Neither does one that is done with an event.
LEMMA LoopDrops ==
  ASSUME Calendar!AlertConstants, Calendar!TypeOK, Onward, NEW i \in Instances, LoopOK(i),
         NEW e \in poll[i].todo, Calendar!Drop(i, e), gap' = gap
  PROVE  /\ LoopOK(i)' /\ poll' \in [Instances -> Pass]
         /\ poll'[i].todo = poll[i].todo \ {e} /\ poll'[i].pc \in {"sleep", "loop"}
         /\ \A x \in poll[i].todo \ {e} : poll'[i].seen[x] = poll[i].seen[x]
         /\ \A j \in Instances \ {i} : poll'[j] = poll[j]
  <1>1. poll \in [Instances -> Pass]
    BY DEF Calendar!TypeOK, Pass
  <1>2. poll[i] \in Pass /\ poll[i].todo \subseteq Events
    BY <1>1 DEF Pass
  <1>3. poll' = [poll EXCEPT ![i] = Calendar!Dropped(poll[i], e)]
    BY DEF Calendar!Drop
  <1> DEFINE d == Calendar!Dropped(poll[i], e)
  <1>4. /\ d \in Pass /\ d.pc \in {"sleep", "loop"}
        /\ d.pc = "sleep" <=> d.todo = {}
        /\ d.todo = poll[i].todo \ {e}
        /\ \A x \in poll[i].todo \ {e} : d.seen[x] = poll[i].seen[x]
    BY <1>2, DroppedPass
  <1> HIDE DEF d
  <1>5. poll'[i] = d /\ poll' \in [Instances -> Pass]
    BY <1>1, <1>3, <1>4 DEF d
  <1>6. \A x \in d.todo :
          /\ event'[x].st # "none"
          /\ d.seen[x].meta.alerted => Announced(x)'
          /\ x \notin moved' => d.seen[x].start = event'[x].start
    BY <1>2, <1>4 DEF Onward, LoopOK
  <1>7. poll[i].pc # "sleep" /\ gap'[i] = 0
    BY DEF LoopOK
  <1>8. LoopOK(i)'
    BY <1>4, <1>5, <1>6, <1>7 DEF LoopOK
  <1>9. \A j \in Instances \ {i} : poll'[j] = poll[j]
    BY <1>1, <1>3
  <1> QED BY <1>4, <1>5, <1>8, <1>9

\* A form that is not sent yet holds what it held.
LEMMA FormKeeps ==
  ASSUME Calendar!TypeOK, Onward, NEW h \in AlertHandlers, FormOK(h), request'[h] = request[h]
  PROVE  FormOK(h)'
  <1>1. PICK e \in Events : e = request[h].on
    BY DEF Calendar!TypeOK
  <1>2. ASSUME request[h].pc = "loaded"
        PROVE  /\ event'[e].st # "none"
               /\ request[h].new.meta.alerted => Announced(e)'
    BY <1>1, <1>2 DEF FormOK, Onward
  <1> QED BY <1>1, <1>2 DEF FormOK

LEMMA HandlersKeep ==
  ASSUME Calendar!TypeOK, HandlersOK, Onward, UNCHANGED request
  PROVE  HandlersOK'
  BY FormKeeps DEF HandlersOK

\* Steps that touch no row and give no alert.
LEMMA Calm ==
  ASSUME UNCHANGED <<event, alerts, moved>>
  PROVE  /\ Onward
         /\ RowsOK => RowsOK'
         /\ \A e \in Events : (Announced(e) <=> Announced(e)') /\ (Unmarked(e) <=> Unmarked(e)')
  BY DEF Onward, RowsOK, RowOK, Announced, Calendar!Alerted, Unmarked, Calendar!Live

\* One reason more lets every instance alert once more.
LEMMA Products ==
  ASSUME NEW n \in Nat, NEW f \in Nat, NEW s \in Nat, NEW c \in Nat
  PROVE  /\ n * (f + s) + c \in Nat
         /\ n * (f + 1 + s) + c = n * (f + s) + c + n
         /\ n * (f + (s + 1)) + c = n * (f + s) + c + n
  <1>1. n * (f + s) \in Nat /\ f + 1 + s = (f + s) + 1 /\ f + (s + 1) = (f + s) + 1
    OBVIOUS
  <1>2. \A k \in Nat : n * (k + 1) = n * k + n
    OBVIOUS
  <1> QED BY <1>1, <1>2

\* The numbers the counts are made of.
LEMMA Numbers ==
  ASSUME Calendar!AlertConstants, Calendar!TypeOK, NEW e \in Events
  PROVE  /\ Reasons(e) \in Nat
         /\ \A s \in Starts : alerts[e][s] \in Nat
         /\ Cardinality(Emitters(e)) \in Nat /\ Cardinality(Markers(e)) \in Nat
         /\ Cardinality(Instances) \in Nat
         /\ Cardinality(Emitters(e)) <= Cardinality(Instances)
         /\ Cardinality(Emitters(e)) + Cardinality(Markers(e)) <= Cardinality(Instances)
  <1>1. Emitters(e) \in SUBSET Instances /\ Markers(e) \in SUBSET Instances
    BY DEF Emitters, Markers
  <1>2. Emitters(e) \cap Markers(e) = {}
    BY DEF Emitters, Markers
  <1>3. failures[e] \in Nat /\ saves[e] \in Nat /\ alertCrashes \in Nat
    BY DEF Calendar!TypeOK, Calendar!AlertConstants
  <1>4. Reasons(e) \in Nat
    BY <1>1, <1>3, Sizes, Products DEF Reasons
  <1>5. \A s \in Starts : alerts[e][s] \in Nat
    BY DEF Calendar!TypeOK
  <1> QED BY <1>1, <1>2, <1>4, <1>5, Sizes

\* Dropping e changes who is marking it, and nothing else about who alerts.
LEMMA SetsOfDrop ==
  ASSUME Calendar!AlertConstants, Calendar!TypeOK, Onward, NEW i \in Instances, LoopOK(i),
         NEW e \in poll[i].todo, Calendar!Drop(i, e), gap' = gap,
         \/ poll[i].pc = "loop" /\ poll[i].seen[e].meta.alerted
         \/ poll[i].pc \in {"mark", "marking"} /\ poll[i].on = e
  PROVE  \A x \in Events :
            /\ Emitters(x)' = Emitters(x)
            /\ Markers(x)' = Markers(x) \ {i}
            /\ x # e => Markers(x)' = Markers(x)
            /\ \A j \in Instances : x # e => (x \in poll'[j].todo <=> x \in poll[j].todo)
  <1>1. /\ LoopOK(i)' /\ poll'[i].todo = poll[i].todo \ {e} /\ poll'[i].pc \in {"sleep", "loop"}
        /\ \A x \in poll[i].todo \ {e} : poll'[i].seen[x] = poll[i].seen[x]
        /\ \A j \in Instances \ {i} : poll'[j] = poll[j]
    BY LoopDrops
  <1>2. poll'[i].pc = "sleep" <=> poll'[i].todo = {}
    BY <1>1 DEF LoopOK
  <1>3. ASSUME NEW x \in Events
        PROVE  Emitters(x)' = Emitters(x)
    <2>1. ASSUME NEW j \in Instances \ {i}
          PROVE  j \in Emitters(x)' <=> j \in Emitters(x)
      BY <1>1, <2>1 DEF Emitters
    <2>2. i \in Emitters(x)' <=> i \in Emitters(x)
      BY <1>1, <1>2 DEF Emitters
    <2>3. Emitters(x) \subseteq Instances /\ Emitters(x)' \subseteq Instances
      BY DEF Emitters
    <2> QED BY <2>1, <2>2, <2>3
  <1>4. ASSUME NEW x \in Events
        PROVE  Markers(x)' = Markers(x) \ {i} /\ (x # e => i \notin Markers(x))
    BY <1>1 DEF Markers
  <1>5. ASSUME NEW x \in Events, x # e, NEW j \in Instances
        PROVE  x \in poll'[j].todo <=> x \in poll[j].todo
    BY <1>1, <1>5
  <1> QED BY <1>3, <1>4, <1>5

\* Dropping an event that is announced, or gone, leaves no start unannounced.
LEMMA InTimeDrop ==
  ASSUME NEW e \in Events, ~AlertDue(e)', UNCHANGED <<clock, gap, alertCrashes>>,
         \A x \in Events \ {e} : (AlertDue(x)' => AlertDue(x)) /\ event'[x].start = event[x].start,
         \A x \in Events \ {e}, j \in Instances : x \in poll'[j].todo <=> x \in poll[j].todo,
         PassedByCrash
  PROVE  PassedByCrash'
  <1>1. ASSUME NEW x \in Events \ {e}, AlertDue(x)'
        PROVE  /\ Cardinality(Passed(x)') <= alertCrashes'
               /\ \A i \in Instances : x \in poll'[i].todo => event'[x].start >= clock' - Grace
    <2>1. Passed(x)' = Passed(x)
      BY DEF Passed
    <2> QED BY <1>1, <2>1 DEF PassedByCrash, InTime
  <1>2. Cardinality(Passed(e))' = Cardinality(Passed(e)')
    OBVIOUS
  <1>3. ASSUME NEW x \in Events
        PROVE  InTime(x)'
    BY <1>1 DEF InTime
  <1> QED BY <1>3 DEF PassedByCrash

\* A pass is done with an event without touching its row: it was marked
\* already, it is gone, or marking it failed.
LEMMA DropCalm ==
  ASSUME Calendar!AlertConstants, AlertInv, NEW i \in Instances, NEW e \in poll[i].todo, Calendar!Drop(i, e),
         \/ poll[i].pc = "loop" /\ poll[i].seen[e].meta.alerted /\ failures' = failures
         \/ poll[i].pc \in {"mark", "marking"} /\ poll[i].on = e
               /\ ~Calendar!Live(e) /\ failures' = failures
         \/ poll[i].pc \in {"mark", "marking"} /\ poll[i].on = e
               /\ failures' = [failures EXCEPT ![e] = @ + 1],
         UNCHANGED <<clock, event, gap, request, alerts, moved, settled, saves, alertCrashes>>
  PROVE  AlertInv'
  <1> USE DEF AlertInv
  <1>1. Onward /\ RowsOK' /\ \A x \in Events : (Unmarked(x) <=> Unmarked(x)')
    BY Calm
  <1>2. LoopOK(i) /\ e \in Events
    BY DEF LoopsOK, Calendar!TypeOK
  <1>3. /\ LoopOK(i)' /\ poll' \in [Instances -> Pass]
        /\ \A j \in Instances \ {i} : poll'[j] = poll[j]
    BY <1>1, <1>2, LoopDrops
  <1>4. failures' \in [Events -> Nat]
    BY <1>2 DEF Calendar!TypeOK
  <1>5. Calendar!TypeOK'
    BY <1>3, <1>4 DEF Calendar!TypeOK, Pass
  <1>6. LoopsOK'
    <2>1. ASSUME NEW j \in Instances \ {i}
          PROVE  LoopOK(j)'
      BY <1>1, <1>3, LoopKeeps DEF LoopsOK
    <2> QED BY <1>3, <2>1 DEF LoopsOK
  <1>7. HandlersOK'
    BY <1>1, HandlersKeep
  <1>8. \A x \in Events :
            /\ Emitters(x)' = Emitters(x)
            /\ Markers(x)' = Markers(x) \ {i}
            /\ x # e => Markers(x)' = Markers(x)
            /\ \A j \in Instances : x # e => (x \in poll'[j].todo <=> x \in poll[j].todo)
    BY <1>1, <1>2, SetsOfDrop
  <1>9. AlertsCounted'
    <2>1. ASSUME NEW x \in Events \ {e}
          PROVE  Counted(x)'
      <3>1. Reasons(x)' = Reasons(x)
        BY <1>2 DEF Reasons, Calendar!TypeOK
      <3>2. Cardinality(Markers(x))' = Cardinality(Markers(x))
            /\ Cardinality(Emitters(x))' = Cardinality(Emitters(x))
        BY <1>8
      <3> QED BY <1>1, <3>1, <3>2 DEF AlertsCounted, Counted
    <2>2. Cardinality(Emitters(e))' = Cardinality(Emitters(e))
      BY <1>2, <1>8
    <2>3. Counted(e)
      BY <1>2 DEF AlertsCounted
    <2>4. CASE failures' = failures
      <3>1. Reasons(e)' = Reasons(e)
        BY <2>4 DEF Reasons
      <3>2. Unmarked(e) => Cardinality(Markers(e))' = Cardinality(Markers(e))
        <4>1. CASE poll[i].pc = "loop"
          <5>1. i \notin Markers(e)
            BY <4>1 DEF Markers
          <5>2. Markers(e)' = Markers(e)
            BY <1>2, <1>8, <5>1
          <5> QED BY <5>2
        <4>2. CASE failures' = [failures EXCEPT ![e] = @ + 1]
          BY <1>2, <2>4, <4>2 DEF Calendar!TypeOK
        <4> QED BY <4>1, <4>2 DEF Unmarked
      <3>3. Counted(e)'
        BY <1>1, <1>2, <2>2, <2>3, <3>1, <3>2 DEF Counted
      <3> QED BY <2>1, <3>3 DEF AlertsCounted
    <2>5. CASE failures' = [failures EXCEPT ![e] = @ + 1]
      <3>1. failures'[e] = failures[e] + 1 /\ failures[e] \in Nat /\ saves[e] \in Nat
            /\ alertCrashes \in Nat
        BY <1>2, <2>5 DEF Calendar!TypeOK, Calendar!AlertConstants
      <3>2. Cardinality(Instances) \in Nat
        BY <1>2, Numbers
      <3>3. Reasons(e)' = Reasons(e) + Cardinality(Instances)
        BY <3>1, <3>2, Products DEF Reasons
      <3>4. Cardinality(Markers(e)) <= Cardinality(Markers(e))' + 1
        BY <1>2, <1>8, OneInstance, Markers(e) \in SUBSET Instances DEF Markers
      <3>5. Cardinality(Markers(e))' \in Nat
        <4>1. Markers(e)' \in SUBSET Instances
          BY <1>2, <1>8 DEF Markers
        <4> QED BY <4>1, Sizes
      <3>6. Cardinality(Instances) >= 1
        BY OneInstance, {} \in SUBSET Instances
      <3>7. ASSUME NEW s \in Starts
            PROVE  IF Unmarked(e)
                   THEN alerts[e][s] <= Reasons(e)' + Cardinality(Markers(e))'
                   ELSE alerts[e][s] + Cardinality(Emitters(e))'
                          <= Reasons(e)' + Cardinality(Instances)
        BY <1>2, <2>2, <2>3, <3>2, <3>3, <3>4, <3>5, <3>6, Numbers DEF Counted
      <3>8. Counted(e)'
        BY <1>1, <1>2, <3>7 DEF Counted
      <3> QED BY <2>1, <3>8 DEF AlertsCounted
    <2> QED BY <2>4, <2>5
  <1>10. PassedByCrash'
    <2>1. ~AlertDue(e)'
      <3>1. Announced(e)
        BY <1>2 DEF LoopOK
      <3> QED BY <1>2, <3>1 DEF AlertDue, Announced, Calendar!Live
    <2>2. \A x \in Events \ {e} : (AlertDue(x)' => AlertDue(x)) /\ event'[x].start = event[x].start
      BY DEF AlertDue, Calendar!Live
    <2> QED BY <1>2, <1>8, <2>1, <2>2, InTimeDrop
  <1> QED BY <1>1, <1>5, <1>6, <1>7, <1>9, <1>10

-----------------------------------------------------------------------------
(* Steps of the clock and of the passes.                                   *)

LEMMA TickStep ==
  ASSUME Calendar!AlertConstants, AlertInv, Calendar!Tick
  PROVE  AlertInv'
  <1> USE DEF AlertInv
  <1> USE DEF Calendar!Tick, Calendar!history
  <1>1. Onward /\ RowsOK' /\ \A x \in Events : (Unmarked(x) <=> Unmarked(x)')
    BY Calm
  <1>2. clock' \in 0..AlertMaxTime /\ clock' = clock + 1 /\ clock \in Nat
    BY DEF Calendar!TypeOK, Calendar!AlertConstants
  <1>3. \A i \in Instances : gap[i] \in Nat /\ gap[i] < MaxGap /\ gap'[i] = gap[i] + 1
    BY DEF Calendar!TypeOK
  <1>4. gap' \in [Instances -> 0..MaxGap]
    BY <1>3 DEF Calendar!TypeOK, Calendar!AlertConstants
  <1>5. Calendar!TypeOK'
    BY <1>2, <1>4 DEF Calendar!TypeOK
  <1>6. LoopsOK'
    <2>1. \A i \in Instances : poll'[i] = poll[i] /\ poll[i].pc = "sleep"
      OBVIOUS
    <2> QED BY <1>1, <2>1, LoopKeeps DEF LoopsOK
  <1>7. HandlersOK'
    BY <1>1, HandlersKeep
  <1>8. AlertsCounted'
    <2>1. ASSUME NEW x \in Events
          PROVE  Emitters(x)' = Emitters(x) /\ Markers(x)' = Markers(x)
                 /\ Reasons(x)' = Reasons(x)
      BY DEF Emitters, Markers, Reasons
    <2> QED BY <1>1, <2>1 DEF AlertsCounted, Counted
  <1>9. PassedByCrash'
    <2>1. ASSUME NEW x \in Events
          PROVE  Passed(x)' = Passed(x)
      <3>2. \A i \in Instances : clock' - gap'[i] = clock - gap[i]
        BY <1>2, <1>3
      <3> QED BY <3>2 DEF Passed
    <2>2. \A x \in Events, i \in Instances : x \notin poll'[i].todo
      BY DEF LoopsOK, LoopOK
    <2>3. \A x \in Events : AlertDue(x)' => AlertDue(x)
      BY DEF AlertDue, Calendar!Live
    <2> QED BY <2>1, <2>2, <2>3 DEF PassedByCrash, InTime
  <1> QED BY <1>1, <1>5, <1>6, <1>7, <1>8, <1>9

LEMMA SkipStep ==
  ASSUME Calendar!AlertConstants, AlertInv, NEW i \in Instances, NEW e \in Events, Calendar!Skip(i, e)
  PROVE  AlertInv'
  BY DropCalm DEF Calendar!Skip, Calendar!history

LEMMA MarkFailsStep ==
  ASSUME Calendar!AlertConstants, AlertInv, NEW i \in Instances, Calendar!MarkFails(i)
  PROVE  AlertInv'
  <1>1. poll[i].on \in poll[i].todo
    BY DEF Calendar!MarkFails, AlertInv, LoopsOK, LoopOK
  <1> QED BY <1>1, DropCalm DEF Calendar!MarkFails

\* Two sets of instances that agree but for one.
LEMMA Agree ==
  ASSUME NEW S \in SUBSET Instances, NEW T \in SUBSET Instances, NEW i \in Instances,
         \A j \in Instances \ {i} : j \in S <=> j \in T
  PROVE  /\ S \ {i} = T \ {i}
         /\ (i \in S <=> i \in T) => S = T
  OBVIOUS

\* Where a pass takes its next step, and who alerts and marks with it.
LEMMA SetsOfMove ==
  ASSUME NEW i \in Instances, \A j \in Instances \ {i} : poll'[j] = poll[j]
  PROVE  \A x \in Events :
            /\ Emitters(x)' \ {i} = Emitters(x) \ {i}
            /\ Markers(x)' \ {i} = Markers(x) \ {i}
            /\ (i \in Emitters(x)' <=> i \in Emitters(x)) => Emitters(x)' = Emitters(x)
            /\ (i \in Markers(x)' <=> i \in Markers(x)) => Markers(x)' = Markers(x)
  <1>1. ASSUME NEW x \in Events, NEW j \in Instances \ {i}
        PROVE  /\ j \in Emitters(x)' <=> j \in Emitters(x)
               /\ j \in Markers(x)' <=> j \in Markers(x)
    BY <1>1 DEF Emitters, Markers
  <1>2. ASSUME NEW x \in Events
        PROVE  /\ Emitters(x) \in SUBSET Instances /\ Emitters(x)' \in SUBSET Instances
               /\ Markers(x) \in SUBSET Instances /\ Markers(x)' \in SUBSET Instances
    BY DEF Emitters, Markers
  <1>3. ASSUME NEW x \in Events
        PROVE  /\ Emitters(x)' \ {i} = Emitters(x) \ {i}
               /\ Markers(x)' \ {i} = Markers(x) \ {i}
               /\ (i \in Emitters(x)' <=> i \in Emitters(x)) => Emitters(x)' = Emitters(x)
               /\ (i \in Markers(x)' <=> i \in Markers(x)) => Markers(x)' = Markers(x)
    <2>1. /\ Emitters(x)' \ {i} = Emitters(x) \ {i}
          /\ (i \in Emitters(x)' <=> i \in Emitters(x)) => Emitters(x)' = Emitters(x)
      BY <1>1, <1>2, Agree
    <2>2. /\ Markers(x)' \ {i} = Markers(x) \ {i}
          /\ (i \in Markers(x)' <=> i \in Markers(x)) => Markers(x)' = Markers(x)
      BY <1>1, <1>2, Agree
    <2> QED BY <2>1, <2>2
  <1> QED BY <1>3

LEMMA MarkLoadStep ==
  ASSUME Calendar!AlertConstants, AlertInv, NEW i \in Instances, Calendar!MarkLoad(i)
  PROVE  AlertInv'
  <1> USE DEF AlertInv
  <1>1. poll[i].on \in poll[i].todo
    BY DEF Calendar!MarkLoad, LoopsOK, LoopOK
  <1>2. CASE ~Calendar!Live(poll[i].on)
    BY <1>1, <1>2, DropCalm DEF Calendar!MarkLoad, Calendar!history
  <1>3. CASE Calendar!Live(poll[i].on)
    <2> DEFINE e == poll[i].on
    <2>1. poll \in [Instances -> Pass] /\ event \in [Events -> Calendar!Event] /\ e \in Events
      BY DEF Calendar!TypeOK, Pass
    <2>2. poll' = [poll EXCEPT ![i].pc = "marking", ![i].old = event[e]]
          /\ UNCHANGED <<clock, event, gap, request, Calendar!history, alertCrashes>> /\ poll[i].pc = "mark"
      BY <1>3 DEF Calendar!MarkLoad
    <2>3. /\ \A j \in Instances \ {i} : poll'[j] = poll[j]
          /\ poll'[i] \in Pass /\ poll'[i].pc = "marking" /\ poll'[i].todo = poll[i].todo
          /\ poll'[i].on = e /\ poll'[i].seen = poll[i].seen
      BY <2>1, <2>2 DEF Pass
    <2>4. poll' \in [Instances -> Pass]
      BY <2>1, <2>2, <2>3
    <2>5. Onward /\ RowsOK' /\ \A x \in Events : (Unmarked(x) <=> Unmarked(x)')
      BY <2>2, Calm DEF Calendar!history
    <2>6. Calendar!TypeOK'
      BY <2>2, <2>4 DEF Calendar!TypeOK, Pass, Calendar!history
    <2>7. LoopsOK'
      <3>1. \A x \in Events : Announced(x) <=> Announced(x)'
        BY <2>2, Calm DEF Calendar!history
      <3>2. LoopOK(i) /\ poll[i].todo \subseteq Events
        BY <2>1 DEF LoopsOK, Pass
      <3>3. LoopOK(i)'
        BY <2>2, <2>3, <3>1, <3>2 DEF LoopOK, Calendar!history
      <3>4. \A j \in Instances \ {i} : LoopOK(j)'
        BY <2>2, <2>3, <2>5, LoopKeeps DEF LoopsOK
      <3> QED BY <3>3, <3>4 DEF LoopsOK
    <2>8. HandlersOK'
      BY <2>2, <2>5, HandlersKeep
    <2>9. \A x \in Events : Emitters(x)' = Emitters(x) /\ Markers(x)' = Markers(x)
      <3>1. ASSUME NEW x \in Events
            PROVE  /\ i \in Emitters(x)' <=> i \in Emitters(x)
                   /\ i \in Markers(x)' <=> i \in Markers(x)
        BY <2>2, <2>3 DEF Emitters, Markers
      <3> QED BY <2>3, <3>1, SetsOfMove
    <2>10. AlertsCounted'
      <3>1. \A x \in Events : Reasons(x)' = Reasons(x)
        BY <2>2 DEF Reasons, Calendar!history
      <3> QED BY <2>2, <2>5, <2>9, <3>1 DEF AlertsCounted, Counted, Calendar!history
    <2>11. PassedByCrash'
      <3>1. \A j \in Instances : poll'[j].todo = poll[j].todo
        BY <2>3
      <3>2. \A x \in Events : Passed(x)' = Passed(x) /\ (AlertDue(x)' => AlertDue(x))
        BY <2>2, <3>1 DEF Passed, AlertDue, Calendar!Live, Calendar!history
      <3> QED BY <2>2, <3>1, <3>2 DEF PassedByCrash, InTime, Calendar!history
    <2> QED BY <2>5, <2>6, <2>7, <2>8, <2>10, <2>11
  <1> QED BY <1>2, <1>3

LEMMA PollStep ==
  ASSUME Calendar!AlertConstants, AlertInv, NEW i \in Instances, Calendar!Poll(i)
  PROVE  AlertInv'
  <1> USE DEF AlertInv
  <1> DEFINE todo == {e \in Events : Calendar!Upcoming(e)}
  <1> DEFINE seen == [e \in Events |-> IF Calendar!Upcoming(e) THEN event[e] ELSE Calendar!NoEvent]
  <1> DEFINE pc == IF \E e \in Events : Calendar!Upcoming(e) THEN "loop" ELSE "sleep"
  <1>1. poll \in [Instances -> Pass] /\ event \in [Events -> Calendar!Event]
    BY DEF Calendar!TypeOK, Pass
  <1>2. /\ poll' = [poll EXCEPT ![i] = [Calendar!Asleep EXCEPT !.pc = pc, !.todo = todo, !.seen = seen]]
        /\ gap' = [gap EXCEPT ![i] = 0]
        /\ poll[i].pc = "sleep" /\ UNCHANGED <<clock, event, request, Calendar!history, alertCrashes>>
    BY DEF Calendar!Poll
  <1>3. seen \in [Events -> Calendar!Event]
    BY <1>1, Defaults
  <1>4. \A e \in Events : Calendar!Upcoming(e) => seen[e] = event[e]
    OBVIOUS
  <1>5. pc \in {"sleep", "loop"} /\ (pc = "sleep" <=> todo = {}) /\ todo \subseteq Events
    OBVIOUS
  <1>6. \A e \in todo : Calendar!Upcoming(e)
    OBVIOUS
  <1>7. \A e \in Events : Calendar!Upcoming(e) => e \in todo
    OBVIOUS
  <1> HIDE DEF todo, seen, pc
  <1>8. /\ \A j \in Instances \ {i} : poll'[j] = poll[j] /\ gap'[j] = gap[j]
        /\ poll'[i] \in Pass /\ poll'[i].pc = pc /\ poll'[i].todo = todo
        /\ poll'[i].seen = seen /\ gap'[i] = 0
    BY <1>1, <1>2, <1>3, <1>5, Defaults DEF Pass, Calendar!TypeOK
  <1>9. poll' \in [Instances -> Pass]
    BY <1>1, <1>2, <1>8
  <1>10. gap' \in [Instances -> 0..MaxGap]
    BY <1>2 DEF Calendar!TypeOK, Calendar!AlertConstants
  <1>11. /\ Onward /\ RowsOK'
         /\ \A x \in Events : (Announced(x) <=> Announced(x)') /\ (Unmarked(x) <=> Unmarked(x)')
    BY <1>2, Calm DEF Calendar!history
  <1>12. Calendar!TypeOK'
    BY <1>2, <1>9, <1>10 DEF Calendar!TypeOK, Pass, Calendar!history
  <1>13. LoopsOK'
    <2>1. \A e \in todo :
            /\ event[e].st # "none"
            /\ seen[e].meta.alerted => Announced(e)
            /\ e \notin moved => seen[e].start = event[e].start
      BY <1>4, <1>5, <1>6 DEF Calendar!Upcoming, Calendar!Live, RowsOK, RowOK
    <2>2. LoopOK(i)'
      BY <1>2, <1>5, <1>8, <1>11, <2>1 DEF LoopOK, Calendar!history
    <2>3. \A j \in Instances \ {i} : LoopOK(j)'
      BY <1>8, <1>11, LoopKeeps DEF LoopsOK
    <2> QED BY <2>2, <2>3 DEF LoopsOK
  <1>14. HandlersOK'
    BY <1>2, <1>11, HandlersKeep
  <1>15. AlertsCounted'
    <2>1. ASSUME NEW x \in Events
          PROVE  Counted(x)'
      <3>1. Counted(x) /\ Reasons(x)' = Reasons(x)
        BY <1>2 DEF AlertsCounted, Reasons, Calendar!history
      <3>2. i \notin Markers(x) /\ i \notin Markers(x)' /\ i \notin Emitters(x)
        BY <1>2, <1>5, <1>8 DEF Markers, Emitters, LoopsOK, LoopOK
      <3>3. Markers(x)' = Markers(x)
        BY <1>8, <3>2, SetsOfMove
      <3>4. ASSUME ~Unmarked(x)
            PROVE  Emitters(x)' = Emitters(x)
        <4>1. i \notin Emitters(x)'
          BY <1>4, <1>5, <1>6, <1>8, <3>4 DEF Emitters, Unmarked, Calendar!Upcoming, Calendar!Live
        <4> QED BY <1>8, <3>2, <4>1, SetsOfMove
      <3> QED BY <1>2, <1>11, <3>1, <3>3, <3>4 DEF Counted, Calendar!history
    <2> QED BY <2>1 DEF AlertsCounted
  <1>16. PassedByCrash'
    <2>1. ASSUME NEW x \in Events, AlertDue(x)'
          PROVE  /\ Cardinality(Passed(x)') <= alertCrashes
                 /\ \A j \in Instances : x \in poll'[j].todo => event[x].start >= clock - Grace
      <3>1. AlertDue(x) /\ InTime(x)
        BY <1>2, <2>1 DEF AlertDue, Calendar!Live, PassedByCrash, Calendar!history
      <3>2. event[x].start \in Nat /\ clock \in Nat /\ gap[i] \in Nat /\ gap[i] <= MaxGap
        <4>1. event[x].start \in Starts /\ clock \in 0..AlertMaxTime /\ gap[i] \in 0..MaxGap
          BY <1>1 DEF Calendar!TypeOK, Calendar!Event
        <4>2. AlertMaxTime \in Nat /\ MaxGap \in Nat
          BY DEF Calendar!AlertConstants
        <4>3. Starts \subseteq Nat
          BY <4>2 DEF Calendar!AlertConstants
        <4>4. event[x].start \in Nat
          BY <4>1, <4>3
        <4>5. clock \in Nat /\ gap[i] \in Nat /\ gap[i] <= MaxGap
          BY <4>1, <4>2
        <4> QED BY <4>4, <4>5
      <3>3. event[x].meta.minutes \in Int
        BY <1>1 DEF Calendar!Event, Calendar!Meta, Calendar!AlertConstants
      <3>4. Passed(x)' \subseteq Passed(x)
        <4>1. \A j \in Instances \ {i} : j \in Passed(x)' <=> j \in Passed(x)
          BY <1>2, <1>8 DEF Passed
        <4>2. ASSUME i \in Passed(x)'
              PROVE  i \in Passed(x)
          <5>1. clock > event[x].start /\ x \notin todo
            BY <1>2, <1>8, <3>2, <4>2 DEF Passed
          <5>2. ~Calendar!Upcoming(x)
            BY <1>7, <5>1
          <5>3. event[x].start < clock - Grace
            BY <3>1, <3>2, <3>3, <5>1, <5>2 DEF Calendar!Upcoming, AlertDue, Calendar!AlertConstants
          <5>4. clock - gap[i] > event[x].start
            BY <3>2, <5>3 DEF Calendar!AlertConstants
          <5>5. x \notin poll[i].todo
            BY <1>2 DEF LoopsOK, LoopOK
          <5> QED BY <5>4, <5>5 DEF Passed
        <4> QED BY <4>1, <4>2 DEF Passed
      <3>5. Cardinality(Passed(x)') <= Cardinality(Passed(x))
            /\ Cardinality(Passed(x)') \in Nat /\ Cardinality(Passed(x)) \in Nat
        <4>1. Passed(x) \in SUBSET Instances /\ Passed(x)' \in SUBSET Instances
          BY DEF Passed
        <4> QED BY <3>4, <4>1, Sizes
      <3>6. Cardinality(Passed(x)) <= alertCrashes /\ alertCrashes \in Nat
        BY <3>1 DEF InTime, Calendar!TypeOK, Calendar!AlertConstants
      <3>7. x \in todo => event[x].start >= clock - Grace
        BY <1>6 DEF Calendar!Upcoming
      <3> QED BY <1>8, <3>1, <3>5, <3>6, <3>7 DEF InTime
    <2> QED BY <1>2, <2>1 DEF PassedByCrash, InTime
  <1> QED BY <1>11, <1>12, <1>13, <1>14, <1>15, <1>16

LEMMA CrashStep ==
  ASSUME Calendar!AlertConstants, AlertInv, NEW i \in Instances, Calendar!Crash(i)
  PROVE  AlertInv'
  <1> USE DEF AlertInv
  <1>1. poll \in [Instances -> Pass]
    BY DEF Calendar!TypeOK, Pass
  <1>2. /\ poll' = [poll EXCEPT ![i] = Calendar!Asleep] /\ alertCrashes' = alertCrashes + 1
        /\ alertCrashes < MaxCrashes /\ UNCHANGED <<clock, event, gap, request, Calendar!history>>
    BY DEF Calendar!Crash
  <1>3. /\ \A j \in Instances \ {i} : poll'[j] = poll[j]
        /\ poll'[i].pc = "sleep" /\ poll'[i].todo = {} /\ poll' \in [Instances -> Pass]
    BY <1>1, <1>2, Defaults
  <1>4. alertCrashes \in Nat /\ alertCrashes' \in 0..MaxCrashes
    BY <1>2 DEF Calendar!TypeOK, Calendar!AlertConstants
  <1>5. /\ Onward /\ RowsOK'
        /\ \A x \in Events : (Announced(x) <=> Announced(x)') /\ (Unmarked(x) <=> Unmarked(x)')
    BY <1>2, Calm DEF Calendar!history
  <1>6. Calendar!TypeOK'
    BY <1>2, <1>3, <1>4 DEF Calendar!TypeOK, Pass, Calendar!history
  <1>7. LoopsOK'
    <2>1. LoopOK(i)'
      BY <1>3 DEF LoopOK
    <2>2. \A j \in Instances \ {i} : LoopOK(j)'
      BY <1>2, <1>3, <1>5, LoopKeeps DEF LoopsOK
    <2> QED BY <2>1, <2>2 DEF LoopsOK
  <1>8. HandlersOK'
    BY <1>2, <1>5, HandlersKeep
  <1>9. AlertsCounted'
    <2>1. ASSUME NEW x \in Events
          PROVE  Counted(x)'
      <3>1. i \notin Emitters(x)' /\ i \notin Markers(x)'
        BY <1>3 DEF Emitters, Markers
      <3>2. Emitters(x) \in SUBSET Instances /\ Markers(x) \in SUBSET Instances
        BY DEF Emitters, Markers
      <3>3. Emitters(x)' = Emitters(x) \ {i} /\ Markers(x)' = Markers(x) \ {i}
        BY <1>3, <3>1, SetsOfMove
      <3>4. Emitters(x)' \in SUBSET Instances /\ Markers(x)' \in SUBSET Instances
        BY <3>2, <3>3
      <3>5. Cardinality(Emitters(x)') <= Cardinality(Emitters(x))
            /\ Cardinality(Emitters(x)') \in Nat /\ Cardinality(Markers(x)') \in Nat
        BY <3>2, <3>3, <3>4, Sizes
      <3>6. Cardinality(Markers(x)) <= Cardinality(Markers(x)') + 1
        BY <3>2, <3>3, OneInstance
      <3>7. Reasons(x)' = Reasons(x) + 1
        <4>1. failures[x] \in Nat /\ saves[x] \in Nat /\ Cardinality(Instances) \in Nat
          BY <3>2, Sizes DEF Calendar!TypeOK
        <4>2. Cardinality(Instances) * (failures[x] + saves[x]) \in Nat
          BY <4>1
        <4> QED BY <1>2, <1>4, <4>2 DEF Reasons, Calendar!history
      <3>8. ASSUME NEW s \in Starts
            PROVE  IF Unmarked(x)
                   THEN alerts[x][s] <= Reasons(x) + 1 + Cardinality(Markers(x)')
                   ELSE alerts[x][s] + Cardinality(Emitters(x)')
                          <= Reasons(x) + 1 + Cardinality(Instances)
        <4>1. Counted(x)
          BY DEF AlertsCounted
        <4> QED BY <3>5, <3>6, <4>1, Numbers DEF Counted
      <3> QED BY <1>2, <1>5, <3>7, <3>8 DEF Counted, Calendar!history
    <2> QED BY <2>1 DEF AlertsCounted
  <1>10. PassedByCrash'
    <2>1. ASSUME NEW x \in Events, AlertDue(x)'
          PROVE  /\ Cardinality(Passed(x)') <= alertCrashes'
                 /\ \A j \in Instances : x \in poll'[j].todo => event[x].start >= clock - Grace
      <3>1. AlertDue(x) /\ InTime(x)
        BY <1>2, <2>1 DEF AlertDue, Calendar!Live, PassedByCrash, Calendar!history
      <3>2. Passed(x)' \ {i} \subseteq Passed(x)
        BY <1>2, <1>3 DEF Passed
      <3>3. Passed(x) \in SUBSET Instances /\ Passed(x)' \in SUBSET Instances
            /\ Passed(x)' \ {i} \in SUBSET Instances
        BY DEF Passed
      <3>4. Cardinality(Passed(x)' \ {i}) <= Cardinality(Passed(x))
            /\ Cardinality(Passed(x)' \ {i}) \in Nat /\ Cardinality(Passed(x)) \in Nat
            /\ Cardinality(Passed(x)') \in Nat
        BY <3>2, <3>3, Sizes
      <3>5. Cardinality(Passed(x)') <= Cardinality(Passed(x)' \ {i}) + 1
        BY <3>3, OneInstance
      <3>6. Cardinality(Passed(x)) <= alertCrashes
        BY <3>1 DEF InTime
      <3>7. Cardinality(Passed(x)') <= alertCrashes'
        BY <1>2, <1>4, <3>4, <3>5, <3>6
      <3>8. \A j \in Instances : x \in poll'[j].todo => x \in poll[j].todo
        BY <1>3
      <3> QED BY <3>1, <3>7, <3>8 DEF InTime
    <2> QED BY <1>2, <2>1 DEF PassedByCrash, InTime
  <1> QED BY <1>5, <1>6, <1>7, <1>8, <1>9, <1>10

LEMMA EmitStep ==
  ASSUME Calendar!AlertConstants, AlertInv, NEW i \in Instances, NEW e \in Events, Calendar!Emit(i, e)
  PROVE  AlertInv'
  <1> USE DEF AlertInv
  <1> DEFINE at == poll[i].seen[e].start
  <1>1. poll \in [Instances -> Pass] /\ alerts \in [Events -> [Starts -> Nat]]
    BY DEF Calendar!TypeOK, Pass
  <1>2. poll[i].seen[e] \in Calendar!Event
    BY <1>1 DEF Pass
  <1>3. at \in Starts
    BY <1>2 DEF Calendar!Event
  <1>4. /\ poll[i].pc = "loop" /\ e \in poll[i].todo /\ ~poll[i].seen[e].meta.alerted
        /\ alerts' = [alerts EXCEPT ![e][at] = @ + 1]
        /\ poll' = [poll EXCEPT ![i].pc = "mark", ![i].on = e]
        /\ UNCHANGED <<clock, event, gap, request, moved, settled, saves, failures, alertCrashes>>
    BY DEF Calendar!Emit
  <1> HIDE DEF at
  <1>5. /\ alerts' \in [Events -> [Starts -> Nat]]
        /\ \A x \in Events \ {e} : alerts'[x] = alerts[x]
        /\ alerts'[e][at] = alerts[e][at] + 1
        /\ \A s \in Starts : alerts'[e][s] >= alerts[e][s] /\ alerts'[e][s] <= alerts[e][s] + 1
    BY <1>1, <1>3, <1>4
  <1>6. /\ \A j \in Instances \ {i} : poll'[j] = poll[j]
        /\ poll'[i] \in Pass /\ poll'[i].pc = "mark" /\ poll'[i].on = e
        /\ poll'[i].todo = poll[i].todo /\ poll'[i].seen = poll[i].seen
    BY <1>1, <1>4 DEF Pass
  <1>7. poll' \in [Instances -> Pass]
    BY <1>1, <1>4, <1>6
  <1>8. LoopOK(i) /\ event[e].st # "none" /\ (e \notin moved => at = event[e].start)
    BY <1>4 DEF LoopsOK, LoopOK, at
  <1>9. Announced(e)'
    <2>1. alerts[e][at] \in Nat
      BY <1>1, <1>3
    <2>2. alerts'[e][at] > 0
      BY <1>5, <2>1
    <2> QED BY <1>3, <1>4, <1>8, <2>2 DEF Announced, Calendar!Alerted
  <1>10. ASSUME NEW x \in Events, Announced(x)
         PROVE  Announced(x)'
    <2>1. x # e => alerts'[x] = alerts[x]
      BY <1>5
    <2> QED BY <1>4, <1>9, <1>10, <2>1 DEF Announced, Calendar!Alerted
  <1>11. Onward
    BY <1>4, <1>10 DEF Onward
  <1>12. Calendar!TypeOK'
    BY <1>4, <1>5, <1>7 DEF Calendar!TypeOK, Pass
  <1>13. RowsOK'
    BY <1>4, <1>5, <1>8, <1>10 DEF RowsOK, RowOK
  <1>14. LoopsOK'
    <2>1. poll[i].todo \subseteq Events
      BY <1>1 DEF Pass
    <2>2. LoopOK(i)'
      BY <1>4, <1>6, <1>8, <1>9, <1>10, <2>1 DEF LoopOK
    <2>3. \A j \in Instances \ {i} : LoopOK(j)'
      BY <1>4, <1>6, <1>11, LoopKeeps DEF LoopsOK
    <2> QED BY <2>2, <2>3 DEF LoopsOK
  <1>15. HandlersOK'
    BY <1>4, <1>11, HandlersKeep
  <1>16. AlertsCounted'
    <2>1. \A x \in Events : Reasons(x)' = Reasons(x) /\ (Unmarked(x)' <=> Unmarked(x))
      BY <1>4 DEF Reasons, Unmarked, Calendar!Live
    <2>2. ASSUME NEW x \in Events \ {e}
          PROVE  Counted(x)'
      <3>1. (i \in Emitters(x)' <=> i \in Emitters(x)) /\ (i \in Markers(x)' <=> i \in Markers(x))
        BY <1>4, <1>6 DEF Emitters, Markers
      <3>2. Emitters(x)' = Emitters(x) /\ Markers(x)' = Markers(x)
        BY <1>6, <3>1, SetsOfMove
      <3> QED BY <1>5, <2>1, <3>2 DEF AlertsCounted, Counted
    <2>3. Counted(e)'
      <3>1. /\ i \in Emitters(e) /\ i \notin Emitters(e)'
            /\ i \notin Markers(e) /\ i \in Markers(e)'
        BY <1>4, <1>6 DEF Emitters, Markers
      <3>2. Emitters(e)' \ {i} = Emitters(e) \ {i} /\ Markers(e)' \ {i} = Markers(e) \ {i}
        BY <1>6, SetsOfMove
      <3>3. /\ Emitters(e) \in SUBSET Instances /\ Emitters(e)' \in SUBSET Instances
            /\ Markers(e) \in SUBSET Instances /\ Markers(e)' \in SUBSET Instances
        BY DEF Emitters, Markers
      <3>4. Emitters(e)' = Emitters(e) \ {i} /\ Markers(e) = Markers(e)' \ {i}
        BY <3>1, <3>2
      <3>5. Cardinality(Emitters(e)) = Cardinality(Emitters(e)') + 1
        BY <3>1, <3>3, <3>4, OneInstance
      <3>6. Cardinality(Markers(e)') = Cardinality(Markers(e)) + 1
        BY <3>1, <3>3, <3>4, OneInstance
      <3>7. Cardinality(Emitters(e)') \in Nat
        BY <3>3, Sizes
      <3>8. Counted(e)
        BY DEF AlertsCounted
      <3>9. ASSUME NEW s \in Starts
            PROVE  IF Unmarked(e)
                   THEN alerts'[e][s] <= Reasons(e) + Cardinality(Markers(e)')
                   ELSE alerts'[e][s] + Cardinality(Emitters(e)')
                          <= Reasons(e) + Cardinality(Instances)
        <4>1. alerts'[e][s] \in Nat /\ alerts'[e][s] <= alerts[e][s] + 1
          BY <1>5
        <4> QED BY <3>5, <3>6, <3>7, <3>8, <4>1, Numbers DEF Counted
      <3> QED BY <2>1, <3>9 DEF Counted
    <2> QED BY <2>2, <2>3 DEF AlertsCounted
  <1>17. PassedByCrash'
    <2>1. ~AlertDue(e)'
      BY <1>9 DEF AlertDue, Announced
    <2>2. \A x \in Events \ {e} : (AlertDue(x)' => AlertDue(x)) /\ event'[x].start = event[x].start
      BY <1>4, <1>5 DEF AlertDue, Calendar!Live
    <2>3. \A x \in Events \ {e}, j \in Instances : x \in poll'[j].todo <=> x \in poll[j].todo
      BY <1>6
    <2> QED BY <1>4, <2>1, <2>2, <2>3, InTimeDrop
  <1> QED BY <1>12, <1>13, <1>14, <1>15, <1>16, <1>17

\* The parts of a row may be written one by one.
LEMMA Edits ==
  ASSUME NEW v \in Calendar!Event
  PROVE  /\ \A m \in Calendar!Meta : [v EXCEPT !.meta = m] \in Calendar!Event
         /\ \A m \in Calendar!Meta, s \in Starts, c \in BOOLEAN :
               [v EXCEPT !.start = s, !.cancelled = c, !.meta = m] \in Calendar!Event
         /\ [v EXCEPT !.st = "deleted"] \in Calendar!Event
  BY DEF Calendar!Event

LEMMA MarkCommitStep ==
  ASSUME Calendar!AlertConstants, AlertInv, NEW i \in Instances, Calendar!MarkCommit(i)
  PROVE  AlertInv'
  <1> USE DEF AlertInv
  <1>0. PICK e \in Events : e = poll[i].on
    BY DEF Calendar!TypeOK
  <1>1. /\ poll[i].pc = "marking" /\ Calendar!Drop(i, e)
        /\ event' = IF Calendar!Live(e)
                    THEN [event EXCEPT ![e].meta = [poll[i].old.meta EXCEPT !.alerted = TRUE]]
                    ELSE event
        /\ UNCHANGED <<clock, gap, request, Calendar!history, alertCrashes>>
    BY <1>0 DEF Calendar!MarkCommit
  <1>2. LoopOK(i) /\ e \in poll[i].todo /\ Announced(e)
    BY <1>0, <1>1 DEF LoopsOK, LoopOK
  <1>3. CASE ~Calendar!Live(e)
    BY <1>0, <1>1, <1>2, <1>3, DropCalm DEF Calendar!history
  <1>4. CASE Calendar!Live(e)
    <2> DEFINE m == [poll[i].old.meta EXCEPT !.alerted = TRUE]
    <2>1. poll \in [Instances -> Pass] /\ event \in [Events -> Calendar!Event]
      BY DEF Calendar!TypeOK, Pass
    <2>2. poll[i].old \in Calendar!Event /\ e \in Events
      BY <2>1 DEF Pass
    <2>3. m \in Calendar!Meta /\ m.alerted
      BY <2>2 DEF Calendar!Event, Calendar!Meta
    <2>4. event' = [event EXCEPT ![e] = [event[e] EXCEPT !.meta = m]]
      BY <1>1, <1>4, <2>1, <2>2
    <2> HIDE DEF m
    <2>5. event[e] \in Calendar!Event /\ [event[e] EXCEPT !.meta = m] \in Calendar!Event
      BY <2>1, <2>2, <2>3, Edits DEF Calendar!Event
    <2>6. /\ event' \in [Events -> Calendar!Event]
          /\ \A x \in Events \ {e} : event'[x] = event[x]
          /\ event'[e].st = event[e].st /\ event'[e].start = event[e].start
          /\ event'[e].meta.alerted
      BY <2>1, <2>2, <2>3, <2>4, <2>5 DEF Calendar!Event
    <2>7. \A x \in Events : (Announced(x) <=> Announced(x)') /\ event'[x].st = event[x].st
                            /\ event'[x].start = event[x].start
      BY <1>1, <2>6 DEF Announced, Calendar!Alerted, Calendar!history
    <2>8. Onward
      BY <1>1, <2>7 DEF Onward, Calendar!history
    <2>9. /\ LoopOK(i)' /\ poll' \in [Instances -> Pass]
          /\ \A j \in Instances \ {i} : poll'[j] = poll[j]
      BY <1>1, <1>2, <2>8, LoopDrops
    <2>10. Calendar!TypeOK'
      BY <1>1, <2>6, <2>9 DEF Calendar!TypeOK, Pass, Calendar!history
    <2>11. RowsOK'
      BY <1>1, <1>2, <2>6, <2>7 DEF RowsOK, RowOK, Calendar!history
    <2>12. LoopsOK'
      <3>1. \A j \in Instances \ {i} : LoopOK(j)'
        BY <1>1, <2>8, <2>9, LoopKeeps DEF LoopsOK
      <3> QED BY <2>9, <3>1 DEF LoopsOK
    <2>13. HandlersOK'
      BY <1>1, <2>8, HandlersKeep
    <2>14. \A x \in Events :
              /\ Emitters(x)' = Emitters(x)
              /\ x # e => Markers(x)' = Markers(x)
              /\ \A j \in Instances : x # e => (x \in poll'[j].todo <=> x \in poll[j].todo)
      BY <1>0, <1>1, <1>2, <2>8, SetsOfDrop
    <2>15. AlertsCounted'
      <3>1. \A x \in Events : Reasons(x)' = Reasons(x)
        BY <1>1 DEF Reasons, Calendar!history
      <3>2. ASSUME NEW x \in Events \ {e}
            PROVE  Counted(x)'
        <4>1. Unmarked(x)' <=> Unmarked(x)
          BY <2>6 DEF Unmarked, Calendar!Live
        <4> QED BY <1>1, <2>14, <3>1, <4>1 DEF AlertsCounted, Counted, Calendar!history
      <3>3. Counted(e)'
        <4>1. ~Unmarked(e)'
          BY <2>6 DEF Unmarked
        <4>2. \A s \in Starts :
                 alerts[e][s] + Cardinality(Emitters(e)) <= Reasons(e) + Cardinality(Instances)
          BY <2>2, Numbers DEF AlertsCounted, Counted
        <4>3. Cardinality(Emitters(e))' = Cardinality(Emitters(e))
          BY <2>2, <2>14
        <4> QED BY <1>1, <2>2, <3>1, <4>1, <4>2, <4>3 DEF Counted, Calendar!history
      <3> QED BY <3>2, <3>3 DEF AlertsCounted
    <2>16. PassedByCrash'
      <3>1. ~AlertDue(e)'
        BY <1>1, <1>2, <2>7 DEF AlertDue, Announced, Calendar!history
      <3>2. \A x \in Events \ {e} : (AlertDue(x)' => AlertDue(x)) /\ event'[x].start = event[x].start
        BY <1>1, <2>6 DEF AlertDue, Calendar!Live, Calendar!history
      <3> QED BY <1>1, <2>2, <2>14, <3>1, <3>2, InTimeDrop
    <2> QED BY <2>10, <2>11, <2>12, <2>13, <2>15, <2>16
  <1> QED BY <1>3, <1>4

-----------------------------------------------------------------------------
(* Steps of requests.                                                      *)

\* A request that changes one row leaves the passes alone; a mark it takes
\* back is a reason for more alerts, and a start it sets is not over.
LEMMA FormStep ==
  ASSUME Calendar!AlertConstants, AlertInv, Calendar!TypeOK', HandlersOK', Onward, NEW e \in Events,
         UNCHANGED <<clock, poll, gap, alerts, failures, alertCrashes>>,
         \A x \in Events \ {e} :
            /\ event'[x] = event[x] /\ saves'[x] = saves[x] /\ settled'[x] = settled[x]
            /\ x \in moved' <=> x \in moved,
         saves'[e] \in {saves[e], saves[e] + 1},
         RowOK(e)',
         Unmarked(e)' =>
            Unmarked(e) \/ event[e].st = "none" \/ saves'[e] = saves[e] + 1,
         AlertDue(e)' => settled'[e] = clock
  PROVE  AlertInv'
  <1> USE DEF AlertInv
  <1>1. RowsOK'
    <2>1. ASSUME NEW x \in Events \ {e}
          PROVE  RowOK(x)'
      <3>1. RowOK(x)
        BY DEF RowsOK
      <3> QED BY <3>1 DEF RowOK, Announced, Calendar!Alerted
    <2> QED BY <2>1 DEF RowsOK
  <1>2. LoopsOK'
    BY LoopKeeps DEF LoopsOK
  <1>3. AlertsCounted'
    <2>1. ASSUME NEW x \in Events
          PROVE  Emitters(x)' = Emitters(x) /\ Markers(x)' = Markers(x)
      BY DEF Emitters, Markers
    <2>2. ASSUME NEW x \in Events \ {e}
          PROVE  Counted(x)'
      <3>1. Reasons(x)' = Reasons(x) /\ (Unmarked(x)' <=> Unmarked(x))
        BY DEF Reasons, Unmarked, Calendar!Live
      <3> QED BY <2>1, <3>1 DEF AlertsCounted, Counted
    <2>3. Counted(e)'
      <3>1. Counted(e) /\ RowOK(e)
        BY DEF AlertsCounted, RowsOK
      <3>2. failures[e] \in Nat /\ saves[e] \in Nat /\ alertCrashes \in Nat
        BY DEF Calendar!TypeOK, Calendar!AlertConstants
      <3>3. Reasons(e)' = Cardinality(Instances) * (failures[e] + saves'[e]) + alertCrashes
        BY DEF Reasons
      <3>4. saves'[e] = saves[e] + 1 => Reasons(e)' = Reasons(e) + Cardinality(Instances)
        <4>1. ASSUME saves'[e] = saves[e] + 1
              PROVE  Reasons(e)' = Reasons(e) + Cardinality(Instances)
          <5>1. Cardinality(Instances) \in Nat
            BY Numbers
          <5> DEFINE k == saves[e] + 1
          <5>2. Reasons(e)' = Cardinality(Instances) * (failures[e] + k) + alertCrashes
            BY <3>3, <4>1
          <5>3. Cardinality(Instances) * (failures[e] + (saves[e] + 1)) + alertCrashes
                  = Cardinality(Instances) * (failures[e] + saves[e]) + alertCrashes
                      + Cardinality(Instances)
            BY <3>2, <5>1, Products
          <5> QED BY <5>2, <5>3 DEF Reasons
        <4> QED BY <4>1
      <3>5. saves'[e] = saves[e] => Reasons(e)' = Reasons(e)
        BY <3>3 DEF Reasons
      <3>6. Cardinality(Emitters(e)') = Cardinality(Emitters(e))
            /\ Cardinality(Markers(e)') = Cardinality(Markers(e))
        BY <2>1
      <3>7. ASSUME NEW s \in Starts
            PROVE  IF Unmarked(e)'
                   THEN alerts[e][s] <= Reasons(e)' + Cardinality(Markers(e))
                   ELSE alerts[e][s] + Cardinality(Emitters(e))
                          <= Reasons(e)' + Cardinality(Instances)
        <4>1. event[e].st = "none" => alerts[e][s] = 0
          BY <3>1 DEF RowOK
        <4>2. IF Unmarked(e)
              THEN alerts[e][s] <= Reasons(e) + Cardinality(Markers(e))
              ELSE alerts[e][s] + Cardinality(Emitters(e)) <= Reasons(e) + Cardinality(Instances)
          BY <3>1 DEF Counted
        <4> HIDE DEF AlertInv
        <4> QED BY <3>4, <3>5, <4>1, <4>2, Numbers DEF AlertInv
      <3> QED BY <3>6, <3>7 DEF Counted
    <2> QED BY <2>2, <2>3 DEF AlertsCounted
  <1>4. PassedByCrash'
    <2>1. ASSUME NEW x \in Events \ {e}
          PROVE  InTime(x)'
      <3>1. InTime(x)
        BY DEF PassedByCrash
      <3>2. Passed(x)' = Passed(x) /\ (AlertDue(x)' => AlertDue(x))
        BY DEF Passed, AlertDue, Calendar!Live
      <3> QED BY <3>1, <3>2 DEF InTime
    <2>2. ASSUME AlertDue(e)'
          PROVE  /\ Cardinality(Passed(e)') <= alertCrashes
                 /\ \A i \in Instances : e \in poll[i].todo => event'[e].start >= clock - Grace
      <3>1. clock <= event'[e].start
        BY <2>2 DEF AlertDue
      <3>2. event'[e].start \in Starts /\ clock \in 0..AlertMaxTime
        BY DEF Calendar!TypeOK, Calendar!Event
      <3>3. clock \in Nat /\ Grace \in Nat /\ alertCrashes \in Nat /\ event'[e].start \in Nat
        <4>1. Starts \subseteq Nat /\ AlertMaxTime \in Nat /\ Grace \in Nat /\ MaxCrashes \in Nat
          BY DEF Calendar!AlertConstants
        <4>2. alertCrashes \in 0..MaxCrashes
          BY DEF Calendar!TypeOK
        <4>3. event'[e].start \in Nat
          BY <3>2, <4>1
        <4> QED BY <3>2, <4>1, <4>2, <4>3
      <3>4. ASSUME NEW i \in Instances
            PROVE  i \notin Passed(e)'
        <4>1. gap[i] \in Nat
          BY DEF Calendar!TypeOK, Calendar!AlertConstants
        <4> QED BY <3>1, <3>3, <4>1 DEF Passed
      <3>5. Passed(e)' = {}
        BY <3>4 DEF Passed
      <3>6. Cardinality(Passed(e)') = 0
        BY <3>5, FS_EmptySet
      <3>7. event'[e].start >= clock - Grace
        BY <3>1, <3>3
      <3> QED BY <3>3, <3>6, <3>7
    <2>3. InTime(e)'
      BY <2>2 DEF InTime
    <2> QED BY <2>1, <2>3 DEF PassedByCrash
  <1> QED BY <1>1, <1>2, <1>3, <1>4

LEMMA CreateStep ==
  ASSUME Calendar!AlertConstants, AlertInv, NEW h \in AlertHandlers, NEW e \in Events, NEW s \in Starts,
         NEW m \in AlertChoices, Calendar!Create(h, e, s, m)
  PROVE  AlertInv'
  <1> USE DEF AlertInv
  <1> DEFINE fresh == [st |-> "live", start |-> s, cancelled |-> FALSE,
                     meta |-> [minutes |-> m, alerted |-> FALSE]]
  <1>1. fresh \in Calendar!Event /\ fresh.st = "live" /\ ~fresh.meta.alerted
    BY DEF Calendar!Event, Calendar!Meta
  <1>2. /\ event' = [event EXCEPT ![e] = fresh] /\ settled' = [settled EXCEPT ![e] = clock]
        /\ request' = [request EXCEPT ![h].pc = "done"] /\ event[e].st = "none"
        /\ UNCHANGED <<clock, poll, gap, alerts, moved, saves, failures, alertCrashes>>
    BY DEF Calendar!Create
  <1> HIDE DEF fresh
  <1>3. /\ event' \in [Events -> Calendar!Event] /\ event'[e] = fresh
        /\ \A x \in Events \ {e} : event'[x] = event[x]
    BY <1>1, <1>2 DEF Calendar!TypeOK
  <1>4. /\ settled' \in [Events -> 0..AlertMaxTime] /\ settled'[e] = clock
        /\ \A x \in Events \ {e} : settled'[x] = settled[x]
    BY <1>2 DEF Calendar!TypeOK
  <1>5. request \in [AlertHandlers -> Form]
    BY DEF Calendar!TypeOK, Form
  <1>6. /\ request' \in [AlertHandlers -> Form] /\ request'[h].pc = "done"
        /\ \A g \in AlertHandlers \ {h} : request'[g] = request[g]
    BY <1>2, <1>5 DEF Form
  <1>7. Calendar!TypeOK'
    BY <1>2, <1>3, <1>4, <1>6 DEF Calendar!TypeOK, Form
  <1>8. Onward
    BY <1>2, <1>3 DEF Onward, Announced, Calendar!Alerted
  <1>9. HandlersOK'
    <2>1. \A g \in AlertHandlers \ {h} : FormOK(g)'
      BY <1>6, <1>8, FormKeeps DEF HandlersOK
    <2>2. FormOK(h)'
      BY <1>6 DEF FormOK
    <2> QED BY <2>1, <2>2 DEF HandlersOK
  <1>10. RowOK(e)'
    BY <1>1, <1>3 DEF RowOK
  <1> QED BY <1>2, <1>3, <1>4, <1>7, <1>8, <1>9, <1>10, FormStep

LEMMA SaveLoadStep ==
  ASSUME Calendar!AlertConstants, AlertInv, NEW h \in AlertHandlers, NEW e \in Events, NEW s \in Starts,
         NEW m \in AlertChoices, NEW c \in BOOLEAN, Calendar!SaveLoad(h, e, s, m, c)
  PROVE  AlertInv'
  <1> USE DEF AlertInv
  <1> DEFINE new == [event[e] EXCEPT !.start = s, !.cancelled = c, !.meta.minutes = m]
  <1>1. event[e] \in Calendar!Event /\ request \in [AlertHandlers -> Form]
    BY DEF Calendar!TypeOK, Form
  <1>2. new \in Calendar!Event /\ new.meta.alerted = event[e].meta.alerted
    BY <1>1 DEF Calendar!Event, Calendar!Meta
  <1>3. /\ request' = [request EXCEPT ![h] = [pc |-> "loaded", on |-> e, old |-> event[e],
                                              new |-> new]]
        /\ Calendar!Live(e) /\ UNCHANGED <<clock, event, poll, gap, Calendar!history, alertCrashes>>
    BY DEF Calendar!SaveLoad
  <1> HIDE DEF new
  <1>4. /\ request' \in [AlertHandlers -> Form] /\ request'[h].on = e /\ request'[h].new = new
        /\ \A g \in AlertHandlers \ {h} : request'[g] = request[g]
    BY <1>1, <1>2, <1>3 DEF Form
  <1>5. Calendar!TypeOK'
    BY <1>3, <1>4 DEF Calendar!TypeOK, Form, Calendar!history
  <1>6. Onward /\ \A x \in Events : (Announced(x) <=> Announced(x)')
    BY <1>3, Calm DEF Calendar!history
  <1>7. HandlersOK'
    <2>1. \A g \in AlertHandlers \ {h} : FormOK(g)'
      BY <1>4, <1>6, FormKeeps DEF HandlersOK
    <2>2. event'[e].st # "none" /\ (new.meta.alerted => Announced(e)')
      BY <1>2, <1>3, <1>6 DEF Calendar!Live, RowsOK, RowOK
    <2>3. FormOK(h)'
      BY <1>4, <2>2 DEF FormOK
    <2> QED BY <2>1, <2>3 DEF HandlersOK
  <1>8. RowOK(e)' /\ (Unmarked(e)' => Unmarked(e))
    BY <1>3, Calm DEF RowsOK, Calendar!history
  <1>9. LoopsOK'
    BY <1>3, <1>6, LoopKeeps DEF LoopsOK, Calendar!history
  <1>10. RowsOK'
    BY <1>3, Calm DEF Calendar!history
  <1>11. AlertsCounted'
    BY <1>3 DEF AlertsCounted, Counted, Unmarked, Calendar!Live, Reasons, Emitters, Markers, Calendar!history
  <1>12. PassedByCrash'
    BY <1>3 DEF PassedByCrash, InTime, AlertDue, Passed, Calendar!Live, Calendar!history
  <1> QED BY <1>5, <1>7, <1>9, <1>10, <1>11, <1>12

LEMMA DeleteStep ==
  ASSUME Calendar!AlertConstants, AlertInv, NEW h \in AlertHandlers, NEW e \in Events, Calendar!Delete(h, e)
  PROVE  AlertInv'
  <1> USE DEF AlertInv
  <1>1. event \in [Events -> Calendar!Event] /\ request \in [AlertHandlers -> Form]
    BY DEF Calendar!TypeOK, Form
  <1>2. /\ event' = [event EXCEPT ![e].st = "deleted"] /\ Calendar!Live(e)
        /\ request' = [request EXCEPT ![h].pc = "done"]
        /\ UNCHANGED <<clock, poll, gap, Calendar!history, alertCrashes>>
    BY DEF Calendar!Delete
  <1>3. [event[e] EXCEPT !.st = "deleted"] \in Calendar!Event
    BY <1>1, Edits
  <1>4. /\ event' \in [Events -> Calendar!Event]
        /\ \A x \in Events \ {e} : event'[x] = event[x]
        /\ event'[e].st = "deleted" /\ event'[e].start = event[e].start
        /\ event'[e].meta = event[e].meta
    BY <1>1, <1>2, <1>3 DEF Calendar!Event
  <1>5. /\ request' \in [AlertHandlers -> Form] /\ request'[h].pc = "done"
        /\ \A g \in AlertHandlers \ {h} : request'[g] = request[g]
    BY <1>1, <1>2 DEF Form
  <1>6. Calendar!TypeOK'
    BY <1>2, <1>4, <1>5 DEF Calendar!TypeOK, Form, Calendar!history
  <1>7. \A x \in Events : (Announced(x) <=> Announced(x)') /\ event'[x].start = event[x].start
    BY <1>2, <1>4 DEF Announced, Calendar!Alerted, Calendar!history
  <1>8. Onward
    BY <1>2, <1>4, <1>7 DEF Onward, Calendar!history
  <1>9. HandlersOK'
    <2>1. \A g \in AlertHandlers \ {h} : FormOK(g)'
      BY <1>5, <1>8, FormKeeps DEF HandlersOK
    <2>2. FormOK(h)'
      BY <1>5 DEF FormOK
    <2> QED BY <2>1, <2>2 DEF HandlersOK
  <1>10. RowOK(e)'
    BY <1>4, <1>7 DEF RowsOK, RowOK
  <1>11. ~Unmarked(e)' /\ ~AlertDue(e)'
    BY <1>4 DEF Unmarked, AlertDue, Calendar!Live
  <1> QED BY <1>2, <1>4, <1>6, <1>8, <1>9, <1>10, <1>11, FormStep DEF Calendar!history

LEMMA SaveCommitStep ==
  ASSUME Calendar!AlertConstants, AlertInv, NEW h \in AlertHandlers, Calendar!SaveCommit(h)
  PROVE  AlertInv'
  <1> USE DEF AlertInv
  <1>1. event \in [Events -> Calendar!Event] /\ request \in [AlertHandlers -> Form]
    BY DEF Calendar!TypeOK, Form
  <1>2. PICK e \in Events : e = request[h].on
    BY <1>1 DEF Form
  <1>3. PICK old \in Calendar!Event, new \in Calendar!Event : old = request[h].old /\ new = request[h].new
    BY <1>1 DEF Form
  <1>4. /\ request[h].pc = "loaded"
        /\ request' = [request EXCEPT ![h] = [Calendar!Waiting EXCEPT !.pc = "done"]]
        /\ UNCHANGED <<clock, poll, gap, alerts, failures, alertCrashes>>
    BY DEF Calendar!SaveCommit
  <1>5. /\ request' \in [AlertHandlers -> Form] /\ request'[h].pc = "done"
        /\ \A g \in AlertHandlers \ {h} : request'[g] = request[g]
    BY <1>1, <1>4, Defaults DEF Form
  <1>6. FormOK(h)
    BY DEF HandlersOK
  <1>7. ASSUME Onward
        PROVE  HandlersOK'
    <2>1. \A g \in AlertHandlers \ {h} : FormOK(g)'
      BY <1>5, <1>7, FormKeeps DEF HandlersOK
    <2>2. FormOK(h)'
      BY <1>5 DEF FormOK
    <2> QED BY <2>1, <2>2 DEF HandlersOK
  <1>8. CASE ~Calendar!Live(e)
    <2>1. UNCHANGED <<event, moved, settled, saves>>
      BY <1>2, <1>8 DEF Calendar!SaveCommit
    <2>2. Onward
      BY <1>4, <2>1, Calm
    <2>3. HandlersOK'
      BY <1>7, <2>2
    <2>4. Calendar!TypeOK'
      BY <1>4, <1>5, <2>1 DEF Calendar!TypeOK, Form
    <2>5. RowOK(e)' /\ ~Unmarked(e)' /\ ~AlertDue(e)'
      BY <1>4, <1>8, <2>1, Calm DEF RowsOK, Unmarked, AlertDue, Calendar!Live
    <2>6. /\ \A x \in Events \ {e} :
                /\ event'[x] = event[x] /\ saves'[x] = saves[x] /\ settled'[x] = settled[x]
                /\ x \in moved' <=> x \in moved
          /\ saves'[e] \in {saves[e], saves[e] + 1}
      BY <2>1
    <2> QED BY <1>4, <2>2, <2>3, <2>4, <2>5, <2>6, FormStep
  <1>9. CASE Calendar!Live(e)
    <2> DEFINE start == Calendar!Written(event[e].start, old.start, new.start)
    <2> DEFINE cancelled == Calendar!Written(event[e].cancelled, old.cancelled, new.cancelled)
    <2> DEFINE meta == Calendar!Written(event[e].meta, old.meta, new.meta)
    <2>1. event[e] \in Calendar!Event
      BY <1>1
    <2>2. start \in Starts /\ cancelled \in BOOLEAN /\ meta \in Calendar!Meta
      BY <2>1 DEF Calendar!Written, Calendar!Event
    <2>3. meta.alerted => Announced(e)
      BY <1>2, <1>3, <1>4, <1>6 DEF Calendar!Written, FormOK, RowsOK, RowOK
    <2>4. /\ event' = [event EXCEPT ![e].start = start, ![e].cancelled = cancelled,
                                    ![e].meta = meta]
          /\ moved' = IF event'[e].start = event[e].start THEN moved ELSE moved \cup {e}
          /\ settled' = [settled EXCEPT ![e] = clock]
          /\ saves' = [saves EXCEPT ![e] = @ + 1]
      BY <1>1, <1>2, <1>3, <1>9 DEF Calendar!SaveCommit
    <2> HIDE DEF start, cancelled, meta
    <2>5. event' = [event EXCEPT ![e] = [event[e] EXCEPT !.start = start,
                                            !.cancelled = cancelled, !.meta = meta]]
      BY <1>1, <2>4
    <2>6. [event[e] EXCEPT !.start = start, !.cancelled = cancelled, !.meta = meta] \in Calendar!Event
      BY <2>1, <2>2, Edits
    <2>7. /\ event' \in [Events -> Calendar!Event]
          /\ \A x \in Events \ {e} : event'[x] = event[x]
          /\ event'[e].st = event[e].st /\ event'[e].meta = meta
      BY <1>1, <2>1, <2>5, <2>6 DEF Calendar!Event
    <2>8. /\ settled' \in [Events -> 0..AlertMaxTime] /\ settled'[e] = clock
          /\ \A x \in Events \ {e} : settled'[x] = settled[x]
      BY <2>4 DEF Calendar!TypeOK
    <2>9. /\ saves' \in [Events -> Nat] /\ saves'[e] = saves[e] + 1
          /\ \A x \in Events \ {e} : saves'[x] = saves[x]
      BY <2>4 DEF Calendar!TypeOK
    <2>10. /\ moved' \subseteq Events /\ moved \subseteq moved'
           /\ e \notin moved' => event'[e].start = event[e].start
           /\ \A x \in Events \ {e} : x \in moved' <=> x \in moved
      BY <2>4 DEF Calendar!TypeOK
    <2>11. Calendar!TypeOK'
      BY <1>4, <1>5, <2>7, <2>8, <2>9, <2>10 DEF Calendar!TypeOK, Form
    <2>12. \A x \in Events : Announced(x) => Announced(x)'
      BY <1>4, <2>7, <2>10 DEF Announced, Calendar!Alerted
    <2>13. Onward
      BY <2>7, <2>10, <2>12 DEF Onward
    <2>14. HandlersOK'
      BY <1>7, <2>13
    <2>15. RowOK(e)'
      BY <1>9, <2>3, <2>7, <2>12 DEF RowOK, Calendar!Live
    <2> QED BY <1>4, <2>7, <2>8, <2>9, <2>10, <2>11, <2>13, <2>14, <2>15, FormStep
  <1> QED BY <1>8, <1>9

-----------------------------------------------------------------------------
(* The theorems.                                                           *)

LEMMA Initially ==
  ASSUME Calendar!AlertConstants, Calendar!Init
  PROVE  AlertInv
  <1> USE DEF Calendar!Init
  <1>1. \A x \in Events : event[x] = Calendar!NoEvent /\ ~event[x].meta.alerted /\ event[x].st = "none"
    BY Defaults DEF Calendar!NoEvent
  <1>2. Calendar!TypeOK
    <2>1. event \in [Events -> Calendar!Event]
      BY Defaults
    <2>2. poll \in [Instances -> Pass]
      BY Defaults
    <2>3. request \in [AlertHandlers -> Form]
      BY Defaults
    <2>4. clock \in 0..AlertMaxTime /\ alertCrashes \in 0..MaxCrashes /\ gap \in [Instances -> 0..MaxGap]
          /\ settled \in [Events -> 0..AlertMaxTime]
      BY DEF Calendar!AlertConstants
    <2>5. alerts \in [Events -> [Starts -> Nat]] /\ moved \subseteq Events
          /\ saves \in [Events -> Nat] /\ failures \in [Events -> Nat]
      OBVIOUS
    <2> QED BY <2>1, <2>2, <2>3, <2>4, <2>5 DEF Calendar!TypeOK, Pass, Form
  <1>3. RowsOK
    BY <1>1 DEF RowsOK, RowOK
  <1>4. LoopsOK
    BY Defaults DEF LoopsOK, LoopOK
  <1>5. HandlersOK
    BY DEF HandlersOK, FormOK, Calendar!Waiting
  <1>6. AlertsCounted
    <2>1. ASSUME NEW x \in Events, NEW s \in Starts
          PROVE  /\ ~Unmarked(x)
                 /\ alerts[x][s] + Cardinality(Emitters(x)) <= Reasons(x) + Cardinality(Instances)
      <3>1. ~Unmarked(x) /\ alerts[x][s] = 0
        BY <1>1 DEF Unmarked, Calendar!Live
      <3> QED BY <1>2, <3>1, Numbers
    <2> QED BY <2>1 DEF AlertsCounted, Counted
  <1>7. PassedByCrash
    BY <1>1 DEF PassedByCrash, InTime, AlertDue, Calendar!Live
  <1> QED BY <1>2, <1>3, <1>4, <1>5, <1>6, <1>7 DEF AlertInv

LEMMA Inductive ==
  ASSUME Calendar!AlertConstants, AlertInv, [Calendar!Next]_(Calendar!vars)
  PROVE  AlertInv'
  <1>1. CASE Calendar!Tick
    BY <1>1, TickStep
  <1>2. ASSUME NEW i \in Instances,
               Calendar!Poll(i) \/ Calendar!MarkLoad(i) \/ Calendar!MarkCommit(i) \/ Calendar!MarkFails(i) \/ Calendar!Crash(i)
        PROVE  AlertInv'
    BY <1>2, PollStep, MarkLoadStep, MarkCommitStep, MarkFailsStep, CrashStep
  <1>3. ASSUME NEW i \in Instances, NEW e \in Events, Calendar!Skip(i, e) \/ Calendar!Emit(i, e)
        PROVE  AlertInv'
    BY <1>3, SkipStep, EmitStep
  <1>4. ASSUME NEW h \in AlertHandlers, NEW e \in Events, NEW s \in Starts, NEW m \in AlertChoices,
               Calendar!Create(h, e, s, m) \/ \E c \in BOOLEAN : Calendar!SaveLoad(h, e, s, m, c)
        PROVE  AlertInv'
    BY <1>4, CreateStep, SaveLoadStep
  <1>5. ASSUME NEW h \in AlertHandlers, NEW e \in Events, Calendar!Delete(h, e)
        PROVE  AlertInv'
    BY <1>5, DeleteStep
  <1>6. ASSUME NEW h \in AlertHandlers, Calendar!SaveCommit(h)
        PROVE  AlertInv'
    BY <1>6, SaveCommitStep
  <1>7. CASE UNCHANGED Calendar!vars
    <2>1. UNCHANGED <<clock, event, poll, gap, request, alerts, moved, settled, saves, failures,
                      alertCrashes>>
      BY <1>7 DEF Calendar!vars, Calendar!history
    <2>2. Calendar!TypeOK' /\ RowsOK' /\ LoopsOK' /\ HandlersOK'
      <3>1. Onward /\ RowsOK'
        BY <2>1, Calm DEF AlertInv
      <3>2. LoopsOK' /\ HandlersOK'
        BY <2>1, <3>1, LoopKeeps, HandlersKeep DEF LoopsOK, AlertInv
      <3> QED BY <2>1, <3>1, <3>2 DEF AlertInv, Calendar!TypeOK
    <2>3. AlertsCounted' /\ PassedByCrash'
      BY <2>1 DEF AlertInv, AlertsCounted, Counted, Unmarked, Calendar!Live, Reasons, Emitters, Markers,
                  PassedByCrash, InTime, AlertDue, Passed
    <2> QED BY <2>2, <2>3 DEF AlertInv
  <1> QED BY <1>1, <1>2, <1>3, <1>4, <1>5, <1>6, <1>7 DEF Calendar!Next

\* When the grace window of an event that nobody announced is over, every
\* instance has polled since its start and lost it in a crash.
LEMMA InvariantSuffices ==
  ASSUME Calendar!AlertConstants, AlertInv
  PROVE  Calendar!TypeOK /\ Calendar!AlertsHold
  <1> USE DEF AlertInv
  <1>1. Calendar!MarkedMeansAlerted
    BY DEF Calendar!MarkedMeansAlerted, RowsOK, RowOK, Announced
  <1>2. Calendar!RepeatedForAReason
    <2>1. ASSUME NEW e \in Events, NEW s \in Starts
          PROVE  alerts[e][s] <= Cardinality(Instances) * (1 + failures[e] + saves[e]) + alertCrashes
      <3>1. failures[e] \in Nat /\ saves[e] \in Nat /\ alertCrashes \in Nat
        BY DEF Calendar!TypeOK, Calendar!AlertConstants
      <3>2. Cardinality(Instances) * (1 + failures[e] + saves[e]) + alertCrashes
              = Reasons(e) + Cardinality(Instances)
        <4>1. 1 + failures[e] + saves[e] = failures[e] + 1 + saves[e]
          BY <3>1
        <4>2. Cardinality(Instances) \in Nat
          BY Numbers
        <4>3. Cardinality(Instances) * (failures[e] + 1 + saves[e]) + alertCrashes
                = Reasons(e) + Cardinality(Instances)
          BY <3>1, <4>2, Products DEF Reasons
        <4> QED BY <4>1, <4>3
      <3>3. Counted(e)
        BY DEF AlertsCounted
      <3>4. IF Unmarked(e)
            THEN alerts[e][s] <= Reasons(e) + Cardinality(Markers(e))
            ELSE alerts[e][s] + Cardinality(Emitters(e)) <= Reasons(e) + Cardinality(Instances)
        BY <3>3 DEF Counted
      <3>5. alerts[e][s] <= Reasons(e) + Cardinality(Instances)
        <4> HIDE DEF AlertInv
        <4> QED BY <3>4, Numbers DEF AlertInv
      <3> QED BY <3>2, <3>5
    <2> QED BY <2>1, SameSizes DEF Calendar!RepeatedForAReason
  <1>3. Calendar!NotMissed
    <2>1. SUFFICES ASSUME alertCrashes < Cardinality(Instances), NEW e \in Events,
                          Calendar!Live(e), ~event[e].cancelled, event[e].meta.minutes >= 0,
                          e \notin moved, settled[e] <= event[e].start,
                          event[e].start + Grace < clock
                   PROVE  alerts[e][event[e].start] > 0
      BY SameSizes DEF Calendar!NotMissed
    <2>2. event[e].start \in Starts /\ clock \in 0..AlertMaxTime /\ alertCrashes \in 0..MaxCrashes
      BY DEF Calendar!TypeOK, Calendar!Event
    <2>3. /\ AlertMaxTime \in Nat /\ MaxCrashes \in Nat /\ Grace \in Nat
          /\ MaxGap \in Nat /\ MaxGap <= Grace
      BY DEF Calendar!AlertConstants
    <2>4. Starts \subseteq Nat
      BY <2>3 DEF Calendar!AlertConstants
    <2>5. event[e].start \in Nat /\ clock \in Nat /\ alertCrashes \in Nat
      <3>1. event[e].start \in Nat
        BY <2>2, <2>4
      <3>2. clock \in Nat /\ alertCrashes \in Nat
        BY <2>2, <2>3
      <3> QED BY <3>1, <3>2
    <2>6. alerts[e][event[e].start] \in Nat
      BY <2>2 DEF Calendar!TypeOK
    <2>7. SUFFICES ASSUME AlertDue(e)
                   PROVE  FALSE
      BY <2>1, <2>6 DEF AlertDue
    <2>8. ASSUME NEW i \in Instances
          PROVE  i \in Passed(e)
      <3>1. gap[i] \in Nat /\ gap[i] <= MaxGap
        BY <2>3 DEF Calendar!TypeOK
      <3>2. clock - gap[i] > event[e].start
        BY <2>1, <2>3, <2>5, <3>1
      <3>3. e \notin poll[i].todo
        BY <2>1, <2>3, <2>5, <2>7 DEF PassedByCrash, InTime
      <3> QED BY <3>2, <3>3 DEF Passed
    <2>9. Passed(e) = Instances
      BY <2>8 DEF Passed
    <2>10. Cardinality(Instances) <= alertCrashes
      BY <2>7, <2>9 DEF PassedByCrash, InTime
    <2>11. Cardinality(Instances) \in Nat
      BY Numbers
    <2> QED BY <2>1, <2>5, <2>10, <2>11
  <1> QED BY <1>1, <1>2, <1>3 DEF Calendar!AlertsHold

\* Rows, passes and forms have their types, whatever polls, alerts, marks,
\* saves and crashes interleave (utils/automations.py 557-614).
THEOREM AlertsTypeCorrect ==
  ASSUME Calendar!AlertConstants
  PROVE  Calendar!Spec => []Calendar!TypeOK
  <1>1. Calendar!Init => AlertInv
    BY Initially
  <1>2. AlertInv /\ [Calendar!Next]_(Calendar!vars) => AlertInv'
    BY Inductive
  <1>3. AlertInv => Calendar!TypeOK
    BY DEF AlertInv
  <1> QED BY <1>1, <1>2, <1>3, PTL DEF Calendar!Spec

\* The alert of an event comes before its mark, is repeated only by what
\* polled before the mark or by a mark that was lost, and is not missed as
\* long as one instance stays up and the grace window covers a poll cycle
\* (_check_calendar_alerts, get_upcoming_events, update_event_by_id).
THEOREM AlertsGiven ==
  ASSUME Calendar!AlertConstants
  PROVE  Calendar!Spec => []Calendar!AlertsHold
  <1>1. Calendar!Init => AlertInv
    BY Initially
  <1>2. AlertInv /\ [Calendar!Next]_(Calendar!vars) => AlertInv'
    BY Inductive
  <1>3. AlertInv => Calendar!AlertsHold
    BY InvariantSuffices
  <1> QED BY <1>1, <1>2, <1>3, PTL DEF Calendar!Spec

-----------------------------------------------------------------------------
(* The two jobs side by side.                                              *)

\* Whatever the scheduler loop does besides, an event marked as alerted has been
\* announced, an announcement is repeated only for a reason, and no due event
\* is missed (utils/automations.py 549-650).
THEOREM CalendarAlertsHold == MCSpec => []AlertsHold
<1>1. MCInit => Calendar!Init
    BY DEF MCInit
<1>2. [MCNext]_<<job, vars, alertVars>> => [Calendar!Next]_(Calendar!vars)
    BY DEF MCNext, alertVars, Calendar!vars, Calendar!history
<1>3. Calendar!Spec => [](Calendar!TypeOK) /\ [](Calendar!AlertsHold)
    BY CalendarConstants, AlertsTypeCorrect, AlertsGiven
<1>4. Calendar!TypeOK /\ Calendar!AlertsHold => AlertsHold
    BY DEF AlertsHold
<1>. QED BY <1>1, <1>2, <1>3, <1>4, PTL DEF MCSpec, Calendar!Spec

-----------------------------------------------------------------------------
(* Every execution is accounted for.                                        *)

\* Finitely many executions are underway, whatever the instances are.
Accounted ==
    \A a \in Automations :
        /\ IsFiniteSet(AllUnderway(a))
        /\ begun[a] = Cardinality(AllUnderway(a)) + recorded[a] + lost[a]

LEMMA UnderwayTypes ==
    ASSUME TypeOK, NEW i \in Instances, NEW a \in Automations
    PROVE  /\ Underway(i, a) \in Nat
           /\ execs[i] \in [Automations -> [Stages -> Nat]]
           /\ execs[i][a] \in [Stages -> Nat]
           /\ "gate" \in Stages /\ "chat" \in Stages
           /\ execs[i][a]["gate"] \in Nat /\ execs[i][a]["chat"] \in Nat
<1>1. execs[i] \in [Automations -> [Stages -> Nat]] /\ "gate" \in Stages /\ "chat" \in Stages
    BY DEF TypeOK, Stages
<1>2. execs[i][a] \in [Stages -> Nat]
    BY <1>1
<1>. QED BY <1>1, <1>2 DEF Underway

\* What is underway is numbered from 1.
LEMMA UnderwayIs ==
    ASSUME NEW a
    PROVE  \A x : x \in AllUnderway(a) <=>
                     \E i \in Instances : \E n \in 1..Underway(i, a) : x = <<i, n>>
BY DEF AllUnderway

LEMMA SameUnderway ==
    ASSUME NEW a, \A i \in Instances : Underway(i, a)' = Underway(i, a)
    PROVE  AllUnderway(a)' = AllUnderway(a)
<1>1. \A x : x \in AllUnderway(a)' <=> x \in AllUnderway(a)
    BY DEF AllUnderway
<1>. QED BY <1>1

LEMMA OneMore ==
    ASSUME TypeOK, NEW a \in Automations, NEW i \in Instances, IsFiniteSet(AllUnderway(a)),
           \A j \in Instances :
               Underway(j, a)' = IF j = i THEN Underway(j, a) + 1 ELSE Underway(j, a)
    PROVE  /\ IsFiniteSet(AllUnderway(a)')
           /\ Cardinality(AllUnderway(a)') = Cardinality(AllUnderway(a)) + 1
<1>. DEFINE new == <<i, Underway(i, a) + 1>>
<1>1. \A j \in Instances : Underway(j, a) \in Nat
    BY UnderwayTypes
<1>2. AllUnderway(a)' = AllUnderway(a) \cup {new}
    <2>1. \A x : x \in AllUnderway(a)' <=>
                    \E j \in Instances : \E n \in 1..Underway(j, a)' : x = <<j, n>>
        BY DEF AllUnderway
    <2>2. \A j \in Instances : \A n :
              n \in 1..Underway(j, a)' <=> n \in 1..Underway(j, a) \/ <<j, n>> = new
        BY <1>1
    <2>3. \A x : x \in AllUnderway(a)' <=> x \in AllUnderway(a) \/ x = new
        BY <2>1, <2>2, UnderwayIs
    <2>. QED BY <2>3
<1>3. new \notin AllUnderway(a)
    BY <1>1, UnderwayIs
<1>. HIDE DEF new
<1>. QED BY <1>2, <1>3, FS_AddElement

LEMMA OneLess ==
    ASSUME TypeOK, NEW a \in Automations, NEW i \in Instances, IsFiniteSet(AllUnderway(a)),
           Underway(i, a) > 0,
           \A j \in Instances :
               Underway(j, a)' = IF j = i THEN Underway(j, a) - 1 ELSE Underway(j, a)
    PROVE  /\ IsFiniteSet(AllUnderway(a)')
           /\ Cardinality(AllUnderway(a)') = Cardinality(AllUnderway(a)) - 1
<1>. DEFINE old == <<i, Underway(i, a)>>
<1>1. \A j \in Instances : Underway(j, a) \in Nat
    BY UnderwayTypes
<1>2. AllUnderway(a)' = AllUnderway(a) \ {old}
    <2>1. \A x : x \in AllUnderway(a)' <=>
                    \E j \in Instances : \E n \in 1..Underway(j, a)' : x = <<j, n>>
        BY DEF AllUnderway
    <2>2. \A j \in Instances : \A n :
              n \in 1..Underway(j, a)' <=> n \in 1..Underway(j, a) /\ <<j, n>> # old
        BY <1>1
    <2>3. \A x : x \in AllUnderway(a)' <=> x \in AllUnderway(a) /\ x # old
        BY <2>1, <2>2, UnderwayIs
    <2>. QED BY <2>3
<1>3. old \in AllUnderway(a)
    BY <1>1, UnderwayIs
<1>. HIDE DEF old
<1>. QED BY <1>2, <1>3, FS_RemoveElement

\* A crash ends all that are underway at one instance.
LEMMA NoneLeft ==
    ASSUME TypeOK, NEW a \in Automations, NEW i \in Instances, IsFiniteSet(AllUnderway(a)),
           \A j \in Instances :
               Underway(j, a)' = IF j = i THEN 0 ELSE Underway(j, a)
    PROVE  /\ IsFiniteSet(AllUnderway(a)')
           /\ Cardinality(AllUnderway(a)') + Underway(i, a) = Cardinality(AllUnderway(a))
<1>. DEFINE gone == {i} \X (1..Underway(i, a))
<1>1. \A j \in Instances : Underway(j, a) \in Nat
    BY UnderwayTypes
<1>2. AllUnderway(a)' = AllUnderway(a) \ gone
    <2>1. \A x : x \in AllUnderway(a)' <=>
                    \E j \in Instances : \E n \in 1..Underway(j, a)' : x = <<j, n>>
        BY DEF AllUnderway
    <2>2. \A j \in Instances : \A n :
              n \in 1..Underway(j, a)' <=> n \in 1..Underway(j, a) /\ <<j, n>> \notin gone
        BY <1>1
    <2>3. \A x : x \in AllUnderway(a)' <=> x \in AllUnderway(a) /\ x \notin gone
        BY <2>1, <2>2, UnderwayIs
    <2>. QED BY <2>3
<1>3. AllUnderway(a) \cap gone = gone
    <2>1. \A x \in gone : x \in AllUnderway(a)
        BY UnderwayIs
    <2>. QED BY <2>1
<1>4. Cardinality(gone) = Underway(i, a)
    <2>1. IsFiniteSet({i}) /\ Cardinality({i}) = 1
        BY FS_Singleton
    <2>2. IsFiniteSet(1..Underway(i, a)) /\ Cardinality(1..Underway(i, a)) = Underway(i, a)
        BY <1>1, FS_Interval
    <2>3. PICK S, T : S = {i} /\ T = 1..Underway(i, a)
        OBVIOUS
    <2>4. IsFiniteSet(S) /\ IsFiniteSet(T)
        BY <2>1, <2>2, <2>3
    <2>5. Cardinality(S \X T) = Cardinality(S) * Cardinality(T)
        BY ONLY <2>4, FS_Product
    <2>6. Cardinality(S) = 1 /\ Cardinality(T) = Underway(i, a)
        BY <2>1, <2>2, <2>3
    <2>7. Cardinality(S \X T) = 1 * Underway(i, a)
        BY ONLY <2>5, <2>6
    <2>8. gone = S \X T
        BY <2>3
    <2>9. Underway(i, a) \in Nat
        BY <1>1
    <2>. HIDE DEF gone
    <2>. QED BY <2>7, <2>8, <2>9
<1>5. Cardinality(AllUnderway(a)) \in Nat
    BY FS_CardinalityType
<1>. HIDE DEF gone
<1>6. /\ IsFiniteSet(AllUnderway(a) \ gone)
      /\ Cardinality(AllUnderway(a) \ gone) = Cardinality(AllUnderway(a)) - Cardinality(gone)
    BY <1>3, FS_Difference
<1>. QED BY <1>1, <1>2, <1>4, <1>5, <1>6

\* An execution begins.
LEMMA BeginsAccounted ==
    ASSUME TypeOK, TypeOK', Accounted, NEW a \in Automations, NEW i \in Instances,
           execs'[i][a]["gate"] = execs[i][a]["gate"] + 1,
           execs'[i][a]["chat"] = execs[i][a]["chat"],
           \A j \in Instances \ {i} : execs'[j][a] = execs[j][a],
           begun'[a] = begun[a] + 1, recorded' = recorded, lost' = lost
    PROVE  /\ IsFiniteSet(AllUnderway(a)')
           /\ begun'[a] = Cardinality(AllUnderway(a)') + recorded'[a] + lost'[a]
<1>1. \A j \in Instances : Underway(j, a)' = IF j = i THEN Underway(j, a) + 1 ELSE Underway(j, a)
    BY UnderwayTypes DEF Underway
<1>2. IsFiniteSet(AllUnderway(a)) /\ begun[a] = Cardinality(AllUnderway(a)) + recorded[a] + lost[a]
    BY DEF Accounted
<1>3. /\ IsFiniteSet(AllUnderway(a)')
      /\ Cardinality(AllUnderway(a)') = Cardinality(AllUnderway(a)) + 1
    BY <1>1, <1>2, OneMore
<1>4. Cardinality(AllUnderway(a)) \in Nat /\ recorded[a] \in Nat /\ lost[a] \in Nat
    BY <1>2, FS_CardinalityType DEF TypeOK
<1>. QED BY <1>2, <1>3, <1>4

\* Nothing happens to the executions of an automation.
LEMMA StillAccounted ==
    ASSUME Accounted, NEW a \in Automations,
           \A j \in Instances : execs'[j][a] = execs[j][a],
           begun'[a] = begun[a], recorded'[a] = recorded[a], lost'[a] = lost[a]
    PROVE  /\ IsFiniteSet(AllUnderway(a)')
           /\ begun'[a] = Cardinality(AllUnderway(a)') + recorded'[a] + lost'[a]
<1>1. \A j \in Instances : Underway(j, a)' = Underway(j, a)
    BY DEF Underway
<1>2. AllUnderway(a)' = AllUnderway(a)
    BY <1>1, SameUnderway
<1>. QED BY <1>2 DEF Accounted

LEMMA CommitAccounted ==
    ASSUME TypeOK, TypeOK', Accounted, NEW i \in Instances, ClaimCommit(i)
    PROVE  Accounted'
<1>. SUFFICES ASSUME NEW a \in Automations
              PROVE  /\ IsFiniteSet(AllUnderway(a)')
                     /\ begun'[a] = Cardinality(AllUnderway(a)') + recorded'[a] + lost'[a]
    BY DEF Accounted
<1>1. /\ begun'[a] = IF a \in selected[i] THEN begun[a] + 1 ELSE begun[a]
      /\ recorded' = recorded /\ lost' = lost
    BY DEF ClaimCommit
<1>2. execs' = [execs EXCEPT ![i] =
                  [b \in Automations |->
                      [execs[i][b] EXCEPT !["gate"] = IF b \in selected[i] THEN @ + 1 ELSE @]]]
    BY DEF ClaimCommit
<1>3. \A j \in Instances \ {i} : execs'[j][a] = execs[j][a]
    BY <1>2 DEF TypeOK
<1>4. execs'[i][a] = [execs[i][a] EXCEPT !["gate"] = IF a \in selected[i] THEN @ + 1 ELSE @]
    BY <1>2 DEF TypeOK
<1>5. execs[i][a] \in [Stages -> Nat] /\ "gate" \in Stages /\ "chat" \in Stages
    BY UnderwayTypes
<1>6. CASE a \in selected[i]
    <2>1. /\ execs'[i][a]["gate"] = execs[i][a]["gate"] + 1
          /\ execs'[i][a]["chat"] = execs[i][a]["chat"]
        BY <1>4, <1>5, <1>6
    <2>. QED BY <1>1, <1>3, <1>6, <2>1, BeginsAccounted
<1>7. CASE a \notin selected[i]
    <2>1. execs'[i][a] = execs[i][a]
        BY <1>4, <1>5, <1>7
    <2>. QED BY <1>1, <1>3, <1>7, <2>1, StillAccounted
<1>. QED BY <1>6, <1>7

LEMMA RunNowAccounted ==
    ASSUME TypeOK, TypeOK', Accounted, NEW h \in Handlers, NEW b \in Automations,
           NEW i \in Instances, RunNow(h, b, i)
    PROVE  Accounted'
<1>. SUFFICES ASSUME NEW a \in Automations
              PROVE  /\ IsFiniteSet(AllUnderway(a)')
                     /\ begun'[a] = Cardinality(AllUnderway(a)') + recorded'[a] + lost'[a]
    BY DEF Accounted
<1>1. /\ begun' = [begun EXCEPT ![b] = @ + 1] /\ recorded' = recorded /\ lost' = lost
      /\ execs' = [execs EXCEPT ![i][b]["gate"] = @ + 1]
    BY DEF RunNow
<1>2. \A j \in Instances \ {i} : execs'[j][a] = execs[j][a]
    BY <1>1 DEF TypeOK
<1>3. execs'[i] = [execs[i] EXCEPT ![b]["gate"] = @ + 1]
    BY <1>1 DEF TypeOK
<1>4. CASE a = b
    <2>1. execs'[i][a] = [execs[i][a] EXCEPT !["gate"] = @ + 1]
        BY <1>3, <1>4, UnderwayTypes
    <2>2. /\ execs'[i][a]["gate"] = execs[i][a]["gate"] + 1
          /\ execs'[i][a]["chat"] = execs[i][a]["chat"]
        BY <2>1, UnderwayTypes
    <2>3. begun'[a] = begun[a] + 1
        BY <1>1, <1>4 DEF TypeOK
    <2>. QED BY <1>1, <1>2, <2>2, <2>3, BeginsAccounted
<1>5. CASE a # b
    <2>1. execs'[i][a] = execs[i][a]
        BY <1>3, <1>5, UnderwayTypes
    <2>2. begun'[a] = begun[a]
        BY <1>1, <1>5 DEF TypeOK
    <2>. QED BY <1>1, <1>2, <2>1, <2>2, StillAccounted
<1>. QED BY <1>4, <1>5

LEMMA ChatAccounted ==
    ASSUME TypeOK, TypeOK', Accounted, NEW i \in Instances, NEW b \in Automations,
           ChatCreated(i, b)
    PROVE  Accounted'
<1>1. /\ execs[i][b]["gate"] > 0
      /\ execs' = [execs EXCEPT ![i][b] = [gate |-> @.gate - 1, chat |-> @.chat + 1]]
      /\ UNCHANGED <<begun, recorded, lost>>
    BY DEF ChatCreated
<1>2. execs'[i][b] = [gate |-> execs[i][b].gate - 1, chat |-> execs[i][b].chat + 1]
    <2>1. execs'[i] = [execs[i] EXCEPT ![b] = [gate |-> @.gate - 1, chat |-> @.chat + 1]]
        BY <1>1 DEF TypeOK
    <2>. QED BY <2>1, UnderwayTypes
<1>3. \A j \in Instances, a \in Automations : j # i \/ a # b => execs'[j][a] = execs[j][a]
    <2>1. execs'[i] = [execs[i] EXCEPT ![b] = [gate |-> @.gate - 1, chat |-> @.chat + 1]]
        BY <1>1 DEF TypeOK
    <2>2. \A j \in Instances \ {i} : execs'[j] = execs[j]
        BY <1>1 DEF TypeOK
    <2>. QED BY <2>1, <2>2, UnderwayTypes
<1>4. \A j \in Instances, a \in Automations : Underway(j, a)' = Underway(j, a)
    <2>1. Underway(i, b)' = Underway(i, b)
        BY <1>2, UnderwayTypes DEF Underway
    <2>. QED BY <1>3, <2>1 DEF Underway
<1>5. \A a \in Automations : AllUnderway(a)' = AllUnderway(a)
    BY <1>4, SameUnderway
<1>. QED BY <1>1, <1>5 DEF Accounted

LEMMA RecordAccounted ==
    ASSUME TypeOK, TypeOK', Accounted, NEW i \in Instances, NEW b \in Automations,
           RecordRun(i, b)
    PROVE  Accounted'
<1>. SUFFICES ASSUME NEW a \in Automations
              PROVE  /\ IsFiniteSet(AllUnderway(a)')
                     /\ begun'[a] = Cardinality(AllUnderway(a)') + recorded'[a] + lost'[a]
    BY DEF Accounted
<1>1. PICK s \in Stages : execs[i][b][s] > 0 /\ execs' = [execs EXCEPT ![i][b][s] = @ - 1]
    BY DEF RecordRun
<1>2. recorded' = [recorded EXCEPT ![b] = @ + 1] /\ begun' = begun /\ lost' = lost
    BY DEF RecordRun
<1>3. \A j \in Instances \ {i} : execs'[j][a] = execs[j][a]
    BY <1>1 DEF TypeOK
<1>4. execs'[i] = [execs[i] EXCEPT ![b][s] = @ - 1]
    BY <1>1 DEF TypeOK
<1>5. CASE a # b
    <2>1. execs'[i][a] = execs[i][a]
        BY <1>4, <1>5, UnderwayTypes
    <2>2. recorded'[a] = recorded[a]
        BY <1>2, <1>5 DEF TypeOK
    <2>. QED BY <1>2, <1>3, <2>1, <2>2, StillAccounted
<1>6. CASE a = b
    <2>1. execs'[i][a] = [execs[i][a] EXCEPT ![s] = @ - 1]
        BY <1>4, <1>6, UnderwayTypes
    <2>2. execs[i][a] \in [Stages -> Nat] /\ execs[i][a][s] > 0
        BY <1>1, <1>6, UnderwayTypes
    <2>3. Underway(i, a) > 0 /\ Underway(i, a)' = Underway(i, a) - 1
        <3>1. s = "gate" \/ s = "chat"
            BY DEF Stages
        <3>. DEFINE gate == execs[i][a]["gate"]   gateNext == execs'[i][a]["gate"]
                    chat == execs[i][a]["chat"]   chatNext == execs'[i][a]["chat"]
        <3>2. gate \in Nat /\ chat \in Nat
            BY UnderwayTypes
        <3>3. \/ gate > 0 /\ gateNext = gate - 1 /\ chatNext = chat
              \/ chat > 0 /\ gateNext = gate /\ chatNext = chat - 1
            BY <2>1, <2>2, <3>1, UnderwayTypes
        <3>4. Underway(i, a) = gate + chat /\ Underway(i, a)' = gateNext + chatNext
            BY DEF Underway
        <3>. HIDE DEF gate, chat, gateNext, chatNext
        <3>. QED BY <3>2, <3>3, <3>4
    <2>4. \A j \in Instances :
              Underway(j, a)' = IF j = i THEN Underway(j, a) - 1 ELSE Underway(j, a)
        BY <1>3, <2>3 DEF Underway
    <2>5. /\ IsFiniteSet(AllUnderway(a))
          /\ begun[a] = Cardinality(AllUnderway(a)) + recorded[a] + lost[a]
        BY DEF Accounted
    <2>6. /\ IsFiniteSet(AllUnderway(a)')
          /\ Cardinality(AllUnderway(a)') = Cardinality(AllUnderway(a)) - 1
        BY <2>3, <2>4, <2>5, OneLess
    <2>7. Cardinality(AllUnderway(a)) \in Nat /\ recorded[a] \in Nat /\ lost[a] \in Nat
        BY <2>5, FS_CardinalityType DEF TypeOK
    <2>8. recorded'[a] = recorded[a] + 1 /\ begun'[a] = begun[a] /\ lost'[a] = lost[a]
        BY <1>2, <1>6 DEF TypeOK
    <2>. QED BY <2>5, <2>6, <2>7, <2>8
<1>. QED BY <1>5, <1>6

LEMMA CrashAccounted ==
    ASSUME TypeOK, TypeOK', Accounted, NEW i \in Instances, Crash(i)
    PROVE  Accounted'
<1>. SUFFICES ASSUME NEW a \in Automations
              PROVE  /\ IsFiniteSet(AllUnderway(a)')
                     /\ begun'[a] = Cardinality(AllUnderway(a)') + recorded'[a] + lost'[a]
    BY DEF Accounted
<1>1. /\ lost'[a] = lost[a] + Underway(i, a) /\ begun' = begun /\ recorded' = recorded
      /\ execs' = [execs EXCEPT ![i] = [b \in Automations |-> [s \in Stages |-> 0]]]
    BY DEF Crash
<1>2. \A j \in Instances :
          Underway(j, a)' = IF j = i THEN 0 ELSE Underway(j, a)
    <2>1. \A j \in Instances \ {i} : execs'[j] = execs[j]
        BY <1>1 DEF TypeOK
    <2>2. execs'[i][a] = [s \in Stages |-> 0]
        BY <1>1 DEF TypeOK
    <2>3. execs'[i][a]["gate"] = 0 /\ execs'[i][a]["chat"] = 0
        BY <2>2 DEF Stages
    <2>. QED BY <2>1, <2>3 DEF Underway
<1>3. /\ IsFiniteSet(AllUnderway(a))
      /\ begun[a] = Cardinality(AllUnderway(a)) + recorded[a] + lost[a]
    BY DEF Accounted
<1>4. /\ IsFiniteSet(AllUnderway(a)')
      /\ Cardinality(AllUnderway(a)') + Underway(i, a) = Cardinality(AllUnderway(a))
    BY <1>2, <1>3, NoneLeft
<1>5. /\ Cardinality(AllUnderway(a)') \in Nat /\ recorded[a] \in Nat /\ lost[a] \in Nat
      /\ Underway(i, a) \in Nat
    BY <1>4, UnderwayTypes, FS_CardinalityType DEF TypeOK
<1>. QED BY <1>1, <1>3, <1>4, <1>5

\* The executions that no action but these touches.
LEMMA OthersAccounted ==
    ASSUME Accounted, UNCHANGED executions PROVE Accounted'
<1>1. \A a \in Automations : \A j \in Instances : execs'[j][a] = execs[j][a]
    BY DEF executions
<1>. QED BY <1>1, StillAccounted DEF executions, Accounted

LEMMA StepAccounted ==
    ASSUME TypeOK, TypeOK', Accounted, [Next]_vars PROVE Accounted'
<1>1. CASE UNCHANGED vars
    BY <1>1, OthersAccounted DEF vars, executions
<1>2. CASE Tick
    BY <1>2, OthersAccounted DEF Tick
<1>3. ASSUME NEW i \in Instances, Claim(i) \/ Crash(i) PROVE Accounted'
    <2>1. CASE ClaimSelect(i) \/ ClaimRollback(i)
        BY <2>1, OthersAccounted DEF ClaimSelect, ClaimRollback
    <2>. QED BY <1>3, <2>1, CommitAccounted, CrashAccounted DEF Claim
<1>4. ASSUME NEW i \in Instances, NEW a \in Automations, ChatCreated(i, a) \/ RecordRun(i, a)
      PROVE  Accounted'
    BY <1>4, ChatAccounted, RecordAccounted
<1>5. ASSUME NEW h \in Handlers, Request(h) PROVE Accounted'
    <2>1. CASE \E a \in Automations, i \in Instances : RunNow(h, a, i)
        BY <2>1, RunNowAccounted
    <2>2. CASE ~\E a \in Automations, i \in Instances : RunNow(h, a, i)
        <3>1. UNCHANGED executions
            BY <1>5, <2>2 DEF Request, CreateCheck, UpdateCompute, ToggleCompute, DeleteRuns,
               CreateInsert, Load, EditCommit, DeleteRow, OnlyHandler
        <3>. QED BY <3>1, OthersAccounted
    <2>. QED BY <2>1, <2>2
<1>. QED BY <1>1, <1>2, <1>3, <1>4, <1>5 DEF Next

\* Each execution that began, by a claim or at once, is underway, has one run
\* record or was cut off by a crash (execute_automation, _record_run), for any
\* number of instances and crashes and on either dialect.
THEOREM RunsAreAccounted == Spec => []RunsAccounted
<1>1. Init => TypeOK /\ Accounted
    <2>. SUFFICES ASSUME Init PROVE Accounted
        BY TypeInit
    <2>. SUFFICES ASSUME NEW a \in Automations
                  PROVE  /\ IsFiniteSet(AllUnderway(a))
                         /\ begun[a] = Cardinality(AllUnderway(a)) + recorded[a] + lost[a]
        BY DEF Accounted
    <2>1. begun[a] = 0 /\ recorded[a] = 0 /\ lost[a] = 0
        BY DEF Init
    <2>2. \A i \in Instances : Underway(i, a) = 0
        BY DEF Init, Underway, Stages
    <2>3. AllUnderway(a) = {}
        BY <2>2, UnderwayIs
    <2>. QED BY <2>1, <2>3, FS_EmptySet
<1>2. TypeOK /\ Accounted /\ TypeOK' /\ [Next]_vars => Accounted'
    BY StepAccounted
<1>3. Accounted => RunsAccounted
    BY DEF Accounted, RunsAccounted
<1>. QED BY <1>1, <1>2, <1>3, TypeCorrect, PTL DEF Spec
=============================================================================
