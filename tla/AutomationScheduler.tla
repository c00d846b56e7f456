------------------------ MODULE AutomationScheduler ------------------------
(***************************************************************************)
(* Scheduled automations: the claim of due rows by the scheduler loop of   *)
(* every instance (utils/automations.py, models/automations.py), their     *)
(* execution, and the HTTP handlers that create, update, toggle, run and   *)
(* delete them (routers/automations.py).                                   *)
(*                                                                         *)
(* The automation table is shared by all instances.  A handler or a claim  *)
(* loads a row with one statement and writes the columns it changed with   *)
(* another; the statements of all of them interleave.  On PostgreSQL the   *)
(* claim locks the rows it selects until it commits (FOR UPDATE SKIP       *)
(* LOCKED), on SQLite it does not.  Time is a counter; a recurrence rule   *)
(* is the set of moments at which it fires.                                *)
(***************************************************************************)
EXTENDS Naturals, FiniteSets, FiniteSetsExt

CONSTANTS
    Automations,    \* automation ids (uuid4)
    Instances,      \* server processes, each with one scheduler loop
    Handlers,       \* HTTP requests, each doing one operation
    Users, Owner,   \* the user an automation belongs to
    Rules,          \* recurrence rules: sets of moments
    InitialRule,    \* rule of the automations that exist at the start
    Existing,       \* the automations that exist at the start
    Postgres,       \* BOOLEAN: the dialect of the database
    Limit,          \* claim_due(limit=10)
    MaxCount,       \* automations.max_count, 0 for no limit
    MaxTime,        \* bound on the clock
    MaxCrashes      \* bound on instance crashes

ASSUME SchedulerConstants ==
    /\ Owner \in [Automations -> Users]
    /\ Rules \subseteq SUBSET (1..MaxTime) /\ InitialRule \in Rules
    /\ Existing \subseteq Automations /\ Automations # {}
    /\ Postgres \in BOOLEAN
    /\ Limit \in Nat \ {0}
    /\ {MaxCount, MaxTime, MaxCrashes} \subseteq Nat

VARIABLES
    now,        \* the clock
    row,        \* automation -> its row
    selected,   \* instance -> rows its open claim has selected
    loaded,     \* instance -> automation -> the row as the claim loaded it
    handler,    \* HTTP request -> where it is and what it holds
    claims,     \* automation -> moment -> executions begun for it (history)
    edits,      \* automation -> schedules written by handlers (history)
    execs,      \* instance -> automation -> stage -> executions there
    begun, recorded, lost,  \* automation -> executions begun, ended, cut off
    crashes

schedule   == <<claims, edits>>
executions == <<execs, begun, recorded, lost>>
vars == <<now, row, selected, loaded, handler, schedule, executions, crashes>>

Moments == 1..MaxTime
Stages  == {"gate", "chat"}

\* next = 0 stands for NULL.
Row == [st : {"new", "live", "deleted"}, active : BOOLEAN,
        rule : Rules, next : 0..MaxTime]

NoRow == [st |-> "new", active |-> FALSE, rule |-> InitialRule, next |-> 0]

Handler == [pc : {"ready", "checked", "computed", "loaded", "delete", "done"},
            op : {"none", "create", "update", "toggle", "delete"},
            on : Automations, rule : Rules, active : BOOLEAN,
            next : 0..MaxTime, old : Row]

\* Mutant: the occurrence of this moment counts as the next one.
NextRunInclusive(rule) ==
    LET later == {t \in rule : t >= now} IN IF later = {} THEN 0 ELSE Min(later)

\* Mutant: a rule without further occurrences fires once more.
NextRunEndless(rule) ==
    LET later == {t \in rule : t > now} IN IF later = {} THEN now + 1 ELSE Min(later)

\* next_run_ns: the first moment of the rule after now, or none.
NextRun(rule) ==
    LET later == {t \in rule : t > now} IN IF later = {} THEN 0 ELSE Min(later)

Idle(a) == [pc |-> "ready", op |-> "none", on |-> a, rule |-> InitialRule,
            active |-> FALSE, next |-> 0, old |-> NoRow]

Init ==
    /\ now = 0
    /\ row = [a \in Automations |->
                 IF a \in Existing
                 THEN [st |-> "live", active |-> TRUE, rule |-> InitialRule,
                       next |-> NextRun(InitialRule)]
                 ELSE NoRow]
    /\ selected = [i \in Instances |-> {}]
    /\ loaded = [i \in Instances |-> [a \in Automations |-> NoRow]]
    /\ handler = [h \in Handlers |-> Idle(CHOOSE a \in Automations : TRUE)]
    /\ claims = [a \in Automations |-> [t \in Moments |-> 0]]
    /\ edits = [a \in Automations |-> 0]
    /\ execs = [i \in Instances |-> [a \in Automations |-> [s \in Stages |-> 0]]]
    /\ begun = [a \in Automations |-> 0]
    /\ recorded = [a \in Automations |-> 0]
    /\ lost = [a \in Automations |-> 0]
    /\ crashes = 0

Live(a)   == row[a].st = "live"
Due(a)    == Live(a) /\ row[a].active /\ row[a].next # 0 /\ row[a].next <= now
\* Mutant: an edit does not wait for the claim that has locked its row.
LockedNever(a) == FALSE

Locked(a) == Postgres /\ \E i \in Instances : a \in selected[i]

Tick ==
    /\ now < MaxTime
    /\ now' = now + 1
    /\ UNCHANGED <<row, selected, loaded, handler, schedule, executions, crashes>>

-----------------------------------------------------------------------------
(* Automations.claim_due.                                                  *)

\* The first Limit of the candidates D by next_run_at.
Batch(D, B) ==
    /\ B \subseteq D
    /\ Cardinality(B) = Min({Limit, Cardinality(D)})
    /\ \A a \in B, b \in D \ B : row[a].next <= row[b].next

\* Mutant: the rows another claim has locked are selected as well.
ClaimableAnyway(a) == Due(a)

\* Mutant: only the rows that are due right now, not the overdue ones.
ClaimableOnTime(a) == Due(a) /\ row[a].next = now /\ ~Locked(a)

Claimable(a) == Due(a) /\ ~Locked(a)

ClaimSelect(i) ==
    /\ selected[i] = {}
    /\ \E B \in SUBSET {a \in Automations : Claimable(a)} :
          /\ Batch({a \in Automations : Claimable(a)}, B)
          /\ B # {}
          /\ selected' = [selected EXCEPT ![i] = B]
          /\ loaded' = [loaded EXCEPT ![i] =
                           [a \in Automations |-> IF a \in B THEN row[a] ELSE NoRow]]
    /\ UNCHANGED <<now, row, handler, schedule, executions, crashes>>

EndClaim(i) ==
    /\ selected' = [selected EXCEPT ![i] = {}]
    /\ loaded' = [loaded EXCEPT ![i] = [a \in Automations |-> NoRow]]

\* Every UPDATE of the commit has to match the row it was computed for.
AllMatched(i) == \A a \in selected[i] : Live(a)

\* The commit, and the tasks the loop creates for the rows it returns.
ClaimCommit(i) ==
    /\ selected[i] # {} /\ AllMatched(i)
    /\ row' = [a \in Automations |->
                  IF a \in selected[i]
                  THEN [row[a] EXCEPT !.next = NextRun(loaded[i][a].rule)]
                  ELSE row[a]]
    /\ claims' = [a \in Automations |->
                     IF a \in selected[i]
                     THEN [claims[a] EXCEPT ![loaded[i][a].next] = @ + 1]
                     ELSE claims[a]]
    /\ begun' = [a \in Automations |->
                    IF a \in selected[i] THEN begun[a] + 1 ELSE begun[a]]
    /\ execs' = [execs EXCEPT ![i] =
          [a \in Automations |->
              [execs[i][a] EXCEPT !["gate"] = IF a \in selected[i] THEN @ + 1 ELSE @]]]
    /\ EndClaim(i)
    /\ UNCHANGED <<now, handler, edits, recorded, lost, crashes>>

\* A selected row has been deleted: its UPDATE matches nothing, the ORM
\* raises and the whole claim is rolled back (SQLite only).
ClaimRollback(i) ==
    /\ selected[i] # {} /\ ~AllMatched(i)
    /\ EndClaim(i)
    /\ UNCHANGED <<now, row, handler, schedule, executions, crashes>>

-----------------------------------------------------------------------------
(* execute_automation: every path ends in one call of _record_run, as a    *)
(* success only after the chat exists and the completion has been called.  *)

Underway(i, a) == execs[i][a]["gate"] + execs[i][a]["chat"]

\* The owner exists and may run automations, and the chat is created.
ChatCreated(i, a) ==
    /\ execs[i][a]["gate"] > 0
    /\ execs' = [execs EXCEPT ![i][a] = [gate |-> @.gate - 1, chat |-> @.chat + 1]]
    /\ UNCHANGED <<now, row, selected, loaded, handler, schedule,
                   begun, recorded, lost, crashes>>

\* Mutant: a refused owner or a failed chat returns without a run record.
RecordRunIfChat(i, a) ==
    /\ \E s \in Stages :
          /\ execs[i][a][s] > 0
          /\ execs' = [execs EXCEPT ![i][a][s] = @ - 1]
          /\ recorded' = [recorded EXCEPT ![a] = IF s = "gate" THEN @ ELSE @ + 1]
    /\ UNCHANGED <<now, row, selected, loaded, handler, schedule,
                   begun, lost, crashes>>

\* An error at either stage, or the success of the completion.
RecordRun(i, a) ==
    /\ \E s \in Stages :
          /\ execs[i][a][s] > 0
          /\ execs' = [execs EXCEPT ![i][a][s] = @ - 1]
    /\ recorded' = [recorded EXCEPT ![a] = @ + 1]
    /\ UNCHANGED <<now, row, selected, loaded, handler, schedule,
                   begun, lost, crashes>>

\* The process dies: its transaction is rolled back, its executions end
\* without a record; it restarts with nothing selected.
Crash(i) ==
    /\ crashes < MaxCrashes
    /\ crashes' = crashes + 1
    /\ lost' = [a \in Automations |-> lost[a] + Underway(i, a)]
    /\ execs' = [execs EXCEPT ![i] = [a \in Automations |-> [s \in Stages |-> 0]]]
    /\ EndClaim(i)
    /\ UNCHANGED <<now, row, handler, schedule, begun, recorded>>

-----------------------------------------------------------------------------
(* routers/automations.py.  A request computes the next run first, loads   *)
(* the row, and commits the columns whose value it changed.                *)

Go(h, next) == handler' = [handler EXCEPT ![h] = next]

OnlyHandler == UNCHANGED <<now, row, selected, loaded, schedule, executions, crashes>>

Owned(u) == {a \in Automations : Live(a) /\ Owner[a] = u}

\* check_automation_limits, then the insert.
CreateCheck(h, a, rule) ==
    /\ handler[h].pc = "ready" /\ row[a].st = "new" /\ NextRun(rule) # 0
    /\ \A g \in Handlers : handler[g].op = "create" => handler[g].on # a
    /\ MaxCount > 0 => Cardinality(Owned(Owner[a])) < MaxCount
    /\ Go(h, [Idle(a) EXCEPT !.pc = "checked", !.op = "create", !.rule = rule])
    /\ OnlyHandler

CreateInsert(h) ==
    LET a == handler[h].on IN
    /\ handler[h].pc = "checked"
    /\ row' = [row EXCEPT ![a] = [st |-> "live", active |-> TRUE,
                                  rule |-> handler[h].rule,
                                  next |-> NextRun(handler[h].rule)]]
    /\ Go(h, [handler[h] EXCEPT !.pc = "done"])
    /\ UNCHANGED <<now, selected, loaded, schedule, executions, crashes>>

UpdateCompute(h, a, rule, active) ==
    /\ handler[h].pc = "ready" /\ Live(a) /\ NextRun(rule) # 0
    /\ Go(h, [Idle(a) EXCEPT !.pc = "computed", !.op = "update", !.rule = rule,
                             !.active = active, !.next = NextRun(rule)])
    /\ OnlyHandler

ToggleCompute(h, a) ==
    /\ handler[h].pc = "ready" /\ Live(a)
    /\ Go(h, [Idle(a) EXCEPT !.pc = "computed", !.op = "toggle",
                             !.next = NextRun(row[a].rule)])
    /\ OnlyHandler

\* db.get in update_by_id and toggle; nothing happens if the row is gone.
Load(h) ==
    LET a == handler[h].on IN
    /\ handler[h].pc = "computed"
    /\ Go(h, IF Live(a) THEN [handler[h] EXCEPT !.pc = "loaded", !.old = row[a]]
                        ELSE [handler[h] EXCEPT !.pc = "done"])
    /\ OnlyHandler

\* The row as update_by_id or toggle leaves the object it has loaded.
Edited(h) ==
    LET old == handler[h].old
        new == handler[h]
    IN  IF new.op = "update"
        THEN [old EXCEPT !.rule = new.rule, !.active = new.active, !.next = new.next]
        ELSE [old EXCEPT !.active = ~old.active,
                         !.next = IF old.active THEN 0 ELSE new.next]

\* Only the columns that differ from what was loaded are written.
Written(current, old, new) == IF new = old THEN current ELSE new

EditCommit(h) ==
    LET a   == handler[h].on
        old == handler[h].old
        new == Edited(h)
    IN  /\ handler[h].pc = "loaded" /\ ~Locked(a)
        /\ IF Live(a)
           THEN /\ row' = [row EXCEPT
                      ![a].active = Written(@, old.active, new.active),
                      ![a].rule   = Written(@, old.rule, new.rule),
                      ![a].next   = Written(@, old.next, new.next)]
                /\ edits' = [edits EXCEPT ![a] = IF new.next = old.next THEN @ ELSE @ + 1]
           ELSE UNCHANGED <<row, edits>>
        /\ Go(h, [handler[h] EXCEPT !.pc = "done"])
        /\ UNCHANGED <<now, selected, loaded, claims, executions, crashes>>

\* The runs of the automation are deleted and committed before the row is.
DeleteRuns(h, a) ==
    /\ handler[h].pc = "ready" /\ Live(a)
    /\ Go(h, [Idle(a) EXCEPT !.pc = "delete", !.op = "delete"])
    /\ OnlyHandler

DeleteRow(h) ==
    LET a == handler[h].on IN
    /\ handler[h].pc = "delete" /\ ~Locked(a)
    /\ row' = [row EXCEPT ![a].st = "deleted"]
    /\ Go(h, [handler[h] EXCEPT !.pc = "done"])
    /\ UNCHANGED <<now, selected, loaded, schedule, executions, crashes>>

\* run_automation_by_id: an execution at once, the schedule is not touched.
RunNow(h, a, i) ==
    /\ handler[h].pc = "ready" /\ Live(a)
    /\ Go(h, [Idle(a) EXCEPT !.pc = "done"])
    /\ begun' = [begun EXCEPT ![a] = @ + 1]
    /\ execs' = [execs EXCEPT ![i][a]["gate"] = @ + 1]
    /\ UNCHANGED <<now, row, selected, loaded, schedule, recorded, lost, crashes>>

-----------------------------------------------------------------------------
Claim(i) == ClaimSelect(i) \/ ClaimCommit(i) \/ ClaimRollback(i)

Request(h) ==
    \/ \E a \in Automations, rule \in Rules :
          \/ CreateCheck(h, a, rule)
          \/ \E active \in BOOLEAN : UpdateCompute(h, a, rule, active)
    \/ \E a \in Automations : ToggleCompute(h, a) \/ DeleteRuns(h, a)
    \/ \E a \in Automations, i \in Instances : RunNow(h, a, i)
    \/ CreateInsert(h) \/ Load(h) \/ EditCommit(h) \/ DeleteRow(h)

Next ==
    \/ Tick
    \/ \E i \in Instances : Claim(i) \/ Crash(i)
    \/ \E i \in Instances, a \in Automations : ChatCreated(i, a) \/ RecordRun(i, a)
    \/ \E h \in Handlers : Request(h)

\* The loop of every instance polls for ever and survives errors
\* (scheduler_worker_loop), and a crashed instance is restarted.  Clients
\* owe nothing, and the clock need not advance.
Fairness == \A i \in Instances : WF_vars(Claim(i))

Spec == Init /\ [][Next]_vars

FairSpec == Spec /\ Fairness

-----------------------------------------------------------------------------
(* Properties.                                                             *)

TypeOK ==
    /\ now \in 0..MaxTime
    /\ row \in [Automations -> Row]
    /\ selected \in [Instances -> SUBSET Automations]
    /\ loaded \in [Instances -> [Automations -> Row]]
    /\ handler \in [Handlers -> Handler]
    /\ claims \in [Automations -> [Moments -> Nat]]
    /\ \A f \in {edits, begun, recorded, lost} : f \in [Automations -> Nat]
    /\ execs \in [Instances -> [Automations -> [Stages -> Nat]]]
    /\ crashes \in 0..MaxCrashes

\* A due moment is executed once per schedule, by all instances together and
\* across their crashes: only a user who writes the schedule again can make
\* it run again ("so the row can never be double-claimed",
\* models/automations.py, line 261).
OncePerSchedule ==
    \A a \in Automations, t \in Moments : claims[a][t] <= 1 + edits[a]

\* What a claim executes is what the table says at that moment: the row is
\* active, due and unchanged since it was selected, however late the commit
\* comes; a pause, a deletion or a new schedule is never overrun.
ClaimsAreCurrent ==
    [][\A a \in Automations : claims'[a] # claims[a] =>
          /\ Due(a)
          /\ claims'[a] = [claims[a] EXCEPT ![row[a].next] = @ + 1]
          /\ row'[a].rule = row[a].rule]_vars

\* All instances together claim as one would that takes due rows in a single
\* step, whatever interleaves with their transactions (PostgreSQL).
Atomic == INSTANCE AtomicClaims WITH
              Automations <- Automations, Rules <- Rules, MaxTime <- MaxTime,
              now <- now, row <- row, claims <- claims
ImplementsAtomicClaims == Atomic!Spec

\* A deleted automation is not executed any more, not even by a claim that
\* selected it before (on SQLite the claim fails as a whole).
DeletedIsNotClaimed ==
    [][\A a \in Automations : claims'[a] # claims[a] => Live(a)]_vars

\* The executions of an automation at all instances, numbered at each.
AllUnderway(a) == UNION {{i} \X (1..Underway(i, a)) : i \in Instances}

\* Every execution that began is underway, has its one run record, or was
\* cut off by the crash of its instance (execute_automation).
RunsAccounted ==
    \A a \in Automations :
        begun[a] = Cardinality(AllUnderway(a)) + recorded[a] + lost[a]

\* Whatever the other instances claim, crash or skip, and although a claim
\* takes only the first Limit rows, an automation that is due is claimed
\* unless a user edits or deletes it.
DueIsClaimed ==
    \A a \in Automations : Due(a) ~> ~Due(a)
=============================================================================
