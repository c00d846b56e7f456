--------------------------- MODULE CalendarAlerts ---------------------------
(***************************************************************************)
(* Alerts for upcoming calendar events: _check_calendar_alerts, which the  *)
(* scheduler loop of every instance calls (utils/automations.py), with the *)
(* event rows of models/calendar.py and the requests that change them      *)
(* (routers/calendar.py).                                                  *)
(*                                                                         *)
(* An instance polls the table, and then emits, event by event, an alert   *)
(* and marks the event in its meta column.  update_event_by_id loads the   *)
(* row and writes the columns it changed in a second statement; meta is    *)
(* one column, merged from what was loaded.  One tick of the clock stands  *)
(* for a part of the poll interval; a poll with its alerts and marks is    *)
(* taken to last less than a tick.                                         *)
(***************************************************************************)
EXTENDS Integers, FiniteSets

CONSTANTS
    Events,
    Instances,     \* server processes, each with one scheduler loop
    Handlers,      \* HTTP requests, each saving or deleting an event once
    Starts,        \* the moments an event may start at, among 0..MaxTime
    AlertChoices,  \* values of meta.alert_minutes; -1 for no alert
    MaxLookahead,  \* how far ahead get_upcoming_events looks at all
    Grace,         \* grace_ns
    MaxGap,        \* poll interval and jitter, at most Grace
    MaxTime,       \* bound on the clock
    MaxCrashes     \* bound on instance crashes

\* The grace window covers a poll cycle with its jitter (utils/automations.py
\* 568-570).
AlertConstants ==
    /\ IsFiniteSet(Instances)
    /\ {MaxLookahead, Grace, MaxGap, MaxTime, MaxCrashes} \subseteq Nat
    /\ Events # {}
    /\ Starts \subseteq 0..MaxTime /\ Starts # {}
    /\ AlertChoices \subseteq Int /\ AlertChoices # {}
    /\ MaxGap <= Grace

VARIABLES
    now,      \* the clock
    event,    \* event -> its row
    loop,     \* instance -> its pass through _check_calendar_alerts
    gap,      \* instance -> ticks since its last poll
    handler,  \* HTTP request -> where it is and what it holds
    alerts,   \* event -> start -> alerts emitted for it (history)
    moved,    \* events whose start was changed (history)
    settled,  \* event -> time of its creation or last save (history)
    saves,    \* event -> saves committed (history)
    failures, \* event -> marks that failed (history)
    crashes

history == <<alerts, moved, settled, saves, failures>>
vars    == <<now, event, loop, gap, handler, history, crashes>>

\* meta holds alert_minutes and alerted_at; only the presence of the latter
\* is ever looked at.
Meta  == [minutes : AlertChoices, alerted : BOOLEAN]
Event == [st : {"none", "live", "deleted"}, start : Starts,
          cancelled : BOOLEAN, meta : Meta]

NoEvent == [st |-> "none", start |-> CHOOSE s \in Starts : TRUE, cancelled |-> FALSE,
            meta |-> [minutes |-> CHOOSE m \in AlertChoices : TRUE, alerted |-> FALSE]]

AnEvent == CHOOSE e \in Events : TRUE
Asleep  == [pc |-> "sleep", todo |-> {}, on |-> AnEvent,
            seen |-> [e \in Events |-> NoEvent], old |-> NoEvent]
Waiting == [pc |-> "ready", on |-> AnEvent, new |-> NoEvent, old |-> NoEvent]

Live(e) == event[e].st = "live"

Init ==
    /\ now = 0
    /\ event = [e \in Events |-> NoEvent]
    /\ loop = [i \in Instances |-> Asleep]
    /\ gap = [i \in Instances |-> 0]
    /\ handler = [h \in Handlers |-> Waiting]
    /\ alerts = [e \in Events |-> [s \in Starts |-> 0]]
    /\ moved = {}
    /\ settled = [e \in Events |-> 0]
    /\ saves = [e \in Events |-> 0]
    /\ failures = [e \in Events |-> 0]
    /\ crashes = 0

\* Every loop polls again within the poll interval and its jitter.
Tick ==
    /\ now < MaxTime
    /\ \A i \in Instances : loop[i].pc = "sleep" /\ gap[i] < MaxGap
    /\ now' = now + 1
    /\ gap' = [i \in Instances |-> gap[i] + 1]
    /\ UNCHANGED <<event, loop, handler, history, crashes>>

-----------------------------------------------------------------------------
(* get_upcoming_events and the loop over what it returns.                  *)

Upcoming(e) ==
    /\ Live(e) /\ ~event[e].cancelled
    /\ event[e].start >= now - Grace
    /\ event[e].start <= now + MaxLookahead
    /\ event[e].meta.minutes >= 0
    /\ event[e].start <= now + event[e].meta.minutes

Poll(i) ==
    /\ loop[i].pc = "sleep"
    /\ loop' = [loop EXCEPT ![i] =
          [Asleep EXCEPT !.pc = IF \E e \in Events : Upcoming(e) THEN "loop" ELSE "sleep",
                         !.todo = {e \in Events : Upcoming(e)},
                         !.seen = [e \in Events |->
                                      IF Upcoming(e) THEN event[e] ELSE NoEvent]]]
    /\ gap' = [gap EXCEPT ![i] = 0]
    /\ UNCHANGED <<now, event, handler, history, crashes>>

\* The pass goes on without e, or ends with it.
Dropped(pass, e) ==
    IF pass.todo = {e} THEN Asleep
    ELSE [pass EXCEPT !.pc = "loop", !.todo = @ \ {e}, !.seen[e] = NoEvent, !.old = NoEvent]
Drop(i, e) == loop' = [loop EXCEPT ![i] = Dropped(loop[i], e)]

Skip(i, e) ==
    /\ loop[i].pc = "loop" /\ e \in loop[i].todo
    /\ loop[i].seen[e].meta.alerted
    /\ Drop(i, e)
    /\ UNCHANGED <<now, event, gap, handler, history, crashes>>

\* Mutant: the mark of the row is not looked at.
EmitAnyway(i, e) ==
    /\ loop[i].pc = "loop" /\ e \in loop[i].todo
    /\ alerts' = [alerts EXCEPT ![e][loop[i].seen[e].start] = @ + 1]
    /\ loop' = [loop EXCEPT ![i].pc = "mark", ![i].on = e]
    /\ UNCHANGED <<now, event, gap, handler, moved, settled, saves, failures, crashes>>

Emit(i, e) ==
    /\ loop[i].pc = "loop" /\ e \in loop[i].todo
    /\ ~loop[i].seen[e].meta.alerted
    /\ alerts' = [alerts EXCEPT ![e][loop[i].seen[e].start] = @ + 1]
    /\ loop' = [loop EXCEPT ![i].pc = "mark", ![i].on = e]
    /\ UNCHANGED <<now, event, gap, handler, moved, settled, saves, failures, crashes>>

\* update_event_by_id(meta={'alerted_at': now_ns}): the row is loaded ...
MarkLoad(i) ==
    /\ loop[i].pc = "mark"
    /\ IF Live(loop[i].on)
       THEN loop' = [loop EXCEPT ![i].pc = "marking", ![i].old = event[loop[i].on]]
       ELSE Drop(i, loop[i].on)
    /\ UNCHANGED <<now, event, gap, handler, history, crashes>>

\* ... and its meta written back, if the row is still there.
MarkCommit(i) ==
    LET e == loop[i].on IN
    /\ loop[i].pc = "marking"
    /\ event' = IF Live(e)
                THEN [event EXCEPT ![e].meta = [loop[i].old.meta EXCEPT !.alerted = TRUE]]
                ELSE event
    /\ Drop(i, e)
    /\ UNCHANGED <<now, gap, handler, history, crashes>>

\* A failure is logged at debug level and swallowed.
MarkFails(i) ==
    LET e == loop[i].on IN
    /\ loop[i].pc \in {"mark", "marking"}
    /\ failures[e] = 0
    /\ failures' = [failures EXCEPT ![e] = @ + 1]
    /\ Drop(i, e)
    /\ UNCHANGED <<now, event, gap, handler, alerts, moved, settled, saves, crashes>>

Crash(i) ==
    /\ crashes < MaxCrashes /\ loop[i].pc # "sleep"
    /\ crashes' = crashes + 1
    /\ loop' = [loop EXCEPT ![i] = Asleep]
    /\ UNCHANGED <<now, event, gap, handler, history>>

-----------------------------------------------------------------------------
(* Requests of users: create, save (the form sends start, state and        *)
(* alert_minutes together) and delete.                                     *)

Create(h, e, start, minutes) ==
    /\ handler[h].pc = "ready" /\ event[e].st = "none"
    /\ event' = [event EXCEPT ![e] =
          [st |-> "live", start |-> start, cancelled |-> FALSE,
           meta |-> [minutes |-> minutes, alerted |-> FALSE]]]
    /\ settled' = [settled EXCEPT ![e] = now]
    /\ handler' = [handler EXCEPT ![h].pc = "done"]
    /\ UNCHANGED <<now, loop, gap, alerts, moved, saves, failures, crashes>>

SaveLoad(h, e, start, minutes, cancelled) ==
    /\ handler[h].pc = "ready" /\ Live(e)
    /\ handler' = [handler EXCEPT ![h] =
          [pc |-> "loaded", on |-> e, old |-> event[e],
           new |-> [event[e] EXCEPT !.start = start, !.cancelled = cancelled,
                                    !.meta.minutes = minutes]]]
    /\ UNCHANGED <<now, event, loop, gap, history, crashes>>

\* Only the columns that differ from what was loaded are written.
Written(current, old, new) == IF new = old THEN current ELSE new

SaveCommit(h) ==
    LET e   == handler[h].on
        old == handler[h].old
        new == handler[h].new
    IN  /\ handler[h].pc = "loaded"
        /\ IF Live(e)
           THEN /\ event' = [event EXCEPT
                      ![e].start     = Written(@, old.start, new.start),
                      ![e].cancelled = Written(@, old.cancelled, new.cancelled),
                      ![e].meta      = Written(@, old.meta, new.meta)]
                /\ moved' = IF event'[e].start = event[e].start THEN moved
                            ELSE moved \cup {e}
                /\ settled' = [settled EXCEPT ![e] = now]
                /\ saves' = [saves EXCEPT ![e] = @ + 1]
           ELSE UNCHANGED <<event, moved, settled, saves>>
        /\ handler' = [handler EXCEPT ![h] = [Waiting EXCEPT !.pc = "done"]]
        /\ UNCHANGED <<now, loop, gap, alerts, failures, crashes>>

Delete(h, e) ==
    /\ handler[h].pc = "ready" /\ Live(e)
    /\ event' = [event EXCEPT ![e].st = "deleted"]
    /\ handler' = [handler EXCEPT ![h].pc = "done"]
    /\ UNCHANGED <<now, loop, gap, history, crashes>>

-----------------------------------------------------------------------------
Next ==
    \/ Tick
    \/ \E i \in Instances :
          \/ Poll(i) \/ MarkLoad(i) \/ MarkCommit(i) \/ MarkFails(i) \/ Crash(i)
          \/ \E e \in Events : Skip(i, e) \/ Emit(i, e)
    \/ \E h \in Handlers, e \in Events :
          \/ \E s \in Starts, m \in AlertChoices :
                \/ Create(h, e, s, m)
                \/ \E c \in BOOLEAN : SaveLoad(h, e, s, m, c)
          \/ Delete(h, e)
    \/ \E h \in Handlers : SaveCommit(h)

Spec == Init /\ [][Next]_vars

-----------------------------------------------------------------------------
(* Properties.                                                             *)

TypeOK ==
    /\ now \in 0..MaxTime
    /\ event \in [Events -> Event]
    /\ loop \in [Instances ->
          [pc : {"sleep", "loop", "mark", "marking"}, todo : SUBSET Events,
           on : Events, seen : [Events -> Event], old : Event]]
    /\ gap \in [Instances -> 0..MaxGap]
    /\ handler \in [Handlers ->
          [pc : {"ready", "loaded", "done"}, on : Events, new : Event, old : Event]]
    /\ alerts \in [Events -> [Starts -> Nat]]
    /\ moved \subseteq Events
    /\ settled \in [Events -> 0..MaxTime]
    /\ saves \in [Events -> Nat] /\ failures \in [Events -> Nat]
    /\ crashes \in 0..MaxCrashes

Alerted(e) == \E s \in Starts : alerts[e][s] > 0

\* An alert comes before its mark, so neither a crash between the two nor a
\* mark written from an old copy of the row suppresses an alert nobody has
\* had (emit at line 597, mark at line 609).
MarkedMeansAlerted == \A e \in Events : event[e].meta.alerted => Alerted(e)

\* The alert of a start is repeated only for a reason: by each instance that
\* polled before the first mark, and again when an instance crashed before
\* its mark, a mark failed, or a save of the user wrote back a meta it had
\* loaded before the mark.
RepeatedForAReason ==
    \A e \in Events, s \in Starts :
        alerts[e][s] <= Cardinality(Instances) * (1 + failures[e] + saves[e]) + crashes

\* "ensures 'At time of event' alerts (alert_minutes=0) are not missed when
\* the scheduler polls a few seconds after the event's exact start time"
\* (models/calendar.py, lines 706-710): an event that was in place by its
\* start has been announced when the grace window is over, as long as one
\* instance has stayed up and the event was not moved.
NotMissed ==
    crashes < Cardinality(Instances) =>
        \A e \in Events :
            /\ Live(e) /\ ~event[e].cancelled /\ event[e].meta.minutes >= 0
            /\ e \notin moved /\ settled[e] <= event[e].start
            /\ event[e].start + Grace < now
            => alerts[e][event[e].start] > 0

\* Every start is announced, repeated only for a reason, and marked after it.
AlertsHold == MarkedMeansAlerted /\ RepeatedForAReason /\ NotMissed
=============================================================================
