---------------------------- MODULE MCScheduler -----------------------------
(***************************************************************************)
(* The two jobs of the scheduler loop on PostgreSQL: due automations and   *)
(* calendar alerts.  They share the loop but no row, column or lock, so a  *)
(* behaviour follows one of them, as job says.                             *)
(***************************************************************************)
EXTENDS MCAutomationScheduler

CONSTANTS Events, AlertHandlers, Starts, AlertChoices, MaxLookahead, Grace, MaxGap,
          AlertMaxTime

VARIABLES job, clock, event, poll, gap, request, alerts, moved, settled, saves, failures,
          alertCrashes

alertVars == <<clock, event, poll, gap, request, alerts, moved, settled, saves, failures,
               alertCrashes>>

Calendar == INSTANCE CalendarAlerts WITH
    Handlers <- AlertHandlers, MaxTime <- AlertMaxTime,
    now <- clock, loop <- poll, handler <- request, crashes <- alertCrashes

ASSUME CalendarConstants == Calendar!AlertConstants

MCInit == job \in {"automations", "alerts"} /\ Init /\ Calendar!Init

MCNext ==
    \/ job = "automations" /\ Next /\ UNCHANGED <<job, alertVars>>
    \/ job = "alerts" /\ Calendar!Next /\ UNCHANGED <<job, vars>>

MCSpec == MCInit /\ [][MCNext]_<<job, vars, alertVars>>

AlertsHold == Calendar!TypeOK /\ Calendar!AlertsHold

\* At the time of the event, or a tick before.
AtTime_Before == {0, 1}
=============================================================================
