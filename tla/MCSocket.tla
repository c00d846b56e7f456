------------------------------ MODULE MCSocket ------------------------------
(***************************************************************************)
(* What sessions and instances share: a document several editors change,   *)
(* the pool of sessions with its cleanup, the list of models, and the      *)
(* tools and functions each instance has loaded.  They are separate keys   *)
(* of Redis and rows; what a document needs of the pool, that no session   *)
(* that is alive is taken out of it, is LiveSessionsStay.  A behaviour     *)
(* therefore follows one of the four, as part says.                        *)
(***************************************************************************)
EXTENDS CollabDocument, TLC

CONSTANTS
    Instances, Sessions, SessionTimeout, Heartbeat, LockTimeout, MaxCrashes, Nobody,
    Models, Steady, Never, MaxRefreshes, MaxRestarts,
    MaxTexts, MaxUses,
    Home, i1, i2, s1

VARIABLES
    part,
    status, listed, age, lock, loop, todo, doomed, nap, crashes,
    dict, enabled, base, signature, refresh, lookup, writers, refreshes, restarts,
    isTool, source, module, content, request, calls, used, reverted

sessionVars == <<status, listed, age, lock, loop, todo, doomed, nap, crashes>>
modelVars   == <<dict, enabled, base, signature, refresh, lookup, writers, refreshes, restarts>>
pluginVars  == <<isTool, source, module, content, request, calls, used, reverted>>

Reaper == INSTANCE SessionReaper WITH pool <- listed
List   == INSTANCE SharedModels
Cache  == INSTANCE PluginCache WITH
    Requests <- Editors, MaxText <- MaxTexts, MaxCalls <- MaxUses

ASSUME ReaperConstants == Reaper!ReaperConstants
ASSUME CacheConstants == MaxTexts \in Nat
ASSUME ListConstants == List!ListConstants

MCInit ==
    /\ part \in {"document", "sessions", "models", "plugins"}
    /\ Init /\ (part = "document" \/ ~shared)
    /\ Reaper!Init /\ List!Init
    /\ Cache!Init /\ (part = "plugins" \/ (isTool /\ source = 0))

MCNext ==
    \/ part = "document" /\ Next /\ UNCHANGED <<part, sessionVars, modelVars, pluginVars>>
    \/ part = "sessions" /\ Reaper!Next /\ UNCHANGED <<part, vars, modelVars, pluginVars>>
    \/ part = "models" /\ List!Next /\ UNCHANGED <<part, vars, sessionVars, pluginVars>>
    \/ part = "plugins" /\ Cache!Next /\ UNCHANGED <<part, vars, sessionVars, modelVars>>

MCSpec == MCInit /\ [][MCNext]_<<part, vars, sessionVars, modelVars, pluginVars>>

\* What rests is in an initial state, and needs no check.
Of(p, property) == part = p => property

TypesOK ==
    /\ Of("document", TypeOK)     /\ Of("sessions", Reaper!TypeOK)
    /\ Of("models", List!TypeOK)  /\ Of("plugins", Cache!TypeOK)

LiveSessionsStay == Of("sessions", Reaper!LiveSessionsStay)
ModelsAreServed  == List!ModelsAreServed
PluginsAreFresh  == Of("plugins", Cache!PluginsAreFresh)

\* With Redis the two editors only put the stored text into the document.
Bounded == shared => \A c \in Editors : made[c] = 0

\* A session on each instance.
SessionsHome == [s \in Sessions |-> IF s = s1 THEN i1 ELSE i2]

OwnInstance == [c \in Editors |-> c]
Sym == Permutations(Editors)
=============================================================================
