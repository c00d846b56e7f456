---------------------------- MODULE AtomicClaims ----------------------------
(***************************************************************************)
(* What the automation scheduler promises, without its transactions: all   *)
(* instances together behave as one that claims due rows in one step, by   *)
(* the schedules they have at that moment, while users write single rows.  *)
(***************************************************************************)
EXTENDS Naturals

CONSTANTS Automations, Rules, MaxTime

VARIABLES now, row, claims

vars == <<now, row, claims>>

Row == [st : {"new", "live", "deleted"}, active : BOOLEAN,
        rule : Rules, next : 0..MaxTime]

Init ==
    /\ now = 0
    /\ row \in [Automations -> Row]
    /\ claims = [a \in Automations |-> [t \in 1..MaxTime |-> 0]]

Tick == now' = now + 1 /\ UNCHANGED <<row, claims>>

Due(a) == row[a].st = "live" /\ row[a].active /\ row[a].next \in 1..now

\* t is the first moment of the rule after now, or 0 if there is none.
IsNextRun(rule, t) ==
    \/ t \in rule /\ t > now /\ \A u \in rule : u > now => t <= u
    \/ t = 0 /\ \A u \in rule : u <= now

\* The rows of S are executed for the moments they stand at, and advanced.
Claim(S) ==
    /\ \A a \in S : Due(a)
    /\ claims' = [a \in Automations |->
                     IF a \in S THEN [claims[a] EXCEPT ![row[a].next] = @ + 1]
                                ELSE claims[a]]
    /\ \E next \in [S -> 0..MaxTime] :
          /\ \A a \in S : IsNextRun(row[a].rule, next[a])
          /\ row' = [a \in Automations |->
                        IF a \in S THEN [row[a] EXCEPT !.next = next[a]] ELSE row[a]]
    /\ UNCHANGED now

\* A row is inserted, written or deleted; a deleted row stays deleted.
Follows(st) == CASE st = "new" -> {"live"}
                 [] st = "live" -> {"live", "deleted"}
                 [] OTHER -> {"deleted"}

Write(a) ==
    /\ \E r \in Row : r.st \in Follows(row[a].st) /\ row' = [row EXCEPT ![a] = r]
    /\ UNCHANGED <<now, claims>>

Next ==
    \/ Tick
    \/ \E S \in SUBSET Automations : Claim(S)
    \/ \E a \in Automations : Write(a)

Spec == Init /\ [][Next]_vars
=============================================================================
