-------------------------- MODULE MCSessionReaper --------------------------
(* Instances of SessionReaper for TLC: a session on each of two instances.  *)
EXTENDS SessionReaper

CONSTANTS s1, s2, i1, i2

SessionsHome == [s \in Sessions |-> IF s = s1 THEN i1 ELSE i2]
=============================================================================
