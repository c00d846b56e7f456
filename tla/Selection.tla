------------------------------ MODULE Selection ------------------------------
(***************************************************************************)
(* Choosing the members of a sequence that are in a set, which the modules *)
(* on chats share.  It does what SelectSeq does.                           *)
(***************************************************************************)
EXTENDS Naturals, Sequences

\* The members of seq that are in S, in their order.
Select(seq, S) ==
    LET found[n \in 0 .. Len(seq)] ==
            IF n = 0 THEN <<>>
            ELSE IF seq[n] \in S THEN Append(found[n - 1], seq[n]) ELSE found[n - 1]
    IN found[Len(seq)]
=============================================================================
