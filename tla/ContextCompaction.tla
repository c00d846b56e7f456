-------------------------- MODULE ContextCompaction --------------------------
(***************************************************************************)
(* What a model is told of a long chat (utils/context_compaction.py and    *)
(* its call in process_chat_payload, utils/middleware.py).  Messages 1, 3, *)
(* 5, ... of a branch are the user's, the others the answers; 0 is the     *)
(* system prompt of the chat.  A compaction replaces the older messages of *)
(* a request by a summary and stores it at the user's message; later       *)
(* requests start there.  A summary stands for the messages it was made    *)
(* from, and for those the summary before it stood for.                    *)
(***************************************************************************)
EXTENDS Integers, Sequences, FiniteSetsExt, Functions

CONSTANT MaxTurns     \* bound: messages the user sends

VARIABLES
    prompted,    \* the chat has a system prompt
    length,      \* messages of the branch
    outputs,     \* answers with output items (tool calls, reasoning)
    summaries,   \* contextSummary: message -> what its summary stands for
    asked,       \* what the last request was about, in order
    told,        \* what of it was sent, as messages or in the summary
    kept         \* messages a compaction kept, that are older than its checkpoint

vars == <<prompted, length, outputs, summaries, asked, told, kept>>

Branch(n) == (IF prompted THEN <<0>> ELSE <<>>) \o [i \in 1 .. n |-> i]
OddLength == length % 2 = 1

-----------------------------------------------------------------------------
(* _apply_latest_summary_checkpoint and _find_compaction_boundary. *)

Checkpoints(list) == {i \in DOMAIN list : list[i] \in DOMAIN summaries}

\* From the latest checkpoint on, the checkpoint included.
SinceCheckpoint(list) ==
    IF Checkpoints(list) = {} THEN list ELSE SubSeq(list, Max(Checkpoints(list)), Len(list))

\* Mutant: the previous summary is not handed on.
SummarisedAfresh(list) == {}

\* What the summary at the latest checkpoint stands for.
Summarised(list) ==
    IF Checkpoints(list) = {} THEN {} ELSE summaries[list[Max(Checkpoints(list))]]

\* Messages to compact: the last two fifths stay, at least two, and an answer
\* with output is not the last one to go.
Boundary(list) ==
    LET split == Max({1, Len(list) - Max({2, (Len(list) * 2) \div 5})})
        free == {i \in split .. Len(list) - 1 : i = Len(list) - 1 \/ list[i] \notin outputs}
    IN Min({Min(free), Len(list) - 2})

-----------------------------------------------------------------------------
Init ==
    /\ prompted \in BOOLEAN
    /\ length = 0 /\ outputs = {} /\ summaries = <<>>
    /\ asked = <<>> /\ told = {} /\ kept = {}

Summarise(m, covered) ==
    summaries' = [x \in DOMAIN summaries \cup {m} |-> IF x = m THEN covered ELSE summaries[x]]

\* compact_messages_for_request; exceeds: the tokens are over the threshold,
\* failed: the model that writes the summary fails, and all is sent.
Ask(exceeds, failed) ==
    LET list == Branch(length + 1)
        recent == SinceCheckpoint(list)
        before == Summarised(list)
        split == Boundary(recent)
    IN /\ ~OddLength
       /\ length < 2 * MaxTurns
       /\ length' = length + 1
       /\ asked' = list
       /\ IF ~exceeds \/ Len(recent) <= 3
          THEN told' = Range(recent) \cup before /\ UNCHANGED <<summaries, kept>>
          ELSE IF failed
          THEN told' = Range(list) /\ UNCHANGED <<summaries, kept>>
          ELSE /\ told' = Range(recent) \cup before
               /\ Summarise(length + 1, before \cup Range(SubSeq(recent, 1, split)))
               /\ kept' = kept \cup (Range(SubSeq(recent, split + 1, Len(recent))) \ {length + 1})
       /\ UNCHANGED <<prompted, outputs>>

Answer(hasOutput) ==
    /\ OddLength
    /\ length' = length + 1
    /\ outputs' = IF hasOutput THEN outputs \cup {length + 1} ELSE outputs
    /\ UNCHANGED <<prompted, summaries, asked, told, kept>>

\* compact_chat_branch, on demand: all but the last message of the branch,
\* which gets the summary.  The system prompt is not stored with the branch.
CompactBranch ==
    LET list == [i \in 1 .. length |-> i]
        recent == SinceCheckpoint(list)
    IN /\ length > 0 /\ ~OddLength
       /\ Len(recent) > 2
       /\ Summarise(length, Summarised(list) \cup Range(SubSeq(recent, 1, Len(recent) - 1)))
       /\ UNCHANGED <<prompted, length, outputs, asked, told, kept>>

Next ==
    \/ \E exceeds, failed \in BOOLEAN : Ask(exceeds, failed)
    \/ \E hasOutput \in BOOLEAN : Answer(hasOutput)
    \/ CompactBranch

Spec == Init /\ [][Next]_vars

-----------------------------------------------------------------------------
(* Properties. *)

TypeOK ==
    /\ prompted \in BOOLEAN
    /\ length \in 0 .. 2 * MaxTurns
    /\ outputs \subseteq 1 .. length
    /\ \A m \in DOMAIN summaries : m \in 1 .. length /\ summaries[m] \subseteq 0 .. m - 1
    /\ asked \in Seq(0 .. length) /\ told \subseteq Range(asked)

\* "Recent Messages Kept In Context": the model knows each message of the
\* branch, from the request or from the summary (context_compaction.py:30-40).
NothingForgotten == Range(asked) \ {0} \subseteq told

\* Only the messages a compaction kept beside its summary can be forgotten
\* later, since its checkpoint is the user's message and not the boundary
\* (context_compaction.py:56-62 and 110-118).
OnlyKeptAreForgotten == Range(asked) \ ({0} \cup kept) \subseteq told
=============================================================================
