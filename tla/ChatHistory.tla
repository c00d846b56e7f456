----------------------------- MODULE ChatHistory -----------------------------
(***************************************************************************)
(* The messages of one chat (models/chats.py, models/chat_messages.py).    *)
(* They are kept twice: as a tree in the JSON column of the chat row, the  *)
(* blob, and as one chat_message row per message.  Every writer loads the  *)
(* whole blob in one transaction, changes its copy and writes the copy     *)
(* back in another; rows are written one by one, in transactions of their  *)
(* own.  The routes, the chat completion and the turns of a fan-out are    *)
(* scripts of such steps, run by writers that interleave at every          *)
(* transaction.                                                            *)
(*                                                                         *)
(* Message ids are numbers in order of creation, so the greatest is the    *)
(* latest timestamp; 0 is None.  Roles are left out, and content is the    *)
(* number of the text written last.                                        *)
(***************************************************************************)
EXTENDS Selection, SequencesExt

CONSTANTS Writers,       \* requests and tasks that write to the chat
          MaxMessages,   \* bound: messages ever created
          MaxInitial,    \* bound: messages of the chat in the beginning
          MaxScripts,    \* bound: scripts started
          MaxText,       \* bound: texts of one message
          FanOut         \* models that answer one message

ASSUME ChatConstants ==
    {MaxMessages, MaxInitial, MaxText, FanOut} \subseteq Nat /\ MaxInitial <= MaxMessages

VARIABLES blob,        \* chat.history: [msgs, current]
          rows,        \* chat_message: id -> [parent, text]
          run,         \* writer -> what it is doing
          tab,         \* the history a browser tab has loaded
          created,     \* messages created so far
          started,     \* scripts started
          disturbed,   \* did two scripts overlap, or one die?
          rewritten,   \* may a row have been rewritten from an older copy?
          removed,     \* message a user has deleted -> messages created by then,
                       \* the first time
          returned,    \* those of them that were saved again
          texts,       \* message -> texts its turn or its user has saved
          healed       \* which history the last script has put in order

vars == <<blob, rows, run, tab, created, started, disturbed, rewritten, removed,
          returned, texts, healed>>

deletions == <<removed, returned>>

Ids == 1 .. MaxMessages
Within(seq, S) == Select(seq, S)
Outside(seq, S) == Select(seq, Range(seq) \ S)
InOrder(S) == Select([m \in Ids |-> m], S)
EmptyHistory == [msgs |-> <<>>, current |-> 0]
Idle == [script |-> <<>>, at |-> "idle", copy |-> EmptyHistory, left |-> {}, gone |-> {},
         alone |-> FALSE]

-----------------------------------------------------------------------------
(* The tree. *)

Leaves(msgs) == {m \in DOMAIN msgs : msgs[m].kids = <<>>}

\* A currentId that names no message is repaired on every load.
Repair(h) ==
    IF h.current \in DOMAIN h.msgs \/ Leaves(h.msgs) = {} THEN h
    ELSE [h EXCEPT !.current = Max(Leaves(h.msgs))]

\* The leaf below m along the last children; 0 stands for the top, whose
\* children are the roots.
LastLeaf(msgs, m) ==
    LET roots == InOrder({x \in DOMAIN msgs : msgs[x].parent = 0})
        kids(x) == IF x = 0 THEN roots
                   ELSE IF x \in DOMAIN msgs THEN msgs[x].kids ELSE <<>>
        down[k \in 0 .. MaxMessages] ==
            IF k = 0 THEN m
            ELSE IF kids(down[k - 1]) = <<>> THEN down[k - 1] ELSE Last(kids(down[k - 1]))
        leaf == down[MaxMessages]
    IN IF leaf \in DOMAIN msgs THEN leaf ELSE 0

Below(msgs, m) == Within(msgs[m].kids, DOMAIN msgs)

\* A message is deleted with its children; the grandchildren move up.
DeletedIds(msgs, m) == {m} \cup Range(Below(msgs, m))

DeleteFrom(h, m) ==
    LET msgs == h.msgs
        up == msgs[m].parent
        kids == Below(msgs, m)
        grand == FlattenSeq([i \in 1 .. Len(kids) |-> Below(msgs, kids[i])])
        moved == [x \in DOMAIN msgs \ DeletedIds(msgs, m) |->
                    IF x = up
                    THEN [msgs[x] EXCEPT !.kids = Outside(@, {m}) \o grand]
                    ELSE IF x \in Range(grand) THEN [msgs[x] EXCEPT !.parent = up]
                    ELSE msgs[x]]
    IN [msgs |-> moved, current |-> LastLeaf(moved, up)]

\* Mutant: the children are taken over from the two histories.
MergeMessages(old, new) ==
    LET ids == DOMAIN old.msgs \cup DOMAIN new.msgs
    IN [msgs |-> [x \in ids |-> IF x \in DOMAIN new.msgs THEN new.msgs[x] ELSE old.msgs[x]],
        current |-> IF new.current \in ids THEN new.current ELSE old.current]

MergeHistory(old, new) ==
    LET ids == DOMAIN old.msgs \cup DOMAIN new.msgs
        both == [x \in ids |-> IF x \in DOMAIN new.msgs THEN new.msgs[x] ELSE old.msgs[x]]
        children(x) == InOrder({y \in ids : both[y].parent = x})
    IN [msgs |-> [x \in ids |-> [both[x] EXCEPT !.kids = children(x)]],
        current |-> IF new.current \in ids THEN new.current
                    ELSE IF old.current \in ids THEN old.current ELSE 0]

-----------------------------------------------------------------------------
(* Scripts. *)

Save(m, parent, text) == [do |-> "save", msg |-> m, parent |-> parent, text |-> text]
Link(m, kids)         == [do |-> "link", msg |-> m, kids |-> kids]
Touch                 == [do |-> "touch"]    \* a status, the title, the models, the tasks
Delete(m)             == [do |-> "delete", msg |-> m]
Update(h)             == [do |-> "update", incoming |-> h]
Read                  == [do |-> "read"]

\* chat_completion for a chat that exists: the models, the user's message and
\* its link, the links of the answers, and a placeholder for each of them.
Completion(parent, user, answers) ==
    <<Touch, Save(user, parent, 0)>>
    \o (IF parent = 0 THEN <<>> ELSE <<Link(parent, <<user>>)>>)
    \o <<Link(user, answers)>>
    \o [i \in 1 .. Len(answers) |-> Save(answers[i], user, 0)]

Step(w) == Head(run[w].script)
Busy == {w \in Writers : run[w].at # "idle"}
FirstPhase(step) ==
    CASE step.do = "link" -> "peek" [] step.do = "read" -> "rows" [] OTHER -> "load"
Wholesale(script) == \E i \in DOMAIN script : script[i].do \in {"delete", "update", "read"}
Linked(script) == {script[i].msg : i \in {j \in DOMAIN script : script[j].do = "link"}}
Written(script) ==
    Linked(script) \cup {script[i].msg : i \in {j \in DOMAIN script : script[j].do = "save"}}

Init ==
    /\ \E n \in 0 .. MaxInitial, known \in SUBSET Ids :
       \E parent \in [1 .. n -> 0 .. n] :
        /\ \A m \in 1 .. n : parent[m] < m
        /\ created = n
        /\ blob = [msgs |-> [m \in 1 .. n |->
                               [parent |-> parent[m], text |-> 0,
                                kids |-> InOrder({k \in 1 .. n : parent[k] = m})]],
                   current |-> n]
        /\ rows = [m \in known \cap 1 .. n |-> [parent |-> parent[m], text |-> 0]]
    /\ run = [w \in Writers |-> Idle]
    /\ tab = EmptyHistory
    /\ started = 0
    /\ disturbed = FALSE /\ rewritten = FALSE
    /\ removed = <<>> /\ returned = {}
    /\ texts = [m \in Ids |-> 0]
    /\ healed = "nothing"

Begin(w, script) ==
    /\ w \notin Busy
    /\ started < MaxScripts
    /\ started' = started + 1
    /\ run' = [v \in Writers |->
                IF v = w THEN [Idle EXCEPT !.script = script, !.at = FirstPhase(Head(script)),
                                           !.alone = Busy = {}]
                ELSE [run[v] EXCEPT !.alone = FALSE]]
    /\ disturbed' = (disturbed \/ Busy # {})
    /\ rewritten' =
        \/ rewritten
        \/ Head(script).do = "update"
        \/ disturbed /\ (Wholesale(script) \/ \E m \in Linked(script) : texts[m] > 0)
        \/ \E v \in Busy : \/ Wholesale(script) \/ Wholesale(run[v].script)
                           \/ Written(script) \cap Written(run[v].script) # {}
    /\ healed' = "nothing"
    /\ UNCHANGED <<blob, rows, tab, deletions>>

\* A message is sent below one the tab shows, to one or several models.
SendMessage(w) ==
    \E parent \in DOMAIN tab.msgs \cup {0}, n \in 1 .. FanOut :
        /\ created + 1 + n <= MaxMessages
        /\ Begin(w, Completion(parent, created + 1, [i \in 1 .. n |-> created + 1 + i]))
        /\ created' = created + 1 + n
        /\ UNCHANGED texts

\* A turn saves what it has of its answer, or the user edits a message.
SaveText(w) ==
    \E m \in 1 .. created :
        /\ texts[m] < MaxText
        /\ Begin(w, <<Save(m, 0, texts[m] + 1)>>)
        /\ texts' = [texts EXCEPT ![m] = @ + 1]
        /\ UNCHANGED created

OtherScript(w) ==
    /\ \/ Begin(w, <<Touch>>)
       \/ \E m \in DOMAIN tab.msgs : Begin(w, <<Delete(m)>>)
       \/ tab # EmptyHistory /\ Begin(w, <<Update(tab)>>)
       \/ Begin(w, <<Read>>)
    /\ UNCHANGED <<created, texts>>

\* The tab asks for the chat.
LoadTab ==
    /\ blob' = Repair(blob)
    /\ tab' = blob'
    /\ UNCHANGED <<rows, run, created, started, disturbed, rewritten, deletions, texts,
                   healed>>

-----------------------------------------------------------------------------
(* One transaction of a script. *)

Goto(w, phase, copy, left, gone) ==
    run' = [run EXCEPT ![w].at = phase, ![w].copy = copy, ![w].left = left, ![w].gone = gone]

\* The step is done: the next one, or the end of the script.
Finish(w) ==
    LET rest == Tail(run[w].script)
    IN /\ run' = [run EXCEPT ![w] = IF rest = <<>> THEN Idle
                                    ELSE [Idle EXCEPT !.script = rest, !.alone = run[w].alone,
                                                      !.at = FirstPhase(Head(rest))]]
       /\ healed' = IF run[w].alone /\ Step(w).do \in {"update", "read"} THEN Step(w).do
                    ELSE "nothing"

Bookkeeping == <<tab, created, started, disturbed, rewritten, texts>>

\* The children of the message are read, and the new ones added.
Peek(w) ==
    LET h == Repair(blob)
        step == Step(w)
        kids == h.msgs[step.msg].kids
        new == Outside(step.kids, Range(kids))
    IN /\ run[w].at = "peek"
       /\ blob' = h
       /\ IF step.msg \in DOMAIN h.msgs
          THEN /\ run' = [run EXCEPT ![w].at = "load", ![w].script[1].kids = kids \o new]
               /\ UNCHANGED healed
          ELSE Finish(w)
       /\ UNCHANGED <<rows, deletions, Bookkeeping>>

\* A message merged into the copy, or inserted below the parent it names or
\* the message that lists it.
Patched(message, step) ==
    IF step.do = "save" THEN [message EXCEPT !.text = step.text]
    ELSE [message EXCEPT !.kids = step.kids]

Upsert(h, step, parent) ==
    LET m == step.msg
        listing == {x \in DOMAIN h.msgs : m \in Range(h.msgs[x].kids)}
        up == IF parent # 0 \/ listing = {} THEN parent ELSE Min(listing)
        old == IF m \in DOMAIN h.msgs THEN h.msgs[m] ELSE [parent |-> up, kids |-> <<>>, text |-> 0]
    IN [msgs |-> [x \in DOMAIN h.msgs \cup {m} |->
                    IF x = m THEN Patched(old, step) ELSE h.msgs[x]],
        current |-> m]

\* What a step makes of the history it has loaded.
Applied(step, h) ==
    CASE step.do = "save"   -> Upsert(h, step, step.parent)
      [] step.do = "link"   -> Upsert(h, step, 0)
      [] step.do = "delete" -> DeleteFrom(h, step.msg)
      [] step.do = "update" -> MergeHistory(h, step.incoming)
      [] step.do = "touch"  -> h

\* The history is loaded and changed; nothing is held until it is written.
Load(w) ==
    LET h == Repair(blob)
        step == Step(w)
        gone == IF step.do = "delete" /\ step.msg \in DOMAIN h.msgs
                THEN DeletedIds(h.msgs, step.msg) ELSE {}
    IN /\ run[w].at = "load"
       /\ blob' = h
       /\ IF step.do = "delete" /\ gone = {} THEN Finish(w)
          ELSE /\ Goto(w, IF step.do \in {"save", "link"} THEN "row" ELSE "blob",
                       Applied(step, h), {}, gone)
               /\ UNCHANGED healed
       /\ UNCHANGED <<rows, deletions, Bookkeeping>>

Row(m, h) == [parent |-> h.msgs[m].parent, text |-> h.msgs[m].text]
WithRows(S, h) == [m \in DOMAIN rows \cup S |-> IF m \in S THEN Row(m, h) ELSE rows[m]]

\* Mutant: the rows are brought in line with the whole copy.
WriteRows(w) ==
    /\ run[w].at = "row"
    /\ rows' = WithRows(DOMAIN run[w].copy.msgs, run[w].copy)
    /\ run' = [run EXCEPT ![w].at = "blob"]
    /\ UNCHANGED <<blob, deletions, healed, Bookkeeping>>

\* The dual write of an upsert: the row of the message first, ...
WriteRow(w) ==
    /\ run[w].at = "row"
    /\ rows' = WithRows({Step(w).msg}, run[w].copy)
    /\ run' = [run EXCEPT ![w].at = "blob"]
    /\ UNCHANGED <<blob, deletions, healed, Bookkeeping>>

\* ... then the whole history.  A deletion and an update go on with the rows.
WriteBlob(w) ==
    LET step == Step(w)
        copy == run[w].copy
    IN /\ run[w].at = "blob"
       /\ blob' = copy
       /\ IF step.do \in {"delete", "update"}
          THEN Goto(w, "fill", copy, DOMAIN copy.msgs, run[w].gone) /\ UNCHANGED healed
          ELSE Finish(w)
       /\ removed' = [m \in DOMAIN removed \cup run[w].gone |->
                        IF m \in DOMAIN removed THEN removed[m] ELSE created]
       /\ returned' = CASE step.do = "delete" -> returned \ run[w].gone
                        [] step.do = "touch"  -> returned
                        [] step.do = "update" ->
                               returned \cup (DOMAIN removed \cap DOMAIN step.incoming.msgs)
                        [] OTHER              -> returned \cup (DOMAIN removed \cap {step.msg})
       /\ UNCHANGED <<rows, Bookkeeping>>

\* The messages that have to have a row get one, in order.
Fill(w) ==
    /\ run[w].at = "fill"
    /\ run[w].left # {}
    /\ LET m == Min(run[w].left)
       IN /\ rows' = WithRows({m}, run[w].copy)
          /\ run' = [run EXCEPT ![w].left = @ \ {m}]
    /\ UNCHANGED <<blob, deletions, healed, Bookkeeping>>

\* Last, the rows of deleted messages are removed.
DropRows(w) ==
    LET kept == IF Step(w).do = "delete" THEN DOMAIN rows \ run[w].gone ELSE DOMAIN rows
    IN /\ run[w].at = "fill"
       /\ run[w].left = {}
       /\ rows' = [m \in kept |-> rows[m]]
       /\ Finish(w)
       /\ UNCHANGED <<blob, deletions, Bookkeeping>>

\* The parents that rows name and that have no row.
Unresolved == {rows[m].parent : m \in DOMAIN rows} \ (DOMAIN rows \cup {0})

\* get_messages_map_by_chat_id: the rows, and what they lack from the blob.
Lacking == IF rows = <<>> THEN Ids ELSE Unresolved

ReadRows(w) ==
    /\ run[w].at = "rows"
    /\ IF Lacking = {} THEN Finish(w)
       ELSE Goto(w, "gap", EmptyHistory, {}, Lacking) /\ UNCHANGED healed
    /\ UNCHANGED <<blob, rows, deletions, Bookkeeping>>

LoadMissing(w) ==
    LET h == Repair(blob)
    IN /\ run[w].at = "gap"
       /\ blob' = h
       /\ Goto(w, "fill", h, run[w].gone \cap DOMAIN h.msgs, run[w].gone)
       /\ UNCHANGED <<rows, deletions, healed, Bookkeeping>>

\* The instance stops, or the request is cancelled, between two transactions.
Die(w) ==
    /\ w \in Busy
    /\ run' = [run EXCEPT ![w] = Idle]
    /\ disturbed' = TRUE /\ rewritten' = TRUE /\ healed' = "nothing"
    /\ UNCHANGED <<blob, rows, tab, created, started, deletions, texts>>

Next ==
    \/ LoadTab
    \/ \E w \in Writers :
        \/ SendMessage(w) \/ SaveText(w) \/ OtherScript(w)
        \/ Peek(w) \/ Load(w) \/ WriteRow(w) \/ WriteBlob(w) \/ Fill(w) \/ DropRows(w)
        \/ ReadRows(w) \/ LoadMissing(w) \/ Die(w)

Spec == Init /\ [][Next]_vars

-----------------------------------------------------------------------------
(* Properties. *)

HistoryOK(h) ==
    /\ DOMAIN h.msgs \subseteq Ids
    /\ \A m \in DOMAIN h.msgs :
        /\ h.msgs[m].parent \in 0 .. m - 1
        /\ Range(h.msgs[m].kids) \subseteq Ids
        /\ h.msgs[m].text \in 0 .. MaxText
    /\ h.current \in 0 .. MaxMessages

\* Both copies hold messages of this chat, and a parent is always older than
\* its children, so that no walk along parents runs in a circle.
TypeOK ==
    /\ HistoryOK(blob) /\ HistoryOK(tab)
    /\ DOMAIN rows \subseteq Ids
    /\ \A m \in DOMAIN rows : rows[m] \in [parent : 0 .. m - 1, text : 0 .. MaxText]
    /\ \A w \in Writers : HistoryOK(run[w].copy) /\ run[w].left \subseteq Ids
    /\ created \in 0 .. MaxMessages /\ DOMAIN removed \subseteq Ids /\ returned \subseteq DOMAIN removed
    /\ texts \in [Ids -> 0 .. MaxText]

\* The children a message lists are exactly those that name it.
KidsMatchParents ==
    \A m, k \in DOMAIN blob.msgs : k \in Range(blob.msgs[m].kids) <=> blob.msgs[k].parent = m

\* m was sent below a message that had been deleted by then.
SentLate(m, up) == up \in DOMAIN removed /\ m > removed[up]

\* As long as scripts run one after the other, each leaves the tree in order:
\* the children a message lists are there and name it, each message is listed
\* by the one it names, except below a message that was deleted under a tab
\* that still showed it; what has been deleted is in neither copy until
\* it is saved again; and rows say the same as the blob (chats.py:577-614,
\* 704-794).
InOrderWhenSerial ==
    ~disturbed /\ Busy = {} =>
        /\ \A m \in DOMAIN blob.msgs : \A k \in Range(blob.msgs[m].kids) :
              k \in DOMAIN blob.msgs /\ blob.msgs[k].parent = m
        /\ \A m \in DOMAIN blob.msgs :
              LET up == blob.msgs[m].parent
              IN \/ up = 0 \/ SentLate(m, up)
                 \/ up \in DOMAIN blob.msgs /\ m \in Range(blob.msgs[up].kids)
        /\ (DOMAIN removed \ returned) \cap (DOMAIN blob.msgs \cup DOMAIN rows) = {}
        /\ \A m \in DOMAIN rows : m \in DOMAIN blob.msgs /\ rows[m] = Row(m, blob)

\* Turns of a fan-out overwrite each other in the blob; the row of an answer
\* holds what its own turn saved last, as long as no update by
\* a tab came in, no deletion or filling read overlapped, and nothing died (chats.py:758-774).
RowsKeepFanOut ==
    ~rewritten =>
        \A m \in DOMAIN rows :
            (\A w \in Busy : m \notin Written(run[w].script)) => rows[m].text = texts[m]

\* Whatever was lost before, an update that runs alone leaves a tree whose
\* children match and a row like it for each of its messages (chats.py:554).
UpdateHeals ==
    healed = "update" =>
        /\ KidsMatchParents
        /\ \A m \in DOMAIN blob.msgs : m \in DOMAIN rows /\ rows[m] = Row(m, blob)

\* The history is in order as long as nothing overlaps, and comes back to it
\* with the next update that runs alone.
HistoryInOrder == InOrderWhenSerial /\ UpdateHeals
=============================================================================
