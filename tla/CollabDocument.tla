--------------------------- MODULE CollabDocument ---------------------------
(***************************************************************************)
(* A note that several editors change at once: the ydoc handlers of        *)
(* backend/openlaunch/socket/main.py, YdocManager of socket/utils.py and   *)
(* the provider in the browser (Collaboration.ts).                         *)
(*                                                                         *)
(* The server keeps a log of updates and never looks into them; an editor  *)
(* merges what it receives.  An edit is <<editor, number>>, <<editor, 0>>  *)
(* being the stored text of the note put into an empty document.  A        *)
(* handler runs as a task of its own (jobs), so that two events of one     *)
(* editor may be handled in either order; pc is the await it has reached.  *)
(* With Redis every command suspends the handler; without, only the        *)
(* database and the emits do.                                              *)
(***************************************************************************)
EXTENDS Naturals, FiniteSets, SequencesExt

CONSTANTS
    Editors,          \* open editors of the note, one per browser tab
    Deployments,      \* which of the two are considered: TRUE for one with Redis
    Instance,         \* with Redis: editor -> the server instance it connects to
    Threshold,        \* COMPACTION_THRESHOLD
    MaxEdits,         \* bound: edits of all editors together
    MaxConnections,   \* bound: connections of all editors together
    MaxDepartures     \* bound: closed editors and lost connections together

VARIABLES
    shared,               \* the log is in Redis and not in the process
    pool, users, index,   \* SESSION_POOL, the users of the document, reverse index
    room,                 \* sessions in the room of the document
    log,                  \* the stored updates, each a set of edits
    jobs,                 \* handlers underway
    saves,                \* pending debounced saves, each the edits it follows
    open, doc,            \* editor -> still open, its document
    online, conns,        \* editor -> connected, connections so far
    made, departures,     \* editor -> edits made; departures so far
    mail,                 \* editor -> states on their way to it
    unsaved, forgone,     \* an accepted edit awaits a save; a save was given up
    raced                 \* a compaction wrote over a log it had not read

session == <<pool, users, index, room>>
note    == <<saves, unsaved, forgone, raced>>
editor  == <<open, doc, online, conns, made, mail, departures>>
vars    == <<shared, session, log, jobs, note, editor>>

Sids     == Editors \X Nat
Edits    == Editors \X Nat
Updates  == SUBSET Edits
Sid(c)   == <<c, conns[c]>>
Content(l) == UNION ToSet(l)

JoinSteps       == {"join", "add", "index", "enter", "state"}
UpdateSteps     == {"update", "stop", "push", "llen", "replace", "emit", "save"}
LeaveSteps      == {"leave", "unindex", "unroom", "check", "clear", "clear_users"}
DisconnectSteps == {"disconnect", "documents", "remove", "remaining", "drop", "drop_users", "gone"}
Steps           == JoinSteps \cup UpdateSteps \cup LeaveSteps \cup DisconnectSteps

\* Where a handler goes on without an await that suspends it: everywhere but
\* after a query of the database, an emit, or the stop of a save.
Uninterrupted == {"index", "enter", "state", "llen", "replace", "emit", "unindex", "unroom",
                  "clear", "clear_users"} \cup (DisconnectSteps \ {"disconnect"})

Jobs == [sid : Sids, pc : Steps, edits : Updates, data : BOOLEAN, seen : Seq(Updates),
         alone : BOOLEAN]
States == [edits : Updates, alone : BOOLEAN]

Job(sid, pc, edits, data) ==
    [sid |-> sid, pc |-> pc, edits |-> edits, data |-> data, seen |-> <<>>, alone |-> FALSE]

TypeOK ==
    /\ shared \in Deployments
    /\ pool \subseteq Sids /\ users \subseteq Sids /\ index \subseteq Sids /\ room \subseteq Sids
    /\ log \in Seq(Updates)
    /\ jobs \subseteq Jobs
    /\ saves \subseteq Updates
    /\ open \in [Editors -> BOOLEAN] /\ online \in [Editors -> BOOLEAN]
    /\ doc \in [Editors -> Updates]
    /\ conns \in [Editors -> Nat] /\ made \in [Editors -> Nat]
    /\ mail \in [Editors -> SUBSET States]
    /\ unsaved \in BOOLEAN /\ forgone \in BOOLEAN /\ raced \in BOOLEAN
    /\ departures \in Nat

Init ==
    /\ shared \in Deployments
    /\ pool = {} /\ users = {} /\ index = {} /\ room = {}
    /\ log = <<>> /\ jobs = {}
    /\ saves = {} /\ unsaved = FALSE /\ forgone = FALSE /\ raced = FALSE
    /\ open = [c \in Editors |-> TRUE]
    /\ doc = [c \in Editors |-> {}]
    /\ online = [c \in Editors |-> FALSE]
    /\ conns = [c \in Editors |-> 0]
    /\ made = [c \in Editors |-> 0]
    /\ mail = [c \in Editors |-> {}]
    /\ departures = 0

\* j is at pc and no other handler of the process is between two awaits.
At(j, pc) == j.pc = pc /\ (shared \/ \A k \in jobs \ {j} : k.pc \notin Uninterrupted)
Idle      == shared \/ \A k \in jobs : k.pc \notin Uninterrupted
Goes(j, pc) == jobs' = (jobs \ {j}) \cup {[j EXCEPT !.pc = pc]}
Ends(j)     == jobs' = jobs \ {j}
Connected(sid) == online[sid[1]] /\ Sid(sid[1]) = sid

-----------------------------------------------------------------------------
(* The editor (Collaboration.ts).                                          *)

\* connect: the session is authenticated and pooled, then the editor joins.
Connect(c) ==
    /\ Idle /\ open[c] /\ ~online[c] /\ FoldFunction(+, 0, conns) < MaxConnections
    /\ online' = [online EXCEPT ![c] = TRUE]
    /\ conns' = [conns EXCEPT ![c] = @ + 1]
    /\ pool' = pool \cup {<<c, conns[c] + 1>>}
    /\ jobs' = jobs \cup {Job(<<c, conns[c] + 1>>, "join", {}, FALSE)}
    /\ UNCHANGED <<users, index, room, log, note, open, doc, made, mail, departures>>

\* The connection is lost; python-socketio calls disconnect for the session.
Disconnect(c) ==
    /\ Idle /\ online[c] /\ departures < MaxDepartures
    /\ departures' = departures + 1
    /\ online' = [online EXCEPT ![c] = FALSE]
    /\ mail' = [mail EXCEPT ![c] = {}]
    /\ jobs' = jobs \cup {Job(Sid(c), "disconnect", {}, FALSE)}
    /\ UNCHANGED <<session, log, note, open, doc, conns, made>>

\* The editor is closed: destroy sends the leave and drops the document.
Close(c) ==
    /\ Idle /\ open[c] /\ online[c] /\ departures < MaxDepartures
    /\ departures' = departures + 1
    /\ open' = [open EXCEPT ![c] = FALSE]
    /\ doc' = [doc EXCEPT ![c] = {}]
    /\ mail' = [mail EXCEPT ![c] = {}]
    /\ jobs' = jobs \cup {Job(Sid(c), "leave", {}, FALSE)}
    /\ UNCHANGED <<session, log, note, online, conns, made>>

\* A change of the text; offline it only changes the document.
Edit(c) ==
    /\ Idle /\ open[c] /\ conns[c] > 0 /\ FoldFunction(+, 0, made) < MaxEdits
    /\ LET e == <<c, made[c] + 1>>
       IN  /\ doc' = [doc EXCEPT ![c] = @ \cup {e}]
           /\ jobs' = IF online[c]
                      THEN jobs \cup {Job(Sid(c), "update", {e}, TRUE)} ELSE jobs
    /\ made' = [made EXCEPT ![c] = @ + 1]
    /\ UNCHANGED <<session, log, note, open, online, conns, mail, departures>>

\* Mutant: every editor of an empty document puts the stored text into it.
SeedsAnyway(m) == TRUE

Seeds(m) == m.alone

\* ydoc:document:state arrives.
ReceiveState(c, m) ==
    /\ Idle /\ m \in mail[c]
    /\ mail' = [mail EXCEPT ![c] = @ \ {m}]
    /\ \/ /\ m.edits # {}
          /\ doc' = [doc EXCEPT ![c] = @ \cup m.edits]
          /\ UNCHANGED jobs
       \/ /\ m.edits = {} /\ doc[c] = {}
          /\ doc' = [doc EXCEPT ![c] = IF Seeds(m) THEN {<<c, 0>>} ELSE {}]
          /\ jobs' = IF Seeds(m)
                     THEN jobs \cup {Job(Sid(c), "update", {<<c, 0>>}, TRUE)} ELSE jobs
       \/ /\ m.edits = {} /\ doc[c] # {}       \* the whole document, without content
          /\ jobs' = jobs \cup {Job(Sid(c), "update", doc[c], FALSE)}
          /\ UNCHANGED doc
    /\ UNCHANGED <<session, log, note, open, online, conns, made, departures>>

-----------------------------------------------------------------------------
(* ydoc_document_join and YdocManager.add_user, get_updates.               *)

Join(j) ==
    /\ At(j, "join")
    /\ IF j.sid \in pool THEN Goes(j, "add") ELSE Ends(j)
    /\ UNCHANGED <<session, log, note, editor>>

JoinAdd(j) ==
    /\ At(j, "add")
    /\ users' = users \cup {j.sid}
    /\ Goes(j, "index")
    /\ UNCHANGED <<pool, index, room, log, note, editor>>

JoinIndex(j) ==
    /\ At(j, "index")
    /\ index' = IF shared THEN index \cup {j.sid} ELSE index
    /\ Goes(j, "enter")
    /\ UNCHANGED <<pool, users, room, log, note, editor>>

\* get_participants only knows the sessions of its own process.
JoinEnter(j) ==
    /\ At(j, "enter")
    /\ IF Connected(j.sid)
       THEN LET here == {s \in room : shared => Instance[s[1]] = Instance[j.sid[1]]}
            IN  /\ room' = room \cup {j.sid}
                /\ jobs' = (jobs \ {j}) \cup
                     {[j EXCEPT !.pc = "state", !.alone = here \subseteq {j.sid}]}
       ELSE room' = room /\ Ends(j)
    /\ UNCHANGED <<pool, users, index, log, note, editor>>

\* Mutant: the state is sent without the sessions that are in the document.
StateWithoutSessions(j) == [edits |-> Content(log)]

State(j) == [edits |-> Content(log), alone |-> j.alone]

JoinState(j) ==
    /\ At(j, "state")
    /\ LET c == j.sid[1]
           m == State(j)
       IN  mail' = IF Connected(j.sid) /\ open[c] THEN [mail EXCEPT ![c] = @ \cup {m}] ELSE mail
    /\ Ends(j)
    /\ UNCHANGED <<session, log, note, open, doc, online, conns, made, departures>>

-----------------------------------------------------------------------------
(* yjs_document_update, append_to_updates and the compaction.              *)

\* Only a session in the room may write; an update that overtakes the join
\* of its session is rejected and not sent again.
Update(j) ==
    /\ At(j, "update")
    /\ IF j.sid \in room /\ j.sid \in pool THEN Goes(j, "stop") ELSE Ends(j)
    /\ UNCHANGED <<session, log, note, editor>>

\* stop_item_tasks (TaskRegistryLocal): in one process every second save of
\* the document goes on; with Redis those that end before the command comes.
StopSaves(kept) ==
    /\ kept \subseteq saves
    /\ shared \/ Cardinality(kept) = Cardinality(saves) \div 2
    /\ saves' = kept

UpdateStop(j) ==
    /\ At(j, "stop")
    /\ \E kept \in SUBSET saves : StopSaves(kept)
    /\ forgone' = (forgone \/ (unsaved /\ ~j.data))
    /\ Goes(j, "push")
    /\ UNCHANGED <<session, log, unsaved, raced, editor>>

\* Mutant: the older half is cut off and not squashed into one update.
CompactedHalf(l) == SubSeq(l, Len(l) \div 2 + 1, Len(l))

Compacted(l) ==
    <<Content(SubSeq(l, 1, Len(l) \div 2))>> \o SubSeq(l, Len(l) \div 2 + 1, Len(l))

UpdatePush(j) ==
    /\ At(j, "push")
    /\ LET longer == Append(log, j.edits)
       IN  log' = IF ~shared /\ Len(longer) >= Threshold THEN Compacted(longer) ELSE longer
    /\ unsaved' = (unsaved \/ j.data)
    /\ Goes(j, IF shared THEN "llen" ELSE "emit")
    /\ UNCHANGED <<session, saves, forgone, raced, editor>>

\* _compact_updates_redis reads the list and later replaces it.
CompactRead(j) ==
    /\ At(j, "llen")
    /\ jobs' = (jobs \ {j}) \cup
         {IF Len(log) >= Threshold THEN [j EXCEPT !.pc = "replace", !.seen = log]
          ELSE [j EXCEPT !.pc = "emit"]}
    /\ UNCHANGED <<session, log, note, editor>>

CompactReplace(j) ==
    /\ At(j, "replace")
    /\ log' = Compacted(j.seen)
    /\ raced' = (raced \/ log # j.seen)
    /\ jobs' = (jobs \ {j}) \cup {[j EXCEPT !.pc = "emit", !.seen = <<>>]}
    /\ UNCHANGED <<session, saves, unsaved, forgone, editor>>

\* Mutant: an update that meets the state on its way is dropped.
ReceivesSettled(c, j) == online[c] /\ open[c] /\ Sid(c) \in room /\ Sid(c) # j.sid /\ mail[c] = {}

Receives(c, j) == online[c] /\ open[c] /\ Sid(c) \in room /\ Sid(c) # j.sid

\* The browser tells received updates from its own by their origin, which it
\* only sets for the state: what is new to an editor it sends out once more.
Echoes(j) ==
    {Job(Sid(c), "update", j.edits \ doc[c], TRUE) :
        c \in {e \in Editors : Receives(e, j) /\ ~(j.edits \subseteq doc[e])}}

UpdateEmit(j) ==
    /\ At(j, "emit")
    /\ doc' = [c \in Editors |-> IF Receives(c, j) THEN doc[c] \cup j.edits ELSE doc[c]]
    /\ jobs' = (jobs \ {j}) \cup Echoes(j) \cup
                   (IF j.data THEN {[j EXCEPT !.pc = "save"]} ELSE {})
    /\ UNCHANGED <<session, log, note, open, online, conns, made, mail, departures>>

\* Mutant: an update nobody else sees is not saved.
SavedByAudience(j) == IF \E c \in Editors : Receives(c, j) THEN {j.edits} ELSE {}

Saved(j) == {j.edits}

\* create_task(debounced_save()).
UpdateSave(j) ==
    /\ At(j, "save")
    /\ saves' = saves \cup Saved(j)
    /\ Ends(j)
    /\ UNCHANGED <<session, log, unsaved, forgone, raced, editor>>

\* document_save_handler, half a second later.
Save(edits) ==
    /\ Idle /\ edits \in saves
    /\ saves' = saves \ {edits}
    /\ unsaved' = FALSE
    /\ UNCHANGED <<session, log, jobs, forgone, raced, editor>>

-----------------------------------------------------------------------------
(* yjs_document_leave, remove_user and clear_document.                     *)

Leave(j) ==
    /\ At(j, "leave")
    /\ IF j.sid \in pool THEN users' = users \ {j.sid} /\ Goes(j, "unindex")
       ELSE users' = users /\ Ends(j)
    /\ UNCHANGED <<pool, index, room, log, note, editor>>

LeaveIndex(j) ==
    /\ At(j, "unindex")
    /\ index' = index \ {j.sid}
    /\ Goes(j, "unroom")
    /\ UNCHANGED <<pool, users, room, log, note, editor>>

LeaveRoom(j) ==
    /\ At(j, "unroom")
    /\ room' = room \ {j.sid}
    /\ Goes(j, "check")
    /\ UNCHANGED <<pool, users, index, log, note, editor>>

NobodyLeft == users = {}

LeaveCheck(j) ==
    /\ At(j, "check")
    /\ IF log # <<>> /\ NobodyLeft THEN Goes(j, "clear") ELSE Ends(j)
    /\ UNCHANGED <<session, log, note, editor>>

ClearUpdates(j) ==
    /\ At(j, "clear") \/ At(j, "drop")
    /\ log' = <<>>
    /\ Goes(j, IF j.pc = "clear" THEN "clear_users" ELSE "drop_users")
    /\ UNCHANGED <<session, note, editor>>

ClearUsers(j) ==
    /\ At(j, "clear_users") \/ At(j, "drop_users")
    /\ users' = {}
    /\ IF j.pc = "clear_users" THEN Ends(j) ELSE Goes(j, "gone")
    /\ UNCHANGED <<pool, index, room, log, note, editor>>

-----------------------------------------------------------------------------
(* disconnect and remove_user_from_all_documents.                          *)

LoseSession(j) ==
    /\ At(j, "disconnect")
    /\ pool' = pool \ {j.sid}
    /\ Goes(j, "documents")
    /\ UNCHANGED <<users, index, room, log, note, editor>>

FindDocument(j) ==
    /\ At(j, "documents")
    /\ Goes(j, IF j.sid \in (IF shared THEN index ELSE users) THEN "remove" ELSE "gone")
    /\ UNCHANGED <<session, log, note, editor>>

RemoveUser(j) ==
    /\ At(j, "remove")
    /\ users' = users \ {j.sid}
    /\ Goes(j, "remaining")
    /\ UNCHANGED <<pool, index, room, log, note, editor>>

RemainingUsers(j) ==
    /\ At(j, "remaining")
    /\ Goes(j, IF NobodyLeft THEN "drop" ELSE "gone")
    /\ UNCHANGED <<session, log, note, editor>>

\* The index entry is deleted and python-socketio forgets the session.
Gone(j) ==
    /\ At(j, "gone")
    /\ index' = index \ {j.sid}
    /\ room' = room \ {j.sid}
    /\ Ends(j)
    /\ UNCHANGED <<pool, users, log, note, editor>>

-----------------------------------------------------------------------------
JobStep(j) ==
    \/ Join(j) \/ JoinAdd(j) \/ JoinIndex(j) \/ JoinEnter(j) \/ JoinState(j)
    \/ Update(j) \/ UpdateStop(j) \/ UpdatePush(j) \/ CompactRead(j) \/ CompactReplace(j)
    \/ UpdateEmit(j) \/ UpdateSave(j)
    \/ Leave(j) \/ LeaveIndex(j) \/ LeaveRoom(j) \/ LeaveCheck(j)
    \/ ClearUpdates(j) \/ ClearUsers(j)
    \/ LoseSession(j) \/ FindDocument(j) \/ RemoveUser(j) \/ RemainingUsers(j) \/ Gone(j)

Handle == \E j \in jobs : JobStep(j)

Next ==
    /\ \/ \E c \in Editors : Connect(c) \/ Disconnect(c) \/ Close(c) \/ Edit(c)
       \/ \E c \in Editors : \E m \in mail[c] : ReceiveState(c, m)
       \/ Handle
       \/ \E edits \in saves : Save(edits)
    /\ UNCHANGED shared

Spec == Init /\ [][Next]_vars

-----------------------------------------------------------------------------
(* Properties.                                                             *)

\* An accepted edit stays in the log as long as a session is in the document:
\* a compaction keeps what it squashes, and the document is cleared only after
\* the last one has left (socket/utils.py 177, 196-205, socket/main.py
\* 796-798).  With Redis that ends with the first departure, as a session may
\* join between the check and the clearing, and with the first compaction that
\* overlaps another update (socket/utils.py 183).
NothingDropped ==
    [][\/ raced'
       \/ shared /\ departures # 0
       \/ users = {}
       \/ Content(log) \subseteq Content(log')]_<<log, users>>

Underway == UNION {j.edits : j \in {k \in jobs : k.pc \in {"llen", "replace", "emit"}}}

\* An editor that has received the state of the document shows every edit of
\* the log whose broadcast is over: it entered the room before the log was
\* read, so that nothing falls between the state and the first broadcast
\* (main.py 584-605 and 748-759).  Not once two compactions have raced with
\* Redis: the later one may bring back what the state no longer held.
RoomIsUpToDate ==
    \A c \in Editors :
        (/\ ~raced
         /\ online[c] /\ open[c] /\ Sid(c) \in room
         /\ mail[c] = {} /\ \A j \in jobs : j.sid = Sid(c) => j.pc \notin JoinSteps)
        => Content(log) \subseteq doc[c] \cup Underway

\* The stored text is put into the document only by an editor that is alone
\* in it: as long as no editor has left it, one process never has the
\* text twice (Collaboration.ts 131-149).
SeededOnce ==
    ~shared /\ departures = 0
        => \A c \in Editors : Cardinality({e \in doc[c] : e[2] = 0}) <= 1

\* An accepted edit is followed by a save of the note: whenever an update
\* cancels the save before it, a save of its own is still to come (main.py
\* 735 and 766).  The exception are the updates that resend a whole document;
\* they carry no content.
SaveIsDue ==
    unsaved /\ ~forgone =>
        saves # {} \/ \E j \in jobs : j.data /\ j.pc \in UpdateSteps \ {"update", "stop"}
=============================================================================
