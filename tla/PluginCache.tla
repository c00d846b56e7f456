---------------------------- MODULE PluginCache -----------------------------
(***************************************************************************)
(* A tool or function that administrators write, and the copies of it that *)
(* run (utils/plugin.py, routers/functions.py, routers/tools.py,           *)
(* utils/tools.py).  Its text is a row of the database.  Each instance     *)
(* keeps the module it has loaded and, beside it, the text it takes the    *)
(* module to come from; nobody tells an instance that the row has changed. *)
(* A step ends where the code waits: for the database, or for the          *)
(* requirements of a module to be installed.                               *)
(***************************************************************************)
EXTENDS Naturals

CONSTANTS Instances,  \* server processes
          Requests,   \* requests that may run at once
          MaxText,    \* bound: texts
          MaxCalls    \* bound: requests ever made

VARIABLES isTool,    \* a tool, or a function?
          source,    \* text in the database, 0 if there is no row
          module,    \* instance -> [text, edited]: what it runs, 0 if nothing,
                     \* and whether an edit has put it there
          content,   \* instance -> text it compares with, 0 if none
          request,   \* request -> what it is doing
          calls,     \* requests made
          used,      \* texts somebody has saved, or tried to
          reverted   \* did a text come back, or a save fail?

vars == <<isTool, source, module, content, request, calls, used, reverted>>

Texts  == Nat \ {0}
Kinds  == {"none", "get", "stream", "create", "update", "sync", "delete"}
Stages == {"idle", "compare", "writeBack", "load", "save", "pop"}

\* Texts only differ from each other: a new one is the first that is unused.
Candidates ==
    used \cup {text \in 1 .. MaxText : \A other \in (1 .. MaxText) \ used : text <= other}
Nothing == [text |-> 0, edited |-> FALSE]
Idle == [kind |-> "none", at |-> "idle", host |-> "none", text |-> 0]
Busy == {h \in Requests : request[h].at # "idle"}

Init ==
    /\ isTool \in BOOLEAN
    /\ source \in {0, 1}
    /\ module = [i \in Instances |-> Nothing]
    /\ content = [i \in Instances |-> 0]
    /\ request = [h \in Requests |-> Idle]
    /\ calls = 0
    /\ used = {source} \ {0}
    /\ reverted = FALSE

Start(h, i, kind, at, text) ==
    /\ h \notin Busy
    /\ calls < MaxCalls /\ calls' = calls + 1
    /\ request' = [request EXCEPT ![h] = [kind |-> kind, at |-> at, host |-> i, text |-> text]]

Goto(h, at) == request' = [request EXCEPT ![h].at = at]
End(h) == request' = [request EXCEPT ![h] = Idle]
At(h, kind, at) == request[h].kind = kind /\ request[h].at = at
Host(h) == request[h].host
Text(h) == request[h].text

Cache    == <<module, content>>
Database == <<source, used, reverted>>
Kept     == <<isTool, calls>>

-----------------------------------------------------------------------------
(* Use: hooks, pipes, actions, tools, valves.                              *)

\* get_tool_module_from_cache and get_function_module_from_cache read the
\* row; the list of models and the tools of a request read it for them.
Get(h, i) ==
    /\ source # 0
    /\ Start(h, i, "get", "compare", source)
    /\ UNCHANGED <<isTool, Cache, Database>>

\* Mutant: the text is noted when its module starts to load.
CompareNoting(h) ==
    LET i == Host(h) IN
    /\ At(h, "get", "compare")
    /\ IF module[i].text # 0 /\ content[i] = Text(h) THEN End(h) ELSE Goto(h, "load")
    /\ content' = [content EXCEPT ![i] = Text(h)]
    /\ UNCHANGED <<module, Database, Kept>>

\* What is cached is used if the text beside it is the one that was read.
Compare(h) ==
    LET i == Host(h) IN
    /\ At(h, "get", "compare")
    /\ IF module[i].text # 0 /\ content[i] = Text(h) THEN End(h) ELSE Goto(h, "load")
    /\ UNCHANGED <<Cache, Database, Kept>>

\* The hook of a stream takes what is cached, and otherwise reads a row ...
GetCached(h, i) ==
    /\ module[i].text = 0 /\ source # 0
    /\ Start(h, i, "stream", "writeBack", source)
    /\ UNCHANGED <<isTool, Cache, Database>>

\* ... and writes the text, with its imports replaced, whatever the row has
\* become meanwhile.
WriteBack(h) ==
    /\ At(h, "stream", "writeBack")
    /\ source' = IF source = 0 THEN 0 ELSE Text(h)
    /\ reverted' = (reverted \/ source' # source)
    /\ Goto(h, "load")
    /\ UNCHANGED <<Cache, used, Kept>>

\* The module is there; a stream notes no text.
Loaded(h) ==
    LET i == Host(h) IN
    /\ request[h].kind \in {"get", "stream"} /\ request[h].at = "load"
    /\ module' = [module EXCEPT ![i] = [text |-> Text(h), edited |-> FALSE]]
    /\ content' = [content EXCEPT ![i] = IF request[h].kind = "get" THEN Text(h) ELSE 0]
    /\ End(h)
    /\ UNCHANGED <<Database, Kept>>

\* It cannot be loaded.  (A function is marked inactive then, also when the
\* text was an edit that is refused.)
LoadFails(h) ==
    /\ request[h].at = "load"
    /\ End(h)
    /\ UNCHANGED <<Cache, Database, Kept>>

-----------------------------------------------------------------------------
(* Administration.                                                         *)

\* A text is tried; that it has been there before matters to the properties.
Try(h, i, kind, text) ==
    /\ Start(h, i, kind, "load", text)
    /\ used' = used \cup {text}
    /\ reverted' = (reverted \/ text \in used)
    /\ UNCHANGED <<isTool, source, Cache>>

Create(h, i, text) == source = 0 /\ Try(h, i, "create", text)

\* Only the handler of tools asks whether there is a row.
Update(h, i, text) == (isTool => source # 0) /\ Try(h, i, "update", text)

\* sync_functions loads what another installation sends to see that it can.
Sync(h, i, text) == ~isTool /\ Try(h, i, "sync", text)

\* The module goes into the cache before the text is saved, without its text.
CacheEdit(h) ==
    /\ request[h].kind \in {"create", "update", "sync"} /\ request[h].at = "load"
    /\ module' = IF request[h].kind = "sync" THEN module
                 ELSE [module EXCEPT ![Host(h)] = [text |-> Text(h), edited |-> TRUE]]
    /\ Goto(h, "save")
    /\ UNCHANGED <<content, Database, Kept>>

\* An insertion is refused if there is a row, an update changes none if there
\* is none, and a synchronisation replaces whatever there is.
Saved(h) ==
    CASE request[h].kind = "create" -> IF source = 0 THEN Text(h) ELSE source
      [] request[h].kind = "update" -> IF source = 0 THEN 0 ELSE Text(h)
      [] request[h].kind = "sync" -> Text(h)

Save(h) ==
    /\ request[h].at = "save"
    /\ source' = Saved(h)
    /\ reverted' = (reverted \/ source' # Text(h))
    /\ End(h)
    /\ UNCHANGED <<Cache, used, Kept>>

\* The error is caught where the text is saved, the cache stays as it is.
SaveFails(h) ==
    /\ request[h].at = "save"
    /\ reverted' = TRUE
    /\ End(h)
    /\ UNCHANGED <<source, Cache, used, Kept>>

\* A synchronisation without the function.
SyncAway ==
    /\ ~isTool /\ source # 0
    /\ calls < MaxCalls /\ calls' = calls + 1
    /\ source' = 0
    /\ UNCHANGED <<isTool, Cache, request, used, reverted>>

Delete(h, i) ==
    /\ source # 0
    /\ Start(h, i, "delete", "pop", 0)
    /\ source' = 0
    /\ UNCHANGED <<isTool, Cache, used, reverted>>

\* The module of this instance goes; its text, and other instances, keep theirs.
Pop(h) ==
    /\ At(h, "delete", "pop")
    /\ module' = [module EXCEPT ![Host(h)] = Nothing]
    /\ End(h)
    /\ UNCHANGED <<content, Database, Kept>>

Restart(i) ==
    /\ module[i] # Nothing
    /\ module' = [module EXCEPT ![i] = Nothing]
    /\ content' = [content EXCEPT ![i] = 0]
    /\ request' = [h \in Requests |-> IF Host(h) = i THEN Idle ELSE request[h]]
    /\ UNCHANGED <<Database, Kept>>

Next ==
    \/ \E h \in Requests, i \in Instances :
          \/ Get(h, i) \/ GetCached(h, i) \/ Delete(h, i)
          \/ \E text \in Candidates : Create(h, i, text) \/ Update(h, i, text) \/ Sync(h, i, text)
    \/ \E h \in Requests :
          \/ Compare(h) \/ WriteBack(h) \/ Loaded(h) \/ LoadFails(h)
          \/ CacheEdit(h) \/ Save(h) \/ SaveFails(h) \/ Pop(h)
    \/ SyncAway \/ \E i \in Instances : Restart(i)

Spec == Init /\ [][Next]_vars

-----------------------------------------------------------------------------
(* Properties.                                                             *)

TypeOK ==
    /\ isTool \in BOOLEAN /\ reverted \in BOOLEAN
    /\ source \in Nat /\ used \subseteq Texts
    /\ module \in [Instances -> [text : Nat, edited : BOOLEAN]]
    /\ content \in [Instances -> Nat]
    /\ request \in [Requests -> [kind : Kinds, at : Stages, host : Instances \cup {"none"}, text : Nat]]
    /\ \A h \in Busy : Host(h) \in Instances

\* Would instance i use what it has cached?
Hit(i) == source # 0 /\ module[i].text # 0 /\ content[i] = source

\* An edit that is in the cache of instance i and not yet in the database.
Unsaved(i) ==
    \E h \in Busy : Host(h) = i /\ request[h].at = "save" /\ Text(h) = module[i].text

\* "we want to ensure the latest content is used" (utils/plugin.py:373-374):
\* however edits, uses, deletions and restarts of instances interleave, an
\* instance that is content with its cache runs the text of the database, or
\* an edit about to be saved.  It does not hold once a text has come back, a
\* save has failed, or a stream has written an old text: an edit leaves the
\* text beside its module as it was, and that may be the current one again.
LatestIsUsed ==
    ~reverted => \A i \in Instances :
        Hit(i) => module[i].text = source \/ (module[i].edited /\ Unsaved(i))

\* Always: what is run in place of the current text is an edit of this
\* instance, never a module it has loaded from an older row
\* (utils/plugin.py:388-390, 402-403).
OnlyEditsLinger == \A i \in Instances : Hit(i) /\ ~module[i].edited => module[i].text = source

\* What an instance runs from its cache, in both respects.
PluginsAreFresh == LatestIsUsed /\ OnlyEditsLinger
=============================================================================
