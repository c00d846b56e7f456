--------------------------- MODULE HistoryProofs ---------------------------
(***************************************************************************)
(* Theorems about the messages of a chat, for any number of writers and    *)
(* messages, any texts and any scripts: the rows under a fan-out, and the  *)
(* tree in the history.                                                    *)
(***************************************************************************)
EXTENDS ChatHistory, FiniteSetTheorems, SequenceTheorems, WellFoundedInduction, TLAPS

-----------------------------------------------------------------------------
(* The rows of a chat (ChatHistory).  The turns of a fan-out overwrite     *)
(* each other in its history, and the row of an answer still holds what    *)
(* its own turn has saved.                                                 *)

-----------------------------------------------------------------------------
(* Shapes.  What a message lists is any value here, so these say what is   *)
(* a record of which fields, not of which type.                            *)

IsMessage(x) == x = [parent |-> x.parent, kids |-> x.kids, text |-> x.text]

IsHistory(h) ==
    /\ h = [msgs |-> h.msgs, current |-> h.current]
    /\ DOMAIN h.msgs \subseteq Ids
    /\ \A m \in DOMAIN h.msgs : IsMessage(h.msgs[m])

\* No script of those that matter here replaces the history.
IsStep(x) ==
    /\ x.do \in {"save", "link", "touch", "delete", "read"}
    /\ x.do \in {"save", "link"} => x.msg \in Ids
    /\ x.do = "link" => x = Link(x.msg, x.kids)

ScriptOK(script) ==
    /\ script # <<>> /\ script \in Seq(Range(script))
    /\ \A j \in DOMAIN script : IsStep(script[j])
    /\ Wholesale(script) => Len(script) = 1

IsRun(r) ==
    r = [script |-> r.script, at |-> r.at, copy |-> r.copy, left |-> r.left, gone |-> r.gone,
         alone |-> r.alone]

\* What a writer that is to take this step next may be doing.
Phases(step) ==
    CASE step.do = "save"   -> {"load", "row", "blob"}
      [] step.do = "link"   -> {"peek", "load", "row", "blob"}
      [] step.do = "touch"  -> {"load", "blob"}
      [] step.do = "delete" -> {"load", "blob", "fill"}
      [] step.do = "read"   -> {"rows", "gap", "fill"}

Holding(r) == r.at \in {"row", "blob", "fill"}
First(r) == Head(r.script)

RunOK(r) ==
    /\ IsRun(r)
    /\ r.at # "idle" =>
        /\ ScriptOK(r.script)
        /\ r.at \in Phases(First(r))
        /\ Holding(r) => IsHistory(r.copy)
        /\ r.at = "row" => First(r).msg \in DOMAIN r.copy.msgs
        /\ r.at = "fill" => r.left \subseteq DOMAIN r.copy.msgs

ShapesOK ==
    /\ IsHistory(blob) /\ IsHistory(tab)
    /\ run = [w \in Writers |-> run[w]] /\ \A w \in Writers : RunOK(run[w])
    /\ created \in 0 .. MaxMessages
    /\ texts \in [Ids -> Nat] /\ \A m \in Ids : m > created => texts[m] = 0

-----------------------------------------------------------------------------
(* Who writes what.                                                        *)

\* A save writes the text it was begun for; one of several is of a new
\* message.
TextsToCome ==
    \A w \in Busy : \A j \in DOMAIN run[w].script :
        run[w].script[j].do = "save" =>
            LET m == run[w].script[j].msg
            IN /\ run[w].script[j].text = texts[m]
               /\ Len(run[w].script) = 1 \/ texts[m] = 0

\* Two scripts write different messages, and one that deletes or fills in
\* messages runs alone.
Apart ==
    \A w, v \in Busy : w # v =>
        /\ Written(run[w].script) \cap Written(run[v].script) = {}
        /\ ~Wholesale(run[w].script)
WholesaleAlone == \A w \in Busy : Wholesale(run[w].script) => ~disturbed

\* A text nobody has saved yet is nowhere.
NothingYet ==
    \A m \in Ids : texts[m] = 0 =>
        /\ m \in DOMAIN blob.msgs => blob.msgs[m].text = 0
        /\ \A w \in Writers :
              Holding(run[w]) /\ m \in DOMAIN run[w].copy.msgs => run[w].copy.msgs[m].text = 0

\* All histories say the same of m: those that are about to be written, too.
Uniform(m) ==
    /\ m \in DOMAIN blob.msgs => blob.msgs[m].text = texts[m]
    /\ \A w \in Writers : Holding(run[w]) =>
          /\ m \in DOMAIN run[w].copy.msgs <=> m \in DOMAIN blob.msgs
          /\ m \in DOMAIN blob.msgs => run[w].copy.msgs[m].text = texts[m]

\* A message that is to get children keeps the text it has.
LinksKeepTexts ==
    \A w \in Busy :
        /\ \A m \in Linked(run[w].script) : texts[m] = 0 \/ Uniform(m)
        /\ run[w].at = "load" /\ Step(w).do = "link" =>
              texts[Step(w).msg] = 0 \/ Step(w).msg \in DOMAIN blob.msgs

\* What is written to a row is the text of its message.
RowsToCome ==
    \A w \in Writers : run[w].at = "row" =>
        run[w].copy.msgs[Step(w).msg].text = texts[Step(w).msg]

Saving(w, m) == run[w].at # "idle" /\ Step(w).do = "save" /\ Step(w).msg = m

RowsOK ==
    \A m \in DOMAIN rows \cap Ids :
        \/ rows[m].text = texts[m]
        \/ texts[m] > 0 /\ \E w \in Writers : Saving(w, m) /\ run[w].at \in {"load", "row"}

\* As long as nothing has overlapped, the history says what was saved.
Serial ==
    ~disturbed =>
        /\ \A w, v \in Busy : w = v
        /\ \A m \in DOMAIN blob.msgs :
              \/ blob.msgs[m].text = texts[m]
              \/ texts[m] > 0 /\ \E w \in Writers : Saving(w, m)
        /\ \A w \in Writers : Holding(run[w]) =>
              /\ \A m \in DOMAIN run[w].copy.msgs : run[w].copy.msgs[m].text = texts[m]
              /\ ~Wholesale(run[w].script) =>
                    \A m \in Ids \ Written(run[w].script) :
                        m \in DOMAIN run[w].copy.msgs <=> m \in DOMAIN blob.msgs

Good ==
    /\ ShapesOK /\ TextsToCome /\ Apart /\ WholesaleAlone /\ NothingYet
    /\ LinksKeepTexts /\ RowsToCome /\ RowsOK /\ Serial

IInv == rewritten \/ (DOMAIN rows \subseteq Ids /\ Good)

-----------------------------------------------------------------------------
(* Lemmas about scripts.                                                   *)

\* The messages a script saves, and those it gives children to (Written,
\* Linked: the calls of upsert_message_to_chat_by_id_and_message_id).
LEMMA WrittenIs ==
  ASSUME NEW script
  PROVE  /\ \A m : m \in Written(script) <=>
                     \E j \in DOMAIN script : script[j].do \in {"save", "link"}
                        /\ script[j].msg = m
         /\ \A m : m \in Linked(script) <=>
                     \E j \in DOMAIN script : script[j].do = "link" /\ script[j].msg = m
  BY DEF Written, Linked

\* A script as a sequence: its first step is one of its steps (Step).
LEMMA HeadOf ==
  ASSUME NEW script, ScriptOK(script)
  PROVE  /\ Len(script) \in Nat \ {0} /\ DOMAIN script = 1 .. Len(script)
         /\ 1 \in DOMAIN script /\ Head(script) = script[1] /\ IsStep(Head(script))
  <1>1. Len(script) \in Nat \ {0} /\ DOMAIN script = 1 .. Len(script)
    BY EmptySeq, LenProperties DEF ScriptOK
  <1>2. 1 \in DOMAIN script
    BY <1>1
  <1>3. Head(script) = script[1]
    BY DEF ScriptOK
  <1> QED
    BY <1>1, <1>2, <1>3 DEF ScriptOK

\* A sequence over some set is one over its own range.
LEMMA OwnRange ==
  ASSUME NEW S, NEW seq \in Seq(S)
  PROVE  seq \in Seq(Range(seq))
  <1>1. Len(seq) \in Nat /\ seq \in [1 .. Len(seq) -> S]
    BY LenProperties
  <1>2. seq \in [1 .. Len(seq) -> Range(seq)]
    BY <1>1 DEF Range
  <1>3. ASSUME NEW R, NEW n \in Nat, NEW s \in [1 .. n -> R] PROVE s \in Seq(R)
    <2>1. Seq(R) = UNION {[1 .. k -> R] : k \in Nat}
      BY SeqDef
    <2> QED
      BY <2>1, <1>3
  <1> QED
    BY <1>1, <1>2, <1>3

\* What is left of a script are steps of it.
From(new, old) ==
    /\ \A j \in DOMAIN new : \E i \in DOMAIN old :
          /\ new[j].do = old[i].do
          /\ new[j].do \in {"save", "link"} => new[j].msg = old[i].msg
          /\ new[j].do = "save" => new[j].text = old[i].text
    /\ Len(old) = 1 => Len(new) = 1

\* A script that goes on writes what it was to write (Finish, Peek).
LEMMA FromKeeps ==
  ASSUME NEW new, NEW old, From(new, old)
  PROVE  /\ Written(new) \subseteq Written(old) /\ Linked(new) \subseteq Linked(old)
         /\ Wholesale(new) => Wholesale(old)
  <1>1. Written(new) \subseteq Written(old)
    BY WrittenIs DEF From
  <1>2. Linked(new) \subseteq Linked(old)
    BY WrittenIs DEF From
  <1>3. Wholesale(new) => Wholesale(old)
    BY DEF From, Wholesale
  <1> QED
    BY <1>1, <1>2, <1>3

\* The same script is what is left of it.
LEMMA FromItself ==
  ASSUME NEW script
  PROVE  From(script, script)
  BY DEF From

\* The rest of a script after its first step (Finish).
LEMMA Rest ==
  ASSUME NEW script, ScriptOK(script), Tail(script) # <<>>
  PROVE  ScriptOK(Tail(script)) /\ From(Tail(script), script)
  <1> DEFINE rest == Tail(script)
  <1>1. /\ rest \in Seq(Range(script)) /\ Len(rest) = Len(script) - 1
        /\ \A i \in 1 .. Len(rest) : rest[i] = script[i + 1]
    BY HeadTailProperties DEF ScriptOK
  <1>2. Len(script) \in Nat \ {0} /\ DOMAIN script = 1 .. Len(script)
    BY HeadOf
  <1>3. Len(rest) \in Nat \ {0} /\ DOMAIN rest = 1 .. Len(rest)
    BY <1>1, EmptySeq, LenProperties
  <1> HIDE DEF rest
  <1>4. Len(script) > 1
    BY <1>1, <1>2, <1>3
  <1>5. \A i \in DOMAIN rest : i + 1 \in DOMAIN script /\ rest[i] = script[i + 1]
    BY <1>1, <1>2, <1>3
  <1>6. From(rest, script)
    <2>1. \A j \in DOMAIN rest : \E i \in DOMAIN script : rest[j] = script[i]
      BY <1>5
    <2> QED
      BY <2>1, <1>4, <1>2 DEF From
  <1>7. ~Wholesale(script)
    BY <1>4, <1>2 DEF ScriptOK
  <1>8. ~Wholesale(rest)
    BY <1>6, <1>7, FromKeeps
  <1>9. rest \in Seq(Range(rest))
    BY <1>1, OwnRange
  <1>10. rest # <<>>
    BY DEF rest
  <1>11. \A j \in DOMAIN rest : IsStep(rest[j])
    BY <1>5 DEF ScriptOK
  <1> QED
    BY <1>6, <1>8, <1>9, <1>10, <1>11 DEF ScriptOK, rest

\* The list of children a link writes is decided while it runs (Peek).
LEMMA Relinked ==
  ASSUME NEW script, ScriptOK(script), Head(script).do = "link", NEW step,
         step.do = "link", step.msg = Head(script).msg, IsStep(step),
         NEW new, new = [script EXCEPT ![1] = step]
  PROVE  ScriptOK(new) /\ From(new, script) /\ Head(new) = step
  <1>1. Len(script) \in Nat \ {0} /\ DOMAIN script = 1 .. Len(script) /\ Head(script) = script[1]
    BY HeadOf
  <1> DEFINE S == Range(script) \cup {step}
  <1>2. script \in Seq(S)
    BY SeqMonotonic DEF ScriptOK
  <1>3. /\ new \in Seq(S) /\ Len(new) = Len(script)
        /\ \A j \in 1 .. Len(script) : new[j] = IF j = 1 THEN step ELSE script[j]
    BY <1>1, <1>2, ExceptSeq
  <1>4. DOMAIN new = 1 .. Len(script)
    BY <1>1
  <1>5. new \in Seq(Range(new)) /\ new # <<>>
    BY <1>1, <1>3, OwnRange, EmptySeq
  <1>6. \A j \in DOMAIN new : IsStep(new[j])
    BY <1>1, <1>3, <1>4 DEF ScriptOK
  <1>7. From(new, script)
    BY <1>1, <1>3, <1>4 DEF From
  <1>8. Wholesale(new) => Len(new) = 1
    BY <1>3, <1>7, FromKeeps DEF ScriptOK
  <1>9. Head(new) = step
    BY <1>1, <1>3, <1>5
  <1> QED
    BY <1>5, <1>6, <1>7, <1>8, <1>9 DEF ScriptOK

-----------------------------------------------------------------------------
(* Lemmas about histories.                                                 *)

\* Repairing currentId leaves the messages alone (chats.py, ensure_current_message).
LEMMA Repaired ==
  ASSUME NEW h, IsHistory(h)
  PROVE  IsHistory(Repair(h)) /\ Repair(h).msgs = h.msgs
  <1>1. ASSUME NEW c PROVE /\ [h EXCEPT !.current = c].msgs = h.msgs
                           /\ [h EXCEPT !.current = c] = [msgs |-> h.msgs, current |-> c]
    <2>1. h = [msgs |-> h.msgs, current |-> h.current]
      BY DEF IsHistory
    <2> QED
      BY <2>1
  <1>2. CASE Repair(h) = h
    BY <1>2
  <1>3. CASE Repair(h) # h
    <2>1. PICK c : Repair(h) = [h EXCEPT !.current = c]
      BY <1>3 DEF Repair
    <2>2. Repair(h).msgs = h.msgs /\ Repair(h) = [msgs |-> h.msgs, current |-> c]
      BY <2>1, <1>1
    <2> HIDE DEF Repair
    <2>3. Repair(h).current = c
      BY <2>2
    <2> QED
      BY <2>2, <2>3 DEF IsHistory
  <1> QED
    BY <1>2, <1>3

\* What Patched changes of a message: its text or its children, no other field.
LEMMA PatchedIs ==
  ASSUME NEW x, IsMessage(x), NEW step
  PROVE  /\ IsMessage(Patched(x, step))
         /\ Patched(x, step).text = IF step.do = "save" THEN step.text ELSE x.text
  <1>1. x = [parent |-> x.parent, kids |-> x.kids, text |-> x.text]
    BY DEF IsMessage
  <1>2. CASE step.do = "save"
    <2>1. Patched(x, step) = [parent |-> x.parent, kids |-> x.kids, text |-> step.text]
      BY <1>1, <1>2 DEF Patched
    <2> QED
      BY <2>1, <1>2 DEF IsMessage
  <1>3. CASE step.do # "save"
    <2>1. Patched(x, step) = [parent |-> x.parent, kids |-> step.kids, text |-> x.text]
      BY <1>1, <1>3 DEF Patched
    <2> QED
      BY <2>1, <1>3 DEF IsMessage
  <1> QED
    BY <1>2, <1>3

\* An upsert changes one message (Upsert).
LEMMA Upserted ==
  ASSUME NEW h, IsHistory(h), NEW step, IsStep(step), step.do \in {"save", "link"}, NEW above,
         NEW u, u = Upsert(h, step, above)
  PROVE  /\ IsHistory(u) /\ DOMAIN u.msgs = DOMAIN h.msgs \cup {step.msg}
         /\ \A x \in DOMAIN h.msgs : x # step.msg => u.msgs[x].text = h.msgs[x].text
         /\ u.msgs[step.msg].text =
              IF step.do = "save" THEN step.text
              ELSE IF step.msg \in DOMAIN h.msgs THEN h.msgs[step.msg].text ELSE 0
  <1> DEFINE m == step.msg
             fresh(p) == [parent |-> p, kids |-> <<>>, text |-> 0]
  <1>1. PICK p : u = [msgs |-> [x \in DOMAIN h.msgs \cup {m} |->
                                 IF x = m THEN Patched(IF m \in DOMAIN h.msgs THEN h.msgs[m] ELSE fresh(p), step)
                                 ELSE h.msgs[x]],
                      current |-> m]
    BY DEF Upsert
  <1>2. PICK old : /\ old = IF m \in DOMAIN h.msgs THEN h.msgs[m] ELSE fresh(p)
                   /\ u = [msgs |-> [x \in DOMAIN h.msgs \cup {m} |->
                                      IF x = m THEN Patched(old, step) ELSE h.msgs[x]],
                           current |-> m]
    BY <1>1
  <1>3. IsMessage(old) /\ old.text = IF m \in DOMAIN h.msgs THEN h.msgs[m].text ELSE 0
    BY <1>2 DEF IsHistory, IsMessage
  <1>4. PICK new : new = Patched(old, step)
    OBVIOUS
  <1>5. IsMessage(new) /\ new.text = IF step.do = "save" THEN step.text ELSE old.text
    BY <1>3, <1>4, PatchedIs
  <1>6. /\ u = [msgs |-> u.msgs, current |-> u.current]
        /\ u.msgs = [x \in DOMAIN h.msgs \cup {m} |-> IF x = m THEN new ELSE h.msgs[x]]
    BY <1>2, <1>4
  <1>7. DOMAIN u.msgs = DOMAIN h.msgs \cup {m} /\ u.msgs[m] = new
    BY <1>6
  <1>8. \A x \in DOMAIN h.msgs : x # m => u.msgs[x] = h.msgs[x]
    BY <1>6
  <1>9. m \in Ids
    BY DEF IsStep
  <1>10. IsHistory(u)
    BY <1>5, <1>6, <1>7, <1>8, <1>9 DEF IsHistory
  <1> QED
    BY <1>3, <1>5, <1>7, <1>8, <1>10

\* One message of a history gets other children or another parent.
WithKids(x, v) == [x EXCEPT !.kids = v]
WithParent(x, v) == [x EXCEPT !.parent = v]

\* Neither changes its text (DeleteFrom).
LEMMA TextStays ==
  ASSUME NEW x, IsMessage(x), NEW v
  PROVE  /\ IsMessage(WithKids(x, v)) /\ WithKids(x, v).text = x.text
         /\ IsMessage(WithParent(x, v)) /\ WithParent(x, v).text = x.text
  <1>1. x = [parent |-> x.parent, kids |-> x.kids, text |-> x.text]
    BY DEF IsMessage
  <1>2. /\ WithKids(x, v) = [parent |-> x.parent, kids |-> v, text |-> x.text]
        /\ WithParent(x, v) = [parent |-> v, kids |-> x.kids, text |-> x.text]
    BY <1>1 DEF WithKids, WithParent
  <1> QED
    BY <1>2 DEF IsMessage

\* A deletion takes messages away and leaves the texts of the others
\* (DeleteFrom).
LEMMA DeletedFrom ==
  ASSUME NEW h, IsHistory(h), NEW m, NEW d, d = DeleteFrom(h, m)
  PROVE  /\ IsHistory(d) /\ DOMAIN d.msgs \subseteq DOMAIN h.msgs
         /\ \A x \in DOMAIN d.msgs : d.msgs[x].text = h.msgs[x].text
  <1>1. PICK up, grand, c :
          d = [msgs |-> [x \in DOMAIN h.msgs \ DeletedIds(h.msgs, m) |->
                          IF x = up THEN WithKids(h.msgs[x], Outside(h.msgs[x].kids, {m}) \o grand)
                          ELSE IF x \in Range(grand) THEN WithParent(h.msgs[x], up)
                          ELSE h.msgs[x]],
               current |-> c]
    BY Zenon DEF DeleteFrom, WithKids, WithParent
  <1>3. d = [msgs |-> d.msgs, current |-> d.current] /\ DOMAIN d.msgs \subseteq DOMAIN h.msgs
    BY <1>1
  <1>4. ASSUME NEW x \in DOMAIN d.msgs
        PROVE  IsMessage(d.msgs[x]) /\ d.msgs[x].text = h.msgs[x].text
    <2>1. IsMessage(h.msgs[x])
      BY <1>3, <1>4 DEF IsHistory
    <2>2. PICK v : \/ d.msgs[x] = WithKids(h.msgs[x], v)
                   \/ d.msgs[x] = WithParent(h.msgs[x], v)
                   \/ d.msgs[x] = h.msgs[x]
      BY <1>1, <1>4
    <2> QED
      BY <2>1, <2>2, TextStays
  <1> QED
    BY <1>3, <1>4 DEF IsHistory

-----------------------------------------------------------------------------
(* One writer moves.                                                       *)

Onward(r, old) == r.at = "idle" \/ (old.at # "idle" /\ From(r.script, old.script))

Moves(w, r) ==
    /\ run' = [run EXCEPT ![w] = r] /\ RunOK(r) /\ Onward(r, run[w])
    /\ UNCHANGED <<texts, created, disturbed>>

\* How a step begins (FirstPhase).
LEMMA FirstPhaseOK ==
  ASSUME NEW step, IsStep(step)
  PROVE  /\ FirstPhase(step) \in Phases(step) /\ FirstPhase(step) \in {"peek", "rows", "load"}
         /\ FirstPhase(step) = "load" => step.do # "link"
  BY DEF IsStep, FirstPhase, Phases

\* A writer at the beginning of a script (Begin, Finish).
Starting(script, a) ==
    [Idle EXCEPT !.script = script, !.alone = a, !.at = FirstPhase(Head(script))]

\* Such a writer has its first step before it and holds no history.
LEMMA StartOK ==
  ASSUME NEW script, ScriptOK(script), NEW r, NEW a, r = Starting(script, a)
  PROVE  /\ RunOK(r) /\ r.at \notin {"idle", "row", "blob", "fill", "gap"} /\ r.script = script
         /\ r.at = "load" => First(r).do # "link"
         /\ r.at = FirstPhase(Head(script))
  <1>1. r = [script |-> script, at |-> FirstPhase(Head(script)), copy |-> EmptyHistory,
             left |-> {}, gone |-> {}, alone |-> a]
    BY DEF Starting, Idle
  <1>2. IsRun(r) /\ r.script = script /\ r.at = FirstPhase(Head(script))
    BY <1>1 DEF IsRun
  <1>3. IsStep(Head(script))
    BY HeadOf
  <1>4. /\ FirstPhase(Head(script)) \in Phases(Head(script))
        /\ FirstPhase(Head(script)) \in {"peek", "rows", "load"}
        /\ FirstPhase(Head(script)) = "load" => Head(script).do # "link"
    BY <1>3, FirstPhaseOK
  <1> QED
    BY <1>2, <1>4 DEF RunOK, Holding, First

\* A writer that does nothing holds nothing (Idle).
LEMMA IdleOK ==
  RunOK(Idle) /\ Idle.at = "idle"
  <1>1. Idle = [script |-> Idle.script, at |-> Idle.at, copy |-> Idle.copy, left |-> Idle.left,
                gone |-> Idle.gone, alone |-> Idle.alone] /\ Idle.at = "idle"
    BY DEF Idle
  <1> QED
    BY <1>1 DEF RunOK, IsRun

\* A step that is done leads to the next one or ends the script (Finish).
LEMMA FinishMoves ==
  ASSUME ShapesOK, NEW w \in Writers, run[w].at # "idle", Finish(w)
  PROVE  \E r : /\ run' = [run EXCEPT ![w] = r] /\ RunOK(r) /\ Onward(r, run[w]) /\ ~Holding(r)
                /\ r.at = "load" => First(r).do # "link"
  <1>1. ScriptOK(run[w].script)
    BY DEF ShapesOK, RunOK
  <1> DEFINE rest == Tail(run[w].script)
  <1>2. CASE rest = <<>>
    <2>1. run' = [run EXCEPT ![w] = Idle]
      BY <1>2 DEF Finish
    <2> QED
      BY <2>1, IdleOK DEF Onward, Holding
  <1>3. CASE rest # <<>>
    <2>1. PICK r : r = Starting(rest, run[w].alone)
      OBVIOUS
    <2>2. run' = [run EXCEPT ![w] = r]
      BY <1>3, <2>1 DEF Finish, Starting
    <2>3. ScriptOK(rest) /\ From(rest, run[w].script)
      BY <1>1, <1>3, Rest
    <2>4. /\ RunOK(r) /\ r.at \notin {"idle", "row", "blob", "fill", "gap"} /\ r.script = rest
          /\ r.at = "load" => First(r).do # "link"
      <3> HIDE DEF rest
      <3> QED
        BY <2>1, <2>3, StartOK
    <2> QED
      BY <2>2, <2>3, <2>4 DEF Onward, Holding
  <1> QED
    BY <1>2, <1>3

\* A writer in the middle of a step keeps its script (Goto).
Doing(old, stage, copy, left, gone) ==
    [old EXCEPT !.at = stage, !.copy = copy, !.left = left, !.gone = gone]

\* Doing changes the fields it names and leaves the script.
LEMMA Changed ==
  ASSUME NEW old, IsRun(old), NEW stage, NEW copy, NEW left, NEW gone, NEW r,
         r = Doing(old, stage, copy, left, gone)
  PROVE  /\ IsRun(r) /\ r.script = old.script /\ r.at = stage /\ r.copy = copy /\ r.left = left
         /\ r.gone = gone
  <1>1. old = [script |-> old.script, at |-> old.at, copy |-> old.copy, left |-> old.left,
               gone |-> old.gone, alone |-> old.alone]
    BY DEF IsRun
  <1>2. r = [script |-> old.script, at |-> stage, copy |-> copy, left |-> left, gone |-> gone,
             alone |-> old.alone]
    BY <1>1 DEF Doing
  <1> QED
    BY <1>2 DEF IsRun

\* Goto as the move of one writer.
LEMMA GotoMoves ==
  ASSUME ShapesOK, NEW w \in Writers, NEW stage, NEW copy, NEW left, NEW gone,
         Goto(w, stage, copy, left, gone)
  PROVE  \E r : /\ run' = [run EXCEPT ![w] = r] /\ IsRun(r) /\ r.script = run[w].script
                /\ r.at = stage /\ r.copy = copy /\ r.left = left
  <1>1. PICK old : old = run[w] /\ IsRun(old)
    BY DEF ShapesOK, RunOK
  <1>2. PICK r : r = Doing(old, stage, copy, left, gone)
    OBVIOUS
  <1>3. run' = [run EXCEPT ![w] = Doing(run[w], stage, copy, left, gone)]
    BY DEF Goto, ShapesOK, Doing
  <1>4. run' = [run EXCEPT ![w] = r]
    BY <1>1, <1>2, <1>3
  <1>5. /\ IsRun(r) /\ r.script = old.script /\ r.at = stage /\ r.copy = copy /\ r.left = left
    BY <1>1, <1>2, Changed
  <1> QED
    BY <1>1, <1>4, <1>5

\* What each writer is doing after one of them has moved.
LEMMA After ==
  ASSUME ShapesOK, NEW w \in Writers, NEW r, Moves(w, r)
  PROVE  /\ run'[w] = r /\ \A v \in Writers : v # w => run'[v] = run[v]
         /\ run' = [v \in Writers |-> run'[v]]
  BY DEF ShapesOK, Moves

\* Shapes are kept by every step that moves one writer and leaves histories.
LEMMA ShapesKept ==
  ASSUME ShapesOK, NEW w \in Writers, NEW r, Moves(w, r), IsHistory(blob'), IsHistory(tab')
  PROVE  ShapesOK'
  <1>1. \A v \in Writers : RunOK(run'[v])
    BY After DEF ShapesOK, Moves
  <1> QED
    BY <1>1, After DEF ShapesOK, Moves

\* A writer that goes on writes no message it was not to write, so that
\* scripts stay apart.
LEMMA ScriptsKept ==
  ASSUME ShapesOK, TextsToCome, Apart, WholesaleAlone, NEW w \in Writers, NEW r, Moves(w, r)
  PROVE  TextsToCome' /\ Apart' /\ WholesaleAlone'
  <1>1. ASSUME NEW v \in Busy' PROVE v \in Busy /\ From(run'[v].script, run[v].script)
    BY <1>1, After, FromItself DEF Busy, Moves, Onward
  <1>2. ASSUME NEW v \in Busy'
        PROVE  /\ Written(run'[v].script) \subseteq Written(run[v].script)
               /\ Wholesale(run'[v].script) => Wholesale(run[v].script)
    BY <1>1, <1>2, FromKeeps
  <1>3. Apart'
    BY <1>1, <1>2 DEF Apart
  <1>4. WholesaleAlone'
    BY <1>1, <1>2 DEF WholesaleAlone, Moves
  <1>5. ASSUME NEW v \in Busy', NEW j \in DOMAIN run'[v].script, run'[v].script[j].do = "save",
               NEW m, m = run'[v].script[j].msg
        PROVE  /\ run'[v].script[j].text = texts[m]
               /\ Len(run'[v].script) = 1 \/ texts[m] = 0
    <2>1. v \in Busy
      BY <1>1, <1>5
    <2>2. PICK i \in DOMAIN run[v].script :
             /\ run[v].script[i].do = "save" /\ run[v].script[i].msg = m
             /\ run'[v].script[j].text = run[v].script[i].text
      BY <1>1, <1>5 DEF From
    <2>3. run[v].script[i].text = texts[m] /\ (Len(run[v].script) = 1 \/ texts[m] = 0)
      BY <2>1, <2>2 DEF TextsToCome
    <2> QED
      BY <1>1, <1>5, <2>2, <2>3 DEF From
  <1>6. TextsToCome'
    BY <1>5 DEF TextsToCome, Moves
  <1> QED
    BY <1>3, <1>4, <1>6

-----------------------------------------------------------------------------
(* The conjuncts of Good about texts, and what moves of a writer do to them. *)

Texts == NothingYet /\ LinksKeepTexts /\ RowsToCome /\ RowsOK /\ Serial

\* What a writer does next is a step of its script (Step).
LEMMA FirstIs ==
  ASSUME ShapesOK, NEW w \in Writers, run[w].at # "idle"
  PROVE  /\ w \in Busy /\ ScriptOK(run[w].script) /\ IsStep(First(run[w]))
         /\ First(run[w]).do \in {"save", "link"} => First(run[w]).msg \in Written(run[w].script)
         /\ First(run[w]).do = "link" => First(run[w]).msg \in Linked(run[w].script)
         /\ First(run[w]).do \in {"delete", "read"} => Wholesale(run[w].script)
  <1>1. ScriptOK(run[w].script) /\ w \in Busy
    BY DEF ShapesOK, RunOK, Busy
  <1>2. /\ 1 \in DOMAIN run[w].script /\ Head(run[w].script) = run[w].script[1]
        /\ IsStep(Head(run[w].script))
    BY <1>1, HeadOf
  <1>3. /\ First(run[w]).do \in {"save", "link"} => First(run[w]).msg \in Written(run[w].script)
        /\ First(run[w]).do = "link" => First(run[w]).msg \in Linked(run[w].script)
    BY <1>2, WrittenIs DEF First
  <1>4. First(run[w]).do \in {"delete", "read"} => Wholesale(run[w].script)
    BY <1>2 DEF First, Wholesale
  <1> QED
    BY <1>1, <1>2, <1>3, <1>4 DEF First

\* A message about to be saved is one its writer is to write.
LEMMA SavingWrites ==
  ASSUME ShapesOK, NEW w \in Writers, NEW m, Saving(w, m)
  PROVE  w \in Busy /\ m \in Written(run[w].script)
  BY FirstIs DEF Saving, Step, First

\* A script that deletes or fills in messages runs alone.
LEMMA AloneThen ==
  ASSUME Apart, WholesaleAlone, NEW w \in Busy, Wholesale(run[w].script)
  PROVE  ~disturbed /\ Busy = {w}
  BY DEF Apart, WholesaleAlone

\* A history that drops what it held and saves nothing: the end of a step,
\* or a load that leads to nothing (Peek, Load, DropRows, ReadRows).
LEMMA LetGo ==
  ASSUME ShapesOK, Texts, NEW w \in Writers, NEW r, Moves(w, r), run[w].at # "idle", ~Holding(r),
         First(run[w]).do # "save", blob'.msgs = blob.msgs,
         \A m \in DOMAIN rows' : m \in DOMAIN rows /\ rows'[m] = rows[m],
         r.at = "load" /\ First(r).do = "link" => First(r).msg \in DOMAIN blob.msgs
  PROVE  Texts'
  <1>1. /\ run'[w] = r /\ \A v \in Writers : v # w => run'[v] = run[v]
        /\ texts' = texts /\ disturbed' = disturbed
    BY After DEF Moves
  <1>2. ASSUME NEW v \in Writers, Holding(run'[v]) PROVE v # w /\ run'[v] = run[v]
    BY <1>1, <1>2
  <1>3. ASSUME NEW v \in Busy'
        PROVE  v \in Busy /\ Linked(run'[v].script) \subseteq Linked(run[v].script)
    BY <1>1, <1>3, FromKeeps, FromItself DEF Busy, Moves, Onward
  <1>4. ASSUME NEW v \in Writers, NEW m,
               Saving(v, m) PROVE v # w /\ run'[v] = run[v] /\ Saving(v, m)'
    BY <1>1, <1>4 DEF Saving, Step, First
  <1>5. NothingYet'
    BY <1>1, <1>2 DEF NothingYet, Texts
  <1>6. ASSUME NEW m, Uniform(m) PROVE Uniform(m)'
    BY <1>1, <1>2, <1>6 DEF Uniform
  <1>7. LinksKeepTexts'
    <2>1. ASSUME NEW v \in Busy', NEW m \in Linked(run'[v].script)
          PROVE  texts'[m] = 0 \/ Uniform(m)'
      BY <1>1, <1>3, <1>6, <2>1 DEF LinksKeepTexts, Texts
    <2>2. ASSUME NEW v \in Busy', run'[v].at = "load", First(run'[v]).do = "link"
          PROVE  texts'[First(run'[v]).msg] = 0 \/ First(run'[v]).msg \in DOMAIN blob'.msgs
      <3>1. CASE v = w
        BY <1>1, <2>2, <3>1
      <3>2. CASE v # w
        BY <1>1, <2>2, <3>2 DEF LinksKeepTexts, Texts, Busy, First, Step
      <3> QED
        BY <3>1, <3>2
    <2> QED
      BY <2>1, <2>2 DEF LinksKeepTexts, First, Step
  <1>8. RowsToCome'
    BY <1>1, <1>2 DEF RowsToCome, Texts, Holding, Step
  <1>9. RowsOK'
    BY <1>1, <1>4 DEF RowsOK, Texts
  <1>10. Serial'
    <2> SUFFICES ASSUME ~disturbed' PROVE Serial'
      BY DEF Serial
    <2>1. \A v, u \in Busy' : v = u
      BY <1>1, <1>3 DEF Serial, Texts
    <2>2. \A m \in DOMAIN blob'.msgs :
              \/ blob'.msgs[m].text = texts'[m]
              \/ texts'[m] > 0 /\ \E v \in Writers : Saving(v, m)'
      BY <1>1, <1>4 DEF Serial, Texts
    <2>3. \A v \in Writers : Holding(run'[v]) =>
              /\ \A m \in DOMAIN run'[v].copy.msgs : run'[v].copy.msgs[m].text = texts'[m]
              /\ ~Wholesale(run'[v].script) =>
                    \A m \in Ids \ Written(run'[v].script) :
                        m \in DOMAIN run'[v].copy.msgs <=> m \in DOMAIN blob'.msgs
      BY <1>1, <1>2 DEF Serial, Texts
    <2> QED
      BY <2>1, <2>2, <2>3 DEF Serial
  <1> QED
    BY <1>5, <1>7, <1>8, <1>9, <1>10 DEF Texts

\* A script that deletes or fills in messages gives nobody children.
LEMMA WholesaleLinksNone ==
  ASSUME NEW script, ScriptOK(script), Wholesale(script)
  PROVE  Linked(script) = {} /\ Head(script).do \in {"delete", "read"}
  <1>1. DOMAIN script = {1} /\ Head(script) = script[1] /\ IsStep(Head(script))
    <2>1. Len(script) = 1
      BY DEF ScriptOK
    <2>2. DOMAIN script = 1 .. Len(script) /\ Head(script) = script[1] /\ IsStep(Head(script))
      BY HeadOf
    <2> QED
      BY <2>1, <2>2
  <1>2. script[1].do \in {"delete", "read"}
    BY <1>1 DEF Wholesale, IsStep
  <1>3. \A m : m \notin Linked(script)
    BY <1>1, <1>2, WrittenIs
  <1> QED
    BY <1>1, <1>2, <1>3

\* A history is loaded, and one message of it saved or given children (Load).
LEMMA TakenUp ==
  ASSUME ShapesOK, TextsToCome, Apart, Texts, NEW w \in Writers, NEW r, Moves(w, r),
         run[w].at = "load", r.at = "row", r.script = run[w].script,
         blob'.msgs = blob.msgs, rows' = rows,
         NEW m, m = First(run[w]).msg, First(run[w]).do \in {"save", "link"},
         DOMAIN r.copy.msgs = DOMAIN blob.msgs \cup {m},
         \A x \in DOMAIN blob.msgs : x # m => r.copy.msgs[x].text = blob.msgs[x].text,
         r.copy.msgs[m].text = IF First(run[w]).do = "save" THEN First(run[w]).text
                               ELSE IF m \in DOMAIN blob.msgs THEN blob.msgs[m].text ELSE 0
  PROVE  Texts'
  <1>1. /\ run'[w] = r /\ \A v \in Writers : v # w => run'[v] = run[v]
        /\ texts' = texts /\ disturbed' = disturbed
    BY After DEF Moves
  <1>2. /\ w \in Busy /\ ScriptOK(run[w].script) /\ IsStep(First(run[w]))
        /\ m \in Written(run[w].script)
        /\ First(run[w]).do = "link" => m \in Linked(run[w].script)
    BY FirstIs
  <1>3. m \in Ids
    BY <1>2 DEF IsStep
  <1>4. First(run[w]) = run[w].script[1] /\ 1 \in DOMAIN run[w].script
    BY <1>2, HeadOf DEF First
  <1>5. First(run[w]).do = "save" =>
           r.copy.msgs[m].text = texts[m] /\ (Len(run[w].script) = 1 \/ texts[m] = 0)
    BY <1>2, <1>4 DEF TextsToCome
  <1>6. First(run[w]).do = "link" =>
           /\ texts[m] = 0 \/ (m \in DOMAIN blob.msgs /\ Uniform(m))
           /\ r.copy.msgs[m].text = texts[m]
    <2> SUFFICES ASSUME First(run[w]).do = "link"
                 PROVE  /\ texts[m] = 0 \/ (m \in DOMAIN blob.msgs /\ Uniform(m))
                        /\ r.copy.msgs[m].text = texts[m]
      OBVIOUS
    <2>1. texts[m] = 0 \/ (m \in DOMAIN blob.msgs /\ Uniform(m))
      BY <1>2 DEF Texts, LinksKeepTexts, First, Step
    <2>2. texts[m] = 0 /\ m \in DOMAIN blob.msgs => blob.msgs[m].text = 0
      BY <1>3 DEF Texts, NothingYet
    <2> QED
      BY <2>1, <2>2 DEF Uniform
  <1>7. r.copy.msgs[m].text = texts[m]
    BY <1>5, <1>6
  <1>8. m \in Linked(run[w].script) => texts[m] = 0 \/ (m \in DOMAIN blob.msgs /\ Uniform(m))
    <2>1. CASE First(run[w]).do = "link"
      BY <1>6, <2>1
    <2>2. CASE First(run[w]).do = "save" /\ m \in Linked(run[w].script)
      <3>1. PICK j \in DOMAIN run[w].script : run[w].script[j].do = "link"
        BY <2>2, WrittenIs
      <3>2. j # 1
        BY <3>1, <2>2, <1>4
      <3>3. Len(run[w].script) # 1
        BY <3>1, <3>2, <1>2, HeadOf
      <3> QED
        BY <1>5, <2>2, <3>3
    <2> QED
      BY <2>1, <2>2
  <1>9. \A v \in Writers : v # w /\ Holding(run'[v]) => run'[v] = run[v] /\ Holding(run[v])
    BY <1>1
  <1>10. ASSUME NEW v \in Writers, NEW x, Saving(v, x) PROVE Saving(v, x)'
    BY <1>1, <1>10 DEF Saving, Step
  <1>11. Holding(r)
    BY DEF Holding
  <1>12. NothingYet'
    <2>1. ASSUME NEW x \in Ids, texts[x] = 0,
                 x \in DOMAIN r.copy.msgs PROVE r.copy.msgs[x].text = 0
      BY <1>7, <2>1 DEF Texts, NothingYet
    <2> QED
      BY <1>1, <1>9, <2>1 DEF NothingYet, Texts
  <1>13. ASSUME NEW x, Uniform(x), x # m \/ m \in DOMAIN blob.msgs PROVE Uniform(x)'
    <2>1. x \in DOMAIN r.copy.msgs <=> x \in DOMAIN blob.msgs
      BY <1>13
    <2>2. x \in DOMAIN blob.msgs => r.copy.msgs[x].text = texts[x]
      BY <1>7, <1>13 DEF Uniform
    <2> QED
      BY <1>1, <1>9, <1>13, <2>1, <2>2 DEF Uniform
  <1>14. LinksKeepTexts'
    <2>1. ASSUME NEW v \in Busy', NEW x \in Linked(run'[v].script)
          PROVE  texts'[x] = 0 \/ Uniform(x)'
      <3>1. v \in Busy /\ run'[v].script = run[v].script
        BY <1>1, <1>2, <2>1 DEF Busy
      <3>2. texts[x] = 0 \/ Uniform(x)
        BY <2>1, <3>1 DEF Texts, LinksKeepTexts
      <3>3. CASE v = w
        BY <1>1, <1>8, <1>13, <2>1, <3>1, <3>2, <3>3
      <3>4. CASE v # w
        <4>1. x # m
          BY <1>2, <2>1, <3>1, <3>4 DEF Apart, Written
        <4> QED
          BY <1>1, <1>13, <3>2, <4>1
      <3> QED
        BY <3>3, <3>4
    <2>2. ASSUME NEW v \in Busy', run'[v].at = "load", First(run'[v]).do = "link"
          PROVE  texts'[First(run'[v]).msg] = 0 \/ First(run'[v]).msg \in DOMAIN blob'.msgs
      <3>1. v # w
        BY <1>1, <2>2
      <3> QED
        BY <1>1, <2>2, <3>1 DEF LinksKeepTexts, Texts, Busy, First, Step
    <2> QED
      BY <2>1, <2>2 DEF LinksKeepTexts, First, Step
  <1>15. RowsToCome'
    <2>1. ASSUME NEW v \in Writers, run'[v].at = "row"
          PROVE  run'[v].copy.msgs[First(run'[v]).msg].text = texts'[First(run'[v]).msg]
      <3>1. CASE v = w
        BY <1>1, <1>7, <3>1 DEF First
      <3>2. CASE v # w
        BY <1>1, <2>1, <3>2 DEF RowsToCome, Texts, First, Step
      <3> QED
        BY <3>1, <3>2
    <2> QED
      BY <2>1 DEF RowsToCome, First, Step
  <1>16. RowsOK'
    <2>1. ASSUME NEW v \in Writers, NEW x, Saving(v, x), run[v].at \in {"load", "row"}
          PROVE  Saving(v, x)' /\ run'[v].at \in {"load", "row"}
      BY <1>1, <1>10, <2>1
    <2> QED
      BY <1>1, <2>1 DEF RowsOK, Texts
  <1>17. Serial'
    <2> SUFFICES ASSUME ~disturbed' PROVE Serial'
      BY DEF Serial
    <2>1. \A v, u \in Busy' : v = u
      BY <1>1, <1>2 DEF Serial, Texts, Busy
    <2>2. \A x \in DOMAIN blob'.msgs :
              \/ blob'.msgs[x].text = texts'[x]
              \/ texts'[x] > 0 /\ \E v \in Writers : Saving(v, x)'
      BY <1>1, <1>10 DEF Serial, Texts
    <2>3. ASSUME NEW v \in Writers, Holding(run'[v]) PROVE v = w
      BY <1>1, <1>2, <1>9, <2>3 DEF Serial, Texts, Busy, Holding
    <2>4. ASSUME NEW x \in DOMAIN r.copy.msgs PROVE r.copy.msgs[x].text = texts[x]
      <3>1. CASE x = m
        BY <1>7, <3>1
      <3>2. CASE x # m
        <4>1. ASSUME NEW v \in Writers, Saving(v, x) PROVE FALSE
          <5>1. v = w
            BY <1>1, <1>2, <4>1, SavingWrites DEF Serial, Texts
          <5> QED
            BY <4>1, <5>1, <3>2 DEF Saving, First, Step
        <4> QED
          BY <1>1, <2>4, <3>2, <4>1 DEF Serial, Texts
      <3> QED
        BY <3>1, <3>2
    <2>5. \A x \in Ids \ Written(r.script) : x \in DOMAIN r.copy.msgs <=> x \in DOMAIN blob'.msgs
      BY <1>2
    <2> QED
      BY <1>1, <2>1, <2>2, <2>3, <2>4, <2>5 DEF Serial
  <1> QED
    BY <1>12, <1>14, <1>15, <1>16, <1>17 DEF Texts

\* A history is loaded to be written as it is, or without some messages, or
\* to fill in rows from it (Load, LoadMissing).
LEMMA TakenWhole ==
  ASSUME ShapesOK, Apart, WholesaleAlone, Texts, NEW w \in Writers, NEW r, Moves(w, r),
         run[w].at # "idle", ~Holding(run[w]), r.at \in {"blob", "fill"}, r.script = run[w].script,
         blob'.msgs = blob.msgs, rows' = rows, First(run[w]).do \notin {"save", "link"},
         DOMAIN r.copy.msgs \subseteq DOMAIN blob.msgs,
         Wholesale(run[w].script) \/ DOMAIN r.copy.msgs = DOMAIN blob.msgs,
         \A x \in DOMAIN r.copy.msgs : r.copy.msgs[x].text = blob.msgs[x].text
  PROVE  Texts'
  <1>1. /\ run'[w] = r /\ \A v \in Writers : v # w => run'[v] = run[v]
        /\ texts' = texts /\ disturbed' = disturbed
    BY After DEF Moves
  <1>2. w \in Busy /\ ScriptOK(run[w].script)
    BY FirstIs
  <1>3. ASSUME NEW v \in Busy' PROVE v \in Busy /\ run'[v].script = run[v].script
    BY <1>1, <1>2, <1>3 DEF Busy
  <1>4. \A v \in Writers : v # w /\ Holding(run'[v]) => run'[v] = run[v] /\ Holding(run[v])
    BY <1>1
  <1>5. ASSUME NEW v \in Writers, NEW x, Saving(v, x) PROVE v # w /\ Saving(v, x)'
    BY <1>1, <1>5 DEF Saving, Step, First
  <1>6. NothingYet'
    <2>1. ASSUME NEW x \in Ids, texts[x] = 0,
                 x \in DOMAIN r.copy.msgs PROVE r.copy.msgs[x].text = 0
      BY <2>1 DEF Texts, NothingYet
    <2> QED
      BY <1>1, <1>4, <2>1 DEF NothingYet, Texts
  <1>7. LinksKeepTexts'
    <2>1. ASSUME NEW v \in Busy', NEW x \in Linked(run'[v].script)
          PROVE  texts'[x] = 0 \/ Uniform(x)'
      <3>1. v \in Busy /\ x \in Linked(run[v].script)
        BY <1>3, <2>1
      <3>2. texts[x] = 0 \/ Uniform(x)
        BY <3>1 DEF Texts, LinksKeepTexts
      <3>3. ~Wholesale(run[w].script)
        <4> SUFFICES ASSUME Wholesale(run[w].script) PROVE FALSE
          OBVIOUS
        <4>1. v = w
          BY <1>2, <3>1, AloneThen
        <4> QED
          BY <1>2, <3>1, <4>1, WholesaleLinksNone
      <3>4. DOMAIN r.copy.msgs = DOMAIN blob.msgs
        BY <3>3
      <3>5. CASE texts[x] = 0
        BY <1>1, <3>5
      <3>6. CASE Uniform(x)
        <4>1. x \in DOMAIN blob.msgs => r.copy.msgs[x].text = texts[x]
          BY <3>4, <3>6 DEF Uniform
        <4> QED
          BY <1>1, <1>4, <3>4, <3>6, <4>1 DEF Uniform
      <3> QED
        BY <3>2, <3>5, <3>6
    <2>2. ASSUME NEW v \in Busy', run'[v].at = "load", First(run'[v]).do = "link"
          PROVE  texts'[First(run'[v]).msg] = 0 \/ First(run'[v]).msg \in DOMAIN blob'.msgs
      <3>1. v # w
        BY <1>1, <2>2
      <3> QED
        BY <1>1, <2>2, <3>1 DEF LinksKeepTexts, Texts, Busy, First, Step
    <2> QED
      BY <2>1, <2>2 DEF LinksKeepTexts, First, Step
  <1>8. RowsToCome'
    <2>1. \A v \in Writers : run'[v].at = "row" => v # w
      BY <1>1
    <2> QED
      BY <1>1, <2>1 DEF RowsToCome, Texts, Step
  <1>9. RowsOK'
    <2>1. ASSUME NEW v \in Writers, NEW x, Saving(v, x), run[v].at \in {"load", "row"}
          PROVE  Saving(v, x)' /\ run'[v].at \in {"load", "row"}
      BY <1>1, <1>5, <2>1
    <2> QED
      BY <1>1, <2>1 DEF RowsOK, Texts
  <1>10. Serial'
    <2> SUFFICES ASSUME ~disturbed' PROVE Serial'
      BY DEF Serial
    <2>1. \A v, u \in Busy' : v = u
      BY <1>1, <1>3 DEF Serial, Texts
    <2>2. \A x \in DOMAIN blob'.msgs :
              \/ blob'.msgs[x].text = texts'[x]
              \/ texts'[x] > 0 /\ \E v \in Writers : Saving(v, x)'
      BY <1>1, <1>5 DEF Serial, Texts
    <2>3. ASSUME NEW v \in Writers, Holding(run'[v]) PROVE v = w
      BY <1>1, <1>2, <1>4, <2>3 DEF Serial, Texts, Busy, Holding
    <2>4. ASSUME NEW x \in DOMAIN r.copy.msgs PROVE r.copy.msgs[x].text = texts[x]
      <3>1. ASSUME NEW v \in Writers, Saving(v, x) PROVE FALSE
        <4>1. v # w /\ v \in Busy
          BY <1>5, <3>1, SavingWrites
        <4> QED
          BY <1>1, <1>2, <4>1 DEF Serial, Texts
      <3> QED
        BY <1>1, <2>4, <3>1 DEF Serial, Texts
    <2> QED
      BY <1>1, <2>1, <2>2, <2>3, <2>4 DEF Serial
  <1> QED
    BY <1>6, <1>7, <1>8, <1>9, <1>10 DEF Texts

\* The row of an upsert is written (WriteRow).
LEMMA RowWritten ==
  ASSUME ShapesOK, Texts, NEW w \in Writers, NEW r, Moves(w, r),
         run[w].at = "row", r.at = "blob", r.script = run[w].script, r.copy = run[w].copy,
         blob' = blob, NEW m, m = First(run[w]).msg,
         \A x \in DOMAIN rows' : x # m => x \in DOMAIN rows /\ rows'[x] = rows[x],
         m \in DOMAIN rows' => rows'[m].text = run[w].copy.msgs[m].text
  PROVE  Texts'
  <1>1. /\ run'[w] = r /\ \A v \in Writers : v # w => run'[v] = run[v]
        /\ texts' = texts /\ disturbed' = disturbed
    BY After DEF Moves
  <1>2. w \in Busy /\ \A v \in Writers : v \in Busy' <=> v \in Busy
    BY <1>1 DEF Busy
  <1>3. \A v \in Writers : /\ Holding(run'[v]) <=> Holding(run[v])
                           /\ run'[v].copy = run[v].copy /\ run'[v].script = run[v].script
    BY <1>1 DEF Holding
  <1>4. \A x : \A v \in Writers : Saving(v, x)' <=> Saving(v, x)
    BY <1>1, <1>3 DEF Saving, Step
  <1>5. NothingYet'
    BY <1>1, <1>3 DEF NothingYet, Texts
  <1>6. \A x : Uniform(x)' <=> Uniform(x)
    BY <1>1, <1>3 DEF Uniform
  <1>7. LinksKeepTexts'
    <2>1. \A v \in Writers : run'[v].at = "load" => run[v].at = "load"
      BY <1>1
    <2> QED
      BY <1>1, <1>2, <1>3, <1>6, <2>1 DEF LinksKeepTexts, Texts, Busy, Step
  <1>8. RowsToCome'
    <2>1. \A v \in Writers : run'[v].at = "row" => run[v].at = "row"
      BY <1>1
    <2> QED
      BY <1>1, <1>3, <2>1 DEF RowsToCome, Texts, Step
  <1>9. RowsOK'
    <2>1. ASSUME NEW x \in DOMAIN rows' \cap Ids, rows'[x].text # texts'[x]
          PROVE  texts'[x] > 0 /\ \E v \in Writers : Saving(v, x)'
             /\ run'[v].at \in {"load", "row"}
      <3>1. x # m
        BY <1>1, <2>1 DEF RowsToCome, Texts, First, Step
      <3>2. x \in DOMAIN rows /\ rows'[x] = rows[x]
        BY <2>1, <3>1
      <3>3. PICK v \in Writers : texts[x] > 0 /\ Saving(v, x) /\ run[v].at \in {"load", "row"}
        BY <1>1, <2>1, <3>2 DEF RowsOK, Texts
      <3>4. v # w
        BY <3>1, <3>3 DEF Saving, First, Step
      <3> QED
        BY <1>1, <1>4, <3>3, <3>4
    <2> QED
      BY <2>1 DEF RowsOK
  <1>10. Serial'
    BY <1>1, <1>2, <1>3, <1>4 DEF Serial, Texts, Busy
  <1> QED
    BY <1>5, <1>7, <1>8, <1>9, <1>10 DEF Texts

\* A history is written, whole; a deletion keeps it to go on with the rows
\* (WriteBlob).
LEMMA BlobWritten ==
  ASSUME ShapesOK, Texts, NEW w \in Writers, NEW r, Moves(w, r),
         run[w].at = "blob", r.at # "row", r.at = "load" => First(r).do # "link",
         Holding(r) => r.copy = run[w].copy /\ Wholesale(r.script),
         blob'.msgs = run[w].copy.msgs, rows' = rows
  PROVE  Texts'
  <1>1. /\ run'[w] = r /\ \A v \in Writers : v # w => run'[v] = run[v]
        /\ texts' = texts /\ disturbed' = disturbed
    BY After DEF Moves
  <1>2. w \in Busy /\ Holding(run[w])
    BY DEF Busy, Holding
  <1>3. ASSUME NEW v \in Busy'
        PROVE  v \in Busy /\ Linked(run'[v].script) \subseteq Linked(run[v].script)
    BY <1>1, <1>3, FromKeeps, FromItself DEF Busy, Moves, Onward
  <1>4. \A v \in Writers : Holding(run'[v]) =>
           /\ Holding(run[v]) /\ run'[v].copy = run[v].copy
           /\ v # w => run'[v].script = run[v].script
    BY <1>1, <1>2
  <1>5. ASSUME NEW v \in Writers, NEW x, Saving(v, x), v # w PROVE Saving(v, x)'
    BY <1>1, <1>5 DEF Saving, Step
  <1>6. NothingYet'
    BY <1>1, <1>2, <1>4 DEF NothingYet, Texts
  <1>7. ASSUME NEW x, Uniform(x)
        PROVE  Uniform(x)' /\ (x \in DOMAIN blob'.msgs <=> x \in DOMAIN blob.msgs)
    <2>1. x \in DOMAIN blob'.msgs <=> x \in DOMAIN blob.msgs
      BY <1>2, <1>7 DEF Uniform
    <2>2. x \in DOMAIN blob.msgs => blob'.msgs[x].text = texts[x]
      BY <1>2, <1>7 DEF Uniform
    <2> QED
      BY <1>1, <1>4, <1>7, <2>1, <2>2 DEF Uniform
  <1>8. LinksKeepTexts'
    <2>1. ASSUME NEW v \in Busy', NEW x \in Linked(run'[v].script)
          PROVE  texts'[x] = 0 \/ Uniform(x)'
      BY <1>1, <1>3, <1>7, <2>1 DEF LinksKeepTexts, Texts
    <2>2. ASSUME NEW v \in Busy', run'[v].at = "load", First(run'[v]).do = "link"
          PROVE  texts'[First(run'[v]).msg] = 0 \/ First(run'[v]).msg \in DOMAIN blob'.msgs
      <3>1. v # w /\ run'[v] = run[v] /\ v \in Busy /\ v \in Writers
        BY <1>1, <1>3, <2>2 DEF Busy
      <3> DEFINE m == First(run[v]).msg
      <3>2. m \in Linked(run[v].script)
        BY <2>2, <3>1, FirstIs DEF Busy
      <3>3. texts[m] = 0 \/ (m \in DOMAIN blob.msgs /\ Uniform(m))
        BY <2>2, <3>1, <3>2 DEF LinksKeepTexts, Texts, First, Step
      <3>4. texts[m] = 0 \/ m \in DOMAIN blob'.msgs
        BY <3>3, <1>7
      <3> QED
        BY <1>1, <3>1, <3>4
    <2> QED
      BY <2>1, <2>2 DEF LinksKeepTexts, First, Step
  <1>9. RowsToCome'
    <2>1. \A v \in Writers : run'[v].at = "row" => v # w
      BY <1>1
    <2> QED
      BY <1>1, <2>1 DEF RowsToCome, Texts, Step
  <1>10. RowsOK'
    <2>1. ASSUME NEW v \in Writers, NEW x, Saving(v, x), run[v].at \in {"load", "row"}
          PROVE  Saving(v, x)' /\ run'[v].at \in {"load", "row"}
      <3>1. v # w
        BY <2>1
      <3> QED
        BY <1>1, <1>5, <2>1, <3>1
    <2> QED
      BY <1>1, <2>1 DEF RowsOK, Texts
  <1>11. Serial'
    <2> SUFFICES ASSUME ~disturbed' PROVE Serial'
      BY DEF Serial
    <2>1. \A v, u \in Busy' : v = u
      BY <1>1, <1>3 DEF Serial, Texts
    <2>2. \A x \in DOMAIN blob'.msgs : blob'.msgs[x].text = texts'[x]
      BY <1>1, <1>2 DEF Serial, Texts
    <2>3. \A v \in Writers : Holding(run'[v]) => v = w
      BY <1>1, <1>2, <1>4 DEF Serial, Texts, Busy, Holding
    <2>4. Holding(r) => \A x \in DOMAIN r.copy.msgs : r.copy.msgs[x].text = texts'[x]
      BY <1>1, <1>2 DEF Serial, Texts
    <2> QED
      BY <1>1, <2>1, <2>2, <2>3, <2>4 DEF Serial
  <1> QED
    BY <1>6, <1>8, <1>9, <1>10, <1>11 DEF Texts

\* A row is filled in by a script that runs alone (Fill).
LEMMA RowFilled ==
  ASSUME ShapesOK, Apart, WholesaleAlone, Texts, NEW w \in Writers, NEW r, Moves(w, r),
         run[w].at = "fill", r.at = "fill", r.script = run[w].script, r.copy = run[w].copy,
         First(run[w]).do \in {"delete", "read"}, blob' = blob, NEW m \in DOMAIN run[w].copy.msgs,
         \A x \in DOMAIN rows' : x # m => x \in DOMAIN rows /\ rows'[x] = rows[x],
         m \in DOMAIN rows' => rows'[m].text = run[w].copy.msgs[m].text
  PROVE  Texts'
  <1>1. /\ run'[w] = r /\ \A v \in Writers : v # w => run'[v] = run[v]
        /\ texts' = texts /\ disturbed' = disturbed
    BY After DEF Moves
  <1>2. w \in Busy /\ \A v \in Writers : v \in Busy' <=> v \in Busy
    BY <1>1 DEF Busy
  <1>3. \A v \in Writers : /\ run'[v].at = run[v].at /\ run'[v].copy = run[v].copy
                           /\ run'[v].script = run[v].script
    BY <1>1
  <1>4. \A v \in Writers : Holding(run'[v]) <=> Holding(run[v])
    BY <1>3 DEF Holding
  <1>5. \A x : \A v \in Writers : Saving(v, x)' <=> Saving(v, x)
    BY <1>3 DEF Saving, Step
  <1>6. NothingYet'
    BY <1>1, <1>3, <1>4 DEF NothingYet, Texts
  <1>7. \A x : Uniform(x)' <=> Uniform(x)
    BY <1>1, <1>3, <1>4 DEF Uniform
  <1>8. LinksKeepTexts'
    BY <1>1, <1>2, <1>3, <1>7 DEF LinksKeepTexts, Texts, Busy, Step
  <1>9. RowsToCome'
    BY <1>1, <1>3 DEF RowsToCome, Texts, Step
  <1>10. ~disturbed /\ Holding(run[w])
    BY <1>2, FirstIs, AloneThen DEF Holding
  <1>11. run[w].copy.msgs[m].text = texts[m]
    BY <1>10 DEF Serial, Texts
  <1>12. RowsOK'
    BY <1>1, <1>3, <1>5, <1>11 DEF RowsOK, Texts
  <1>13. Serial'
    BY <1>1, <1>2, <1>3, <1>4, <1>5 DEF Serial, Texts, Busy
  <1> QED
    BY <1>6, <1>8, <1>9, <1>12, <1>13 DEF Texts

\* Reading the history, which may repair currentId, changes no message (LoadTab).
LEMMA Unmoved ==
  ASSUME Good, run' = run, texts' = texts, created' = created, disturbed' = disturbed,
         rows' = rows, blob'.msgs = blob.msgs, IsHistory(blob'), IsHistory(tab')
  PROVE  Good'
  <1>1. ShapesOK' /\ TextsToCome' /\ Apart' /\ WholesaleAlone'
    BY DEF Good, ShapesOK, TextsToCome, Apart, WholesaleAlone, Busy
  <1>2. \A x : Uniform(x)' <=> Uniform(x)
    BY DEF Uniform
  <1>3. NothingYet' /\ LinksKeepTexts' /\ RowsToCome'
    BY <1>2 DEF Good, NothingYet, LinksKeepTexts, RowsToCome, Busy, Step
  <1>4. \A x : \A v \in Writers : Saving(v, x)' <=> Saving(v, x)
    BY DEF Saving, Step
  <1>5. RowsOK' /\ Serial'
    BY <1>4 DEF Good, RowsOK, Serial, Busy
  <1> QED
    BY <1>1, <1>3, <1>5 DEF Good

-----------------------------------------------------------------------------
(* A script begins.                                                        *)

\* A writer that is joined by another is no longer alone (Begin).
Joined(r) == [r EXCEPT !.alone = FALSE]

\* Joined changes nothing else.
LEMMA JoinedOK ==
  ASSUME NEW r, RunOK(r)
  PROVE  /\ RunOK(Joined(r)) /\ Joined(r).script = r.script /\ Joined(r).at = r.at
         /\ Joined(r).copy = r.copy /\ Joined(r).left = r.left
  <1>1. r = [script |-> r.script, at |-> r.at, copy |-> r.copy, left |-> r.left, gone |-> r.gone,
             alone |-> r.alone]
    BY DEF RunOK, IsRun
  <1>2. PICK s : s = Joined(r)
    OBVIOUS
  <1>3. s = [script |-> r.script, at |-> r.at, copy |-> r.copy, left |-> r.left, gone |-> r.gone,
             alone |-> FALSE]
    BY <1>1, <1>2 DEF Joined
  <1>4. /\ IsRun(s) /\ s.script = r.script /\ s.at = r.at /\ s.copy = r.copy /\ s.left = r.left
    BY <1>3 DEF IsRun
  <1>5. RunOK(s)
    BY <1>4 DEF RunOK, First, Holding
  <1> QED
    BY <1>2, <1>4, <1>5

\* What the writers do once a script has begun (Begin).
LEMMA BeginIs ==
  ASSUME ShapesOK, NEW w \in Writers, NEW script, Begin(w, script), ScriptOK(script)
  PROVE  /\ \A v \in Writers :
              /\ RunOK(run'[v])
              /\ v # w => /\ run'[v].script = run[v].script /\ run'[v].at = run[v].at
                          /\ run'[v].copy = run[v].copy
         /\ run' = [v \in Writers |-> run'[v]]
         /\ run'[w].script = script /\ run'[w].at = FirstPhase(Head(script))
         /\ run'[w].at # "idle" /\ ~Holding(run'[w])
         /\ run'[w].at = "load" => Head(script).do # "link"
         /\ w \notin Busy /\ Busy' = Busy \cup {w}
  <1>1. PICK a : run' = [v \in Writers |-> IF v = w THEN Starting(script, a) ELSE Joined(run[v])]
    BY Zenon DEF Begin, Starting, Joined, Idle
  <1>2. run'[w] = Starting(script, a) /\ \A v \in Writers : v # w => run'[v] = Joined(run[v])
    BY <1>1
  <1>3. /\ RunOK(run'[w]) /\ run'[w].at \notin {"idle", "row", "blob", "fill", "gap"}
        /\ run'[w].script = script
        /\ run'[w].at = "load" => First(run'[w]).do # "link"
        /\ run'[w].at = FirstPhase(Head(script))
    BY <1>2, StartOK
  <1>4. \A v \in Writers : v # w =>
           /\ RunOK(run'[v]) /\ run'[v].script = run[v].script /\ run'[v].at = run[v].at
           /\ run'[v].copy = run[v].copy
    BY <1>2, JoinedOK DEF ShapesOK
  <1>5. run' = [v \in Writers |-> run'[v]]
    BY <1>1
  <1>6. w \notin Busy /\ Busy' = Busy \cup {w}
    BY <1>3, <1>4 DEF Begin, Busy
  <1>7. run'[w].at # "idle" /\ ~Holding(run'[w])
    BY <1>3 DEF Holding
  <1>8. First(run'[w]) = Head(script)
    BY <1>3 DEF First
  <1> QED
    BY <1>3, <1>4, <1>5, <1>6, <1>7, <1>8

\* A script that begins is apart from those underway, and gives children only
\* to messages all histories say the same of (Begin).
LEMMA Begun ==
  ASSUME Good, NEW w \in Writers, NEW script, Begin(w, script), ScriptOK(script), ~rewritten',
         texts' \in [Ids -> Nat], created' \in 0 .. MaxMessages,
         \A m \in Ids : m > created' => texts'[m] = 0,
         \A j \in DOMAIN script : script[j].do = "save" =>
            /\ script[j].text = texts'[script[j].msg]
            /\ Len(script) = 1 \/ texts'[script[j].msg] = 0,
         \A m \in Ids : texts'[m] # texts[m] =>
            /\ texts'[m] > 0 /\ Linked(script) = {}
            /\ Head(script).do = "save" /\ Head(script).msg = m
  PROVE  Good'
  <1>1. /\ \A v \in Writers : v # w => /\ run'[v].script = run[v].script
                                       /\ run'[v].at = run[v].at /\ run'[v].copy = run[v].copy
        /\ run'[w].script = script /\ run'[w].at # "idle" /\ ~Holding(run'[w])
        /\ run'[w].at = FirstPhase(Head(script))
        /\ run'[w].at = "load" => Head(script).do # "link"
        /\ w \notin Busy /\ Busy' = Busy \cup {w} /\ Busy \subseteq Writers
    BY BeginIs DEF Good, Busy
  <1>2. /\ blob' = blob /\ rows' = rows /\ tab' = tab
        /\ disturbed' = (disturbed \/ Busy # {})
    BY DEF Begin
  <1>3. /\ disturbed => ~Wholesale(script) /\ \A m \in Linked(script) : ~(texts[m] > 0)
        /\ \A v \in Busy : /\ ~Wholesale(script) /\ ~Wholesale(run[v].script)
                           /\ Written(script) \cap Written(run[v].script) = {}
    BY DEF Begin
  <1>4. 1 \in DOMAIN script /\ Head(script) = script[1]
        /\ \A j \in DOMAIN script : IsStep(script[j])
    BY HeadOf DEF ScriptOK
  <1>5. \A m \in Linked(script) : m \in Ids /\ m \in Written(script)
    BY <1>4, WrittenIs DEF IsStep
  <1>6. \A m \in Ids : texts'[m] # texts[m] => m \in Written(script)
    BY <1>4, WrittenIs
  <1>7. texts \in [Ids -> Nat]
    BY DEF Good, ShapesOK
  <1>8. ShapesOK'
    <2>1. \A v \in Writers : RunOK(run'[v])
      BY BeginIs DEF Good
    <2>2. run' = [v \in Writers |-> run'[v]]
      BY BeginIs DEF Good
    <2>3. IsHistory(blob') /\ IsHistory(tab')
      BY <1>2 DEF Good, ShapesOK
    <2> QED
      BY <2>1, <2>2, <2>3 DEF ShapesOK
  <1>9. ASSUME NEW v \in Busy, NEW m \in Ids,
               m \in Written(run[v].script) PROVE texts'[m] = texts[m]
    BY <1>3, <1>6, <1>9
  <1>10. ASSUME NEW v \in Busy, NEW j \in DOMAIN run[v].script,
                run[v].script[j].do \in {"save", "link"}
         PROVE  run[v].script[j].msg \in Ids /\ run[v].script[j].msg \in Written(run[v].script)
    <2>1. ScriptOK(run[v].script)
      BY FirstIs DEF Good, Busy
    <2> QED
      BY <1>10, <2>1, WrittenIs DEF ScriptOK, IsStep
  <1>11. TextsToCome'
    <2>1. ASSUME NEW v \in Busy', NEW j \in DOMAIN run'[v].script, run'[v].script[j].do = "save",
                 NEW m, m = run'[v].script[j].msg
          PROVE  /\ run'[v].script[j].text = texts'[m]
                 /\ Len(run'[v].script) = 1 \/ texts'[m] = 0
      <3>1. CASE v = w
        BY <1>1, <2>1, <3>1
      <3>2. CASE v # w
        <4>1. v \in Busy /\ run'[v].script = run[v].script
          BY <1>1, <3>2
        <4>2. run[v].script[j].text = texts[m] /\ (Len(run[v].script) = 1 \/ texts[m] = 0)
          BY <2>1, <4>1 DEF Good, TextsToCome
        <4>3. texts'[m] = texts[m]
          BY <1>9, <1>10, <2>1, <4>1
        <4> QED
          BY <4>1, <4>2, <4>3
      <3> QED
        BY <3>1, <3>2
    <2> QED
      BY <2>1 DEF TextsToCome
  <1>12. Apart'
    <2>1. ASSUME NEW v \in Busy', NEW u \in Busy', v # u
          PROVE  /\ Written(run'[v].script) \cap Written(run'[u].script) = {}
                 /\ ~Wholesale(run'[v].script)
      <3>1. CASE v # w /\ u # w
        BY <1>1, <2>1, <3>1 DEF Good, Apart
      <3>2. CASE v = w
        BY <1>1, <1>3, <2>1, <3>2
      <3>3. CASE u = w
        BY <1>1, <1>3, <2>1, <3>3
      <3> QED
        BY <3>1, <3>2, <3>3
    <2> QED
      BY <2>1 DEF Apart
  <1>13. WholesaleAlone'
    <2>1. ASSUME NEW v \in Busy', Wholesale(run'[v].script) PROVE ~disturbed'
      BY <1>1, <1>2, <1>3, <2>1
    <2> QED
      BY <2>1 DEF WholesaleAlone
  <1>14. \A v \in Writers : Holding(run'[v]) => v # w /\ Holding(run[v]) /\ v \in Busy
    BY <1>1 DEF Holding, Busy
  <1>15. \A m \in Ids : texts'[m] = 0 => texts[m] = 0
    BY <1>7
  <1>16. NothingYet'
    BY <1>1, <1>2, <1>14, <1>15 DEF Good, NothingYet
  <1>17. ASSUME NEW v \in Writers, NEW m, Saving(v, m)
         PROVE  Saving(v, m)' /\ v # w /\ v \in Busy /\ m \in Written(run[v].script)
    <2>1. v \in Busy /\ m \in Written(run[v].script)
      BY <1>17, SavingWrites DEF Good
    <2>2. v # w
      BY <1>1, <2>1
    <2> QED
      BY <1>1, <1>17, <2>1, <2>2 DEF Saving, Step
  <1>18. ASSUME NEW m, texts'[m] = texts[m], Uniform(m) PROVE Uniform(m)'
    BY <1>1, <1>2, <1>14, <1>18 DEF Uniform
  <1>19. ASSUME NEW m \in Linked(script) PROVE texts[m] = 0 \/ Uniform(m)
    <2>1. m \in Ids /\ m \in Written(script)
      BY <1>5
    <2> SUFFICES ASSUME texts[m] # 0 PROVE Uniform(m)
      OBVIOUS
    <2>2. ~disturbed
      BY <1>3, <1>7, <2>1
    <2>3. \A v \in Busy : m \notin Written(run[v].script) /\ ~Wholesale(run[v].script)
      BY <1>3, <2>1
    <2>4. m \in DOMAIN blob.msgs => blob.msgs[m].text = texts[m]
      BY <1>17, <2>2, <2>3 DEF Good, Serial
    <2>5. ASSUME NEW v \in Writers, Holding(run[v])
          PROVE  /\ m \in DOMAIN run[v].copy.msgs <=> m \in DOMAIN blob.msgs
                 /\ m \in DOMAIN blob.msgs => run[v].copy.msgs[m].text = texts[m]
      <3>1. v \in Busy
        BY <2>5 DEF Holding, Busy
      <3> QED
        BY <2>1, <2>2, <2>3, <2>5, <3>1 DEF Good, Serial
    <2> QED
      BY <2>4, <2>5 DEF Uniform
  <1>20. LinksKeepTexts'
    <2>1. ASSUME NEW v \in Busy', NEW m \in Linked(run'[v].script)
          PROVE  texts'[m] = 0 \/ Uniform(m)'
      <3>1. CASE v = w
        <4>1. m \in Ids /\ texts'[m] = texts[m]
          BY <1>1, <1>5, <2>1, <3>1
        <4> QED
          BY <1>1, <1>18, <1>19, <2>1, <3>1, <4>1
      <3>2. CASE v # w
        <4>1. v \in Busy /\ m \in Linked(run[v].script)
          BY <1>1, <2>1, <3>2
        <4>2. m \in Ids /\ m \in Written(run[v].script)
          BY <4>1, <1>10, WrittenIs
        <4>3. texts'[m] = texts[m]
          BY <1>9, <4>1, <4>2
        <4> QED
          BY <1>18, <4>1, <4>3 DEF Good, LinksKeepTexts
      <3> QED
        BY <3>1, <3>2
    <2>2. ASSUME NEW v \in Busy', run'[v].at = "load", First(run'[v]).do = "link"
          PROVE  texts'[First(run'[v]).msg] = 0 \/ First(run'[v]).msg \in DOMAIN blob'.msgs
      <3>1. v # w
        BY <1>1, <2>2 DEF First
      <3>2. v \in Busy /\ run[v].at = "load" /\ First(run'[v]) = First(run[v])
        BY <1>1, <2>2, <3>1 DEF First
      <3>3. First(run[v]).msg \in Ids /\ First(run[v]).msg \in Written(run[v].script)
        BY <2>2, <3>2, FirstIs DEF Good, Busy, IsStep
      <3>4. texts'[First(run[v]).msg] = texts[First(run[v]).msg]
        BY <1>9, <3>2, <3>3
      <3> QED
        BY <1>2, <2>2, <3>2, <3>4 DEF Good, LinksKeepTexts, First, Step
    <2> QED
      BY <2>1, <2>2 DEF LinksKeepTexts, First, Step
  <1>21. RowsToCome'
    <2>1. ASSUME NEW v \in Writers, run'[v].at = "row"
          PROVE  run'[v].copy.msgs[First(run'[v]).msg].text = texts'[First(run'[v]).msg]
      <3>1. v # w /\ run[v].at = "row" /\ v \in Busy
        BY <1>1, <2>1 DEF Holding, Busy
      <3>2. First(run'[v]) = First(run[v]) /\ run'[v].copy = run[v].copy
        BY <1>1, <3>1 DEF First
      <3>3. First(run[v]).do \in {"save", "link"}
        <4>1. "row" \in Phases(First(run[v])) /\ IsStep(First(run[v]))
          BY <3>1, FirstIs DEF Good, ShapesOK, RunOK
        <4> QED
          BY <4>1 DEF Phases, IsStep
      <3>4. First(run[v]).msg \in Ids /\ First(run[v]).msg \in Written(run[v].script)
        BY <3>1, <3>3, FirstIs DEF Good, IsStep
      <3>5. texts'[First(run[v]).msg] = texts[First(run[v]).msg]
        BY <1>9, <3>1, <3>4
      <3> QED
        BY <3>1, <3>2, <3>5 DEF Good, RowsToCome, First, Step
    <2> QED
      BY <2>1 DEF RowsToCome, First, Step
  <1>22. RowsOK'
    <2>1. ASSUME NEW m \in DOMAIN rows \cap Ids, rows[m].text # texts'[m]
          PROVE  texts'[m] > 0 /\ \E v \in Writers : Saving(v, m)'
             /\ run'[v].at \in {"load", "row"}
      <3>1. CASE texts'[m] = texts[m]
        <4>1. PICK v \in Writers : texts[m] > 0 /\ Saving(v, m) /\ run[v].at \in {"load", "row"}
          BY <2>1, <3>1 DEF Good, RowsOK
        <4>2. Saving(v, m)' /\ v # w
          BY <1>17, <4>1
        <4> QED
          BY <1>1, <3>1, <4>1, <4>2
      <3>2. CASE texts'[m] # texts[m]
        <4>1. texts'[m] > 0 /\ Head(script).do = "save" /\ Head(script).msg = m
          BY <2>1, <3>2
        <4>2. Saving(w, m)'
          BY <1>1, <4>1 DEF Saving, Step
        <4>3. run'[w].at = "load"
          BY <1>1, <4>1 DEF FirstPhase
        <4> QED
          BY <4>1, <4>2, <4>3
      <3> QED
        BY <3>1, <3>2
    <2> QED
      BY <1>2, <2>1 DEF RowsOK
  <1>23. Serial'
    <2> SUFFICES ASSUME ~disturbed' PROVE Serial'
      BY DEF Serial
    <2>1. ~disturbed /\ Busy = {} /\ Busy' = {w}
      BY <1>1, <1>2
    <2>2. \A v \in Writers : ~Holding(run'[v])
      BY <1>14, <2>1
    <2>3. ASSUME NEW m \in DOMAIN blob.msgs
          PROVE  \/ blob.msgs[m].text = texts'[m]
                 \/ texts'[m] > 0 /\ \E v \in Writers : Saving(v, m)'
      <3>1. blob.msgs[m].text = texts[m]
        BY <1>17, <2>1 DEF Good, Serial
      <3>2. m \in Ids
        BY DEF Good, ShapesOK, IsHistory
      <3>3. CASE texts'[m] = texts[m]
        BY <3>1, <3>3
      <3>4. CASE texts'[m] # texts[m]
        <4>1. texts'[m] > 0 /\ Head(script).do = "save" /\ Head(script).msg = m
          BY <3>2, <3>4
        <4>2. Saving(w, m)'
          BY <1>1, <4>1 DEF Saving, Step
        <4> QED
          BY <4>1, <4>2
      <3> QED
        BY <3>3, <3>4
    <2> QED
      BY <1>2, <2>1, <2>2, <2>3 DEF Serial
  <1> QED
    BY <1>8, <1>11, <1>12, <1>13, <1>16, <1>20, <1>21, <1>22, <1>23 DEF Good

-----------------------------------------------------------------------------
(* The scripts there are.                                                  *)

\* A script of one step.
LEMMA Single ==
  ASSUME NEW x, IsStep(x)
  PROVE  /\ ScriptOK(<<x>>) /\ Len(<<x>>) = 1 /\ DOMAIN <<x>> = {1} /\ <<x>>[1] = x
         /\ Head(<<x>>) = x
  <1>1. /\ <<x>> \in Seq({x}) /\ Len(<<x>>) = 1 /\ DOMAIN <<x>> = {1} /\ <<x>>[1] = x
        /\ Head(<<x>>) = x /\ <<x>> # <<>>
    OBVIOUS
  <1>2. <<x>> \in Seq(Range(<<x>>))
    BY <1>1, OwnRange
  <1>3. \A j \in DOMAIN <<x>> : IsStep(<<x>>[j])
    BY <1>1
  <1> QED
    BY <1>1, <1>2, <1>3 DEF ScriptOK

\* chat_completion saves new messages only, each with no text (Completion).
LEMMA CompletionOK ==
  ASSUME NEW above \in Ids \cup {0}, NEW user \in Ids, NEW n \in Nat, user + n \in Ids,
         NEW answers, answers = [i \in 1 .. n |-> user + i],
         NEW script, script = Completion(above, user, answers)
  PROVE  /\ ScriptOK(script)
         /\ \A j \in DOMAIN script :
              /\ script[j].do \in {"touch", "save", "link"}
              /\ script[j].do = "save" => script[j].text = 0 /\ script[j].msg >= user
  <1> DEFINE saves == [i \in 1 .. Len(answers) |-> Save(answers[i], user, 0)]
             link == IF above = 0 THEN <<>> ELSE <<Link(above, <<user>>)>>
             P == {Touch, Save(user, above, 0), Link(user, answers)}
                  \cup {Link(above, <<user>>) : p \in {above} \ {0}}
                  \cup {Save(answers[i], user, 0) : i \in 1 .. n}
  <1>1. answers \in Seq(Nat) /\ Len(answers) = n
    <2>1. user \in Nat /\ answers \in [1 .. n -> Nat]
      BY ChatConstants DEF Ids
    <2>2. answers \in Seq(Nat)
      BY <2>1, SeqDef
    <2>3. DOMAIN answers = 1 .. Len(answers) /\ Len(answers) \in Nat /\ DOMAIN answers = 1 .. n
      BY <2>1, <2>2, LenProperties
    <2> QED
      BY <2>2, <2>3
  <1>2. saves \in Seq(P)
    <2>1. saves \in [1 .. n -> P]
      BY <1>1
    <2> HIDE DEF saves, P
    <2> QED
      BY <2>1, SeqDef
  <1>3. <<Touch, Save(user, above, 0)>> \in Seq(P) /\ <<Link(user, answers)>> \in Seq(P)
    <2>1. Touch \in P /\ Save(user, above, 0) \in P /\ Link(user, answers) \in P
      OBVIOUS
    <2> HIDE DEF P
    <2> QED
      BY <2>1
  <1>4. link \in Seq(P)
    <2>1. above # 0 => Link(above, <<user>>) \in P
      OBVIOUS
    <2> HIDE DEF P
    <2> QED
      BY <2>1
  <1>5. script = <<Touch, Save(user, above, 0)>> \o link \o <<Link(user, answers)>> \o saves
    BY DEF Completion
  <1>6. \A x \in P : /\ IsStep(x) /\ x.do \in {"touch", "save", "link"}
                     /\ x.do = "save" => x.text = 0 /\ x.msg >= user
    <2>1. ASSUME NEW m \in Ids, NEW p, m >= user
          PROVE  LET x == Save(m, p, 0)
                 IN /\ IsStep(x) /\ x.do \in {"touch", "save", "link"}
                    /\ x.do = "save" => x.text = 0 /\ x.msg >= user
      BY <2>1 DEF Save, IsStep
    <2>2. ASSUME NEW m \in Ids, NEW k
          PROVE  LET x == Link(m, k)
                 IN /\ IsStep(x) /\ x.do = "link"
      BY <2>2 DEF Link, IsStep
    <2>3. IsStep(Touch) /\ Touch.do = "touch"
      BY DEF Touch, IsStep
    <2>4. \A i \in 1 .. n : answers[i] \in Ids /\ answers[i] >= user
      BY ChatConstants DEF Ids
    <2>5. user >= user
      BY ChatConstants DEF Ids
    <2>6. ASSUME NEW x \in P
          PROVE \/ x = Touch \/ x = Save(user, above, 0) \/ x = Link(user, answers)
                \/ x = Link(above, <<user>>) /\ above \in Ids
                \/ \E i \in 1 .. n : x = Save(answers[i], user, 0)
      BY <2>6
    <2> HIDE DEF P
    <2> QED
      BY <2>1, <2>2, <2>3, <2>4, <2>5, <2>6
  <1> HIDE DEF saves, link, P
  <1>7. script \in Seq(P)
    <2>1. <<Touch, Save(user, above, 0)>> \o link \in Seq(P)
      BY <1>3, <1>4, ConcatProperties
    <2>2. (<<Touch, Save(user, above, 0)>> \o link) \o <<Link(user, answers)>> \in Seq(P)
      BY <1>3, <2>1, ConcatProperties
    <2> QED
      BY <1>2, <1>5, <2>2, ConcatProperties
  <1>8. \A j \in DOMAIN script : script[j] \in P
    BY <1>7, LenProperties, ElementOfSeq
  <1>9. script # <<>>
    <2>1. DEFINE a == <<Touch, Save(user, above, 0)>>
    <2>2. Len(a) = 2
      OBVIOUS
    <2> HIDE DEF a
    <2>3. a \in Seq(P)
      BY <1>3 DEF a
    <2>4. Len(a \o link) = 2 + Len(link) /\ a \o link \in Seq(P) /\ Len(link) \in Nat
      BY <2>2, <2>3, <1>4, ConcatProperties, LenProperties
    <2>5. /\ (a \o link) \o <<Link(user, answers)>> \in Seq(P)
          /\ Len((a \o link) \o <<Link(user, answers)>>) = Len(a \o link) + Len(<<Link(user, answers)>>)
          /\ Len(<<Link(user, answers)>>) = 1
      BY <1>3, <2>4, ConcatProperties
    <2>6. /\ Len(((a \o link) \o <<Link(user, answers)>>) \o saves)
                = Len((a \o link) \o <<Link(user, answers)>>) + Len(saves)
          /\ Len(saves) \in Nat
      BY <1>2, <2>5, ConcatProperties, LenProperties
    <2>7. Len(script) >= 3
      BY <1>5, <2>4, <2>5, <2>6 DEF a
    <2> QED
      BY <2>7, EmptySeq
  <1>10. ~Wholesale(script)
    BY <1>6, <1>8 DEF Wholesale
  <1>11. script \in Seq(Range(script))
    BY <1>7, OwnRange
  <1> QED
    BY <1>6, <1>8, <1>9, <1>10, <1>11 DEF ScriptOK

-----------------------------------------------------------------------------
(* The actions.                                                            *)

\* A message is sent and answers are announced, all of them new (SendMessage).
LEMMA SendMessageStep ==
  ASSUME Good, NEW w \in Writers, SendMessage(w), ~rewritten'
  PROVE  Good' /\ rows' = rows
  <1>1. PICK above \in DOMAIN tab.msgs \cup {0}, n \in 1 .. FanOut :
           /\ created + 1 + n <= MaxMessages
           /\ Begin(w, Completion(above, created + 1, [i \in 1 .. n |-> created + 1 + i]))
           /\ created' = created + 1 + n /\ texts' = texts
    BY DEF SendMessage
  <1>2. /\ created \in Nat /\ n \in Nat \ {0} /\ MaxMessages \in Nat
        /\ created' \in 0 .. MaxMessages /\ created + 1 \in Ids /\ (created + 1) + n \in Ids
    BY <1>1, ChatConstants DEF Good, ShapesOK, Ids
  <1>3. above \in Ids \cup {0}
    BY DEF Good, ShapesOK, IsHistory
  <1>4. PICK script : /\ script = Completion(above, created + 1, [i \in 1 .. n |-> created + 1 + i])
                      /\ Begin(w, script)
    BY <1>1
  <1>5. /\ ScriptOK(script)
        /\ \A j \in DOMAIN script :
              script[j].do = "save" => script[j].text = 0 /\ script[j].msg >= created + 1
    BY <1>2, <1>3, <1>4, CompletionOK
  <1>6. texts' \in [Ids -> Nat] /\ \A m \in Ids : m > created' => texts'[m] = 0
    BY <1>1, <1>2, ChatConstants DEF Good, ShapesOK, Ids
  <1>7. \A j \in DOMAIN script : script[j].do = "save" =>
           /\ script[j].text = texts'[script[j].msg]
           /\ Len(script) = 1 \/ texts'[script[j].msg] = 0
    <2>1. ASSUME NEW j \in DOMAIN script, script[j].do = "save" PROVE script[j].msg \in Ids
      BY <1>5, <2>1 DEF ScriptOK, IsStep
    <2>2. \A m \in Ids : m >= created + 1 => texts'[m] = 0
      BY <1>1, <1>2, ChatConstants DEF Good, ShapesOK, Ids
    <2> QED
      BY <1>5, <2>1, <2>2
  <1>8. Good'
    BY <1>1, <1>2, <1>4, <1>5, <1>6, <1>7, Begun
  <1> QED
    BY <1>1, <1>8 DEF Begin

\* A turn or the user saves the next text of a message (SaveText).
LEMMA SaveTextStep ==
  ASSUME Good, NEW w \in Writers, SaveText(w), ~rewritten'
  PROVE  Good' /\ rows' = rows
  <1>1. PICK m \in 1 .. created :
           /\ Begin(w, <<Save(m, 0, texts[m] + 1)>>)
           /\ texts' = [texts EXCEPT ![m] = texts[m] + 1] /\ created' = created
    BY DEF SaveText
  <1>2. m \in Ids /\ created \in 0 .. MaxMessages /\ MaxMessages \in Nat
    BY ChatConstants DEF Good, ShapesOK, Ids
  <1>3. texts \in [Ids -> Nat] /\ \A x \in Ids : x > created => texts[x] = 0
    BY DEF Good, ShapesOK
  <1>4. PICK x : x = Save(m, 0, texts[m] + 1)
    OBVIOUS
  <1>5. x.do = "save" /\ x.msg = m /\ x.text = texts[m] + 1
    BY <1>4 DEF Save
  <1>6. IsStep(x)
    BY <1>2, <1>5 DEF IsStep
  <1>7. PICK script : script = <<x>>
    OBVIOUS
  <1>8. ScriptOK(script) /\ Len(script) = 1 /\ DOMAIN script = {1} /\ script[1] = x
        /\ Head(script) = x
    BY <1>6, <1>7, Single
  <1>9. /\ texts' \in [Ids -> Nat] /\ texts'[m] = texts[m] + 1 /\ texts[m] \in Nat
        /\ \A y \in Ids : y # m => texts'[y] = texts[y]
    BY <1>1, <1>2, <1>3
  <1>10. \A y \in Ids : y > created' => texts'[y] = 0
    BY <1>1, <1>2, <1>3, <1>9 DEF Ids
  <1>11. Linked(script) = {}
    BY <1>5, <1>8, WrittenIs
  <1>12. \A y \in Ids : texts'[y] # texts[y] =>
            /\ texts'[y] > 0 /\ Linked(script) = {}
            /\ Head(script).do = "save" /\ Head(script).msg = y
    BY <1>5, <1>8, <1>9, <1>11
  <1>13. \A j \in DOMAIN script : script[j].do = "save" =>
            /\ script[j].text = texts'[script[j].msg]
            /\ Len(script) = 1 \/ texts'[script[j].msg] = 0
    BY <1>5, <1>8, <1>9
  <1>14. Begin(w, script)
    BY <1>1, <1>4, <1>7
  <1>15. created' \in 0 .. MaxMessages
    BY <1>1, <1>2
  <1>16. Good'
    BY <1>8, <1>9, <1>10, <1>12, <1>13, <1>14, <1>15, Begun
  <1> QED
    BY <1>14, <1>16 DEF Begin

\* A status, a deletion or a read begins; an update rewrites rows (OtherScript).
LEMMA OtherScriptStep ==
  ASSUME Good, NEW w \in Writers, OtherScript(w), ~rewritten'
  PROVE  Good' /\ rows' = rows
  <1>1. created' = created /\ texts' = texts
    BY DEF OtherScript
  <1>2. PICK x : /\ Begin(w, <<x>>)
                 /\ x = Touch \/ (\E m : x = Delete(m)) \/ x = Update(tab) \/ x = Read
    BY DEF OtherScript
  <1>3. Head(<<x>>) = x
    OBVIOUS
  <1>4. x.do # "update"
    BY <1>2, <1>3 DEF Begin
  <1>5. IsStep(x) /\ x.do \in {"touch", "delete", "read"}
    <2>1. CASE x = Touch
      BY <2>1 DEF Touch, IsStep
    <2>2. CASE \E m : x = Delete(m)
      BY <2>2 DEF Delete, IsStep
    <2>3. CASE x = Read
      BY <2>3 DEF Read, IsStep
    <2>4. CASE x = Update(tab)
      BY <1>4, <2>4 DEF Update
    <2> QED
      BY <1>2, <2>1, <2>2, <2>3, <2>4
  <1>6. PICK script : script = <<x>>
    OBVIOUS
  <1>7. ScriptOK(script) /\ DOMAIN script = {1} /\ script[1] = x
    BY <1>5, <1>6, Single
  <1>8. \A j \in DOMAIN script : script[j].do # "save"
    BY <1>5, <1>7
  <1>9. /\ texts' \in [Ids -> Nat] /\ \A m \in Ids : m > created' => texts'[m] = 0
        /\ created' \in 0 .. MaxMessages /\ Begin(w, script)
    BY <1>1, <1>2, <1>6 DEF Good, ShapesOK
  <1>10. Good'
    BY <1>1, <1>7, <1>8, <1>9, Begun
  <1> QED
    BY <1>9, <1>10 DEF Begin

\* A tab loads the chat (LoadTab).
LEMMA LoadTabStep ==
  ASSUME Good, LoadTab
  PROVE  Good' /\ rows' = rows
  <1>1. PICK h : h = Repair(blob) /\ IsHistory(h) /\ h.msgs = blob.msgs
    BY Repaired DEF Good, ShapesOK
  <1>2. blob' = h /\ tab' = h
    BY <1>1 DEF LoadTab
  <1>3. /\ run' = run /\ texts' = texts /\ created' = created /\ disturbed' = disturbed
        /\ rows' = rows
    BY DEF LoadTab
  <1> QED
    BY <1>1, <1>2, <1>3, Unmoved

\* What Good asks of a step that moves one writer.
LEMMA GoodFrom ==
  ASSUME Good, NEW w \in Writers, NEW r, Moves(w, r), IsHistory(blob'), tab' = tab, Texts'
  PROVE  Good'
  <1>1. ShapesOK'
    BY ShapesKept DEF Good, ShapesOK
  <1>2. TextsToCome' /\ Apart' /\ WholesaleAlone'
    BY ScriptsKept DEF Good
  <1> QED
    BY <1>1, <1>2 DEF Good, Texts

\* A link has learnt which children it is to write (Peek).
Listed(r, kids) == [r EXCEPT !.at = "load", !.script[1].kids = kids]

\* Listed gives the first step other children and leaves what the script writes.
LEMMA ListedOK ==
  ASSUME NEW r, RunOK(r), r.at = "peek", NEW kids, NEW s, s = Listed(r, kids)
  PROVE  /\ RunOK(s) /\ s.at = "load" /\ From(s.script, r.script)
         /\ First(s).do = "link" /\ First(s).msg = First(r).msg
  <1>1. r = [script |-> r.script, at |-> r.at, copy |-> r.copy, left |-> r.left, gone |-> r.gone,
             alone |-> r.alone]
    BY DEF RunOK, IsRun
  <1>2. ScriptOK(r.script) /\ "peek" \in Phases(First(r))
    BY DEF RunOK
  <1>3. /\ 1 \in DOMAIN r.script /\ Head(r.script) = r.script[1] /\ IsStep(Head(r.script))
    BY <1>2, HeadOf
  <1>4. First(r) = r.script[1] /\ First(r).do = "link"
        /\ First(r) = Link(First(r).msg, First(r).kids)
    BY <1>2, <1>3 DEF First, Phases, IsStep
  <1>5. PICK step : step = Link(First(r).msg, kids)
    OBVIOUS
  <1>6. step.do = "link" /\ step.msg = First(r).msg /\ step.kids = kids
    BY <1>5 DEF Link
  <1>7. IsStep(step)
    BY <1>3, <1>4, <1>5, <1>6 DEF IsStep, First
  <1>8. [First(r) EXCEPT !.kids = kids] = step
    BY <1>4, <1>5 DEF Link
  <1>9. PICK new : new = [r.script EXCEPT ![1] = step]
    OBVIOUS
  <1>10. ScriptOK(new) /\ From(new, r.script) /\ Head(new) = step
    BY <1>2, <1>3, <1>4, <1>6, <1>7, <1>9, Relinked DEF First
  <1>11. s = [script |-> new, at |-> "load", copy |-> r.copy, left |-> r.left, gone |-> r.gone,
              alone |-> r.alone]
    BY <1>1, <1>4, <1>8, <1>9 DEF Listed
  <1>12. IsRun(s) /\ s.at = "load" /\ s.script = new
    BY <1>11 DEF IsRun
  <1>13. "load" \in Phases(step)
    BY <1>6 DEF Phases
  <1> QED
    BY <1>6, <1>10, <1>12, <1>13 DEF RunOK, Holding, First

\* The children of a message are read, or the message is gone (Peek).
LEMMA PeekStep ==
  ASSUME Good, NEW w \in Writers, Peek(w)
  PROVE  Good' /\ rows' = rows
  <1>1. PICK h : h = Repair(blob) /\ IsHistory(h) /\ h.msgs = blob.msgs
    BY Repaired DEF Good, ShapesOK
  <1>2. /\ run[w].at = "peek" /\ blob' = h /\ rows' = rows /\ tab' = tab
        /\ texts' = texts /\ created' = created /\ disturbed' = disturbed
    BY <1>1 DEF Peek, Bookkeeping
  <1>3. ShapesOK /\ RunOK(run[w]) /\ run[w].at # "idle" /\ Texts
    BY <1>2 DEF Good, ShapesOK, Texts
  <1>4. "peek" \in Phases(First(run[w])) /\ IsStep(First(run[w]))
    BY <1>2, <1>3, FirstIs DEF RunOK
  <1>5. First(run[w]).do = "link"
    BY <1>4 DEF Phases, IsStep
  <1>6. \E r : /\ run' = [run EXCEPT ![w] = r] /\ RunOK(r) /\ Onward(r, run[w]) /\ ~Holding(r)
               /\ r.at = "load" /\ First(r).do = "link" => First(r).msg \in DOMAIN blob.msgs
    <2>1. CASE First(run[w]).msg \in DOMAIN h.msgs
      <3>1. PICK kids : run' = [run EXCEPT ![w].at = "load", ![w].script[1].kids = kids]
        BY <1>1, <2>1 DEF Peek, First, Step
      <3>2. PICK r : r = Listed(run[w], kids)
        OBVIOUS
      <3>3. run' = [run EXCEPT ![w] = r]
        BY <3>1, <3>2 DEF Listed, Good, ShapesOK
      <3>4. /\ RunOK(r) /\ r.at = "load" /\ From(r.script, run[w].script)
            /\ First(r).msg = First(run[w]).msg
        BY <1>2, <1>3, <3>2, ListedOK
      <3> QED
        BY <1>1, <1>3, <2>1, <3>3, <3>4 DEF Onward, Holding
    <2>2. CASE First(run[w]).msg \notin DOMAIN h.msgs
      <3>1. Finish(w)
        BY <1>1, <2>2 DEF Peek, First, Step
      <3> QED
        BY <1>3, <3>1, FinishMoves
    <2> QED
      BY <2>1, <2>2
  <1>7. PICK r : /\ run' = [run EXCEPT ![w] = r] /\ RunOK(r) /\ Onward(r, run[w]) /\ ~Holding(r)
                 /\ r.at = "load" /\ First(r).do = "link" => First(r).msg \in DOMAIN blob.msgs
    BY <1>6
  <1>8. Moves(w, r)
    BY <1>2, <1>7 DEF Moves
  <1>9. Texts'
    BY <1>1, <1>2, <1>3, <1>5, <1>7, <1>8, LetGo
  <1> QED
    BY <1>1, <1>2, <1>8, <1>9, GoodFrom

\* A history is loaded and changed (Load).
LEMMA LoadStep ==
  ASSUME Good, NEW w \in Writers, Load(w)
  PROVE  Good' /\ rows' = rows
  <1>1. PICK h : h = Repair(blob) /\ IsHistory(h) /\ h.msgs = blob.msgs
    BY Repaired DEF Good, ShapesOK
  <1>2. /\ run[w].at = "load" /\ blob' = h /\ rows' = rows /\ tab' = tab
        /\ texts' = texts /\ created' = created /\ disturbed' = disturbed
    BY <1>1 DEF Load, Bookkeeping
  <1>3. /\ ShapesOK /\ RunOK(run[w]) /\ run[w].at # "idle" /\ ~Holding(run[w])
        /\ TextsToCome /\ Apart /\ WholesaleAlone /\ Texts
    BY <1>2 DEF Good, ShapesOK, Texts, Holding
  <1>4. PICK step : step = First(run[w])
    OBVIOUS
  <1>5. /\ IsStep(step) /\ "load" \in Phases(step) /\ ScriptOK(run[w].script)
        /\ step.do \in {"delete", "read"} => Wholesale(run[w].script)
    BY <1>2, <1>3, <1>4, FirstIs DEF RunOK
  <1>6. step.do \in {"save", "link", "touch", "delete"}
    BY <1>5 DEF IsStep, Phases
  <1>7. CASE Finish(w) /\ step.do = "delete"
    <2>1. PICK r : /\ run' = [run EXCEPT ![w] = r] /\ RunOK(r) /\ Onward(r, run[w]) /\ ~Holding(r)
                   /\ r.at = "load" => First(r).do # "link"
      BY <1>3, <1>7, FinishMoves
    <2>2. Moves(w, r)
      BY <1>2, <2>1 DEF Moves
    <2>3. Texts'
      BY <1>1, <1>2, <1>3, <1>4, <1>7, <2>1, <2>2, LetGo
    <2> QED
      BY <1>1, <1>2, <2>2, <2>3, GoodFrom
  <1>8. CASE \E copy, gone : /\ copy = Applied(step, h)
                             /\ Goto(w, IF step.do \in {"save", "link"} THEN "row" ELSE "blob",
                                     copy, {}, gone)
    <2>1. PICK copy, gone : /\ copy = Applied(step, h)
                            /\ Goto(w, IF step.do \in {"save", "link"} THEN "row" ELSE "blob",
                                    copy, {}, gone)
      BY <1>8
    <2>2. PICK stage : /\ stage = IF step.do \in {"save", "link"} THEN "row" ELSE "blob"
                       /\ Goto(w, stage, copy, {}, gone)
      BY <2>1
    <2>3. PICK r : /\ run' = [run EXCEPT ![w] = r] /\ IsRun(r) /\ r.script = run[w].script
                   /\ r.at = stage /\ r.copy = copy
      BY <1>3, <2>2, GotoMoves
    <2>4. First(r) = step /\ Onward(r, run[w])
      BY <1>3, <1>4, <2>3, FromItself DEF First, Onward
    <2>5. CASE step.do \in {"save", "link"}
      <3>1. PICK above : copy = Upsert(h, step, above)
        BY <2>1, <2>5 DEF Applied
      <3>2. /\ IsHistory(copy) /\ DOMAIN copy.msgs = DOMAIN h.msgs \cup {step.msg}
            /\ \A x \in DOMAIN h.msgs : x # step.msg => copy.msgs[x].text = h.msgs[x].text
            /\ copy.msgs[step.msg].text =
                 IF step.do = "save" THEN step.text
                 ELSE IF step.msg \in DOMAIN h.msgs THEN h.msgs[step.msg].text ELSE 0
        BY <1>1, <1>5, <2>5, <3>1, Upserted
      <3>3. r.at = "row"
        BY <2>2, <2>3, <2>5
      <3>4. "row" \in Phases(step)
        BY <2>5 DEF Phases
      <3>5. RunOK(r)
        BY <1>5, <2>3, <2>4, <3>2, <3>3, <3>4 DEF RunOK
      <3>6. Moves(w, r)
        BY <1>2, <2>3, <2>4, <3>5 DEF Moves
      <3>7. Texts'
        BY <1>1, <1>2, <1>3, <1>4, <2>3, <2>5, <3>2, <3>3, <3>6, TakenUp
      <3> QED
        BY <1>1, <1>2, <3>6, <3>7, GoodFrom
    <2>6. CASE step.do \in {"touch", "delete"}
      <3>1. /\ IsHistory(copy) /\ DOMAIN copy.msgs \subseteq DOMAIN h.msgs
            /\ \A x \in DOMAIN copy.msgs : copy.msgs[x].text = h.msgs[x].text
            /\ step.do = "delete" \/ DOMAIN copy.msgs = DOMAIN h.msgs
        <4>1. CASE step.do = "touch"
          BY <1>1, <2>1, <4>1 DEF Applied
        <4>2. CASE step.do = "delete"
          <5>1. copy = DeleteFrom(h, step.msg)
            BY <2>1, <4>2 DEF Applied
          <5> QED
            BY <1>1, <4>2, <5>1, DeletedFrom
        <4> QED
          BY <2>6, <4>1, <4>2
      <3>2. r.at = "blob"
        BY <2>2, <2>3, <2>6
      <3>3. "blob" \in Phases(step)
        BY <2>6 DEF Phases
      <3>4. RunOK(r)
        BY <1>5, <2>3, <2>4, <3>1, <3>2, <3>3 DEF RunOK
      <3>5. Moves(w, r)
        BY <1>2, <2>3, <2>4, <3>4 DEF Moves
      <3>6. Wholesale(run[w].script) \/ DOMAIN copy.msgs = DOMAIN h.msgs
        BY <1>5, <3>1
      <3>7. Texts'
        BY <1>1, <1>2, <1>3, <1>4, <2>3, <2>6, <3>1, <3>2, <3>5, <3>6, TakenWhole
      <3> QED
        BY <1>1, <1>2, <3>5, <3>7, GoodFrom
    <2> QED
      BY <1>6, <2>5, <2>6
  <1> QED
    BY <1>1, <1>4, <1>7, <1>8 DEF Load, First, Step

\* A writer changes the phase of its step, or what it has left, and no more.
At(r, stage) == [r EXCEPT !.at = stage]
Without(r, m) == [r EXCEPT !.left = r.left \ {m}]

\* At and Without change the fields they name.
LEMMA AtOK ==
  ASSUME NEW r, IsRun(r), NEW stage, NEW m
  PROVE  /\ IsRun(At(r, stage)) /\ At(r, stage).at = stage /\ At(r, stage).script = r.script
         /\ At(r, stage).copy = r.copy /\ At(r, stage).left = r.left
         /\ IsRun(Without(r, m)) /\ Without(r, m).at = r.at /\ Without(r, m).script = r.script
         /\ Without(r, m).copy = r.copy /\ Without(r, m).left = r.left \ {m}
  <1>1. r = [script |-> r.script, at |-> r.at, copy |-> r.copy, left |-> r.left, gone |-> r.gone,
             alone |-> r.alone]
    BY DEF IsRun
  <1>2. /\ At(r, stage) = [script |-> r.script, at |-> stage, copy |-> r.copy, left |-> r.left,
                           gone |-> r.gone, alone |-> r.alone]
        /\ Without(r, m) = [script |-> r.script, at |-> r.at, copy |-> r.copy, left |-> r.left \ {m},
                            gone |-> r.gone, alone |-> r.alone]
    BY <1>1 DEF At, Without
  <1> QED
    BY <1>2 DEF IsRun

\* What rows are once some are written (WithRows).
LEMMA WithRowsIs ==
  ASSUME NEW m, NEW h, DOMAIN rows \subseteq Ids, m \in Ids, rows' = WithRows({m}, h)
  PROVE  /\ DOMAIN rows' = DOMAIN rows \cup {m} /\ DOMAIN rows' \subseteq Ids
         /\ \A x \in DOMAIN rows' : x # m => x \in DOMAIN rows /\ rows'[x] = rows[x]
         /\ rows'[m].text = h.msgs[m].text
  BY DEF WithRows, Row

\* The row of an upsert (WriteRow).
LEMMA WriteRowStep ==
  ASSUME Good, DOMAIN rows \subseteq Ids, NEW w \in Writers, WriteRow(w)
  PROVE  Good' /\ DOMAIN rows' \subseteq Ids
  <1>1. /\ run[w].at = "row" /\ run' = [run EXCEPT ![w].at = "blob"] /\ blob' = blob /\ tab' = tab
        /\ texts' = texts /\ created' = created /\ disturbed' = disturbed
        /\ rows' = WithRows({Step(w).msg}, run[w].copy)
    BY DEF WriteRow, Bookkeeping
  <1>2. ShapesOK /\ RunOK(run[w]) /\ run[w].at # "idle" /\ Texts
    BY <1>1 DEF Good, ShapesOK, Texts
  <1>3. PICK step : step = First(run[w])
    OBVIOUS
  <1>4. IsStep(step) /\ "row" \in Phases(step) /\ ScriptOK(run[w].script)
    BY <1>1, <1>2, <1>3, FirstIs DEF RunOK
  <1>5. step.do \in {"save", "link"} /\ step.msg \in Ids
    BY <1>4 DEF IsStep, Phases
  <1>6. PICK r : r = At(run[w], "blob")
    OBVIOUS
  <1>7. run' = [run EXCEPT ![w] = r]
    BY <1>1, <1>6 DEF At
  <1>8. /\ IsRun(r) /\ r.at = "blob" /\ r.script = run[w].script /\ r.copy = run[w].copy
    BY <1>2, <1>6, AtOK DEF RunOK
  <1>9. "blob" \in Phases(step) /\ First(r) = step /\ IsHistory(r.copy)
    BY <1>1, <1>2, <1>3, <1>5, <1>8 DEF Phases, First, RunOK, Holding
  <1>10. RunOK(r)
    BY <1>4, <1>8, <1>9 DEF RunOK
  <1>11. Moves(w, r)
    BY <1>1, <1>2, <1>7, <1>8, <1>10, FromItself DEF Moves, Onward
  <1>12. /\ DOMAIN rows' \subseteq Ids
         /\ \A x \in DOMAIN rows' : x # step.msg => x \in DOMAIN rows /\ rows'[x] = rows[x]
         /\ rows'[step.msg].text = run[w].copy.msgs[step.msg].text
    BY <1>1, <1>3, <1>5, WithRowsIs DEF First, Step
  <1>13. Texts'
    BY <1>1, <1>2, <1>3, <1>8, <1>11, <1>12, RowWritten
  <1>14. IsHistory(blob')
    BY <1>1 DEF Good, ShapesOK
  <1> QED
    BY <1>1, <1>11, <1>12, <1>13, <1>14, GoodFrom

\* The history of an upsert, a status or a deletion (WriteBlob).
LEMMA WriteBlobStep ==
  ASSUME Good, NEW w \in Writers, WriteBlob(w)
  PROVE  Good' /\ rows' = rows
  <1>1. /\ run[w].at = "blob" /\ blob' = run[w].copy /\ rows' = rows /\ tab' = tab
        /\ texts' = texts /\ created' = created /\ disturbed' = disturbed
    BY DEF WriteBlob, Bookkeeping
  <1>2. ShapesOK /\ RunOK(run[w]) /\ run[w].at # "idle" /\ Texts
    BY <1>1 DEF Good, ShapesOK, Texts
  <1>3. PICK step : step = First(run[w])
    OBVIOUS
  <1>4. /\ IsStep(step) /\ ScriptOK(run[w].script) /\ IsHistory(run[w].copy)
        /\ step.do = "delete" => Wholesale(run[w].script)
    BY <1>1, <1>2, <1>3, FirstIs DEF RunOK, Holding
  <1>5. \E r : /\ run' = [run EXCEPT ![w] = r] /\ RunOK(r) /\ Onward(r, run[w]) /\ r.at # "row"
               /\ r.at = "load" => First(r).do # "link"
               /\ Holding(r) => r.copy = run[w].copy /\ Wholesale(r.script)
    <2>1. CASE step.do = "delete"
      <3>1. PICK copy, left, gone : Goto(w, "fill", copy, left, gone) /\ copy = run[w].copy
                                    /\ left = DOMAIN copy.msgs
        BY <1>3, <2>1 DEF WriteBlob, First, Step
      <3>2. PICK r : /\ run' = [run EXCEPT ![w] = r] /\ IsRun(r) /\ r.script = run[w].script
                     /\ r.at = "fill" /\ r.copy = copy /\ r.left = left
        BY <1>2, <3>1, GotoMoves
      <3>3. First(r) = step /\ "fill" \in Phases(step)
        BY <1>3, <2>1, <3>2 DEF First, Phases
      <3>4. RunOK(r)
        BY <1>4, <3>1, <3>2, <3>3 DEF RunOK
      <3>5. Onward(r, run[w])
        BY <1>2, <3>2, FromItself DEF Onward
      <3>6. r.at # "row" /\ r.at # "load"
        BY <3>2
      <3>7. r.copy = run[w].copy /\ Wholesale(r.script)
        BY <1>4, <2>1, <3>1, <3>2
      <3> QED
        BY <3>2, <3>4, <3>5, <3>6, <3>7
    <2>2. CASE step.do # "delete"
      <3>1. Finish(w)
        BY <1>3, <1>4, <2>2 DEF WriteBlob, First, Step, IsStep
      <3>2. PICK r : /\ run' = [run EXCEPT ![w] = r] /\ RunOK(r) /\ Onward(r, run[w])
                     /\ ~Holding(r)
                     /\ r.at = "load" => First(r).do # "link"
        BY <1>2, <3>1, FinishMoves
      <3>3. r.at # "row"
        BY <3>2 DEF Holding
      <3> QED
        BY <3>2, <3>3
    <2> QED
      BY <2>1, <2>2
  <1>6. PICK r : /\ run' = [run EXCEPT ![w] = r] /\ RunOK(r) /\ Onward(r, run[w]) /\ r.at # "row"
                 /\ r.at = "load" => First(r).do # "link"
                 /\ Holding(r) => r.copy = run[w].copy /\ Wholesale(r.script)
    BY <1>5
  <1>7. Moves(w, r)
    BY <1>1, <1>6 DEF Moves
  <1>8. Texts'
    BY <1>1, <1>2, <1>6, <1>7, BlobWritten
  <1> QED
    BY <1>1, <1>4, <1>7, <1>8, GoodFrom

\* Every nonempty set of natural numbers has a least element (Min in Fill).
LEMMA LeastIn ==
  ASSUME NEW S \in SUBSET Nat, S # {}
  PROVE  Min(S) \in S
  <1>1. PICK x \in S : \A y \in S : <<y, x>> \notin OpToRel(<, Nat)
    BY WFMin, NatLessThanWellFounded, Zenon
  <1>2. \A y \in S : ~(y < x)
    BY <1>1, Zenon DEF OpToRel
  <1>3. \A y \in S : x =< y
    BY <1>2
  <1> QED
    BY <1>3 DEF Min

\* The next row of a deletion or of a read that fills in rows (Fill).
LEMMA FillStep ==
  ASSUME Good, DOMAIN rows \subseteq Ids, NEW w \in Writers, Fill(w)
  PROVE  Good' /\ DOMAIN rows' \subseteq Ids
  <1>1. PICK m : m = Min(run[w].left)
    OBVIOUS
  <1>2. /\ run[w].at = "fill" /\ run[w].left # {} /\ blob' = blob /\ tab' = tab
        /\ texts' = texts /\ created' = created /\ disturbed' = disturbed
        /\ rows' = WithRows({m}, run[w].copy)
        /\ run' = [run EXCEPT ![w].left = run[w].left \ {m}]
    BY <1>1 DEF Fill, Bookkeeping
  <1>3. ShapesOK /\ RunOK(run[w]) /\ run[w].at # "idle" /\ Apart /\ WholesaleAlone /\ Texts
    BY <1>2 DEF Good, ShapesOK, Texts
  <1>4. PICK step : step = First(run[w])
    OBVIOUS
  <1>5. /\ IsStep(step) /\ "fill" \in Phases(step) /\ ScriptOK(run[w].script)
        /\ IsHistory(run[w].copy) /\ run[w].left \subseteq DOMAIN run[w].copy.msgs
    BY <1>2, <1>3, <1>4, FirstIs DEF RunOK, Holding
  <1>6. step.do \in {"delete", "read"}
    BY <1>5 DEF IsStep, Phases
  <1>7. m \in run[w].left /\ m \in DOMAIN run[w].copy.msgs /\ m \in Ids
    <2>1. run[w].left \subseteq Ids
      BY <1>5 DEF IsHistory
    <2>2. run[w].left \subseteq Nat
      BY <2>1, ChatConstants DEF Ids
    <2> QED
      BY <1>1, <1>2, <1>5, <2>1, <2>2, LeastIn
  <1>8. PICK r : r = Without(run[w], m)
    OBVIOUS
  <1>9. run' = [run EXCEPT ![w] = r]
    BY <1>2, <1>8 DEF Without
  <1>10. /\ IsRun(r) /\ r.at = "fill" /\ r.script = run[w].script /\ r.copy = run[w].copy
         /\ r.left = run[w].left \ {m}
    BY <1>2, <1>3, <1>8, AtOK DEF RunOK
  <1>11. First(r) = step
    BY <1>4, <1>10 DEF First
  <1>12. RunOK(r)
    BY <1>5, <1>10, <1>11 DEF RunOK
  <1>13. Moves(w, r)
    BY <1>2, <1>3, <1>9, <1>10, <1>12, FromItself DEF Moves, Onward
  <1>14. /\ DOMAIN rows' \subseteq Ids
         /\ \A x \in DOMAIN rows' : x # m => x \in DOMAIN rows /\ rows'[x] = rows[x]
         /\ rows'[m].text = run[w].copy.msgs[m].text
    BY <1>2, <1>7, WithRowsIs
  <1>15. Texts'
    BY <1>2, <1>3, <1>4, <1>6, <1>7, <1>10, <1>13, <1>14, RowFilled
  <1>16. IsHistory(blob')
    BY <1>2 DEF Good, ShapesOK
  <1> QED
    BY <1>2, <1>13, <1>14, <1>15, <1>16, GoodFrom

\* The rows of deleted messages go (DropRows).
LEMMA DropRowsStep ==
  ASSUME Good, DOMAIN rows \subseteq Ids, NEW w \in Writers, DropRows(w)
  PROVE  Good' /\ DOMAIN rows' \subseteq Ids
  <1>1. /\ run[w].at = "fill" /\ Finish(w) /\ blob' = blob /\ tab' = tab
        /\ texts' = texts /\ created' = created /\ disturbed' = disturbed
        /\ \A m \in DOMAIN rows' : m \in DOMAIN rows /\ rows'[m] = rows[m]
    BY DEF DropRows, Bookkeeping
  <1>2. ShapesOK /\ RunOK(run[w]) /\ run[w].at # "idle" /\ Texts
    BY <1>1 DEF Good, ShapesOK, Texts
  <1>3. IsStep(First(run[w])) /\ "fill" \in Phases(First(run[w]))
    BY <1>1, <1>2, FirstIs DEF RunOK
  <1>4. First(run[w]).do # "save"
    BY <1>3 DEF IsStep, Phases
  <1>5. PICK r : /\ run' = [run EXCEPT ![w] = r] /\ RunOK(r) /\ Onward(r, run[w]) /\ ~Holding(r)
                 /\ r.at = "load" => First(r).do # "link"
    BY <1>1, <1>2, FinishMoves
  <1>6. Moves(w, r)
    BY <1>1, <1>5 DEF Moves
  <1>7. Texts'
    BY <1>1, <1>2, <1>4, <1>5, <1>6, LetGo
  <1>8. IsHistory(blob')
    BY <1>1 DEF Good, ShapesOK
  <1> QED
    BY <1>1, <1>6, <1>7, <1>8, GoodFrom

\* A read that finds all rows, or that lacks some (ReadRows).
LEMMA ReadRowsStep ==
  ASSUME Good, NEW w \in Writers, ReadRows(w)
  PROVE  Good' /\ rows' = rows
  <1>1. /\ run[w].at = "rows" /\ blob' = blob /\ tab' = tab /\ rows' = rows
        /\ texts' = texts /\ created' = created /\ disturbed' = disturbed
    BY DEF ReadRows, Bookkeeping
  <1>2. ShapesOK /\ RunOK(run[w]) /\ run[w].at # "idle" /\ Texts
    BY <1>1 DEF Good, ShapesOK, Texts
  <1>3. /\ IsStep(First(run[w])) /\ "rows" \in Phases(First(run[w])) /\ ScriptOK(run[w].script)
    BY <1>1, <1>2, FirstIs DEF RunOK
  <1>4. First(run[w]).do = "read"
    BY <1>3 DEF IsStep, Phases
  <1>5. \E r : /\ run' = [run EXCEPT ![w] = r] /\ RunOK(r) /\ Onward(r, run[w]) /\ ~Holding(r)
               /\ r.at = "load" => First(r).do # "link"
    <2>1. CASE Finish(w)
      BY <1>2, <2>1, FinishMoves
    <2>2. CASE \E gone : Goto(w, "gap", EmptyHistory, {}, gone)
      <3>1. PICK r : /\ run' = [run EXCEPT ![w] = r] /\ IsRun(r) /\ r.script = run[w].script
                     /\ r.at = "gap"
        BY <1>2, <2>2, GotoMoves
      <3>2. "gap" \in Phases(First(r))
        BY <1>4, <3>1 DEF First, Phases
      <3>3. RunOK(r) /\ ~Holding(r)
        BY <1>3, <3>1, <3>2 DEF RunOK, Holding
      <3>4. Onward(r, run[w])
        BY <1>2, <3>1, FromItself DEF Onward
      <3> QED
        BY <3>1, <3>3, <3>4
    <2> QED
      BY <2>1, <2>2 DEF ReadRows
  <1>6. PICK r : /\ run' = [run EXCEPT ![w] = r] /\ RunOK(r) /\ Onward(r, run[w]) /\ ~Holding(r)
                 /\ r.at = "load" => First(r).do # "link"
    BY <1>5
  <1>7. Moves(w, r)
    BY <1>1, <1>6 DEF Moves
  <1>8. Texts'
    BY <1>1, <1>2, <1>4, <1>6, <1>7, LetGo
  <1>9. IsHistory(blob')
    BY <1>1 DEF Good, ShapesOK
  <1> QED
    BY <1>1, <1>7, <1>8, <1>9, GoodFrom

\* The history from which a read fills in rows (LoadMissing).
LEMMA LoadMissingStep ==
  ASSUME Good, NEW w \in Writers, LoadMissing(w)
  PROVE  Good' /\ rows' = rows
  <1>1. PICK h : h = Repair(blob) /\ IsHistory(h) /\ h.msgs = blob.msgs
    BY Repaired DEF Good, ShapesOK
  <1>2. /\ run[w].at = "gap" /\ blob' = h /\ tab' = tab /\ rows' = rows
        /\ texts' = texts /\ created' = created /\ disturbed' = disturbed
    BY <1>1 DEF LoadMissing, Bookkeeping
  <1>3. /\ ShapesOK /\ RunOK(run[w]) /\ run[w].at # "idle" /\ ~Holding(run[w])
        /\ Apart /\ WholesaleAlone /\ Texts
    BY <1>2 DEF Good, ShapesOK, Texts, Holding
  <1>4. /\ IsStep(First(run[w])) /\ "gap" \in Phases(First(run[w])) /\ ScriptOK(run[w].script)
    BY <1>2, <1>3, FirstIs DEF RunOK
  <1>5. First(run[w]).do = "read"
    BY <1>4 DEF IsStep, Phases
  <1>6. PICK left, gone : Goto(w, "fill", h, left, gone) /\ left \subseteq DOMAIN h.msgs
    BY <1>1 DEF LoadMissing
  <1>7. PICK r : /\ run' = [run EXCEPT ![w] = r] /\ IsRun(r) /\ r.script = run[w].script
                 /\ r.at = "fill" /\ r.copy = h /\ r.left = left
    BY <1>3, <1>6, GotoMoves
  <1>8. "fill" \in Phases(First(r))
    BY <1>5, <1>7 DEF First, Phases
  <1>9. RunOK(r)
    BY <1>1, <1>4, <1>6, <1>7, <1>8 DEF RunOK
  <1>10. Moves(w, r)
    BY <1>2, <1>3, <1>7, <1>9, FromItself DEF Moves, Onward
  <1>11. Texts'
    BY <1>1, <1>2, <1>3, <1>5, <1>7, <1>10, TakenWhole
  <1> QED
    BY <1>1, <1>2, <1>10, <1>11, GoodFrom

-----------------------------------------------------------------------------
(* The theorem.                                                            *)

\* A chat begins with rows and a tree that hold the first texts (Init).
Children(n, above, m) == InOrder({k \in 1 .. n : above[k] = m})

Initially(n, present, above) ==
    /\ created = n
    /\ blob = [msgs |-> [m \in 1 .. n |->
                          [parent |-> above[m], text |-> 0, kids |-> Children(n, above, m)]],
               current |-> n]
    /\ rows = [m \in present \cap 1 .. n |-> [parent |-> above[m], text |-> 0]]

\* The initial states satisfy the invariant.
LEMMA InitGood ==
  ASSUME Init
  PROVE  IInv
  <1>1. PICK n, present, above : n \in 0 .. MaxInitial /\ Initially(n, present, above)
    <2>1. PICK n \in 0 .. MaxInitial, present \in SUBSET Ids :
             \E above \in [1 .. n -> 0 .. n] :
                /\ \A m \in 1 .. n : above[m] < m
                /\ Initially(n, present, above)
      BY Zenon DEF Init, Initially, Children
    <2>2. PICK above : Initially(n, present, above)
      BY <2>1, Zenon
    <2> QED
      BY <2>2, Zenon
  <1>2. /\ run = [w \in Writers |-> Idle] /\ tab = EmptyHistory
        /\ disturbed = FALSE /\ texts = [m \in Ids |-> 0]
    BY DEF Init
  <1>3. n \in 0 .. MaxMessages /\ 1 .. n \subseteq Ids
    BY <1>1, ChatConstants DEF Ids
  <1>4. /\ blob = [msgs |-> blob.msgs, current |-> blob.current] /\ DOMAIN blob.msgs = 1 .. n
        /\ \A m \in 1 .. n : IsMessage(blob.msgs[m]) /\ blob.msgs[m].text = 0
    <2>1. blob.msgs = [m \in 1 .. n |->
                        [parent |-> above[m], text |-> 0, kids |-> Children(n, above, m)]]
      BY <1>1 DEF Initially
    <2>2. blob = [msgs |-> blob.msgs, current |-> blob.current]
      BY <1>1 DEF Initially
    <2>3. \A m \in 1 .. n :
             blob.msgs[m] = [parent |-> above[m], text |-> 0, kids |-> Children(n, above, m)]
      BY <2>1
    <2> QED
      BY <2>1, <2>2, <2>3 DEF IsMessage
  <1>5. IsHistory(blob)
    BY <1>3, <1>4 DEF IsHistory
  <1>6. IsHistory(tab)
    BY <1>2 DEF IsHistory, EmptyHistory
  <1>7. \A w \in Writers : run[w] = Idle /\ run[w].at = "idle" /\ RunOK(run[w])
    BY <1>2, IdleOK
  <1>8. Busy = {} /\ \A w \in Writers : ~Holding(run[w])
    BY <1>7 DEF Busy, Holding
  <1>9. ShapesOK
    BY <1>1, <1>2, <1>3, <1>5, <1>6, <1>7 DEF ShapesOK, Initially
  <1>10. TextsToCome /\ Apart /\ WholesaleAlone /\ LinksKeepTexts
    BY <1>8 DEF TextsToCome, Apart, WholesaleAlone, LinksKeepTexts
  <1>11. NothingYet /\ RowsToCome /\ Serial
    BY <1>2, <1>3, <1>4, <1>7, <1>8 DEF NothingYet, RowsToCome, Serial
  <1>12. RowsOK /\ DOMAIN rows \subseteq Ids
    <2>1. rows = [m \in present \cap 1 .. n |-> [parent |-> above[m], text |-> 0]]
      BY <1>1 DEF Initially
    <2>2. \A m \in DOMAIN rows : m \in 1 .. n /\ rows[m].text = 0
      BY <2>1
    <2> QED
      BY <1>2, <1>3, <2>2 DEF RowsOK
  <1> QED
    BY <1>9, <1>10, <1>11, <1>12 DEF IInv, Good

\* The invariant says the same of the next state when nothing changes.
LEMMA StutterGood ==
  ASSUME Good, UNCHANGED vars
  PROVE  Good'
  <1>1. Good' <=> Good
    BY DEF vars, deletions, Good, ShapesOK, TextsToCome, Apart, WholesaleAlone, NothingYet,
           LinksKeepTexts, RowsToCome, RowsOK, Serial, Busy, Uniform, Saving, Step
  <1> QED
    BY <1>1

\* Every step keeps the invariant; once a row may have been rewritten, it may
\* be for ever.
LEMMA NextGood ==
  ASSUME IInv, [Next]_vars
  PROVE  IInv'
  <1>1. rewritten => rewritten'
    <2>1. ASSUME NEW w, NEW script, Begin(w, script) PROVE rewritten => rewritten'
      BY <2>1, Zenon DEF Begin
    <2>2. ASSUME NEW w, SendMessage(w) \/ SaveText(w) \/ OtherScript(w)
          PROVE  rewritten => rewritten'
      BY <2>1, <2>2, Zenon DEF SendMessage, SaveText, OtherScript
    <2>3. ASSUME NEW w, \/ Peek(w) \/ Load(w) \/ WriteRow(w) \/ WriteBlob(w) \/ Fill(w)
                        \/ DropRows(w) \/ ReadRows(w) \/ LoadMissing(w)
          PROVE  rewritten' = rewritten
      BY <2>3 DEF Peek, Load, WriteRow, WriteBlob, Fill, DropRows, ReadRows, LoadMissing,
         Bookkeeping
    <2>4. ASSUME NEW w, Die(w) PROVE rewritten'
      BY <2>4 DEF Die
    <2>5. LoadTab \/ UNCHANGED vars => rewritten' = rewritten
      BY DEF LoadTab, vars
    <2> QED
      BY <2>2, <2>3, <2>4, <2>5, Zenon DEF Next
  <1> SUFFICES ASSUME ~rewritten' PROVE DOMAIN rows' \subseteq Ids /\ Good'
    BY DEF IInv
  <1>2. Good /\ DOMAIN rows \subseteq Ids
    BY <1>1 DEF IInv
  <1>3. CASE UNCHANGED vars
    BY <1>2, <1>3, StutterGood DEF vars
  <1>4. CASE LoadTab
    BY <1>2, <1>4, LoadTabStep
  <1>5. ASSUME NEW w \in Writers, SendMessage(w) PROVE DOMAIN rows' \subseteq Ids /\ Good'
    BY <1>2, <1>5, SendMessageStep
  <1>6. ASSUME NEW w \in Writers, SaveText(w) PROVE DOMAIN rows' \subseteq Ids /\ Good'
    BY <1>2, <1>6, SaveTextStep
  <1>7. ASSUME NEW w \in Writers, OtherScript(w) PROVE DOMAIN rows' \subseteq Ids /\ Good'
    BY <1>2, <1>7, OtherScriptStep
  <1>8. ASSUME NEW w \in Writers, Peek(w) PROVE DOMAIN rows' \subseteq Ids /\ Good'
    BY <1>2, <1>8, PeekStep
  <1>9. ASSUME NEW w \in Writers, Load(w) PROVE DOMAIN rows' \subseteq Ids /\ Good'
    BY <1>2, <1>9, LoadStep
  <1>10. ASSUME NEW w \in Writers, WriteRow(w) PROVE DOMAIN rows' \subseteq Ids /\ Good'
    BY <1>2, <1>10, WriteRowStep
  <1>11. ASSUME NEW w \in Writers, WriteBlob(w) PROVE DOMAIN rows' \subseteq Ids /\ Good'
    BY <1>2, <1>11, WriteBlobStep
  <1>12. ASSUME NEW w \in Writers, Fill(w) PROVE DOMAIN rows' \subseteq Ids /\ Good'
    BY <1>2, <1>12, FillStep
  <1>13. ASSUME NEW w \in Writers, DropRows(w) PROVE DOMAIN rows' \subseteq Ids /\ Good'
    BY <1>2, <1>13, DropRowsStep
  <1>14. ASSUME NEW w \in Writers, ReadRows(w) PROVE DOMAIN rows' \subseteq Ids /\ Good'
    BY <1>2, <1>14, ReadRowsStep
  <1>15. ASSUME NEW w \in Writers, LoadMissing(w) PROVE DOMAIN rows' \subseteq Ids /\ Good'
    BY <1>2, <1>15, LoadMissingStep
  <1>16. ASSUME NEW w \in Writers, Die(w) PROVE FALSE
    BY <1>16 DEF Die
  <1> QED
    BY <1>3, <1>4, <1>5, <1>6, <1>7, <1>8, <1>9, <1>10, <1>11, <1>12, <1>13, <1>14, <1>15, <1>16
       DEF Next

\* A row that nobody is to write holds the text saved last.
LEMMA RowsKept ==
  ASSUME IInv
  PROVE  RowsKeepFanOut
  <1> SUFFICES ASSUME ~rewritten, NEW m \in DOMAIN rows,
                      \A w \in Busy : m \notin Written(run[w].script)
               PROVE  rows[m].text = texts[m]
    BY DEF RowsKeepFanOut
  <1>1. m \in DOMAIN rows \cap Ids /\ RowsOK /\ ShapesOK
    BY DEF IInv, Good
  <1>2. \A w \in Writers : ~Saving(w, m)
    BY <1>1, SavingWrites
  <1> QED
    BY <1>1, <1>2 DEF RowsOK

\* The answers of a fan-out keep their own rows, however the turns that write
\* the history overlap (chats.py:758-774, upsert_message_to_chat_by_id_and_message_id).
THEOREM FanOutKept == Spec => []RowsKeepFanOut
  <1>1. Init => IInv
    BY InitGood
  <1>2. IInv /\ [Next]_vars => IInv'
    BY NextGood
  <1>3. IInv => RowsKeepFanOut
    BY RowsKept
  <1> QED
    BY <1>1, <1>2, <1>3, PTL DEF Spec

-----------------------------------------------------------------------------
(* The tree in the history.  First what is used of numbers, sets and        *)
(* sequences.                                                              *)

\* Every nonempty set of natural numbers has a least element.
LEMMA LeastExists ==
  ASSUME NEW S \in SUBSET Nat, S # {}
  PROVE  \E x \in S : \A y \in S : x <= y
  <1>1. PICK x \in S : \A y \in S : <<y, x>> \notin OpToRel(<, Nat)
    BY WFMin, NatLessThanWellFounded, Zenon
  <1>2. \A y \in S : ~(y < x)
    BY <1>1, Zenon DEF OpToRel
  <1> QED BY <1>2

\* f holds what step makes of first, again and again.
Iterates(f, V, first, n, step) ==
    /\ f \in [0..n -> V]
    /\ f[0] = first
    /\ \A i \in 1..n : f[i] = step[<<f[i - 1], i>>]

\* A function on 0..n can be defined by its first value and a step.
LEMMA RecursionOnInterval ==
  ASSUME NEW V, NEW first \in V, NEW n \in Nat, NEW step \in [V \X (1..n) -> V]
  PROVE  \E f : Iterates(f, V, first, n, step)
  <1> DEFINE Reached(m) == \E f \in [0..m -> V] :
                          /\ f[0] = first
                          /\ \A i \in 1..m : f[i] = step[<<f[i - 1], i>>]
             Bad == {m \in 0..n : ~Reached(m)}
  <1>1. Reached(0)
    <2> DEFINE g == [i \in 0..0 |-> first]
    <2>1. g \in [0..0 -> V] /\ g[0] = first /\ 1..0 = {}
      OBVIOUS
    <2> HIDE DEF g
    <2> QED BY <2>1
  <1>2. ASSUME NEW m \in 1..n, Reached(m - 1)
        PROVE  Reached(m)
    <2>1. PICK f \in [0..(m - 1) -> V] :
             /\ f[0] = first
             /\ \A i \in 1..(m - 1) : f[i] = step[<<f[i - 1], i>>]
      BY <1>2
    <2> DEFINE g == [i \in 0..m |-> IF i = m THEN step[<<f[m - 1], m>>] ELSE f[i]]
    <2>2. f[m - 1] \in V /\ m - 1 \in 0..m /\ m \in 0..m
      OBVIOUS
    <2>3. step[<<f[m - 1], m>>] \in V
      BY <2>2
    <2>4. g \in [0..m -> V]
      BY <2>3
    <2>5. \A i \in 0..(m - 1) : g[i] = f[i]
      OBVIOUS
    <2>6. g[m] = step[<<f[m - 1], m>>]
      OBVIOUS
    <2>7. g[0] = first
      BY <2>1, <2>5
    <2>8. ASSUME NEW i \in 1..m
          PROVE  g[i] = step[<<g[i - 1], i>>]
      <3> HIDE DEF g
      <3>1. i - 1 \in 0..(m - 1) /\ g[i - 1] = f[i - 1]
        BY <2>5
      <3>2. CASE i = m
        BY <3>1, <3>2, <2>6
      <3>3. CASE i # m
        <4>1. i \in 1..(m - 1) /\ i \in 0..(m - 1)
          BY <3>3
        <4> QED BY <4>1, <3>1, <2>1, <2>5
      <3> QED BY <3>2, <3>3
    <2> HIDE DEF g
    <2> QED BY <2>4, <2>7, <2>8
  <1> HIDE DEF Reached
  <1>3. Bad = {}
    <2> SUFFICES ASSUME Bad # {} PROVE FALSE
      OBVIOUS
    <2>1. Bad \in SUBSET Nat
      OBVIOUS
    <2> HIDE DEF Bad
    <2>2. PICK m \in Bad : \A j \in Bad : m <= j
      BY <2>1, LeastExists
    <2>3. m \in 1..n /\ m - 1 \in 0..n /\ ~Reached(m)
      BY <2>2, <1>1 DEF Bad
    <2>4. Reached(m - 1)
      BY <2>2, <2>3 DEF Bad
    <2> QED BY <2>3, <2>4, <1>2
  <1>4. Reached(n)
    BY <1>3
  <1> QED BY <1>4 DEF Reached, Iterates

\* What Select finds among the first n members.
Finds(found, seq, S) ==
    found = [n \in 0 .. Len(seq) |->
                IF n = 0 THEN <<>>
                ELSE IF seq[n] \in S THEN Append(found[n - 1], seq[n]) ELSE found[n - 1]]

\* Numbers up to a bound have a largest.
LEMMA LargestThere ==
    ASSUME NEW S, NEW b \in Nat, S # {}, S \subseteq 0 .. b
    PROVE  \E x \in S : \A y \in S : x >= y
  <1> DEFINE T == {n \in Nat : b - n \in S}
  <1>1. T \subseteq Nat /\ T # {}
    <2>1. PICK x \in S : TRUE
      OBVIOUS
    <2>2. b - x \in Nat /\ b - (b - x) = x
      BY <2>1
    <2> QED BY <2>1, <2>2
  <1> HIDE DEF T
  <1>2. PICK n \in T : \A k \in T : ~(<<k, n>> \in OpToRel(<, Nat))
    BY <1>1, WFMin, NatLessThanWellFounded, Zenon
  <1>3. n \in Nat /\ \A k \in T : ~(k < n)
    BY <1>1, <1>2 DEF OpToRel
  <1>4. b - n \in S
    BY <1>2 DEF T
  <1>5. ASSUME NEW y \in S PROVE b - n >= y
    <2>1. y \in 0 .. b /\ b - y \in Nat /\ b - (b - y) = y
      BY <1>5
    <2>2. b - y \in T
      BY <1>5, <2>1 DEF T
    <2>3. ~(b - y < n)
      BY <1>3, <2>2
    <2> QED BY <1>3, <2>1, <2>3
  <1> QED BY <1>4, <1>5

\* Select goes through a sequence step by step.
LEMMA SelectSteps ==
  ASSUME NEW A, NEW seq \in Seq(A), NEW S
  PROVE  \E f : /\ Select(seq, S) = f[Len(seq)] /\ f[0] = <<>>
                /\ \A i \in 1 .. Len(seq) :
                      f[i] = IF seq[i] \in S THEN Append(f[i - 1], seq[i]) ELSE f[i - 1]
  <1> DEFINE n == Len(seq)
             V == Seq(A)
             f == CHOOSE g : Finds(g, seq, S)
  <1>1. n \in Nat /\ DOMAIN seq = 1 .. n
    OBVIOUS
  <1>2. \E g \in [0 .. n -> V] : Finds(g, seq, S)
    <2> DEFINE longer(p) == IF seq[p[2]] \in S THEN Append(p[1], seq[p[2]]) ELSE p[1]
               step == [p \in V \X (1 .. n) |-> longer(p)]
    <2>1. \A p \in V \X (1 .. n) : longer(p) \in V
      <3>1. ASSUME NEW q \in V, NEW i \in 1 .. n PROVE Append(q, seq[i]) \in V
        <4>1. seq[i] \in A
          BY <1>1
        <4> QED BY <4>1
      <3> QED BY <3>1
    <2> HIDE DEF longer
    <2>2. step \in [V \X (1 .. n) -> V] /\ <<>> \in V
      BY <2>1
    <2>3. \A q \in V, i \in 1 .. n : step[<<q, i>>] = longer(<<q, i>>)
      OBVIOUS
    <2> HIDE DEF step, V
    <2>4. PICK g : Iterates(g, V, <<>>, n, step)
      BY <1>1, <2>2, RecursionOnInterval, Zenon
    <2>5. /\ g \in [0 .. n -> V] /\ g[0] = <<>>
          /\ \A i \in 1 .. n : g[i] = longer(<<g[i - 1], i>>)
      <3>1. \A i \in 1 .. n : i - 1 \in 0 .. n
        BY <1>1
      <3> QED BY <2>3, <2>4, <3>1 DEF Iterates
    <2>6. \A i \in 1 .. n : g[i] = IF seq[i] \in S THEN Append(g[i - 1], seq[i]) ELSE g[i - 1]
      BY <2>5 DEF longer
    <2>7. \A i \in 0 .. n : g[i] = IF i = 0 THEN <<>>
              ELSE IF seq[i] \in S THEN Append(g[i - 1], seq[i]) ELSE g[i - 1]
      <3>1. ASSUME NEW i \in 0 .. n, i # 0 PROVE i \in 1 .. n
        BY <3>1, <1>1
      <3> QED BY <2>5, <2>6, <3>1
    <2>8. g = [i \in 0 .. n |-> IF i = 0 THEN <<>>
                ELSE IF seq[i] \in S THEN Append(g[i - 1], seq[i]) ELSE g[i - 1]]
      <3> DEFINE e(i) == IF i = 0 THEN <<>>
                         ELSE IF seq[i] \in S THEN Append(g[i - 1], seq[i]) ELSE g[i - 1]
      <3>1. \A i \in 0 .. n : g[i] = e(i)
        BY <2>7
      <3> HIDE DEF e
      <3>2. g = [i \in 0 .. n |-> e(i)]
        BY <2>5, <3>1
      <3> QED BY <3>2 DEF e
    <2> QED BY <2>5, <2>8 DEF Finds
  <1>3. Finds(f, seq, S)
    BY <1>2
  <1>4. Select(seq, S) = f[n]
    BY DEF Select, Finds
  <1> HIDE DEF f
  <1>5. /\ f[0] = <<>>
        /\ \A i \in 1 .. n : f[i] = IF seq[i] \in S THEN Append(f[i - 1], seq[i]) ELSE f[i - 1]
    <2> DEFINE e(i) == IF i = 0 THEN <<>>
                       ELSE IF seq[i] \in S THEN Append(f[i - 1], seq[i]) ELSE f[i - 1]
    <2>1. f = [i \in 0 .. n |-> e(i)]
      BY <1>3 DEF Finds
    <2>2. e(0) = <<>> /\ \A i \in 1 .. n :
              e(i) = IF seq[i] \in S THEN Append(f[i - 1], seq[i]) ELSE f[i - 1]
      OBVIOUS
    <2> HIDE DEF e
    <2>3. 0 \in 0 .. n /\ 1 .. n \subseteq 0 .. n
      BY <1>1
    <2>4. f[0] = e(0) /\ \A i \in 1 .. n : f[i] = e(i)
      BY <2>1, <2>3
    <2> QED BY <2>2, <2>4
  <1> QED BY <1>4, <1>5

\* One more member of a sequence.
LEMMA AppendIs ==
  ASSUME NEW A, NEW seq \in Seq(A), NEW x \in A
  PROVE  Append(seq, x) \in Seq(A) /\ Range(Append(seq, x)) = Range(seq) \cup {x}
  <1> DEFINE long == Append(seq, x)
  <1>1. /\ long \in Seq(A) /\ Len(long) = Len(seq) + 1 /\ Len(seq) \in Nat
        /\ \A i \in 1 .. Len(seq) : long[i] = seq[i]
        /\ long[Len(seq) + 1] = x
    OBVIOUS
  <1> HIDE DEF long
  <1>2. DOMAIN seq = 1 .. Len(seq) /\ DOMAIN long = (1 .. Len(seq)) \cup {Len(seq) + 1}
    BY <1>1
  <1>3. Range(long) = Range(seq) \cup {x}
    BY <1>1, <1>2 DEF Range
  <1> QED BY <1>1, <1>3 DEF long

\* A sequence after another one.
LEMMA ConcatIs ==
  ASSUME NEW A, NEW s \in Seq(A), NEW t \in Seq(A)
  PROVE  s \o t \in Seq(A) /\ Range(s \o t) = Range(s) \cup Range(t)
  <1> DEFINE m == Len(s)
             n == Len(t)
             st == s \o t
  <1>1. m \in Nat /\ n \in Nat /\ DOMAIN s = 1 .. m /\ DOMAIN t = 1 .. n
    OBVIOUS
  <1>2. /\ st \in Seq(A) /\ DOMAIN st = 1 .. (m + n)
        /\ \A i \in 1 .. m : st[i] = s[i]
        /\ \A i \in 1 .. n : st[m + i] = t[i]
    BY <1>1
  <1> HIDE DEF m, n, st
  <1>3. \A i \in 1 .. (m + n) : i \in 1 .. m \/ (i - m \in 1 .. n /\ i = m + (i - m))
    BY <1>1
  <1>4. \A i \in 1 .. m : i \in 1 .. (m + n)
    BY <1>1
  <1>5. \A i \in 1 .. n : m + i \in 1 .. (m + n)
    BY <1>1
  <1>6. ASSUME NEW x \in Range(st) PROVE x \in Range(s) \cup Range(t)
    <2>1. PICK i \in 1 .. (m + n) : x = st[i]
      BY <1>2, <1>6 DEF Range
    <2>2. CASE i \in 1 .. m
      BY <2>1, <2>2, <1>1, <1>2 DEF Range
    <2>3. CASE i - m \in 1 .. n /\ i = m + (i - m)
      <3>1. PICK k \in 1 .. n : i = m + k
        BY <2>3
      <3> QED BY <3>1, <2>1, <1>1, <1>2 DEF Range
    <2> QED BY <2>2, <2>3, <1>3
  <1>7. ASSUME NEW x \in Range(s) PROVE x \in Range(st)
    BY <1>7, <1>1, <1>2, <1>4 DEF Range
  <1>8. ASSUME NEW x \in Range(t) PROVE x \in Range(st)
    BY <1>8, <1>1, <1>2, <1>5 DEF Range
  <1> QED BY <1>2, <1>6, <1>7, <1>8 DEF st

\* What holds at first and from one number to the next holds up to n: of the
\* set of those it does not hold for.
LEMMA UpTo ==
  ASSUME NEW n \in Nat, NEW Reached, 0 \in Reached,
         \A k \in 1 .. n : k - 1 \in Reached => k \in Reached
  PROVE  n \in Reached
  <1> DEFINE Bad == {k \in 0 .. n : k \notin Reached}
  <1>1. Bad \in SUBSET Nat
    OBVIOUS
  <1>2. \A k \in Bad : k \in 1 .. n /\ k - 1 \in 0 .. n /\ k \notin Reached
    OBVIOUS
  <1>3. \A k \in 0 .. n : k \notin Bad => k \in Reached
    OBVIOUS
  <1> HIDE DEF Bad
  <1>4. ASSUME Bad # {} PROVE FALSE
    <2>1. PICK k \in Bad : \A j \in Bad : k <= j
      BY <1>1, <1>4, LeastExists
    <2>2. k \in 1 .. n /\ k - 1 \in 0 .. n /\ k \notin Reached
      BY <1>2, <2>1
    <2>3. k - 1 \notin Bad
      BY <2>1, <2>2
    <2> QED BY <2>2, <2>3, <1>3
  <1> QED BY <1>3, <1>4

\* Select finds the members that are in S.
LEMMA SelectOf ==
  ASSUME NEW A, NEW seq \in Seq(A), NEW S
  PROVE  Select(seq, S) \in Seq(A) /\ Range(Select(seq, S)) = Range(seq) \cap S
  <1> DEFINE n == Len(seq)
             To(k) == {seq[i] : i \in 1 .. k}
  <1>1. PICK f : /\ Select(seq, S) = f[n] /\ f[0] = <<>>
                 /\ \A i \in 1 .. n :
                       f[i] = IF seq[i] \in S THEN Append(f[i - 1], seq[i]) ELSE f[i - 1]
    BY SelectSteps
  <1> DEFINE Reached == {k \in 0 .. n : f[k] \in Seq(A) /\ Range(f[k]) = To(k) \cap S}
  <1>2. n \in Nat /\ DOMAIN seq = 1 .. n /\ \A i \in 1 .. n : seq[i] \in A
    OBVIOUS
  <1>3. 0 \in Reached
    <2>1. <<>> \in Seq(A) /\ Range(<<>>) = {} /\ To(0) = {}
      BY DEF Range
    <2>2. f[0] \in Seq(A) /\ Range(f[0]) = {}
      BY <1>1, <2>1
    <2>3. 0 \in 0 .. n
      BY <1>2
    <2> HIDE DEF To, n
    <2> QED BY <2>1, <2>2, <2>3
  <1>4. ASSUME NEW k \in 1 .. n, k - 1 \in Reached PROVE k \in Reached
    <2>1. To(k) = To(k - 1) \cup {seq[k]} /\ seq[k] \in A
      <3>1. 1 .. k = (1 .. (k - 1)) \cup {k}
        OBVIOUS
      <3> QED BY <3>1, <1>2
    <2>2. f[k - 1] \in Seq(A) /\ Range(f[k - 1]) = To(k - 1) \cap S /\ k \in 0 .. n
      BY <1>4
    <2> HIDE DEF To
    <2>3. CASE seq[k] \in S
      <3>1. f[k] = Append(f[k - 1], seq[k])
        BY <1>1, <2>3
      <3>2. f[k] \in Seq(A) /\ Range(f[k]) = Range(f[k - 1]) \cup {seq[k]}
        BY <2>1, <2>2, <3>1, AppendIs
      <3> QED BY <2>1, <2>2, <2>3, <3>2
    <2>4. CASE seq[k] \notin S
      <3>1. f[k] = f[k - 1]
        BY <1>1, <2>4
      <3> QED BY <2>1, <2>2, <2>4, <3>1
    <2> QED BY <2>3, <2>4
  <1> HIDE DEF Reached
  <1>5. n \in Reached
    BY <1>2, <1>3, <1>4, UpTo
  <1>6. f[n] \in Seq(A) /\ Range(f[n]) = To(n) \cap S
    BY <1>5 DEF Reached
  <1>7. To(n) = Range(seq)
    BY <1>2 DEF Range
  <1> HIDE DEF To, n
  <1> QED BY <1>1, <1>6, <1>7

\* The greatest and the least of some messages (Repair, Upsert, Fill).
LEMMA Extremes ==
  ASSUME NEW b \in Nat, NEW S, S # {}, S \subseteq 0 .. b
  PROVE  Max(S) \in S /\ Min(S) \in S
  <1>1. Max(S) \in S
    BY LargestThere, Zenon DEF Max
  <1>2. S \in SUBSET Nat
    OBVIOUS
  <1>3. \E x \in S : \A y \in S : x =< y
    BY <1>2, LeastExists
  <1>4. Min(S) \in S
    BY <1>3, Zenon DEF Min
  <1> QED BY <1>1, <1>4

\* Messages in order.
LEMMA InOrderOf ==
  ASSUME NEW S, S \subseteq Ids
  PROVE  InOrder(S) \in Seq(S) /\ Range(InOrder(S)) = S
  <1> DEFINE all == [m \in Ids |-> m]
  <1>1. MaxMessages \in Nat
    BY ChatConstants
  <1>2. all \in Seq(Ids) /\ Range(all) = Ids
    <2>1. all \in [1 .. MaxMessages -> Ids] /\ DOMAIN all = Ids
      BY DEF Ids
    <2> QED BY <1>1, <2>1 DEF Range
  <1> HIDE DEF all
  <1>3. Select(all, S) \in Seq(Ids) /\ Range(Select(all, S)) = Ids \cap S
    BY <1>2, SelectOf
  <1>4. InOrder(S) \in Seq(Ids) /\ Range(InOrder(S)) = S
    BY <1>3 DEF InOrder, all
  <1> HIDE DEF InOrder
  <1>5. \A s \in Seq(Ids) : Range(s) = S => s \in Seq(S)
    <2>1. ASSUME NEW s \in Seq(Ids), Range(s) = S PROVE s \in Seq(S)
      <3>1. Len(s) \in Nat /\ DOMAIN s = 1 .. Len(s) /\ s = [i \in 1 .. Len(s) |-> s[i]]
        BY <2>1
      <3>2. \A i \in 1 .. Len(s) : s[i] \in S
        BY <2>1, <3>1 DEF Range
      <3> QED BY <3>1, <3>2
    <2> QED BY <2>1
  <1> QED BY <1>4, <1>5

\* All members of sequences, one sequence after the other.
LEMMA FlattenOf ==
  ASSUME NEW A, NEW n \in Nat, NEW seqs \in [1 .. n -> Seq(A)]
  PROVE  /\ FlattenSeq(seqs) \in Seq(A)
         /\ Range(FlattenSeq(seqs)) = UNION {Range(seqs[i]) : i \in 1 .. n}
  <1> DEFINE V == Seq(A)
             Flat(g) == g = [i \in 1 .. n |-> IF i = 1 THEN seqs[i] ELSE g[i - 1] \o seqs[i]]
             f == CHOOSE g : Flat(g)
             To(k) == UNION {Range(seqs[i]) : i \in 1 .. k}
             Reached == {k \in 0 .. n : k > 0 => f[k] \in V /\ Range(f[k]) = To(k)}
  <1>1. Len(seqs) = n /\ seqs \in Seq(V)
    OBVIOUS
  <1>2. CASE n = 0
    <2>1. FlattenSeq(seqs) = seqs /\ seqs = <<>> /\ 1 .. n = {}
      BY <1>1, <1>2 DEF FlattenSeq
    <2>2. <<>> \in Seq(A) /\ Range(<<>>) = {}
      BY DEF Range
    <2> QED BY <2>1, <2>2
  <1>3. CASE n # 0
    <2>1. \E g : Flat(g)
      <3> DEFINE longer(p) == IF p[2] = 1 THEN seqs[p[2]] ELSE p[1] \o seqs[p[2]]
                 step == [p \in V \X (1 .. n) |-> longer(p)]
      <3>1. \A p \in V \X (1 .. n) : longer(p) \in V
        <4>1. ASSUME NEW q \in V, NEW i \in 1 .. n PROVE q \o seqs[i] \in V /\ seqs[i] \in V
          OBVIOUS
        <4> QED BY <4>1
      <3> HIDE DEF longer
      <3>2. step \in [V \X (1 .. n) -> V] /\ <<>> \in V
        BY <3>1
      <3>3. \A q \in V, i \in 1 .. n : step[<<q, i>>] = longer(<<q, i>>)
        OBVIOUS
      <3> HIDE DEF step, V
      <3>4. PICK h : Iterates(h, V, <<>>, n, step)
        BY <3>2, RecursionOnInterval, Zenon
      <3>5. h \in [0 .. n -> V] /\ \A i \in 1 .. n : h[i] = longer(<<h[i - 1], i>>)
        <4>1. \A i \in 1 .. n : i - 1 \in 0 .. n
          OBVIOUS
        <4> QED BY <3>3, <3>4, <4>1 DEF Iterates
      <3> DEFINE g == [i \in 1 .. n |-> h[i]]
                 e(i) == IF i = 1 THEN seqs[i] ELSE g[i - 1] \o seqs[i]
      <3>6. \A i \in 1 .. n : g[i] = e(i)
        <4>1. \A i \in 1 .. n : g[i] = IF i = 1 THEN seqs[i] ELSE h[i - 1] \o seqs[i]
          BY <3>5 DEF longer
        <4>2. \A i \in 1 .. n : i # 1 => g[i - 1] = h[i - 1]
          OBVIOUS
        <4> HIDE DEF g
        <4> QED BY <4>1, <4>2
      <3>7. DOMAIN g = 1 .. n /\ g = [i \in 1 .. n |-> g[i]]
        OBVIOUS
      <3> HIDE DEF g, e
      <3>8. g = [i \in 1 .. n |-> e(i)]
        BY <3>6, <3>7
      <3>9. Flat(g)
        BY <3>8 DEF e
      <3> QED BY <3>9
    <2>2. Flat(f)
      BY <2>1
    <2>3. FlattenSeq(seqs) = f[n]
      BY <1>1, <1>3 DEF FlattenSeq
    <2> HIDE DEF f
    <2>4. \A i \in 1 .. n : f[i] = IF i = 1 THEN seqs[i] ELSE f[i - 1] \o seqs[i]
      <3> DEFINE e(i) == IF i = 1 THEN seqs[i] ELSE f[i - 1] \o seqs[i]
      <3>1. f = [i \in 1 .. n |-> e(i)]
        BY <2>2
      <3> HIDE DEF e
      <3>2. \A i \in 1 .. n : f[i] = e(i)
        BY <3>1
      <3> QED BY <3>2 DEF e
    <2>5. 0 \in Reached
      OBVIOUS
    <2>6. ASSUME NEW k \in 1 .. n, k - 1 \in Reached PROVE k \in Reached
      <3>1. To(k) = To(k - 1) \cup Range(seqs[k]) /\ seqs[k] \in V
        <4>1. 1 .. k = (1 .. (k - 1)) \cup {k}
          OBVIOUS
        <4> QED BY <4>1
      <3>2. To(0) = {} /\ k \in 0 .. n
        OBVIOUS
      <3>3. k - 1 > 0 => f[k - 1] \in V /\ Range(f[k - 1]) = To(k - 1)
        BY <2>6
      <3> HIDE DEF To, V
      <3>4. CASE k = 1
        <4>1. f[k] = seqs[k] /\ k - 1 = 0
          BY <2>4, <3>4
        <4>2. To(k - 1) = {}
          BY <4>1, <3>2
        <4> QED BY <4>1, <4>2, <3>1, <3>2
      <3>5. CASE k # 1
        <4>1. f[k] = f[k - 1] \o seqs[k]
          BY <2>4, <3>5, Zenon
        <4>3. k - 1 > 0
          BY <3>5
        <4>2. f[k] \in V /\ Range(f[k]) = Range(f[k - 1]) \cup Range(seqs[k])
          BY <4>1, <4>3, <3>1, <3>3, ConcatIs DEF V
        <4> QED BY <4>2, <4>3, <3>1, <3>2, <3>3
      <3> QED BY <3>4, <3>5
    <2> HIDE DEF Reached
    <2>7. n \in Reached
      BY <2>5, <2>6, UpTo
    <2>8. f[n] \in V /\ Range(f[n]) = To(n)
      BY <2>7, <1>3 DEF Reached
    <2> QED BY <2>3, <2>8
  <1> QED BY <1>2, <1>3

-----------------------------------------------------------------------------
(* The history of a chat as a tree (ChatHistory).                          *)

\* Messages, their maps and histories, without what order means.
LaterThan(m) == m + 1 .. MaxMessages
MessageOf(m) == [parent : 0 .. m - 1, kids : Seq(LaterThan(m)), text : 0 .. MaxText]

MessagesShaped(M) ==
    /\ M = [m \in DOMAIN M |-> M[m]] /\ DOMAIN M \subseteq Ids
    /\ \A m \in DOMAIN M : M[m] \in MessageOf(m)

HistoryShaped(h) ==
    /\ h = [msgs |-> h.msgs, current |-> h.current]
    /\ MessagesShaped(h.msgs) /\ h.current \in 0 .. MaxMessages

\* The children of m.
Kids(M, m) == Range(M[m].kids)

\* One field of a message is changed.
SetParent(x, v) == [x EXCEPT !.parent = v]
SetKids(x, v) == [x EXCEPT !.kids = v]
SetText(x, v) == [x EXCEPT !.text = v]

\* What changing a field of a message does.
LEMMA SetIs ==
  ASSUME NEW m, NEW x \in MessageOf(m)
  PROVE  /\ \A v \in 0 .. m - 1 : SetParent(x, v) \in MessageOf(m)
         /\ \A v \in Seq(LaterThan(m)) : SetKids(x, v) \in MessageOf(m)
         /\ \A v \in 0 .. MaxText : SetText(x, v) \in MessageOf(m)
         /\ \A v : /\ SetParent(x, v).parent = v /\ SetParent(x, v).kids = x.kids
                   /\ SetParent(x, v).text = x.text
         /\ \A v : /\ SetKids(x, v).parent = x.parent /\ SetKids(x, v).kids = v
                   /\ SetKids(x, v).text = x.text
         /\ \A v : /\ SetText(x, v).parent = x.parent /\ SetText(x, v).kids = x.kids
                   /\ SetText(x, v).text = v
  <1> DEFINE P == 0 .. m - 1
             K == Seq(LaterThan(m))
             T == 0 .. MaxText
  <1> HIDE DEF P, K, T
  <1>1. x \in [parent : P, kids : K, text : T]
    BY DEF MessageOf, P, K, T
  <1>2. \A v : /\ SetParent(x, v) = [parent |-> v, kids |-> x.kids, text |-> x.text]
               /\ SetKids(x, v) = [parent |-> x.parent, kids |-> v, text |-> x.text]
               /\ SetText(x, v) = [parent |-> x.parent, kids |-> x.kids, text |-> v]
    BY <1>1 DEF SetParent, SetKids, SetText
  <1>3. x.parent \in P /\ x.kids \in K /\ x.text \in T
    BY <1>1
  <1> QED BY <1>2, <1>3 DEF MessageOf, P, K, T

\* What a message is made of, in numbers.
LEMMA MessageIs ==
  ASSUME NEW M, MessagesShaped(M), NEW m \in DOMAIN M
  PROVE  /\ m \in Ids /\ m \in Nat /\ M[m] \in MessageOf(m)
         /\ M[m].parent \in Nat /\ M[m].parent < m /\ M[m].parent \in 0 .. m - 1
         /\ M[m].kids \in Seq(LaterThan(m)) /\ M[m].text \in 0 .. MaxText
         /\ Kids(M, m) \subseteq LaterThan(m) /\ \A k \in Kids(M, m) : k \in Ids /\ m < k
  <1>1. MaxMessages \in Nat
    BY ChatConstants
  <1>2. m \in Ids /\ M[m] \in MessageOf(m)
    BY DEF MessagesShaped
  <1>3. m \in 1 .. MaxMessages
    BY <1>2 DEF Ids
  <1>4. /\ M[m].parent \in 0 .. m - 1 /\ M[m].kids \in Seq(LaterThan(m))
        /\ M[m].text \in 0 .. MaxText
    BY <1>2 DEF MessageOf
  <1>5. Kids(M, m) \subseteq LaterThan(m)
    <2>1. \A S, s : s \in Seq(S) => Range(s) \subseteq S
      BY DEF Range
    <2> QED BY <1>4, <2>1 DEF Kids
  <1>6. \A k \in LaterThan(m) : k \in Ids /\ m < k
    BY <1>1, <1>3 DEF LaterThan, Ids
  <1> QED BY <1>2, <1>3, <1>4, <1>5, <1>6

\* The current message is repaired; the messages stay as they are.
LEMMA RepairIs ==
  ASSUME NEW h, HistoryShaped(h)
  PROVE  HistoryShaped(Repair(h)) /\ Repair(h).msgs = h.msgs
  <1>1. MaxMessages \in Nat
    BY ChatConstants
  <1>2. h = [msgs |-> h.msgs, current |-> h.current]
    BY DEF HistoryShaped
  <1> DEFINE put(c) == [h EXCEPT !.current = c]
  <1>3. \A c : put(c) = [msgs |-> h.msgs, current |-> c]
    BY <1>2
  <1>4. \A c : put(c).msgs = h.msgs /\ put(c).current = c
    BY <1>3
  <1>5. CASE Repair(h) = h
    BY <1>5
  <1>6. CASE Repair(h) # h
    <2>1. Repair(h) = put(Max(Leaves(h.msgs))) /\ Leaves(h.msgs) # {}
      BY <1>6 DEF Repair
    <2>2. Leaves(h.msgs) \subseteq 0 .. MaxMessages
      BY <1>1 DEF Leaves, HistoryShaped, MessagesShaped, Ids
    <2>3. Max(Leaves(h.msgs)) \in 0 .. MaxMessages
      BY <1>1, <2>1, <2>2, Extremes
    <2> DEFINE c == Max(Leaves(h.msgs))
    <2> HIDE DEF c, put
    <2>4. Repair(h) = put(c) /\ c \in 0 .. MaxMessages
      BY <2>1, <2>3 DEF c
    <2> QED BY <2>4, <1>3, <1>4 DEF HistoryShaped
  <1> QED BY <1>5, <1>6

\* The children of a message that are there.
LEMMA BelowIs ==
  ASSUME NEW M, MessagesShaped(M), NEW m \in DOMAIN M
  PROVE  /\ Below(M, m) \in Seq(LaterThan(m)) /\ Range(Below(M, m)) = Kids(M, m) \cap DOMAIN M
         /\ DeletedIds(M, m) = {m} \cup (Kids(M, m) \cap DOMAIN M)
  <1>1. M[m].kids \in Seq(LaterThan(m))
    BY MessageIs
  <1>2. Below(M, m) \in Seq(LaterThan(m)) /\ Range(Below(M, m)) = Kids(M, m) \cap DOMAIN M
    BY <1>1, SelectOf DEF Below, Within, Kids
  <1> QED BY <1>2 DEF DeletedIds

\* What a step makes of a history depends on its messages only.
LEMMA AppliedSame ==
  ASSUME NEW step, NEW h, NEW g, h.msgs = g.msgs,
         step.do \in {"save", "link", "delete", "update", "touch"}
  PROVE  Applied(step, h).msgs = Applied(step, g).msgs
  <1>1. \A p : Upsert(h, step, p).msgs = Upsert(g, step, p).msgs
    BY DEF Upsert
  <1>2. DeleteFrom(h, step.msg).msgs = DeleteFrom(g, step.msg).msgs
    BY DEF DeleteFrom
  <1>3. MergeHistory(h, step.incoming).msgs = MergeHistory(g, step.incoming).msgs
    BY DEF MergeHistory
  <1>4. /\ step.do = "save" => Applied(step, h) = Upsert(h, step, step.parent)
        /\ step.do = "link" => Applied(step, h) = Upsert(h, step, 0)
        /\ step.do = "delete" => Applied(step, h) = DeleteFrom(h, step.msg)
        /\ step.do = "update" => Applied(step, h) = MergeHistory(h, step.incoming)
        /\ step.do = "touch" => Applied(step, h) = h
    BY DEF Applied
  <1>5. /\ step.do = "save" => Applied(step, g) = Upsert(g, step, step.parent)
        /\ step.do = "link" => Applied(step, g) = Upsert(g, step, 0)
        /\ step.do = "delete" => Applied(step, g) = DeleteFrom(g, step.msg)
        /\ step.do = "update" => Applied(step, g) = MergeHistory(g, step.incoming)
        /\ step.do = "touch" => Applied(step, g) = g
    BY DEF Applied
  <1> QED BY <1>1, <1>2, <1>3, <1>4, <1>5

\* The children of children, which move up when m is deleted.
Grand(M, m) == UNION {Kids(M, k) \cap DOMAIN M : k \in Kids(M, m) \cap DOMAIN M}

\* What a deletion makes of a message that stays.
Moved(M, m, x) ==
    LET up == M[m].parent
    IN IF x = up THEN SetKids(M[x], Outside(M[x].kids, {m})
                        \o FlattenSeq([i \in 1 .. Len(Below(M, m)) |-> Below(M, Below(M, m)[i])]))
       ELSE IF x \in Grand(M, m) THEN SetParent(M[x], up) ELSE M[x]

\* The grandchildren, in one sequence.
LEMMA GrandIs ==
  ASSUME NEW M, MessagesShaped(M), NEW m \in DOMAIN M
  PROVE  LET grand == FlattenSeq([i \in 1 .. Len(Below(M, m)) |-> Below(M, Below(M, m)[i])])
         IN  grand \in Seq(LaterThan(m)) /\ Range(grand) = Grand(M, m)
  <1> DEFINE kids == Below(M, m)
             n == Len(kids)
             parts == [i \in 1 .. n |-> Below(M, kids[i])]
  <1>1. kids \in Seq(LaterThan(m)) /\ Range(kids) = Kids(M, m) \cap DOMAIN M
    BY BelowIs
  <1>2. n \in Nat /\ DOMAIN kids = 1 .. n
    BY <1>1
  <1>3. \A i \in 1 .. n : kids[i] \in Kids(M, m) \cap DOMAIN M
    BY <1>1, <1>2 DEF Range
  <1>4. ASSUME NEW i \in 1 .. n
        PROVE  /\ parts[i] \in Seq(LaterThan(m))
               /\ Range(parts[i]) = Kids(M, kids[i]) \cap DOMAIN M
    <2>1. /\ parts[i] \in Seq(LaterThan(kids[i]))
          /\ Range(parts[i]) = Kids(M, kids[i]) \cap DOMAIN M
      BY <1>3, BelowIs
    <2>2. kids[i] \in Nat /\ m \in Nat /\ m < kids[i]
      BY <1>3, MessageIs
    <2>3. LaterThan(kids[i]) \subseteq LaterThan(m)
      BY <2>2, ChatConstants DEF LaterThan
    <2>4. Seq(LaterThan(kids[i])) \subseteq Seq(LaterThan(m))
      BY <2>3, SeqMonotonic
    <2> QED BY <2>1, <2>4
  <1>5. parts \in [1 .. n -> Seq(LaterThan(m))]
    BY <1>4
  <1>6. /\ FlattenSeq(parts) \in Seq(LaterThan(m))
        /\ Range(FlattenSeq(parts)) = UNION {Range(parts[i]) : i \in 1 .. n}
    BY <1>2, <1>5, FlattenOf
  <1>7. UNION {Range(parts[i]) : i \in 1 .. n} = Grand(M, m)
    <2>1. Kids(M, m) \cap DOMAIN M = {kids[i] : i \in 1 .. n}
      BY <1>1, <1>2 DEF Range
    <2> HIDE DEF parts, kids, n
    <2> QED BY <1>4, <2>1 DEF Grand
  <1> QED BY <1>6, <1>7

\* A message is deleted with its children; the grandchildren move up.
Deleted(M, m, N) ==
    /\ DOMAIN N = DOMAIN M \ DeletedIds(M, m)
    /\ \A x \in DOMAIN N :
         /\ N[x].parent = IF x \in Grand(M, m) /\ x # M[m].parent THEN M[m].parent
                          ELSE M[x].parent
         /\ Kids(N, x) = IF x = M[m].parent THEN (Kids(M, x) \ {m}) \cup Grand(M, m)
                         ELSE Kids(M, x)

\* Deleting m takes its children along and hands theirs to its parent.
LEMMA DeleteIs ==
  ASSUME NEW h, HistoryShaped(h), NEW m \in DOMAIN h.msgs
  PROVE  HistoryShaped(DeleteFrom(h, m)) /\ Deleted(h.msgs, m, DeleteFrom(h, m).msgs)
  <1> DEFINE M == h.msgs
             up == M[m].parent
             rest == DOMAIN M \ DeletedIds(M, m)
             moved == [x \in rest |-> Moved(M, m, x)]
             c == LastLeaf(moved, up)
             grand == FlattenSeq([i \in 1 .. Len(Below(M, m)) |-> Below(M, Below(M, m)[i])])
  <1>1. MessagesShaped(M) /\ MaxMessages \in Nat
    BY ChatConstants DEF HistoryShaped
  <1>2. grand \in Seq(LaterThan(m)) /\ Range(grand) = Grand(M, m)
    BY <1>1, GrandIs
  <1>3. DeleteFrom(h, m) = [msgs |-> moved, current |-> c]
    <2>1. \A x : (x \in Range(grand)) = (x \in Grand(M, m))
      BY <1>2
    <2> QED BY <2>1 DEF DeleteFrom, Moved, SetKids, SetParent
  <1>4. up \in Nat /\ up < m /\ m \in Nat
    BY <1>1, MessageIs
  <1>5. ASSUME NEW x \in rest
        PROVE  /\ Moved(M, m, x) \in MessageOf(x)
               /\ Moved(M, m, x).parent = IF x \in Grand(M, m) /\ x # up THEN up ELSE M[x].parent
               /\ Range(Moved(M, m, x).kids) =
                      IF x = up THEN (Kids(M, x) \ {m}) \cup Grand(M, m) ELSE Kids(M, x)
    <2>1. x \in DOMAIN M /\ M[x] \in MessageOf(x) /\ M[x].kids \in Seq(LaterThan(x)) /\ x \in Nat
      BY <1>1, MessageIs
    <2>2. CASE x = up
      <3> DEFINE left == Outside(M[x].kids, {m})
      <3>1. left \in Seq(LaterThan(x)) /\ Range(left) = Kids(M, x) \ {m}
        <4>1. \A S : /\ Select(M[x].kids, S) \in Seq(LaterThan(x))
                     /\ Range(Select(M[x].kids, S)) = Kids(M, x) \cap S
          BY <2>1, SelectOf DEF Kids
        <4>2. left = Select(M[x].kids, Kids(M, x) \ {m})
          BY DEF Outside, Kids
        <4> QED BY <4>1, <4>2
      <3>2. LaterThan(m) \subseteq LaterThan(x)
        BY <1>1, <1>4, <2>2 DEF LaterThan
      <3>3. grand \in Seq(LaterThan(x))
        BY <1>2, <3>2, SeqMonotonic
      <3> HIDE DEF left, grand
      <3>4. left \o grand \in Seq(LaterThan(x)) /\ Range(left \o grand) = Range(left) \cup Range(grand)
        BY <3>1, <3>3, ConcatIs
      <3>5. Moved(M, m, x) = SetKids(M[x], left \o grand)
        BY <2>2 DEF Moved, left, grand
      <3> DEFINE all == left \o grand
      <3> HIDE DEF all
      <3>6. /\ Moved(M, m, x) = SetKids(M[x], all) /\ all \in Seq(LaterThan(x))
            /\ Range(all) = (Kids(M, x) \ {m}) \cup Grand(M, m)
        BY <3>1, <3>4, <3>5, <1>2 DEF all
      <3>7. /\ SetKids(M[x], all) \in MessageOf(x)
            /\ SetKids(M[x], all).parent = M[x].parent /\ SetKids(M[x], all).kids = all
        BY <2>1, <3>6, SetIs
      <3> QED BY <2>2, <3>6, <3>7
    <2>3. CASE x # up /\ x \in Grand(M, m)
      <3>1. up \in 0 .. x - 1
        <4>1. PICK k \in Kids(M, m) \cap DOMAIN M : x \in Kids(M, k)
          BY <2>3 DEF Grand
        <4>2. m < k /\ k \in Nat /\ k < x
          BY <1>1, <4>1, MessageIs
        <4> QED BY <1>4, <2>1, <4>2
      <3>2. Moved(M, m, x) = SetParent(M[x], up)
        BY <2>3 DEF Moved
      <3> HIDE DEF up
      <3>3. /\ SetParent(M[x], up) \in MessageOf(x)
            /\ SetParent(M[x], up).parent = up /\ SetParent(M[x], up).kids = M[x].kids
        BY <2>1, <3>1, SetIs
      <3> QED BY <2>3, <3>2, <3>3 DEF Kids
    <2>4. CASE x # up /\ x \notin Grand(M, m)
      <3>1. Moved(M, m, x) = M[x]
        BY <2>4 DEF Moved
      <3> QED BY <2>1, <2>4, <3>1 DEF Kids
    <2> QED BY <2>2, <2>3, <2>4
  <1>6. c \in 0 .. MaxMessages
    <2>1. c \in DOMAIN moved \/ c = 0
      BY DEF LastLeaf
    <2>2. DOMAIN moved \subseteq Ids
      BY <1>1 DEF MessagesShaped
    <2> QED BY <1>1, <2>1, <2>2 DEF Ids
  <1> HIDE DEF c, up
  <1>7. DOMAIN moved = rest /\ \A x \in rest : moved[x] = Moved(M, m, x)
    OBVIOUS
  <1>8. moved = [x \in DOMAIN moved |-> moved[x]] /\ rest \subseteq Ids
    BY <1>1 DEF MessagesShaped
  <1> HIDE DEF moved, rest
  <1>9. MessagesShaped(moved)
    BY <1>5, <1>7, <1>8 DEF MessagesShaped
  <1>10. /\ DeleteFrom(h, m).msgs = moved /\ DeleteFrom(h, m).current = c
         /\ DeleteFrom(h, m) = [msgs |-> moved, current |-> c]
    BY <1>3
  <1>11. HistoryShaped(DeleteFrom(h, m))
    BY <1>6, <1>9, <1>10 DEF HistoryShaped
  <1>12. ASSUME NEW x \in rest
         PROVE  /\ moved[x].parent = IF x \in Grand(M, m) /\ x # up THEN up ELSE M[x].parent
                /\ Kids(moved, x) = IF x = up THEN (Kids(M, x) \ {m}) \cup Grand(M, m)
                                    ELSE Kids(M, x)
    BY <1>5, <1>7, <1>12 DEF Kids
  <1>13. Deleted(M, m, moved)
    BY <1>7, <1>12 DEF Deleted, up, rest
  <1> QED BY <1>10, <1>11, <1>13

\* Of two histories the new one counts; children are those that name a message.
LEMMA MergeIs ==
  ASSUME NEW old, HistoryShaped(old), NEW new, HistoryShaped(new)
  PROVE  LET M == MergeHistory(old, new).msgs
         IN /\ HistoryShaped(MergeHistory(old, new))
            /\ DOMAIN M = DOMAIN old.msgs \cup DOMAIN new.msgs
            /\ \A x \in DOMAIN M :
                 /\ M[x].parent = IF x \in DOMAIN new.msgs THEN new.msgs[x].parent
                                  ELSE old.msgs[x].parent
                 /\ Kids(M, x) = {y \in DOMAIN M : M[y].parent = x}
  <1> DEFINE ids == DOMAIN old.msgs \cup DOMAIN new.msgs
             both == [x \in ids |-> IF x \in DOMAIN new.msgs THEN new.msgs[x] ELSE old.msgs[x]]
             children(x) == InOrder({y \in ids : both[y].parent = x})
             all == [x \in ids |-> SetKids(both[x], children(x))]
             c == IF new.current \in ids THEN new.current
                  ELSE IF old.current \in ids THEN old.current ELSE 0
  <1>1. MergeHistory(old, new) = [msgs |-> all, current |-> c]
    BY DEF MergeHistory, SetKids
  <1>2. MessagesShaped(old.msgs) /\ MessagesShaped(new.msgs) /\ MaxMessages \in Nat
    BY ChatConstants DEF HistoryShaped
  <1>3. ids \subseteq Ids
    BY <1>2 DEF MessagesShaped
  <1>4. ASSUME NEW x \in ids
        PROVE  /\ both[x] \in MessageOf(x) /\ both[x].parent < x
               /\ x \in Nat /\ both[x].parent \in Nat
               /\ both[x].parent = IF x \in DOMAIN new.msgs THEN new.msgs[x].parent
                                   ELSE old.msgs[x].parent
    BY <1>2, MessageIs
  <1> HIDE DEF both, ids, c
  <1>5. ASSUME NEW x \in ids
        PROVE  /\ children(x) \in Seq(LaterThan(x))
               /\ Range(children(x)) = {y \in ids : both[y].parent = x}
    <2> DEFINE S == {y \in ids : both[y].parent = x}
    <2>1. S \subseteq Ids
      BY <1>3
    <2>2. S \subseteq LaterThan(x)
      <3>1. ASSUME NEW y \in S PROVE y \in LaterThan(x)
        <4>1. y \in Ids /\ y \in Nat /\ x < y /\ x \in Nat
          BY <1>3, <1>4, <3>1
        <4> QED BY <4>1, <1>2 DEF LaterThan, Ids
      <3> QED BY <3>1
    <2> HIDE DEF S
    <2>3. InOrder(S) \in Seq(S) /\ Range(InOrder(S)) = S
      BY <2>1, InOrderOf
    <2>4. InOrder(S) \in Seq(LaterThan(x))
      BY <2>2, <2>3, SeqMonotonic
    <2> QED BY <2>3, <2>4 DEF S
  <1> HIDE DEF children
  <1>6. ASSUME NEW x \in ids
        PROVE  /\ all[x] \in MessageOf(x) /\ all[x].parent = both[x].parent
               /\ all[x].kids = children(x)
    <2>1. all[x] = SetKids(both[x], children(x))
      BY <1>6
    <2> DEFINE y == both[x]
               k == children(x)
    <2>2. y \in MessageOf(x) /\ k \in Seq(LaterThan(x))
      BY <1>4, <1>5
    <2> HIDE DEF y, k
    <2>3. /\ SetKids(y, k) \in MessageOf(x) /\ SetKids(y, k).parent = y.parent
          /\ SetKids(y, k).kids = k
      BY <2>2, SetIs
    <2> QED BY <2>1, <2>3 DEF y, k
  <1>7. DOMAIN all = ids /\ all = [x \in DOMAIN all |-> all[x]]
    OBVIOUS
  <1> HIDE DEF all
  <1>8. MessagesShaped(all)
    BY <1>3, <1>6, <1>7 DEF MessagesShaped
  <1>9. c \in 0 .. MaxMessages
    <2>1. c \in ids \/ c = 0
      BY DEF c
    <2>2. \A x \in ids : x \in 0 .. MaxMessages
      BY <1>2, <1>3 DEF Ids
    <2>3. 0 \in 0 .. MaxMessages
      BY <1>2
    <2> QED BY <2>1, <2>2, <2>3
  <1>10. /\ MergeHistory(old, new).msgs = all /\ MergeHistory(old, new).current = c
         /\ MergeHistory(old, new) = [msgs |-> all, current |-> c]
    BY <1>1
  <1>11. HistoryShaped(MergeHistory(old, new))
    BY <1>8, <1>9, <1>10 DEF HistoryShaped
  <1>12. \A x \in ids : Kids(all, x) = {y \in ids : all[y].parent = x}
    BY <1>5, <1>6 DEF Kids
  <1>13. DOMAIN all = DOMAIN old.msgs \cup DOMAIN new.msgs
    BY <1>7 DEF ids
  <1>14. \A x \in ids : all[x].parent = IF x \in DOMAIN new.msgs THEN new.msgs[x].parent
                                        ELSE old.msgs[x].parent
    BY <1>4, <1>6
  <1>15. MergeHistory(old, new).msgs = all
    BY <1>10
  <1> QED BY ONLY <1>7, <1>11, <1>12, <1>13, <1>14, <1>15

\* A message is saved, or gets children, in a history (Upsert).
LEMMA UpsertIs ==
  ASSUME NEW h, HistoryShaped(h), NEW step, step.do \in {"save", "link"}, step.msg \in Ids,
         step.do = "save" => step.text \in 0 .. MaxText,
         step.do = "link" => step.kids \in Seq(LaterThan(step.msg)),
         NEW p \in 0 .. step.msg - 1
  PROVE  LET u == Upsert(h, step, p)
             m == step.msg
         IN /\ HistoryShaped(u) /\ DOMAIN u.msgs = DOMAIN h.msgs \cup {m}
            /\ \A x \in DOMAIN h.msgs : x # m => u.msgs[x] = h.msgs[x]
            /\ m \in DOMAIN h.msgs => u.msgs[m].parent = h.msgs[m].parent
            /\ m \notin DOMAIN h.msgs => \/ u.msgs[m].parent = p
                                         \/ /\ p = 0 /\ u.msgs[m].parent \in DOMAIN h.msgs
                                            /\ m \in Kids(h.msgs, u.msgs[m].parent)
            /\ Kids(u.msgs, m) = IF step.do = "link" THEN Range(step.kids)
                                 ELSE IF m \in DOMAIN h.msgs THEN Kids(h.msgs, m) ELSE {}
  <1> DEFINE m == step.msg
             M == h.msgs
             listing == {x \in DOMAIN M : m \in Kids(M, x)}
             up == IF p # 0 \/ listing = {} THEN p ELSE Min(listing)
             old == IF m \in DOMAIN M THEN M[m] ELSE [parent |-> up, kids |-> <<>>, text |-> 0]
             put == IF step.do = "save" THEN SetText(old, step.text) ELSE SetKids(old, step.kids)
             all == [x \in DOMAIN M \cup {m} |-> IF x = m THEN put ELSE M[x]]
  <1>1. Upsert(h, step, p) = [msgs |-> all, current |-> m]
    BY DEF Upsert, Patched, SetText, SetKids, Kids
  <1>2. MessagesShaped(M) /\ MaxMessages \in Nat /\ MaxText \in Nat /\ m \in Nat
    BY ChatConstants DEF HistoryShaped, Ids
  <1>3. up \in 0 .. m - 1 /\ (up = p \/ (p = 0 /\ up \in listing))
    <2>1. CASE p # 0 \/ listing = {}
      BY <2>1
    <2>2. CASE p = 0 /\ listing # {}
      <3>1. listing \subseteq 0 .. MaxMessages
        BY <1>2 DEF MessagesShaped, Ids
      <3>2. up = Min(listing)
        BY <2>2
      <3> HIDE DEF listing, up
      <3>3. up \in listing
        BY <1>2, <2>2, <3>1, <3>2, Extremes
      <3>4. \A x \in listing : x \in Nat /\ x < m
        BY <1>2, MessageIs DEF listing
      <3> QED BY <1>2, <2>2, <3>3, <3>4
    <2> QED BY <2>1, <2>2
  <1> HIDE DEF up
  <1>4. /\ old \in MessageOf(m)
        /\ old.parent = IF m \in DOMAIN M THEN M[m].parent ELSE up
        /\ Range(old.kids) = IF m \in DOMAIN M THEN Kids(M, m) ELSE {}
    <2>1. CASE m \in DOMAIN M
      BY <1>2, <2>1, MessageIs DEF Kids
    <2>2. CASE m \notin DOMAIN M
      <3> DEFINE new == [parent |-> up, kids |-> <<>>, text |-> 0]
      <3>1. <<>> \in Seq(LaterThan(m)) /\ 0 \in 0 .. MaxText /\ Range(<<>>) = {}
        BY <1>2 DEF Range
      <3>2. new \in MessageOf(m) /\ new.parent = up /\ new.kids = <<>>
        BY <1>3, <3>1 DEF MessageOf
      <3>3. old = new
        BY <2>2
      <3> HIDE DEF new, old
      <3> QED BY <2>2, <3>1, <3>2, <3>3
    <2> QED BY <2>1, <2>2
  <1> HIDE DEF old
  <1>5. /\ put \in MessageOf(m) /\ put.parent = old.parent
        /\ Range(put.kids) = IF step.do = "link" THEN Range(step.kids) ELSE Range(old.kids)
    <2>1. CASE step.do = "save"
      <3> DEFINE t == step.text
      <3>1. t \in 0 .. MaxText /\ put = SetText(old, t)
        BY <2>1
      <3> HIDE DEF t, put
      <3>2. /\ SetText(old, t) \in MessageOf(m) /\ SetText(old, t).parent = old.parent
            /\ SetText(old, t).kids = old.kids
        BY <1>4, <3>1, SetIs
      <3> QED BY <2>1, <3>1, <3>2
    <2>2. CASE step.do = "link"
      <3> DEFINE k == step.kids
      <3>1. k \in Seq(LaterThan(m)) /\ put = SetKids(old, k)
        BY <2>2
      <3> HIDE DEF put
      <3>2. /\ SetKids(old, k) \in MessageOf(m) /\ SetKids(old, k).parent = old.parent
            /\ SetKids(old, k).kids = k
        <4> HIDE DEF k
        <4> QED BY <1>4, <3>1, SetIs
      <3> QED BY <2>2, <3>1, <3>2
    <2> QED BY <2>1, <2>2
  <1> HIDE DEF put
  <1>6. /\ DOMAIN all = DOMAIN M \cup {m} /\ all = [x \in DOMAIN all |-> all[x]]
        /\ all[m] = put /\ \A x \in DOMAIN M : x # m => all[x] = M[x]
    OBVIOUS
  <1> HIDE DEF all
  <1>7. MessagesShaped(all)
    BY <1>2, <1>5, <1>6 DEF MessagesShaped
  <1>8. /\ Upsert(h, step, p).msgs = all /\ Upsert(h, step, p).current = m
        /\ Upsert(h, step, p) = [msgs |-> all, current |-> m]
    BY <1>1
  <1>9. HistoryShaped(Upsert(h, step, p))
    <2>1. m \in 0 .. MaxMessages
      BY <1>2 DEF Ids
    <2> QED BY <1>7, <1>8, <2>1 DEF HistoryShaped
  <1>10. /\ m \in DOMAIN M => all[m].parent = M[m].parent
         /\ m \notin DOMAIN M => \/ all[m].parent = p
                                 \/ /\ p = 0 /\ all[m].parent \in DOMAIN M
                                    /\ m \in Kids(M, all[m].parent)
    BY <1>3, <1>4, <1>5, <1>6
  <1>11. Kids(all, m) = IF step.do = "link" THEN Range(step.kids)
                        ELSE IF m \in DOMAIN M THEN Kids(M, m) ELSE {}
    BY <1>4, <1>5, <1>6 DEF Kids
  <1>12. Upsert(h, step, p).msgs = all
    BY <1>8
  <1> QED BY ONLY <1>6, <1>9, <1>10, <1>11, <1>12

-----------------------------------------------------------------------------
(* The steps of a script.                                                  *)

\* Steps and scripts, and the phases each step goes through.
StepShaped(x) ==
    /\ x.do \in {"save", "link", "touch", "delete", "update", "read"}
    /\ x.do \in {"save", "link", "delete"} => x.msg \in Ids
    /\ x.do = "save" => x.parent \in 0 .. x.msg - 1 /\ x.text \in 0 .. MaxText
    /\ x.do = "link" => x = Link(x.msg, x.kids) /\ x.kids \in Seq(LaterThan(x.msg))
    /\ x.do = "update" => HistoryShaped(x.incoming)

ScriptShaped(s) ==
    /\ s # <<>> /\ s \in Seq(Range(s))
    /\ \A j \in DOMAIN s : StepShaped(s[j])
    /\ Wholesale(s) => Len(s) = 1

PhasesOf(x) ==
    CASE x.do = "save"   -> {"load", "row", "blob"}
      [] x.do = "link"   -> {"peek", "load", "row", "blob"}
      [] x.do = "touch"  -> {"load", "blob"}
      [] x.do = "delete" -> {"load", "blob", "fill"}
      [] x.do = "update" -> {"load", "blob", "fill"}
      [] x.do = "read"   -> {"rows", "gap", "fill"}

\* The phases of each step.
LEMMA PhasesAre ==
  ASSUME NEW x
  PROVE  /\ x.do = "save"   => PhasesOf(x) = {"load", "row", "blob"}
         /\ x.do = "link"   => PhasesOf(x) = {"peek", "load", "row", "blob"}
         /\ x.do = "touch"  => PhasesOf(x) = {"load", "blob"}
         /\ x.do = "delete" => PhasesOf(x) = {"load", "blob", "fill"}
         /\ x.do = "update" => PhasesOf(x) = {"load", "blob", "fill"}
         /\ x.do = "read"   => PhasesOf(x) = {"rows", "gap", "fill"}
  BY DEF PhasesOf

\* What a script is made of.
LEMMA ScriptIs ==
  ASSUME NEW s, ScriptShaped(s)
  PROVE  /\ Len(s) \in Nat /\ Len(s) > 0 /\ DOMAIN s = 1 .. Len(s)
         /\ 1 \in DOMAIN s /\ Head(s) = s[1] /\ StepShaped(Head(s))
         /\ Head(s).do \in {"delete", "update", "read"} => Len(s) = 1
         /\ Len(Tail(s)) = Len(s) - 1 /\ DOMAIN Tail(s) = 1 .. Len(s) - 1
         /\ \A j \in 1 .. Len(s) - 1 : Tail(s)[j] = s[j + 1] /\ j + 1 \in DOMAIN s
         /\ (Tail(s) = <<>>) <=> (Len(s) = 1)
  <1>1. s \in Seq(Range(s)) /\ s # <<>>
    BY DEF ScriptShaped
  <1>2. Len(s) \in Nat /\ DOMAIN s = 1 .. Len(s)
    BY <1>1
  <1>3. Len(s) > 0
    BY <1>1, <1>2, EmptySeq
  <1>4. 1 \in DOMAIN s /\ Head(s) = s[1]
    BY <1>1, <1>2, <1>3
  <1>5. StepShaped(Head(s)) /\ (Head(s).do \in {"delete", "update", "read"} => Len(s) = 1)
    BY <1>4 DEF ScriptShaped, Wholesale
  <1>6. /\ Tail(s) \in Seq(Range(s)) /\ Len(Tail(s)) = Len(s) - 1
        /\ \A i \in 1 .. Len(Tail(s)) : Tail(s)[i] = s[i + 1]
    BY <1>1, HeadTailProperties
  <1>7. DOMAIN Tail(s) = 1 .. Len(s) - 1
    BY <1>6
  <1>8. (Tail(s) = <<>>) <=> (Len(s) = 1)
    <2>1. Len(Tail(s)) = 0 <=> Len(s) = 1
      BY <1>2, <1>6
    <2>2. Tail(s) = <<>> <=> Len(Tail(s)) = 0
      BY <1>6, EmptySeq
    <2> QED BY <2>1, <2>2
  <1>9. \A j \in 1 .. Len(s) - 1 : Tail(s)[j] = s[j + 1] /\ j + 1 \in DOMAIN s
    BY <1>2, <1>6
  <1>10. Len(Tail(s)) = Len(s) - 1
    BY <1>6
  <1> QED BY ONLY <1>2, <1>3, <1>4, <1>5, <1>7, <1>8, <1>9, <1>10

\* A sequence is one over its own members.
LEMMA OwnMembers ==
  ASSUME NEW A, NEW s \in Seq(A)
  PROVE  s \in Seq(Range(s))
  <1>1. s = [i \in 1 .. Len(s) |-> s[i]] /\ Len(s) \in Nat /\ DOMAIN s = 1 .. Len(s)
    OBVIOUS
  <1>2. \A i \in 1 .. Len(s) : s[i] \in Range(s)
    BY <1>1 DEF Range
  <1> QED BY <1>1, <1>2

\* The rest of a script is a script.
LEMMA RestShaped ==
  ASSUME NEW s, ScriptShaped(s), Tail(s) # <<>>
  PROVE  ScriptShaped(Tail(s))
  <1>1. /\ Len(s) \in Nat /\ Len(s) > 0 /\ DOMAIN Tail(s) = 1 .. Len(s) - 1
        /\ \A j \in 1 .. Len(s) - 1 : Tail(s)[j] = s[j + 1] /\ j + 1 \in DOMAIN s
        /\ Len(s) # 1
    BY ScriptIs
  <1>2. ~Wholesale(s)
    BY <1>1 DEF ScriptShaped
  <1>3. ~Wholesale(Tail(s))
    BY <1>1, <1>2 DEF Wholesale
  <1>4. \A j \in DOMAIN Tail(s) : StepShaped(Tail(s)[j])
    BY <1>1 DEF ScriptShaped
  <1>5. Tail(s) \in Seq(Range(s))
    BY HeadTailProperties DEF ScriptShaped
  <1>6. Tail(s) \in Seq(Range(Tail(s)))
    BY <1>5, OwnMembers
  <1> QED BY <1>3, <1>4, <1>6 DEF ScriptShaped

\* The children that a link adds to are filled in (Peek).
WithLink(s, k) == [s EXCEPT ![1].kids = k]

\* A link that has read the children is still a step of its script.
LEMMA RelinkShaped ==
  ASSUME NEW s, ScriptShaped(s), Head(s).do = "link", NEW k \in Seq(LaterThan(Head(s).msg)),
         NEW t, t = WithLink(s, k)
  PROVE  /\ ScriptShaped(t) /\ DOMAIN t = DOMAIN s /\ Head(t) = Link(Head(s).msg, k)
         /\ t[1] = Link(Head(s).msg, k) /\ \A j \in DOMAIN s : j # 1 => t[j] = s[j]
  <1>1. /\ Len(s) \in Nat /\ Len(s) > 0 /\ DOMAIN s = 1 .. Len(s) /\ 1 \in DOMAIN s
        /\ Head(s) = s[1] /\ StepShaped(Head(s))
    BY ScriptIs
  <1>2. Head(s) = Link(Head(s).msg, Head(s).kids) /\ Head(s).msg \in Ids
    BY <1>1 DEF StepShaped
  <1> DEFINE x == Link(Head(s).msg, k)
  <1>3. [s[1] EXCEPT !.kids = k] = x
    <2>1. s[1] = [do |-> "link", msg |-> Head(s).msg, kids |-> Head(s).kids]
      BY <1>1, <1>2 DEF Link
    <2> QED BY <2>1 DEF Link
  <1>4. t = [s EXCEPT ![1] = x]
    BY <1>3 DEF WithLink
  <1>5. StepShaped(x) /\ x.do = "link"
    BY <1>2 DEF StepShaped, Link
  <1> HIDE DEF x
  <1>6. s \in Seq(Range(s) \cup {x})
    BY SeqMonotonic DEF ScriptShaped
  <1>7. /\ t \in Seq(Range(s) \cup {x}) /\ Len(t) = Len(s)
        /\ \A j \in 1 .. Len(s) : t[j] = IF j = 1 THEN x ELSE s[j]
    BY <1>1, <1>4, <1>6, ExceptSeq
  <1>8. DOMAIN t = 1 .. Len(s) /\ t # <<>> /\ Head(t) = t[1]
    BY <1>1, <1>7, EmptySeq
  <1>9. t \in Seq(Range(t))
    BY <1>7, OwnMembers
  <1>10. \A j \in DOMAIN t : StepShaped(t[j])
    BY <1>1, <1>5, <1>7, <1>8 DEF ScriptShaped
  <1>11. Wholesale(t) => Len(t) = 1
    <2>1. Wholesale(t) => Wholesale(s)
      BY <1>1, <1>5, <1>7, <1>8 DEF Wholesale
    <2> QED BY <2>1, <1>7 DEF ScriptShaped
  <1>12. ScriptShaped(t)
    BY <1>8, <1>9, <1>10, <1>11 DEF ScriptShaped
  <1> QED BY <1>1, <1>7, <1>8, <1>12 DEF x

-----------------------------------------------------------------------------
(* What a writer is doing.                                                 *)

\* A run, field by field, and what it holds in each phase.
RunOf(s, a, c, l, g, b) ==
    [script |-> s, at |-> a, copy |-> c, left |-> l, gone |-> g, alone |-> b]

RunShaped(r) ==
    /\ r = RunOf(r.script, r.at, r.copy, r.left, r.gone, r.alone)
    /\ HistoryShaped(r.copy) /\ r.left \subseteq Ids /\ r.gone \subseteq Ids /\ r.alone \in BOOLEAN
    /\ r.at # "idle" =>
        /\ ScriptShaped(r.script)
        /\ r.at \in PhasesOf(Head(r.script))
        /\ r.at = "row" => Head(r.script).msg \in DOMAIN r.copy.msgs
        /\ r.at = "fill" => r.left \subseteq DOMAIN r.copy.msgs
        /\ r.at \in {"row", "blob"} /\ Head(r.script).do # "delete" => r.gone = {}

\* A writer at the beginning of a script, in the middle of a step, and after
\* a step (Begin, Goto, Finish).
Restarted(r, s, a, b) == [r EXCEPT !.script = s, !.at = a, !.alone = b]
Entering(s, b) == Restarted(Idle, s, FirstPhase(Head(s)), b)
InStep(r, a, c, l, g) == [r EXCEPT !.at = a, !.copy = c, !.left = l, !.gone = g]
Done(r) == IF Tail(r.script) = <<>> THEN Idle ELSE Entering(Tail(r.script), r.alone)
NotAlone(r) == [r EXCEPT !.alone = FALSE]

\* A chat without messages is a history.
LEMMA EmptyShaped ==
  HistoryShaped(EmptyHistory) /\ EmptyHistory.msgs = <<>> /\ DOMAIN EmptyHistory.msgs = {}
  <1>1. EmptyHistory = [msgs |-> <<>>, current |-> 0] /\ MaxMessages \in Nat
    BY ChatConstants DEF EmptyHistory
  <1>2. EmptyHistory.msgs = <<>> /\ EmptyHistory.current = 0 /\ DOMAIN EmptyHistory.msgs = {}
    BY <1>1
  <1>3. MessagesShaped(<<>>)
    BY DEF MessagesShaped
  <1>4. 0 \in 0 .. MaxMessages
    BY <1>1
  <1> QED BY <1>1, <1>2, <1>3, <1>4 DEF HistoryShaped

\* The fields of a run that is given field by field.
LEMMA RunOfIs ==
  ASSUME NEW s, NEW a, NEW c, NEW l, NEW g, NEW b, NEW r, r = RunOf(s, a, c, l, g, b)
  PROVE  /\ r.script = s /\ r.at = a /\ r.copy = c /\ r.left = l /\ r.gone = g /\ r.alone = b
         /\ r = RunOf(r.script, r.at, r.copy, r.left, r.gone, r.alone)
  BY DEF RunOf

\* The fields of a run in the middle of a step.
LEMMA DoingIs ==
  ASSUME NEW old, RunShaped(old), NEW a, NEW c, NEW l, NEW g
  PROVE  InStep(old, a, c, l, g) = RunOf(old.script, a, c, l, g, old.alone)
  <1>1. old = RunOf(old.script, old.at, old.copy, old.left, old.gone, old.alone)
    BY DEF RunShaped
  <1>2. PICK r : r = InStep(old, a, c, l, g)
    OBVIOUS
  <1>3. r = RunOf(old.script, a, c, l, g, old.alone)
    BY <1>1, <1>2 DEF RunOf, InStep
  <1> QED BY <1>2, <1>3

\* The fields of a run that enters a script.
LEMMA RestartIs ==
  ASSUME NEW i, NEW x, NEW y, NEW z, NEW c, NEW l, NEW g, i = RunOf(x, y, c, l, g, z),
         NEW s, NEW a, NEW b, NEW r, r = Restarted(i, s, a, b)
  PROVE  r = RunOf(s, a, c, l, g, b)
  BY DEF RunOf, Restarted

\* A run that is no longer alone is otherwise the same.
LEMMA JoinedIs ==
  ASSUME NEW old, RunShaped(old)
  PROVE  /\ RunShaped(NotAlone(old)) /\ NotAlone(old).script = old.script
         /\ NotAlone(old).at = old.at /\ NotAlone(old).alone = FALSE
  <1>1. old = RunOf(old.script, old.at, old.copy, old.left, old.gone, old.alone)
    BY DEF RunShaped
  <1>2. PICK r : r = NotAlone(old)
    OBVIOUS
  <1>3. r = RunOf(old.script, old.at, old.copy, old.left, old.gone, FALSE)
    BY <1>1, <1>2 DEF RunOf, NotAlone
  <1>4. /\ r.script = old.script /\ r.at = old.at /\ r.copy = old.copy /\ r.left = old.left
        /\ r.gone = old.gone /\ r.alone = FALSE
        /\ r = RunOf(r.script, r.at, r.copy, r.left, r.gone, r.alone)
    BY <1>3 DEF RunOf
  <1>5. RunShaped(r)
    BY <1>4 DEF RunShaped
  <1> QED BY <1>2, <1>4, <1>5

\* The first phase of a step is one of its phases.
LEMMA FirstPhaseIs ==
  ASSUME NEW x, StepShaped(x)
  PROVE  /\ FirstPhase(x) \in PhasesOf(x) /\ FirstPhase(x) \in {"peek", "rows", "load"}
         /\ FirstPhase(x) = "peek" <=> x.do = "link"
         /\ FirstPhase(x) = "rows" <=> x.do = "read"
  <1>1. x.do \in {"save", "link", "touch", "delete", "update", "read"}
    BY DEF StepShaped
  <1> QED BY <1>1, PhasesAre DEF FirstPhase

\* What a writer that does nothing is.
LEMMA IdleIs ==
  /\ RunShaped(Idle) /\ Idle.at = "idle" /\ Idle.alone = FALSE
  /\ Idle = RunOf(Idle.script, Idle.at, EmptyHistory, {}, {}, Idle.alone)
  <1>1. /\ Idle.at = "idle" /\ Idle.copy = EmptyHistory /\ Idle.left = {} /\ Idle.gone = {}
        /\ Idle.alone = FALSE
        /\ Idle = [script |-> Idle.script, at |-> Idle.at, copy |-> Idle.copy, left |-> Idle.left,
                   gone |-> Idle.gone, alone |-> Idle.alone]
    BY DEF Idle
  <1>2. Idle = RunOf(Idle.script, Idle.at, Idle.copy, Idle.left, Idle.gone, Idle.alone)
    BY <1>1 DEF RunOf
  <1>3. Idle = RunOf(Idle.script, Idle.at, EmptyHistory, {}, {}, Idle.alone)
    BY <1>1, <1>2
  <1> QED BY <1>1, <1>2, <1>3, EmptyShaped DEF RunShaped

\* What a writer at the beginning of a script is.
LEMMA StartingIs ==
  ASSUME NEW s, ScriptShaped(s), NEW b \in BOOLEAN
  PROVE  /\ RunShaped(Entering(s, b)) /\ Entering(s, b).script = s
         /\ Entering(s, b).at = FirstPhase(Head(s)) /\ Entering(s, b).alone = b
         /\ Entering(s, b).at \in {"peek", "rows", "load"}
  <1>2. PICK r : r = Entering(s, b)
    OBVIOUS
  <1>3. PICK p : p = FirstPhase(Head(s))
    OBVIOUS
  <1>4. r = RunOf(s, p, EmptyHistory, {}, {}, b)
    <2>1. PICK i, x, y, z, c, l, g :
             /\ i = Idle /\ i = RunOf(x, y, c, l, g, z)
             /\ c = EmptyHistory /\ l = {} /\ g = {}
      BY IdleIs
    <2>2. r = Restarted(i, s, p, b)
      BY <1>2, <1>3, <2>1 DEF Entering
    <2>3. r = RunOf(s, p, c, l, g, b)
      BY <2>1, <2>2, RestartIs
    <2> QED BY <2>1, <2>3
  <1>5. /\ r.script = s /\ r.at = p /\ r.copy = EmptyHistory /\ r.left = {} /\ r.gone = {}
        /\ r.alone = b /\ r = RunOf(r.script, r.at, r.copy, r.left, r.gone, r.alone)
    BY <1>4, RunOfIs
  <1>6. p \in PhasesOf(Head(s)) /\ p \in {"peek", "rows", "load"}
    BY <1>3, ScriptIs, FirstPhaseIs
  <1>7. RunShaped(r)
    BY <1>5, <1>6, EmptyShaped DEF RunShaped
  <1> QED BY <1>2, <1>3, <1>5, <1>6, <1>7

\* What a writer after a step is.
LEMMA DoneIs ==
  ASSUME NEW r, RunShaped(r), r.at # "idle"
  PROVE  /\ RunShaped(Done(r)) /\ (Done(r).alone => r.alone)
         /\ Done(r).at \in {"idle", "peek", "rows", "load"}
         /\ Done(r).at = "idle" <=> Tail(r.script) = <<>>
         /\ Done(r).at # "idle" => /\ Done(r).script = Tail(r.script)
                                   /\ Done(r).at = FirstPhase(Head(Tail(r.script)))
  <1>1. ScriptShaped(r.script) /\ r.alone \in BOOLEAN
    BY DEF RunShaped
  <1>2. CASE Tail(r.script) = <<>>
    BY <1>2, IdleIs DEF Done
  <1>3. CASE Tail(r.script) # <<>>
    <2> DEFINE s == Tail(r.script)
               b == r.alone
    <2>1. ScriptShaped(s) /\ Done(r) = Entering(s, b)
      BY <1>1, <1>3, RestShaped DEF Done
    <2> HIDE DEF s, b
    <2>2. /\ RunShaped(Entering(s, b)) /\ Entering(s, b).script = s
          /\ Entering(s, b).at = FirstPhase(Head(s)) /\ Entering(s, b).alone = b
          /\ Entering(s, b).at \in {"peek", "rows", "load"}
      BY <1>1, <2>1, StartingIs DEF b
    <2> QED BY <1>3, <2>1, <2>2 DEF s, b
  <1> QED BY <1>2, <1>3

\* The step of a writer, by its phase.
LEMMA RunIs ==
  ASSUME NEW r, RunShaped(r), r.at # "idle"
  PROVE  /\ ScriptShaped(r.script) /\ StepShaped(Head(r.script)) /\ HistoryShaped(r.copy)
         /\ r.at = "peek" => Head(r.script).do = "link"
         /\ r.at = "row" => Head(r.script).do \in {"save", "link"}
         /\ r.at \in {"load", "blob"} => Head(r.script).do # "read"
         /\ r.at = "fill" => Head(r.script).do \in {"delete", "update", "read"}
         /\ r.at \in {"rows", "gap"} => Head(r.script).do = "read"
  <1>1. ScriptShaped(r.script) /\ r.at \in PhasesOf(Head(r.script)) /\ HistoryShaped(r.copy)
    BY DEF RunShaped
  <1>2. StepShaped(Head(r.script))
    BY <1>1, ScriptIs
  <1>3. Head(r.script).do \in {"save", "link", "touch", "delete", "update", "read"}
    BY <1>2 DEF StepShaped
  <1> QED BY <1>1, <1>2, <1>3, PhasesAre

-----------------------------------------------------------------------------
(* What is stored, and what the writers are doing, in every state.         *)

\* The rows, the runs and the deletions noted have their types; a writer that
\* is alone is the only one.
RowsShaped ==
    /\ DOMAIN rows \subseteq Ids
    /\ \A m \in DOMAIN rows : rows[m] \in [parent : 0 .. m - 1, text : 0 .. MaxText]

RunsShaped ==
    /\ run = [w \in Writers |-> run[w]] /\ \A w \in Writers : RunShaped(run[w])
    /\ \A w, v \in Busy : run[w].alone => w = v

DeletionsShaped ==
    /\ DOMAIN removed \subseteq Ids /\ \A m \in DOMAIN removed : removed[m] \in 0 .. created
    /\ returned \subseteq DOMAIN removed

Shapes ==
    /\ HistoryShaped(blob) /\ HistoryShaped(tab)
    /\ RowsShaped /\ RunsShaped /\ DeletionsShaped
    /\ created \in 0 .. MaxMessages /\ texts \in [Ids -> 0 .. MaxText]

\* One writer moves.
Becomes(w, r) == run' = [run EXCEPT ![w] = r]

\* Runs keep their types, and nobody else begins, when one writer moves.
LEMMA RunsKept ==
  ASSUME RunsShaped, NEW w \in Writers, NEW r, Becomes(w, r), RunShaped(r),
         run[w].at # "idle", r.alone => run[w].alone
  PROVE  /\ RunsShaped' /\ run'[w] = r /\ \A v \in Writers : v # w => run'[v] = run[v]
         /\ w \in Busy /\ Busy' \subseteq Busy /\ Busy \subseteq Busy' \cup {w}
         /\ w \in Busy' <=> r.at # "idle"
  <1>1. /\ run'[w] = r /\ \A v \in Writers : v # w => run'[v] = run[v]
        /\ run' = [v \in Writers |-> run'[v]]
    BY DEF RunsShaped, Becomes
  <1>2. \A v \in Writers : RunShaped(run'[v])
    BY <1>1 DEF RunsShaped
  <1>3. w \in Busy /\ Busy' \subseteq Busy /\ Busy \subseteq Busy' \cup {w}
    BY <1>1 DEF Busy
  <1>4. \A v, u \in Busy' : run'[v].alone => v = u
    BY <1>1, <1>3 DEF RunsShaped, Busy
  <1>5. w \in Busy' <=> r.at # "idle"
    BY <1>1 DEF Busy
  <1> QED BY <1>1, <1>2, <1>3, <1>4, <1>5 DEF RunsShaped

\* A step ends (Finish).
LEMMA FinishIs ==
  ASSUME RunsShaped, NEW w \in Writers, run[w].at # "idle", Finish(w)
  PROVE  \E r : /\ r = Done(run[w]) /\ Becomes(w, r) /\ RunShaped(r)
                /\ r.alone => run[w].alone
                /\ healed' = IF run[w].alone /\ Step(w).do \in {"update", "read"} THEN Step(w).do
                             ELSE "nothing"
  <1>1. RunShaped(run[w])
    BY DEF RunsShaped
  <1>2. run' = [run EXCEPT ![w] = Done(run[w])]
    <2>1. CASE Tail(run[w].script) = <<>>
      BY <2>1 DEF Finish, Done
    <2>2. CASE Tail(run[w].script) # <<>>
      <3> DEFINE s == Tail(run[w].script)
                 b == run[w].alone
      <3>1. run' = [run EXCEPT ![w] = [Idle EXCEPT !.script = s, !.alone = b,
                                                   !.at = FirstPhase(Head(s))]]
        BY <2>2 DEF Finish
      <3>2. \A i : [i EXCEPT !.script = s, !.alone = b, !.at = FirstPhase(Head(s))]
                    = Restarted(i, s, FirstPhase(Head(s)), b)
        BY DEF Restarted
      <3>3. Done(run[w]) = Restarted(Idle, s, FirstPhase(Head(s)), b)
        BY <2>2 DEF Done, Entering
      <3> QED BY <3>1, <3>2, <3>3
    <2> QED BY <2>1, <2>2
  <1>3. RunShaped(Done(run[w])) /\ (Done(run[w]).alone => run[w].alone)
    <2>1. PICK r : r = run[w] /\ RunShaped(r) /\ r.at # "idle"
      BY <1>1
    <2>2. RunShaped(Done(r)) /\ (Done(r).alone => r.alone)
      BY <2>1, DoneIs
    <2> QED BY <2>1, <2>2
  <1> QED BY <1>2, <1>3 DEF Becomes, Finish

\* A step goes on (Goto).
LEMMA GotoIs ==
  ASSUME RunsShaped, NEW w \in Writers, run[w].at # "idle",
         NEW a, NEW c, NEW l, NEW g, Goto(w, a, c, l, g),
         a # "idle", HistoryShaped(c), l \subseteq Ids, g \subseteq Ids,
         a \in PhasesOf(Step(w)),
         a = "row" => Step(w).msg \in DOMAIN c.msgs,
         a = "fill" => l \subseteq DOMAIN c.msgs,
         a \in {"row", "blob"} /\ Step(w).do # "delete" => g = {}
  PROVE  \E r : /\ Becomes(w, r) /\ RunShaped(r) /\ r.script = run[w].script /\ r.at = a
                /\ r.copy = c /\ r.left = l /\ r.gone = g /\ r.alone = run[w].alone
  <1>1. PICK old : old = run[w] /\ RunShaped(old)
    BY DEF RunsShaped
  <1>2. run' = [run EXCEPT ![w] = InStep(old, a, c, l, g)]
    <2>1. run' = [run EXCEPT ![w] = InStep(run[w], a, c, l, g)]
      BY DEF Goto, RunsShaped, InStep
    <2> QED BY <1>1, <2>1
  <1>3. PICK r : r = RunOf(old.script, a, c, l, g, old.alone)
    OBVIOUS
  <1>4. Becomes(w, r)
    BY <1>1, <1>2, <1>3, DoingIs DEF Becomes
  <1>5. /\ r.script = old.script /\ r.at = a /\ r.copy = c /\ r.left = l /\ r.gone = g
        /\ r.alone = old.alone /\ r = RunOf(r.script, r.at, r.copy, r.left, r.gone, r.alone)
    BY <1>3, RunOfIs
  <1>6. ScriptShaped(old.script) /\ old.alone \in BOOLEAN
    BY <1>1 DEF RunShaped
  <1>7. Step(w) = Head(r.script)
    BY <1>1, <1>5 DEF Step
  <1>8. RunShaped(r)
    BY <1>5, <1>6, <1>7 DEF RunShaped
  <1> QED BY <1>1, <1>4, <1>5, <1>8

-----------------------------------------------------------------------------
(* The steps of a writer.                                                  *)

\* What a writer is about to do.
LEMMA StepIs ==
  ASSUME RunsShaped, NEW w \in Writers, run[w].at # "idle"
  PROVE  /\ RunShaped(run[w]) /\ ScriptShaped(run[w].script) /\ HistoryShaped(run[w].copy)
         /\ Step(w) = Head(run[w].script) /\ StepShaped(Step(w))
         /\ run[w].at \in PhasesOf(Step(w))
         /\ run[w].at = "peek" => Step(w).do = "link"
         /\ run[w].at = "row" => Step(w).do \in {"save", "link"}
         /\ run[w].at \in {"load", "blob"} => Step(w).do # "read"
         /\ run[w].at = "fill" => Step(w).do \in {"delete", "update", "read"}
         /\ run[w].at \in {"rows", "gap"} => Step(w).do = "read"
         /\ w \in Busy
  <1>1. PICK r : r = run[w] /\ RunShaped(r) /\ r.at # "idle"
    BY DEF RunsShaped
  <1>2. Step(w) = Head(r.script) /\ w \in Busy
    BY <1>1 DEF Step, Busy
  <1> QED BY <1>1, <1>2, RunIs DEF RunShaped

\* The next phase of a step is one of its phases.
LEMMA NextPhase ==
  ASSUME NEW x, StepShaped(x)
  PROVE  /\ x.do = "link" => "load" \in PhasesOf(x)
         /\ x.do \in {"save", "link"} => "row" \in PhasesOf(x) /\ "blob" \in PhasesOf(x)
         /\ x.do \in {"touch", "delete", "update"} => "blob" \in PhasesOf(x)
         /\ x.do \in {"delete", "update", "read"} => "fill" \in PhasesOf(x)
         /\ x.do = "read" => "gap" \in PhasesOf(x)
  BY PhasesAre

\* The children of a message are read, and new ones added (Peek).
LEMMA PeekIs ==
  ASSUME Shapes, NEW w \in Writers, Peek(w)
  PROVE  /\ run[w].at # "idle" /\ HistoryShaped(blob') /\ blob'.msgs = blob.msgs
         /\ healed' \in {healed, "nothing"} /\ Step(w).do = "link"
         /\ \E r : /\ Becomes(w, r) /\ RunShaped(r) /\ (r.alone => run[w].alone)
                   /\ \/ Step(w).msg \notin DOMAIN blob.msgs /\ r = Done(run[w])
                      \/ /\ Step(w).msg \in DOMAIN blob.msgs /\ r.at = "load"
                         /\ DOMAIN r.script = DOMAIN run[w].script
                         /\ \A j \in DOMAIN r.script : j # 1 => r.script[j] = run[w].script[j]
                         /\ \E k : /\ r.script[1] = Link(Step(w).msg, k)
                                   /\ Head(r.script) = Link(Step(w).msg, k)
                                   /\ k \in Seq(LaterThan(Step(w).msg))
                                   /\ Range(k) = Kids(blob.msgs, Step(w).msg)
                                                    \cup Range(Step(w).kids)
  <1>1. run[w].at = "peek" /\ RunsShaped /\ HistoryShaped(blob)
    BY DEF Peek, Shapes
  <1>2. /\ RunShaped(run[w]) /\ ScriptShaped(run[w].script) /\ Step(w) = Head(run[w].script)
        /\ StepShaped(Step(w)) /\ Step(w).do = "link"
    BY <1>1, StepIs
  <1>3. PICK h : h = Repair(blob) /\ blob' = h /\ HistoryShaped(h) /\ h.msgs = blob.msgs
    BY <1>1, RepairIs DEF Peek
  <1> DEFINE m == Step(w).msg
             kids == h.msgs[m].kids
             k == kids \o Outside(Step(w).kids, Range(kids))
             s == run[w].script
  <1>4. CASE m \notin DOMAIN blob.msgs
    <2>1. Finish(w)
      BY <1>3, <1>4 DEF Peek
    <2>2. \E r : /\ r = Done(run[w]) /\ Becomes(w, r) /\ RunShaped(r)
                 /\ r.alone => run[w].alone
                 /\ healed' = IF run[w].alone /\ Step(w).do \in {"update", "read"} THEN Step(w).do
                              ELSE "nothing"
      BY <1>1, <2>1, FinishIs
    <2> QED BY <1>1, <1>2, <1>3, <1>4, <2>2
  <1>5. CASE m \in DOMAIN blob.msgs
    <2>1. /\ run' = [run EXCEPT ![w].at = "load", ![w].script[1].kids = k]
          /\ healed' = healed
      BY <1>3, <1>5 DEF Peek
    <2>2. kids \in Seq(LaterThan(m)) /\ Range(kids) = Kids(blob.msgs, m)
      BY <1>3, <1>5, MessageIs DEF HistoryShaped, Kids
    <2>3. Step(w).kids \in Seq(LaterThan(m))
      BY <1>2 DEF StepShaped
    <2>4. /\ k \in Seq(LaterThan(m))
          /\ Range(k) = Kids(blob.msgs, m) \cup Range(Step(w).kids)
      <3> DEFINE A == LaterThan(m)
                 new == Outside(Step(w).kids, Range(kids))
      <3> HIDE DEF A, kids, m
      <3>1. new \in Seq(A) /\ Range(new) = Range(Step(w).kids) \ Range(kids)
        <4>1. /\ Select(Step(w).kids, Range(Step(w).kids) \ Range(kids)) \in Seq(A)
              /\ Range(Select(Step(w).kids, Range(Step(w).kids) \ Range(kids)))
                    = Range(Step(w).kids) \cap (Range(Step(w).kids) \ Range(kids))
          BY <2>3, SelectOf DEF A
        <4> QED BY <4>1 DEF Outside
      <3>2. k \in Seq(A) /\ Range(k) = Range(kids) \cup Range(new)
        <4>1. kids \in Seq(A)
          BY <2>2 DEF A
        <4>2. k = kids \o new
          OBVIOUS
        <4> HIDE DEF new, k
        <4>3. kids \o new \in Seq(A) /\ Range(kids \o new) = Range(kids) \cup Range(new)
          BY <3>1, <4>1, ConcatIs
        <4> QED BY <4>2, <4>3
      <3> QED BY <2>2, <3>1, <3>2 DEF A
    <2>5. PICK old : old = run[w] /\ RunShaped(old) /\ old.script = s
      BY <1>2
    <2> HIDE DEF k
    <2>6. PICK t : t = WithLink(s, k)
      OBVIOUS
    <2>7. PICK r : r = [old EXCEPT !.at = "load", !.script = t]
      OBVIOUS
    <2>8. Becomes(w, r)
      <3>1. [old EXCEPT !.at = "load", !.script[1].kids = k] = r
        BY <2>5, <2>6, <2>7 DEF WithLink
      <3> QED BY <1>1, <2>1, <2>5, <3>1 DEF Becomes, RunsShaped
    <2>9. r = RunOf(t, "load", old.copy, old.left, old.gone, old.alone)
      <3>1. old = RunOf(old.script, old.at, old.copy, old.left, old.gone, old.alone)
        BY <2>5 DEF RunShaped
      <3> QED BY <2>7, <3>1 DEF RunOf
    <2>10. /\ r.script = t /\ r.at = "load" /\ r.copy = old.copy /\ r.left = old.left
           /\ r.gone = old.gone /\ r.alone = old.alone
           /\ r = RunOf(r.script, r.at, r.copy, r.left, r.gone, r.alone)
      BY <2>9, RunOfIs
    <2>11. /\ ScriptShaped(t) /\ DOMAIN t = DOMAIN s /\ Head(t) = Link(m, k)
           /\ t[1] = Link(m, k) /\ \A j \in DOMAIN s : j # 1 => t[j] = s[j]
      <3>1. /\ ScriptShaped(s) /\ Head(s).do = "link" /\ m = Head(s).msg
            /\ k \in Seq(LaterThan(Head(s).msg))
        BY <1>2, <2>4
      <3> HIDE DEF s, m
      <3> QED BY <2>6, <3>1, RelinkShaped
    <2>12. StepShaped(Head(t)) /\ Head(t).do = "link"
      BY <2>11, ScriptIs DEF Link
    <2>13. RunShaped(r)
      BY <2>5, <2>10, <2>11, <2>12, NextPhase DEF RunShaped
    <2> QED BY <1>1, <1>2, <1>3, <1>5, <2>1, <2>4, <2>5, <2>8, <2>10, <2>11, <2>13
  <1> QED BY <1>4, <1>5

\* What a step makes of a history is one.
LEMMA AppliedShaped ==
  ASSUME NEW x, StepShaped(x), x.do # "read", NEW h, HistoryShaped(h),
         x.do = "delete" => x.msg \in DOMAIN h.msgs
  PROVE  /\ HistoryShaped(Applied(x, h))
         /\ x.do \in {"save", "link"} => x.msg \in DOMAIN Applied(x, h).msgs
  <1>1. x.do \in {"save", "link", "touch", "delete", "update"}
    BY DEF StepShaped
  <1>2. CASE x.do = "save"
    <2>1. Applied(x, h) = Upsert(h, x, x.parent)
      BY <1>2 DEF Applied
    <2>2. x.msg \in Ids /\ x.parent \in 0 .. x.msg - 1 /\ x.text \in 0 .. MaxText
      BY <1>2 DEF StepShaped
    <2>3. /\ HistoryShaped(Upsert(h, x, x.parent))
          /\ DOMAIN Upsert(h, x, x.parent).msgs = DOMAIN h.msgs \cup {x.msg}
      BY <1>2, <2>2, UpsertIs
    <2> QED BY <1>2, <2>1, <2>3
  <1>3. CASE x.do = "link"
    <2>1. Applied(x, h) = Upsert(h, x, 0)
      BY <1>3 DEF Applied
    <2>2. x.msg \in Ids /\ x.kids \in Seq(LaterThan(x.msg))
      BY <1>3 DEF StepShaped
    <2>3. 0 \in 0 .. x.msg - 1
      BY <2>2, ChatConstants DEF Ids
    <2>4. /\ HistoryShaped(Upsert(h, x, 0))
          /\ DOMAIN Upsert(h, x, 0).msgs = DOMAIN h.msgs \cup {x.msg}
      BY <1>3, <2>2, <2>3, UpsertIs
    <2> QED BY <1>3, <2>1, <2>4
  <1>4. CASE x.do = "delete"
    <2>1. Applied(x, h) = DeleteFrom(h, x.msg)
      BY <1>4 DEF Applied
    <2>2. HistoryShaped(DeleteFrom(h, x.msg))
      BY <1>4, DeleteIs
    <2> QED BY <1>4, <2>1, <2>2
  <1>5. CASE x.do = "update"
    <2>1. Applied(x, h) = MergeHistory(h, x.incoming)
      BY <1>5 DEF Applied
    <2>2. HistoryShaped(x.incoming)
      BY <1>5 DEF StepShaped
    <2>3. HistoryShaped(MergeHistory(h, x.incoming))
      BY <2>2, MergeIs
    <2> QED BY <1>5, <2>1, <2>3
  <1>6. CASE x.do = "touch"
    BY <1>6 DEF Applied
  <1> QED BY <1>1, <1>2, <1>3, <1>4, <1>5, <1>6

\* The history is loaded and changed (Load).
LEMMA LoadIs ==
  ASSUME Shapes, NEW w \in Writers, Load(w)
  PROVE  /\ run[w].at = "load" /\ HistoryShaped(blob') /\ blob'.msgs = blob.msgs
         /\ healed' \in {healed, "nothing"} /\ Step(w).do # "read"
         /\ \E r : /\ Becomes(w, r) /\ RunShaped(r) /\ (r.alone => run[w].alone)
                   /\ \/ /\ Step(w).do = "delete" /\ Step(w).msg \notin DOMAIN blob.msgs
                         /\ r = Done(run[w])
                      \/ /\ Step(w).do = "delete" => Step(w).msg \in DOMAIN blob.msgs
                         /\ r.script = run[w].script
                         /\ r.at = IF Step(w).do \in {"save", "link"} THEN "row" ELSE "blob"
                         /\ r.copy.msgs = Applied(Step(w), blob).msgs
                         /\ Step(w).do = "delete" =>
                               r.gone = DeletedIds(blob.msgs, Step(w).msg)
  <1>1. run[w].at = "load" /\ RunsShaped /\ HistoryShaped(blob)
    BY DEF Load, Shapes
  <1>2. /\ StepShaped(Step(w)) /\ Step(w).do # "read" /\ run[w].at # "idle"
    BY <1>1, StepIs
  <1>3. PICK x : x = Step(w)
    OBVIOUS
  <1>4. PICK h : h = Repair(blob) /\ blob' = h /\ HistoryShaped(h) /\ h.msgs = blob.msgs
    BY <1>1, RepairIs DEF Load
  <1> DEFINE gone == IF x.do = "delete" /\ x.msg \in DOMAIN h.msgs
                     THEN DeletedIds(h.msgs, x.msg) ELSE {}
             p == IF x.do \in {"save", "link"} THEN "row" ELSE "blob"
  <1>5. /\ x.do = "delete" /\ gone = {} => Finish(w)
        /\ ~(x.do = "delete" /\ gone = {}) =>
              Goto(w, p, Applied(x, h), {}, gone) /\ healed' = healed
    BY <1>3, <1>4 DEF Load
  <1>6. gone = {} <=> ~(x.do = "delete" /\ x.msg \in DOMAIN h.msgs)
    BY DEF DeletedIds
  <1>7. CASE x.do = "delete" /\ x.msg \notin DOMAIN h.msgs
    <2>1. Finish(w)
      BY <1>5, <1>6, <1>7
    <2>2. \E r : /\ r = Done(run[w]) /\ Becomes(w, r) /\ RunShaped(r)
                 /\ r.alone => run[w].alone
                 /\ healed' = IF run[w].alone /\ Step(w).do \in {"update", "read"} THEN Step(w).do
                              ELSE "nothing"
      BY <1>1, <1>2, <2>1, FinishIs
    <2> QED BY <1>1, <1>2, <1>3, <1>4, <1>7, <2>2
  <1>8. CASE x.do = "delete" => x.msg \in DOMAIN h.msgs
    <2>1. Goto(w, p, Applied(x, h), {}, gone) /\ healed' = healed
      BY <1>5, <1>6, <1>8
    <2>2. /\ HistoryShaped(Applied(x, h))
          /\ x.do \in {"save", "link"} => x.msg \in DOMAIN Applied(x, h).msgs
      BY <1>2, <1>3, <1>4, <1>8, AppliedShaped
    <2>3. x.do = "delete" => gone = DeletedIds(blob.msgs, x.msg)
      BY <1>4, <1>8
    <2>4. gone \subseteq Ids /\ (x.do # "delete" => gone = {})
      <3>1. CASE x.do = "delete"
        <4>1. gone = {x.msg} \cup (Kids(blob.msgs, x.msg) \cap DOMAIN blob.msgs)
          <5>1. x.msg \in DOMAIN blob.msgs /\ MessagesShaped(blob.msgs)
            BY <1>1, <1>4, <1>8, <3>1 DEF HistoryShaped
          <5>2. DeletedIds(blob.msgs, x.msg)
                   = {x.msg} \cup (Kids(blob.msgs, x.msg) \cap DOMAIN blob.msgs)
            BY <5>1, BelowIs
          <5> QED BY <2>3, <3>1, <5>2
        <4>2. DOMAIN blob.msgs \subseteq Ids /\ x.msg \in DOMAIN blob.msgs
          BY <1>1, <1>4, <1>8, <3>1 DEF HistoryShaped, MessagesShaped
        <4> QED BY <3>1, <4>1, <4>2
      <3>2. CASE x.do # "delete"
        BY <3>2
      <3> QED BY <3>1, <3>2
    <2>5. p \in PhasesOf(x) /\ p # "idle" /\ p # "fill"
      BY <1>2, <1>3, NextPhase DEF StepShaped
    <2>6. p = "row" => x.msg \in DOMAIN Applied(x, h).msgs
      BY <2>2
    <2> HIDE DEF p, gone
    <2>7. \E r : /\ Becomes(w, r) /\ RunShaped(r) /\ r.script = run[w].script /\ r.at = p
                 /\ r.copy = Applied(x, h) /\ r.left = {} /\ r.gone = gone
                 /\ r.alone = run[w].alone
      BY <1>1, <1>2, <1>3, <2>1, <2>2, <2>4, <2>5, <2>6, GotoIs
    <2>8. Applied(x, h).msgs = Applied(x, blob).msgs
      <3>1. x.do \in {"save", "link", "delete", "update", "touch"}
        BY <1>2, <1>3 DEF StepShaped
      <3> QED BY <1>4, <3>1, AppliedSame
    <2> QED BY <1>1, <1>2, <1>3, <1>4, <1>8, <2>1, <2>3, <2>7, <2>8 DEF p
  <1> QED BY <1>4, <1>7, <1>8

\* Rows are written for messages of a history (WithRows).
LEMMA RowsFrom ==
  ASSUME RowsShaped, NEW h, HistoryShaped(h), NEW S, S \subseteq DOMAIN h.msgs,
         rows' = WithRows(S, h)
  PROVE  /\ RowsShaped' /\ DOMAIN rows' = DOMAIN rows \cup S
         /\ \A m \in S : rows'[m] = Row(m, h)
         /\ \A m \in DOMAIN rows : m \notin S => rows'[m] = rows[m]
  <1>1. /\ DOMAIN rows' = DOMAIN rows \cup S
        /\ \A m \in S : rows'[m] = Row(m, h)
        /\ \A m \in DOMAIN rows : m \notin S => rows'[m] = rows[m]
    BY DEF WithRows
  <1>2. MessagesShaped(h.msgs) /\ DOMAIN h.msgs \subseteq Ids
    BY DEF HistoryShaped, MessagesShaped
  <1>3. ASSUME NEW m \in S PROVE Row(m, h) \in [parent : 0 .. m - 1, text : 0 .. MaxText]
    <2>1. h.msgs[m].parent \in 0 .. m - 1 /\ h.msgs[m].text \in 0 .. MaxText
      BY <1>2, MessageIs
    <2> QED BY <2>1 DEF Row
  <1>4. \A m \in DOMAIN rows' : rows'[m] \in [parent : 0 .. m - 1, text : 0 .. MaxText]
    BY <1>1, <1>3 DEF RowsShaped
  <1> QED BY <1>1, <1>2, <1>4 DEF RowsShaped

\* One field of a run is changed.
AtPhase(r, a) == [r EXCEPT !.at = a]
Leaving(r, l) == [r EXCEPT !.left = l]

\* The fields of a run one field of which is changed.
LEMMA FieldIs ==
  ASSUME NEW r, RunShaped(r), NEW a, NEW l
  PROVE  /\ AtPhase(r, a) = RunOf(r.script, a, r.copy, r.left, r.gone, r.alone)
         /\ Leaving(r, l) = RunOf(r.script, r.at, r.copy, l, r.gone, r.alone)
  <1>1. r = RunOf(r.script, r.at, r.copy, r.left, r.gone, r.alone)
    BY DEF RunShaped
  <1>2. PICK s : s = AtPhase(r, a)
    OBVIOUS
  <1>3. s = RunOf(r.script, a, r.copy, r.left, r.gone, r.alone)
    BY <1>1, <1>2 DEF RunOf, AtPhase
  <1>4. PICK t : t = Leaving(r, l)
    OBVIOUS
  <1>5. t = RunOf(r.script, r.at, r.copy, l, r.gone, r.alone)
    BY <1>1, <1>4 DEF RunOf, Leaving
  <1> QED BY <1>2, <1>3, <1>4, <1>5

\* The row of the message is written (WriteRow).
LEMMA WriteRowIs ==
  ASSUME Shapes, NEW w \in Writers, WriteRow(w)
  PROVE  /\ run[w].at = "row" /\ Step(w).do \in {"save", "link"}
         /\ Step(w).msg \in DOMAIN run[w].copy.msgs
         /\ RowsShaped' /\ DOMAIN rows' = DOMAIN rows \cup {Step(w).msg}
         /\ rows'[Step(w).msg] = Row(Step(w).msg, run[w].copy)
         /\ \A m \in DOMAIN rows : m # Step(w).msg => rows'[m] = rows[m]
         /\ \E r : /\ Becomes(w, r) /\ RunShaped(r) /\ r.script = run[w].script
                   /\ r.at = "blob" /\ r.copy = run[w].copy /\ r.gone = run[w].gone
                   /\ r.alone = run[w].alone
  <1>1. /\ run[w].at = "row" /\ RunsShaped /\ RowsShaped
        /\ rows' = WithRows({Step(w).msg}, run[w].copy)
        /\ run' = [run EXCEPT ![w].at = "blob"]
    BY DEF WriteRow, Shapes
  <1>2. PICK old : old = run[w] /\ RunShaped(old)
    BY <1>1 DEF RunsShaped
  <1>3. PICK x : x = Step(w) /\ x = Head(old.script)
    BY <1>2 DEF Step
  <1>4. /\ StepShaped(x) /\ x.do \in {"save", "link"} /\ HistoryShaped(old.copy)
    BY <1>1, <1>2, <1>3, StepIs
  <1>5. x.msg \in DOMAIN old.copy.msgs /\ (x.do # "delete" => old.gone = {})
    BY <1>1, <1>2, <1>3 DEF RunShaped
  <1>6. /\ RowsShaped' /\ DOMAIN rows' = DOMAIN rows \cup {x.msg}
        /\ rows'[x.msg] = Row(x.msg, old.copy)
        /\ \A m \in DOMAIN rows : m # x.msg => rows'[m] = rows[m]
    <2>1. PICK S : S = {x.msg}
      OBVIOUS
    <2>2. S \subseteq DOMAIN old.copy.msgs /\ rows' = WithRows(S, old.copy)
      BY <1>1, <1>2, <1>3, <1>5, <2>1
    <2>3. /\ RowsShaped' /\ DOMAIN rows' = DOMAIN rows \cup S
          /\ \A n \in S : rows'[n] = Row(n, old.copy)
          /\ \A n \in DOMAIN rows : n \notin S => rows'[n] = rows[n]
      BY <1>1, <1>4, <2>2, RowsFrom
    <2> QED BY <2>1, <2>3
  <1>7. PICK r : r = AtPhase(old, "blob")
    OBVIOUS
  <1>8. r = RunOf(old.script, "blob", old.copy, old.left, old.gone, old.alone)
    BY <1>2, <1>7, FieldIs
  <1>9. /\ r.script = old.script /\ r.at = "blob" /\ r.copy = old.copy /\ r.left = old.left
        /\ r.gone = old.gone /\ r.alone = old.alone
        /\ r = RunOf(r.script, r.at, r.copy, r.left, r.gone, r.alone)
    BY <1>8, RunOfIs
  <1>10. RunShaped(r)
    BY <1>1, <1>2, <1>3, <1>4, <1>5, <1>9, NextPhase DEF RunShaped
  <1>11. Becomes(w, r)
    BY <1>1, <1>2, <1>7 DEF Becomes, AtPhase, RunsShaped
  <1> QED BY <1>1, <1>2, <1>3, <1>4, <1>5, <1>6, <1>9, <1>10, <1>11

\* One more row is written (Fill).
LEMMA FillIs ==
  ASSUME Shapes, NEW w \in Writers, Fill(w)
  PROVE  \E m \in run[w].left :
         /\ run[w].at = "fill" /\ m \in DOMAIN run[w].copy.msgs
         /\ RowsShaped' /\ DOMAIN rows' = DOMAIN rows \cup {m}
         /\ rows'[m] = Row(m, run[w].copy)
         /\ \A n \in DOMAIN rows : n # m => rows'[n] = rows[n]
         /\ \E r : /\ Becomes(w, r) /\ RunShaped(r) /\ r.script = run[w].script
                   /\ r.at = "fill" /\ r.copy = run[w].copy /\ r.gone = run[w].gone
                   /\ r.alone = run[w].alone /\ r.left = run[w].left \ {m}
  <1>1. /\ run[w].at = "fill" /\ RunsShaped /\ RowsShaped /\ run[w].left # {}
        /\ rows' = WithRows({Min(run[w].left)}, run[w].copy)
        /\ run' = [run EXCEPT ![w].left = @ \ {Min(run[w].left)}]
    BY DEF Fill, Shapes
  <1>2. PICK old : old = run[w] /\ RunShaped(old)
    BY <1>1 DEF RunsShaped
  <1>3. /\ HistoryShaped(old.copy) /\ old.left \subseteq DOMAIN old.copy.msgs
        /\ old.left \subseteq Ids
    BY <1>1, <1>2 DEF RunShaped
  <1>4. PICK m : m = Min(old.left) /\ m \in old.left
    <2>1. old.left \subseteq 0 .. MaxMessages /\ MaxMessages \in Nat
      BY <1>3, ChatConstants DEF Ids
    <2> QED BY <1>1, <1>2, <2>1, Extremes
  <1>5. /\ RowsShaped' /\ DOMAIN rows' = DOMAIN rows \cup {m}
        /\ rows'[m] = Row(m, old.copy)
        /\ \A n \in DOMAIN rows : n # m => rows'[n] = rows[n]
    <2>1. PICK S : S = {m}
      OBVIOUS
    <2>2. S \subseteq DOMAIN old.copy.msgs /\ rows' = WithRows(S, old.copy)
      BY <1>1, <1>2, <1>3, <1>4, <2>1
    <2>3. /\ RowsShaped' /\ DOMAIN rows' = DOMAIN rows \cup S
          /\ \A n \in S : rows'[n] = Row(n, old.copy)
          /\ \A n \in DOMAIN rows : n \notin S => rows'[n] = rows[n]
      BY <1>1, <1>3, <2>2, RowsFrom
    <2> QED BY <2>1, <2>3
  <1>6. PICK l : l = old.left \ {m}
    OBVIOUS
  <1>7. PICK r : r = Leaving(old, l)
    OBVIOUS
  <1>8. r = RunOf(old.script, old.at, old.copy, l, old.gone, old.alone)
    BY <1>2, <1>7, FieldIs
  <1>9. /\ r.script = old.script /\ r.at = old.at /\ r.copy = old.copy /\ r.left = l
        /\ r.gone = old.gone /\ r.alone = old.alone
        /\ r = RunOf(r.script, r.at, r.copy, r.left, r.gone, r.alone)
    BY <1>8, RunOfIs
  <1>10. RunShaped(r)
    BY <1>1, <1>2, <1>3, <1>6, <1>9 DEF RunShaped
  <1>11. Becomes(w, r)
    <2>1. run' = [run EXCEPT ![w].left = l]
      BY <1>1, <1>2, <1>4, <1>6
    <2> QED BY <1>1, <1>2, <1>7, <2>1 DEF Becomes, Leaving, RunsShaped
  <1> QED BY <1>1, <1>2, <1>3, <1>4, <1>5, <1>6, <1>9, <1>10, <1>11

\* The rows of deleted messages are removed (DropRows).
LEMMA DropRowsIs ==
  ASSUME Shapes, NEW w \in Writers, DropRows(w)
  PROVE  /\ run[w].at = "fill" /\ run[w].left = {} /\ RowsShaped'
         /\ DOMAIN rows' = IF Step(w).do = "delete" THEN DOMAIN rows \ run[w].gone ELSE DOMAIN rows
         /\ \A m \in DOMAIN rows' : rows'[m] = rows[m]
         /\ Finish(w)
  <1>1. RowsShaped
    BY DEF Shapes
  <1>2. /\ DOMAIN rows' = IF Step(w).do = "delete" THEN DOMAIN rows \ run[w].gone ELSE DOMAIN rows
        /\ \A m \in DOMAIN rows' : rows'[m] = rows[m]
    BY DEF DropRows
  <1> QED BY <1>1, <1>2 DEF DropRows, RowsShaped

\* What the rows lack is looked up (ReadRows).
LEMMA ReadRowsIs ==
  ASSUME Shapes, NEW w \in Writers, ReadRows(w)
  PROVE  /\ run[w].at = "rows" /\ Step(w).do = "read"
         /\ \/ Finish(w)
            \/ /\ healed' = healed
               /\ \E r : /\ Becomes(w, r) /\ RunShaped(r) /\ r.script = run[w].script
                         /\ r.at = "gap" /\ r.alone = run[w].alone
  <1>1. run[w].at = "rows" /\ RunsShaped /\ RowsShaped
    BY DEF ReadRows, Shapes
  <1>2. StepShaped(Step(w)) /\ Step(w).do = "read" /\ "gap" \in PhasesOf(Step(w))
    BY <1>1, StepIs, NextPhase
  <1>3. CASE Finish(w)
    BY <1>1, <1>2, <1>3
  <1>4. CASE ~Finish(w)
    <2>1. Goto(w, "gap", EmptyHistory, {}, Lacking) /\ healed' = healed
      BY <1>4 DEF ReadRows
    <2>2. Lacking \subseteq Ids
      <3>1. ASSUME NEW m \in DOMAIN rows, rows[m].parent # 0 PROVE rows[m].parent \in Ids
        <4>1. rows[m].parent \in 0 .. m - 1 /\ m \in Ids
          BY <1>1 DEF RowsShaped
        <4> QED BY <3>1, <4>1, ChatConstants DEF Ids
      <3> QED BY <3>1 DEF Lacking, Unresolved
    <2>3. PICK l : l = Lacking
      OBVIOUS
    <2>4. PICK c, e : c = EmptyHistory /\ e = {} /\ e \subseteq Ids /\ HistoryShaped(c)
      BY EmptyShaped
    <2>5. \E r : /\ Becomes(w, r) /\ RunShaped(r) /\ r.script = run[w].script /\ r.at = "gap"
                 /\ r.copy = c /\ r.left = e /\ r.gone = l /\ r.alone = run[w].alone
      BY <1>1, <1>2, <2>1, <2>2, <2>3, <2>4, GotoIs
    <2> QED BY <1>1, <1>2, <2>1, <2>5
  <1> QED BY <1>3, <1>4

\* The blob is loaded for what rows lack (LoadMissing).
LEMMA LoadMissingIs ==
  ASSUME Shapes, NEW w \in Writers, LoadMissing(w)
  PROVE  /\ run[w].at = "gap" /\ Step(w).do = "read"
         /\ HistoryShaped(blob') /\ blob'.msgs = blob.msgs
         /\ \E r : /\ Becomes(w, r) /\ RunShaped(r) /\ r.script = run[w].script
                   /\ r.at = "fill" /\ r.copy.msgs = blob.msgs /\ r.alone = run[w].alone
  <1>1. run[w].at = "gap" /\ RunsShaped /\ HistoryShaped(blob)
    BY DEF LoadMissing, Shapes
  <1>2. StepShaped(Step(w)) /\ Step(w).do = "read" /\ "fill" \in PhasesOf(Step(w))
    BY <1>1, StepIs, NextPhase
  <1>3. PICK h : h = Repair(blob) /\ blob' = h /\ HistoryShaped(h) /\ h.msgs = blob.msgs
    BY <1>1, RepairIs DEF LoadMissing
  <1>4. PICK g, l : g = run[w].gone /\ l = g \cap DOMAIN h.msgs
    OBVIOUS
  <1>5. Goto(w, "fill", h, l, g)
    BY <1>3, <1>4 DEF LoadMissing
  <1>6. g \subseteq Ids /\ l \subseteq Ids /\ l \subseteq DOMAIN h.msgs
    BY <1>1, <1>4 DEF RunsShaped, RunShaped
  <1>7. \E r : /\ Becomes(w, r) /\ RunShaped(r) /\ r.script = run[w].script /\ r.at = "fill"
               /\ r.copy = h /\ r.left = l /\ r.gone = g /\ r.alone = run[w].alone
    BY <1>1, <1>2, <1>3, <1>5, <1>6, GotoIs
  <1> QED BY <1>1, <1>2, <1>3, <1>7

\* The history is written back (WriteBlob).
LEMMA WriteBlobIs ==
  ASSUME Shapes, NEW w \in Writers, WriteBlob(w)
  PROVE  /\ run[w].at = "blob" /\ HistoryShaped(blob') /\ blob' = run[w].copy
         /\ DeletionsShaped'
         /\ DOMAIN removed' = DOMAIN removed \cup run[w].gone
         /\ \A m \in DOMAIN removed : removed'[m] = removed[m]
         /\ \A m \in DOMAIN removed' : m \notin DOMAIN removed => removed'[m] = created
         /\ Step(w).do # "delete" => run[w].gone = {}
         /\ Step(w).do = "delete" => returned' = returned \ run[w].gone
         /\ Step(w).do = "touch" => returned' = returned
         /\ Step(w).do = "update" =>
               returned' = returned \cup (DOMAIN removed \cap DOMAIN Step(w).incoming.msgs)
         /\ Step(w).do \in {"save", "link"} =>
               returned' = returned \cup (DOMAIN removed \cap {Step(w).msg})
         /\ \E r : /\ Becomes(w, r) /\ RunShaped(r) /\ (r.alone => run[w].alone)
                   /\ \/ /\ Step(w).do \in {"delete", "update"} /\ healed' = healed
                         /\ r.script = run[w].script /\ r.at = "fill" /\ r.copy = run[w].copy
                         /\ r.left = DOMAIN run[w].copy.msgs /\ r.gone = run[w].gone
                      \/ /\ Step(w).do \notin {"delete", "update"} /\ healed' = "nothing"
                         /\ r = Done(run[w])
  <1>1. run[w].at = "blob" /\ RunsShaped /\ DeletionsShaped /\ created \in 0 .. MaxMessages
    BY DEF WriteBlob, Shapes
  <1>2. PICK old : old = run[w] /\ RunShaped(old)
    BY <1>1 DEF RunsShaped
  <1>3. PICK x : x = Step(w) /\ x = Head(old.script)
    BY <1>2 DEF Step
  <1>4. /\ StepShaped(x) /\ x.do # "read" /\ HistoryShaped(old.copy)
        /\ old.gone \subseteq Ids /\ (x.do # "delete" => old.gone = {})
        /\ x.do \in {"save", "link", "touch", "delete", "update"}
    BY <1>1, <1>2, <1>3, StepIs DEF StepShaped, RunShaped
  <1>5. /\ blob' = old.copy /\ created' = created
        /\ removed' = [m \in DOMAIN removed \cup old.gone |->
                        IF m \in DOMAIN removed THEN removed[m] ELSE created]
        /\ x.do = "delete" => returned' = returned \ old.gone
        /\ x.do = "touch" => returned' = returned
        /\ x.do = "update" => returned' = returned \cup (DOMAIN removed \cap DOMAIN x.incoming.msgs)
        /\ x.do \in {"save", "link"} => returned' = returned \cup (DOMAIN removed \cap {x.msg})
        /\ x.do \in {"delete", "update"} =>
              Goto(w, "fill", old.copy, DOMAIN old.copy.msgs, old.gone) /\ healed' = healed
        /\ x.do \notin {"delete", "update"} => Finish(w)
    BY <1>2, <1>3 DEF WriteBlob, Bookkeeping
  <1>6. /\ DOMAIN removed' = DOMAIN removed \cup old.gone
        /\ \A m \in DOMAIN removed : removed'[m] = removed[m]
        /\ \A m \in DOMAIN removed' : m \notin DOMAIN removed => removed'[m] = created
    BY <1>5
  <1>7. DeletionsShaped'
    <2>1. returned' \subseteq DOMAIN removed'
      BY <1>1, <1>4, <1>5, <1>6 DEF DeletionsShaped
    <2>2. created \in 0 .. created
      BY <1>1, ChatConstants
    <2>3. \A m \in DOMAIN removed' : removed'[m] \in 0 .. created
      BY <1>1, <1>6, <2>2 DEF DeletionsShaped
    <2> QED BY <1>1, <1>4, <1>5, <1>6, <2>1, <2>3 DEF DeletionsShaped
  <1>8. CASE x.do \in {"delete", "update"}
    <2>1. PICK c, l, g : c = old.copy /\ l = DOMAIN c.msgs /\ g = old.gone
      OBVIOUS
    <2>2. Goto(w, "fill", c, l, g)
      BY <1>5, <1>8, <2>1
    <2>3. HistoryShaped(c) /\ l \subseteq Ids /\ g \subseteq Ids
      BY <1>4, <2>1 DEF HistoryShaped, MessagesShaped
    <2>4. "fill" \in PhasesOf(x)
      BY <1>4, <1>8, NextPhase
    <2>5. \E r : /\ Becomes(w, r) /\ RunShaped(r) /\ r.script = run[w].script /\ r.at = "fill"
                 /\ r.copy = c /\ r.left = l /\ r.gone = g /\ r.alone = run[w].alone
      <3>1. PICK a : a = "fill"
        OBVIOUS
      <3>2. /\ RunsShaped /\ run[w].at # "idle" /\ Goto(w, a, c, l, g) /\ a # "idle"
            /\ HistoryShaped(c) /\ l \subseteq Ids /\ g \subseteq Ids
            /\ a \in PhasesOf(Step(w)) /\ l \subseteq DOMAIN c.msgs /\ a \notin {"row", "blob"}
        BY <1>1, <1>3, <2>1, <2>2, <2>3, <2>4, <3>1
      <3>3. \E r : /\ Becomes(w, r) /\ RunShaped(r) /\ r.script = run[w].script /\ r.at = a
                   /\ r.copy = c /\ r.left = l /\ r.gone = g /\ r.alone = run[w].alone
        BY <3>2, GotoIs
      <3> QED BY <3>1, <3>3
    <2> QED BY <1>1, <1>2, <1>3, <1>4, <1>5, <1>6, <1>7, <1>8, <2>1, <2>5
  <1>9. CASE x.do \notin {"delete", "update"}
    <2>2. Finish(w) /\ run[w].at # "idle"
      BY <1>1, <1>5, <1>9
    <2>1. \E r : /\ r = Done(run[w]) /\ Becomes(w, r) /\ RunShaped(r)
                 /\ r.alone => run[w].alone
                 /\ healed' = IF run[w].alone /\ Step(w).do \in {"update", "read"} THEN Step(w).do
                              ELSE "nothing"
      BY <1>1, <2>2, FinishIs
    <2> QED BY <1>1, <1>2, <1>3, <1>4, <1>5, <1>6, <1>7, <1>9, <2>1
  <1> QED BY <1>8, <1>9

-----------------------------------------------------------------------------
(* A script begins.                                                        *)

\* What the writers do then (Begin).
LEMMA ScriptBegins ==
  ASSUME RunsShaped, NEW w \in Writers, NEW s, Begin(w, s), ScriptShaped(s)
  PROVE  /\ RunsShaped' /\ w \notin Busy /\ Busy' = Busy \cup {w}
         /\ run'[w].script = s /\ run'[w].at = FirstPhase(Head(s))
         /\ run'[w].at \in {"peek", "rows", "load"}
         /\ \A v \in Busy' : run'[v].alone => Busy' = {w}
         /\ healed' = "nothing" /\ disturbed' = (disturbed \/ Busy # {})
         /\ UNCHANGED <<blob, rows, tab, removed, returned>>
  <1>1. PICK b \in BOOLEAN : b <=> Busy = {}
    OBVIOUS
  <1>2. \A i : [i EXCEPT !.script = s, !.at = FirstPhase(Head(s)), !.alone = b]
                 = Restarted(i, s, FirstPhase(Head(s)), b)
    BY DEF Restarted
  <1>3. run' = [v \in Writers |->
                  IF v = w THEN Restarted(Idle, s, FirstPhase(Head(s)), b) ELSE NotAlone(run[v])]
    BY <1>1 DEF Begin, Restarted, NotAlone
  <1>4. run'[w] = Entering(s, b) /\ \A v \in Writers : v # w => run'[v] = NotAlone(run[v])
    BY <1>3 DEF Entering
  <1>5. /\ RunShaped(run'[w]) /\ run'[w].script = s /\ run'[w].at = FirstPhase(Head(s))
        /\ run'[w].alone = b /\ run'[w].at \in {"peek", "rows", "load"}
    <2>1. /\ RunShaped(Entering(s, b)) /\ Entering(s, b).script = s
          /\ Entering(s, b).at = FirstPhase(Head(s)) /\ Entering(s, b).alone = b
          /\ Entering(s, b).at \in {"peek", "rows", "load"}
      BY StartingIs
    <2> QED BY <1>4, <2>1
  <1>6. \A v \in Writers : v # w =>
           /\ RunShaped(run'[v]) /\ run'[v].script = run[v].script /\ run'[v].at = run[v].at
           /\ ~run'[v].alone
    <2> SUFFICES ASSUME NEW v \in Writers, v # w
                 PROVE  /\ RunShaped(run'[v]) /\ run'[v].script = run[v].script
                        /\ run'[v].at = run[v].at /\ ~run'[v].alone
      OBVIOUS
    <2>1. PICK r : r = run[v] /\ RunShaped(r)
      BY DEF RunsShaped
    <2> QED BY <1>4, <2>1, JoinedIs
  <1>7. w \notin Busy /\ Busy' = Busy \cup {w}
    BY <1>5, <1>6 DEF Begin, Busy
  <1>8. \A v \in Busy' : run'[v].alone => v = w /\ Busy = {}
    BY <1>1, <1>5, <1>6 DEF Busy
  <1>9. run' = [v \in Writers |-> run'[v]]
    BY <1>3
  <1>10. RunsShaped'
    BY <1>5, <1>6, <1>7, <1>8, <1>9 DEF RunsShaped
  <1> QED BY <1>5, <1>7, <1>8, <1>10 DEF Begin, deletions

-----------------------------------------------------------------------------
(* The scripts that begin.                                                 *)

\* Two sequences in one.
LEMMA JoinIs ==
  ASSUME NEW S, NEW s \in Seq(S), NEW t \in Seq(S)
  PROVE  /\ s \o t \in Seq(S) /\ Len(s \o t) = Len(s) + Len(t)
         /\ \A i \in 1 .. Len(s) : (s \o t)[i] = s[i]
         /\ \A i \in 1 .. Len(t) : (s \o t)[Len(s) + i] = t[i]
  <1>1. Len(s) \in Nat /\ Len(t) \in Nat
    BY LenProperties
  <1>2. /\ s \o t \in Seq(S) /\ Len(s \o t) = Len(s) + Len(t)
        /\ \A i \in 1 .. Len(s) + Len(t) :
              (s \o t)[i] = IF i <= Len(s) THEN s[i] ELSE t[i - Len(s)]
    BY ConcatProperties
  <1>3. \A m, n \in Nat : \A i \in 1 .. m : i \in 1 .. m + n /\ i <= m
    OBVIOUS
  <1>4. \A m, n \in Nat : \A i \in 1 .. n :
           m + i \in 1 .. m + n /\ ~(m + i <= m) /\ m + i - m = i
    OBVIOUS
  <1>5. \A i \in 1 .. Len(s) : (s \o t)[i] = s[i]
    BY <1>1, <1>2, <1>3
  <1>6. \A i \in 1 .. Len(t) : (s \o t)[Len(s) + i] = t[i]
    BY <1>1, <1>2, <1>4
  <1> QED BY <1>2, <1>5, <1>6

\* What a message that is sent takes (Completion): before the answers there
\* are four steps, or three for one at the top.
Ahead(p) == IF p = 0 THEN 3 ELSE 4
Only(u) == <<u>>
Answers(u, n) == [i \in 1 .. n |-> u + i]

Sends(s, p, u, n) ==
    /\ Len(s) = Ahead(p) + n /\ Len(s) \in Nat /\ DOMAIN s = 1 .. Len(s) /\ s \in Seq(Range(s))
    /\ s # <<>> /\ Head(s) = Touch
    /\ s[1] = Touch /\ s[2] = Save(u, p, 0) /\ s[Ahead(p)] = Link(u, Answers(u, n))
    /\ p # 0 => s[3] = Link(p, Only(u))
    /\ \A i \in 1 .. n : s[Ahead(p) + i] = Save(u + i, u, 0)

\* The script of a message that is sent, step by step.
LEMMA CompletionIs ==
  ASSUME NEW p \in Nat, NEW u \in Nat, NEW n \in Nat \ {0},
         NEW a, a = Answers(u, n), NEW s, s = Completion(p, u, a)
  PROVE  Sends(s, p, u, n)
  <1> DEFINE S == {Touch, Save(u, p, 0), Link(p, Only(u)), Link(u, a)} \cup {Save(u + i, u, 0) : i \in 1 .. n}
             b == <<Touch, Save(u, p, 0)>>
             c == IF p = 0 THEN <<>> ELSE <<Link(p, Only(u))>>
             d == <<Link(u, a)>>
             e == [i \in 1 .. n |-> Save(u + i, u, 0)]
  <1>1. Len(a) = n /\ DOMAIN a = 1 .. n /\ \A i \in 1 .. n : a[i] = u + i
    BY LenProperties DEF Answers
  <1>2. s = ((b \o c) \o d) \o e
    <2>1. [i \in 1 .. Len(a) |-> Save(a[i], u, 0)] = e
      BY <1>1
    <2> QED BY <2>1 DEF Completion, Only
  <1>3. b \in Seq(S) /\ Len(b) = 2 /\ b[1] = Touch /\ b[2] = Save(u, p, 0)
    <2>1. \A A : \A x, y \in A : <<x, y>> \in Seq(A) /\ Len(<<x, y>>) = 2
      OBVIOUS
    <2>2. \A x, y : <<x, y>>[1] = x /\ <<x, y>>[2] = y
      OBVIOUS
    <2>3. Touch \in S /\ Save(u, p, 0) \in S
      OBVIOUS
    <2> HIDE DEF S
    <2> QED BY <2>1, <2>2, <2>3
  <1>4. \A A : \A x \in A : <<x>> \in Seq(A) /\ Len(<<x>>) = 1 /\ <<x>>[1] = x
    OBVIOUS
  <1>5. c \in Seq(S) /\ Len(c) = Ahead(p) - 3 /\ (p # 0 => c[1] = Link(p, Only(u)))
    <2>1. Link(p, Only(u)) \in S
      OBVIOUS
    <2>2. <<>> \in Seq(S) /\ Len(<<>>) = 0
      OBVIOUS
    <2> HIDE DEF S
    <2>3. CASE p = 0
      BY <2>2, <2>3 DEF Ahead
    <2>4. CASE p # 0
      BY <1>4, <2>1, <2>4 DEF Ahead
    <2> QED BY <2>3, <2>4
  <1>6. d \in Seq(S) /\ Len(d) = 1 /\ d[1] = Link(u, a)
    <2>1. Link(u, a) \in S
      OBVIOUS
    <2> HIDE DEF S
    <2> QED BY <1>4, <2>1
  <1>7. e \in Seq(S) /\ Len(e) = n /\ \A i \in 1 .. n : e[i] = Save(u + i, u, 0)
    <2>1. \A i \in 1 .. n : Save(u + i, u, 0) \in S
      OBVIOUS
    <2> HIDE DEF S
    <2> QED BY <2>1, LenProperties
  <1> HIDE DEF S, b, c, d, e
  <1>8. PICK f : /\ f = b \o c /\ f \in Seq(S) /\ Len(f) = Ahead(p) - 1
                 /\ f[1] = Touch /\ f[2] = Save(u, p, 0)
                 /\ p # 0 => f[3] = Link(p, Only(u))
    <2>1. PICK f, k : f = b \o c /\ k = Ahead(p) - 3
      OBVIOUS
    <2>2. k \in Nat /\ Ahead(p) - 1 = 2 + k /\ (p # 0 => k = 1) /\ 2 \in Nat
      BY <2>1 DEF Ahead
    <2>6. Len(c) = k
      BY <1>5, <2>1
    <2>3. /\ f \in Seq(S) /\ Len(f) = 2 + k
          /\ \A i \in 1 .. 2 : f[i] = b[i]
          /\ \A i \in 1 .. k : f[2 + i] = c[i]
      <3>1. b \in Seq(S) /\ c \in Seq(S) /\ f = b \o c
        BY ONLY <1>3, <1>5, <2>1, <2>2, <2>6
      <3>2. /\ b \o c \in Seq(S) /\ Len(b \o c) = Len(b) + Len(c)
            /\ \A i \in 1 .. Len(b) : (b \o c)[i] = b[i]
            /\ \A i \in 1 .. Len(c) : (b \o c)[Len(b) + i] = c[i]
        BY ONLY <3>1, JoinIs
      <3> QED BY ONLY <3>1, <3>2, <1>3, <1>5, <2>1, <2>2, <2>6
    <2>4. f[1] = Touch /\ f[2] = Save(u, p, 0)
      BY <1>3, <2>3
    <2>5. p # 0 => f[2 + 1] = Link(p, Only(u))
      BY <1>5, <2>2, <2>3
    <2>7. Len(f) = Ahead(p) - 1 /\ (p # 0 => f[3] = Link(p, Only(u)))
      BY <2>2, <2>3, <2>5
    <2> QED BY <2>1, <2>3, <2>4, <2>7
  <1>9. PICK g : /\ g = f \o d /\ g \in Seq(S) /\ Len(g) = Ahead(p)
                 /\ g[1] = Touch /\ g[2] = Save(u, p, 0)
                 /\ p # 0 => g[3] = Link(p, Only(u))
                 /\ g[Ahead(p)] = Link(u, a)
    <2>1. PICK g, k : g = f \o d /\ k = Ahead(p) - 1
      OBVIOUS
    <2>2. k \in Nat /\ k >= 2 /\ Ahead(p) = k + 1 /\ (p # 0 => k = 3) /\ 1 \in Nat
      BY <2>1 DEF Ahead
    <2>5. Len(f) = k
      BY <1>8, <2>1
    <2>3. /\ g \in Seq(S) /\ Len(g) = k + 1
          /\ \A i \in 1 .. k : g[i] = f[i]
          /\ \A i \in 1 .. 1 : g[k + i] = d[i]
      <3>1. f \in Seq(S) /\ d \in Seq(S) /\ g = f \o d
        BY ONLY <1>6, <1>8, <2>1, <2>2, <2>5
      <3>2. /\ f \o d \in Seq(S) /\ Len(f \o d) = Len(f) + Len(d)
            /\ \A i \in 1 .. Len(f) : (f \o d)[i] = f[i]
            /\ \A i \in 1 .. Len(d) : (f \o d)[Len(f) + i] = d[i]
        BY ONLY <3>1, JoinIs
      <3> QED BY ONLY <3>1, <3>2, <1>6, <1>8, <2>1, <2>2, <2>5
    <2>4. 1 \in 1 .. k /\ 2 \in 1 .. k /\ (p # 0 => 3 \in 1 .. k) /\ 1 \in 1 .. 1
      BY <2>2
    <2>6. g[1] = Touch /\ g[2] = Save(u, p, 0) /\ (p # 0 => g[3] = Link(p, Only(u)))
      BY <1>8, <2>3, <2>4
    <2>7. g[Ahead(p)] = Link(u, a) /\ Len(g) = Ahead(p)
      BY <1>6, <2>2, <2>3, <2>4
    <2> QED BY <2>1, <2>3, <2>6, <2>7
  <1>10. /\ s \in Seq(S) /\ Len(s) = Ahead(p) + n
         /\ s[1] = Touch /\ s[2] = Save(u, p, 0)
         /\ p # 0 => s[3] = Link(p, Only(u))
         /\ s[Ahead(p)] = Link(u, a)
         /\ \A i \in 1 .. n : s[Ahead(p) + i] = Save(u + i, u, 0)
    <2>1. PICK k : k = Ahead(p)
      OBVIOUS
    <2>2. k \in Nat /\ k >= 3
      BY <2>1 DEF Ahead
    <2>5. s = g \o e /\ Len(g) = k
      BY <1>2, <1>8, <1>9, <2>1
    <2>3. /\ s \in Seq(S) /\ Len(s) = k + n
          /\ \A i \in 1 .. k : s[i] = g[i]
          /\ \A i \in 1 .. n : s[k + i] = e[i]
      <3>1. g \in Seq(S) /\ e \in Seq(S) /\ s = g \o e
        BY ONLY <1>7, <1>9, <2>1, <2>2, <2>5, n \in Nat
      <3>2. /\ g \o e \in Seq(S) /\ Len(g \o e) = Len(g) + Len(e)
            /\ \A i \in 1 .. Len(g) : (g \o e)[i] = g[i]
            /\ \A i \in 1 .. Len(e) : (g \o e)[Len(g) + i] = e[i]
        BY ONLY <3>1, JoinIs
      <3> QED BY ONLY <3>1, <3>2, <1>7, <1>9, <2>1, <2>2, <2>5, n \in Nat
    <2>4. 1 \in 1 .. k /\ 2 \in 1 .. k /\ 3 \in 1 .. k /\ k \in 1 .. k
      BY <2>2
    <2> QED BY <1>7, <1>9, <2>1, <2>3, <2>4
  <1>11. Ahead(p) \in {3, 4}
    BY DEF Ahead
  <1>12. /\ Len(s) \in Nat /\ DOMAIN s = 1 .. Len(s) /\ s # <<>> /\ Head(s) = s[1]
         /\ s \in Seq(Range(s))
    BY <1>10, <1>11, EmptySeq, OwnMembers
  <1> QED BY <1>10, <1>12 DEF Sends

\* Nothing is said of a message that has not been created.
StepExists(x) ==
    /\ x.do \in {"save", "link"} => x.msg <= created
    /\ x.do = "update" => DOMAIN x.incoming.msgs \subseteq 1 .. created

RunExists(r) ==
    /\ r.at \in {"row", "blob", "fill"} => DOMAIN r.copy.msgs \subseteq 1 .. created
    /\ r.at # "idle" => \A j \in DOMAIN r.script : StepExists(r.script[j])

Existing ==
    /\ DOMAIN blob.msgs \subseteq 1 .. created /\ DOMAIN tab.msgs \subseteq 1 .. created
    /\ \A w \in Writers : RunExists(run[w])

\* A script of one step.
LEMMA SmallScript ==
  ASSUME NEW x, StepShaped(x), NEW s, s = <<x>>
  PROVE  ScriptShaped(s) /\ DOMAIN s = {1} /\ s[1] = x /\ Head(s) = x /\ Len(s) = 1
  <1>1. s \in Seq({x}) /\ DOMAIN s = {1} /\ s[1] = x /\ Head(s) = x /\ Len(s) = 1 /\ s # <<>>
    OBVIOUS
  <1>2. s \in Seq(Range(s))
    BY <1>1, OwnMembers
  <1> QED BY <1>1, <1>2 DEF ScriptShaped

\* The step j of such a script.
Sending(x, j, p, u, n) ==
    \/ j = 1 /\ x = Touch
    \/ j = 2 /\ x = Save(u, p, 0)
    \/ j = 3 /\ p # 0 /\ x = Link(p, Only(u))
    \/ j = Ahead(p) /\ x = Link(u, Answers(u, n))
    \/ \E i \in 1 .. n : j = Ahead(p) + i /\ x = Save(u + i, u, 0)

\* The script of a message that is sent is a script.
LEMMA CompletionShaped ==
  ASSUME NEW u \in Nat, NEW p \in 0 .. u - 1, NEW n \in Nat \ {0}, u + n <= MaxMessages,
         NEW a, a = Answers(u, n), NEW s, s = Completion(p, u, a)
  PROVE  /\ ScriptShaped(s)
         /\ \A j \in DOMAIN s : Sending(s[j], j, p, u, n)
  <1>1. p \in Nat /\ p < u /\ u \in Ids /\ MaxMessages \in Nat /\ MaxText \in Nat
        /\ \A i \in 1 .. n : u + i \in Ids /\ u + i \in LaterThan(u) /\ u \in 0 .. u + i - 1
    BY ChatConstants DEF Ids, LaterThan
  <1>2. /\ Len(s) = Ahead(p) + n /\ Len(s) \in Nat /\ DOMAIN s = 1 .. Len(s) /\ s \in Seq(Range(s))
        /\ s # <<>> /\ Head(s) = Touch
        /\ s[1] = Touch /\ s[2] = Save(u, p, 0) /\ s[Ahead(p)] = Link(u, a)
        /\ p # 0 => s[3] = Link(p, Only(u))
        /\ \A i \in 1 .. n : s[Ahead(p) + i] = Save(u + i, u, 0)
    <2>1. /\ p \in Nat /\ u \in Nat /\ n \in Nat \ {0}
          /\ a = Answers(u, n) /\ s = Completion(p, u, a)
      BY <1>1
    <2>2. Sends(s, p, u, n)
      BY ONLY <2>1, CompletionIs
    <2> QED BY <2>1, <2>2 DEF Sends
  <1>3. \A j \in DOMAIN s :
           \/ j = 1 \/ j = 2 \/ (j = 3 /\ p # 0) \/ j = Ahead(p)
           \/ \E i \in 1 .. n : j = Ahead(p) + i
    <2>1. PICK k : k = Ahead(p) /\ ((p # 0 /\ k = 4) \/ (p = 0 /\ k = 3))
      BY DEF Ahead
    <2>2. ASSUME NEW j \in DOMAIN s, j > k PROVE \E i \in 1 .. n : j = k + i
      <3>1. j - k \in 1 .. n /\ j = k + (j - k)
        BY <1>2, <2>1, <2>2
      <3> QED BY <3>1
    <2>3. ASSUME NEW j \in DOMAIN s PROVE j = 1 \/ j = 2 \/ (j = 3 /\ p # 0) \/ j = k \/ j > k
      <3>1. j \in Nat /\ j >= 1
        BY <1>2, <2>3
      <3>2. CASE k = 3
        BY ONLY <3>1, <3>2
      <3>3. CASE k = 4 /\ p # 0
        BY ONLY <3>1, <3>3
      <3> QED BY <2>1, <3>2, <3>3
    <2> QED BY <2>1, <2>2, <2>3
  <1>4. \A j \in DOMAIN s :
              \/ j = 1 /\ s[j] = Touch
              \/ j = 2 /\ s[j] = Save(u, p, 0)
              \/ j = 3 /\ p # 0 /\ s[j] = Link(p, Only(u))
              \/ j = Ahead(p) /\ s[j] = Link(u, a)
              \/ \E i \in 1 .. n : j = Ahead(p) + i /\ s[j] = Save(u + i, u, 0)
    BY <1>2, <1>3
  <1>5. StepShaped(Touch) /\ Touch.do = "touch"
    BY DEF StepShaped, Touch
  <1>6. \A m \in Ids : \A q \in 0 .. m - 1 :
           StepShaped(Save(m, q, 0)) /\ Save(m, q, 0).do = "save"
    <2>1. 0 \in 0 .. MaxText
      BY <1>1
    <2> QED BY <2>1 DEF StepShaped, Save
  <1>7. \A m \in Ids : \A k \in Seq(LaterThan(m)) :
           StepShaped(Link(m, k)) /\ Link(m, k).do = "link"
    BY DEF StepShaped, Link
  <1>8. p # 0 => p \in Ids /\ Only(u) \in Seq(LaterThan(p))
    <2>1. p # 0 => p \in Ids /\ u \in LaterThan(p)
      BY <1>1 DEF Ids, LaterThan
    <2> QED BY <2>1 DEF Only
  <1>9. a \in Seq(LaterThan(u))
    BY <1>1 DEF Answers
  <1>10. ASSUME NEW j \in DOMAIN s PROVE StepShaped(s[j]) /\ s[j].do \in {"touch", "save", "link"}
    <2>1. \/ s[j] = Touch
          \/ \E m \in Ids : \E q : q \in 0 .. m - 1 /\ s[j] = Save(m, q, 0)
          \/ \E m \in Ids : \E k : k \in Seq(LaterThan(m)) /\ s[j] = Link(m, k)
      <3>1. CASE s[j] = Touch \/ s[j] = Save(u, p, 0)
        BY <1>1, <3>1
      <3>2. CASE p # 0 /\ s[j] = Link(p, Only(u))
        BY <1>8, <3>2
      <3>3. CASE s[j] = Link(u, a)
        BY <1>1, <1>9, <3>3
      <3>4. CASE \E i \in 1 .. n : s[j] = Save(u + i, u, 0)
        BY <1>1, <3>4
      <3> QED BY <1>4, <3>1, <3>2, <3>3, <3>4
    <2> QED BY <1>5, <1>6, <1>7, <2>1
  <1>11. ~Wholesale(s)
    BY <1>10 DEF Wholesale
  <1> QED BY <1>2, <1>4, <1>10, <1>11 DEF ScriptShaped, Sending

\* The scripts (SendMessage, SaveText, OtherScript).
LEMMA BeganIs ==
  ASSUME Shapes, Existing, NEW w \in Writers, SendMessage(w) \/ SaveText(w) \/ OtherScript(w)
  PROVE  /\ created' \in 0 .. MaxMessages /\ created <= created' /\ texts' \in [Ids -> 0 .. MaxText]
         /\ \E s : /\ Begin(w, s) /\ ScriptShaped(s) /\ \A j \in DOMAIN s : StepExists(s[j])'
                   /\ \/ \E p \in DOMAIN tab.msgs \cup {0}, n \in Nat \ {0} :
                           /\ created' = created + 1 + n
                           /\ s = Completion(p, created + 1, Answers(created + 1, n))
                      \/ \E x : /\ s = <<x>> /\ StepShaped(x)
                                /\ \/ \E m \in 1 .. created : \E t : x = Save(m, 0, t)
                                   \/ x = Touch \/ x = Read \/ x = Update(tab)
                                   \/ \E m : x = Delete(m)
  <1>1. /\ created \in 0 .. MaxMessages /\ MaxMessages \in Nat /\ MaxText \in Nat /\ FanOut \in Nat
        /\ created \in Nat /\ HistoryShaped(tab) /\ DOMAIN tab.msgs \subseteq Ids
        /\ texts \in [Ids -> 0 .. MaxText]
    BY ChatConstants DEF Shapes, HistoryShaped, MessagesShaped
  <1>2. CASE SendMessage(w)
    <2>1. PICK p \in DOMAIN tab.msgs \cup {0}, n \in 1 .. FanOut :
            /\ created + 1 + n <= MaxMessages
            /\ Begin(w, Completion(p, created + 1, Answers(created + 1, n)))
            /\ created' = created + 1 + n
            /\ texts' = texts
      BY <1>2 DEF SendMessage, Answers
    <2>2. n \in Nat \ {0} /\ created + 1 \in Nat
      BY <1>1
    <2>3. PICK u, c, s : /\ u = created + 1 /\ c = Answers(u, n)
                         /\ s = Completion(p, u, c)
      OBVIOUS
    <2>4. u \in Nat /\ p \in 0 .. u - 1 /\ u + n <= MaxMessages /\ created' = u + n
      BY <1>1, <2>1, <2>2, <2>3 DEF Existing
    <2>5. /\ ScriptShaped(s)
          /\ \A j \in DOMAIN s : Sending(s[j], j, p, u, n)
      BY ONLY <2>2, <2>3, <2>4, CompletionShaped
    <2>6. ASSUME NEW j \in DOMAIN s PROVE StepExists(s[j])'
      <3>1. Touch.do = "touch" /\ \A m, q : Save(m, q, 0).do = "save" /\ Save(m, q, 0).msg = m
        BY DEF Touch, Save
      <3>2. \A m, k : Link(m, k).do = "link" /\ Link(m, k).msg = m
        BY DEF Link
      <3>3. /\ u <= created' /\ p <= created' /\ \A i \in 1 .. n : u + i <= created'
        BY <1>1, <2>2, <2>4
      <3>4. /\ s[j].do \in {"touch", "save", "link"}
            /\ s[j].do \in {"save", "link"} => s[j].msg <= created'
        BY <2>5, <3>1, <3>2, <3>3 DEF Sending
      <3> QED BY <3>4 DEF StepExists
    <2>7. Begin(w, s) /\ s = Completion(p, created + 1, Answers(created + 1, n))
      BY <2>1, <2>3
    <2>8. created' \in 0 .. MaxMessages /\ created <= created'
      BY <1>1, <2>1, <2>2
    <2> QED BY <1>1, <2>1, <2>2, <2>5, <2>6, <2>7, <2>8
  <1>3. CASE SaveText(w)
    <2>1. PICK m \in 1 .. created :
             /\ texts[m] < MaxText /\ Begin(w, <<Save(m, 0, texts[m] + 1)>>)
             /\ texts' = [texts EXCEPT ![m] = @ + 1] /\ created' = created
      BY <1>3 DEF SaveText
    <2>2. m \in Ids /\ texts[m] + 1 \in 0 .. MaxText /\ 0 \in 0 .. m - 1
      BY <1>1, <2>1 DEF Ids
    <2>3. PICK x : x = Save(m, 0, texts[m] + 1)
      OBVIOUS
    <2>4. StepShaped(x)
      BY <2>2, <2>3 DEF StepShaped, Save
    <2>5. ScriptShaped(<<x>>)
      BY <2>4, SmallScript
    <2>6. texts' \in [Ids -> 0 .. MaxText]
      BY <1>1, <2>1, <2>2
    <2>7. \A j \in DOMAIN <<x>> : StepExists(<<x>>[j])'
      <3>1. x.do = "save" /\ x.msg <= created' /\ \A j \in DOMAIN <<x>> : <<x>>[j] = x
        BY <1>1, <2>1, <2>3 DEF Save
      <3> QED BY <3>1 DEF StepExists
    <2>8. Begin(w, <<x>>) /\ created <= created' /\ created' \in 0 .. MaxMessages
      BY <1>1, <2>1, <2>3
    <2> QED BY <2>1, <2>3, <2>4, <2>5, <2>6, <2>7, <2>8
  <1>4. CASE OtherScript(w)
    <2>1. created' = created /\ texts' = texts
      BY <1>4 DEF OtherScript
    <2>2. PICK x : /\ Begin(w, <<x>>)
                   /\ \/ x = Touch \/ x = Read \/ x = Update(tab)
                      \/ \E m \in DOMAIN tab.msgs : x = Delete(m)
      BY <1>4 DEF OtherScript
    <2>3. StepShaped(x)
      BY <1>1, <2>2 DEF StepShaped, Touch, Read, Update, Delete
    <2>4. ScriptShaped(<<x>>)
      BY <2>3, SmallScript
    <2>5. \A j \in DOMAIN <<x>> : StepExists(<<x>>[j])'
      <3>1. /\ x.do \in {"touch", "read", "update", "delete"}
            /\ x.do = "update" => x.incoming = tab
            /\ \A j \in DOMAIN <<x>> : <<x>>[j] = x
        BY <2>2 DEF Touch, Read, Update, Delete
      <3> QED BY <2>1, <3>1 DEF StepExists, Existing
    <2>6. created <= created'
      BY <1>1, <2>1
    <2> QED BY <1>1, <2>1, <2>2, <2>3, <2>4, <2>5, <2>6
  <1> QED BY <1>2, <1>3, <1>4

-----------------------------------------------------------------------------
(* Shapes are kept.                                                        *)

\* A writer moves within what exists.
LEMMA MoveKeeps ==
  ASSUME Shapes, Existing, NEW w \in Writers, NEW r, Becomes(w, r), RunShaped(r),
         run[w].at # "idle", r.alone => run[w].alone, RunExists(r),
         HistoryShaped(blob'), DOMAIN blob'.msgs \subseteq 1 .. created,
         RowsShaped', DeletionsShaped', tab' = tab, created' = created, texts' = texts
  PROVE  Shapes' /\ Existing'
  <1>1. /\ RunsShaped' /\ run'[w] = r /\ \A v \in Writers : v # w => run'[v] = run[v]
    BY RunsKept DEF Shapes
  <1>2. \A x : StepExists(x)' <=> StepExists(x)
    BY DEF StepExists
  <1>3. ASSUME NEW v \in Writers, NEW q, q = run'[v] PROVE RunExists(q)'
    <2>1. RunExists(q)
      BY <1>1, <1>3 DEF Existing
    <2> QED BY <1>2, <2>1 DEF RunExists
  <1>4. \A v \in Writers : RunExists(run[v])'
    <2> SUFFICES ASSUME NEW v \in Writers PROVE RunExists(run[v])'
      OBVIOUS
    <2>1. PICK q : q = run'[v]
      OBVIOUS
    <2>2. RunExists(q)'
      BY <1>3, <2>1
    <2> QED BY <2>1, <2>2 DEF RunExists
  <1> QED BY <1>1, <1>4 DEF Shapes, Existing

\* After a step nothing new is said.
LEMMA DoneExists ==
  ASSUME NEW r, RunShaped(r), r.at # "idle", RunExists(r)
  PROVE  RunExists(Done(r))
  <1>1. PICK d : d = Done(r)
    OBVIOUS
  <1>2. /\ d.at \in {"idle", "peek", "rows", "load"}
        /\ d.at = "idle" <=> Tail(r.script) = <<>>
        /\ d.at # "idle" => d.script = Tail(r.script)
    BY <1>1, DoneIs
  <1>3. ScriptShaped(r.script)
    BY DEF RunShaped
  <1>4. /\ DOMAIN Tail(r.script) = 1 .. Len(r.script) - 1
        /\ \A j \in 1 .. Len(r.script) - 1 :
              Tail(r.script)[j] = r.script[j + 1] /\ j + 1 \in DOMAIN r.script
    <2>1. PICK s : s = r.script /\ ScriptShaped(s)
      BY <1>3
    <2> QED BY <2>1, ScriptIs
  <1> QED BY <1>1, <1>2, <1>4 DEF RunExists

\* What a step makes of the history is about what exists (Applied).
LEMMA AppliedExists ==
  ASSUME NEW x, StepShaped(x), x.do # "read", StepExists(x), NEW h, HistoryShaped(h),
         x.do = "delete" => x.msg \in DOMAIN h.msgs, DOMAIN h.msgs \subseteq 1 .. created
  PROVE  DOMAIN Applied(x, h).msgs \subseteq 1 .. created
  <1>1. x.do \in {"save", "link", "touch", "delete", "update"}
    BY DEF StepShaped
  <1>2. CASE x.do = "save"
    <2>1. Applied(x, h) = Upsert(h, x, x.parent)
      BY <1>2 DEF Applied
    <2>2. x.msg \in Ids /\ x.msg \in 1 .. created
      BY <1>2 DEF StepShaped, StepExists, Ids
    <2>3. DOMAIN Upsert(h, x, x.parent).msgs = DOMAIN h.msgs \cup {x.msg}
      BY DEF Upsert
    <2> QED BY <2>1, <2>2, <2>3
  <1>3. CASE x.do = "link"
    <2>1. Applied(x, h) = Upsert(h, x, 0)
      BY <1>3 DEF Applied
    <2>2. x.msg \in Ids /\ x.msg \in 1 .. created
      BY <1>3 DEF StepShaped, StepExists, Ids
    <2>3. DOMAIN Upsert(h, x, 0).msgs = DOMAIN h.msgs \cup {x.msg}
      BY DEF Upsert
    <2> QED BY <2>1, <2>2, <2>3
  <1>4. CASE x.do = "delete"
    <2>1. Applied(x, h) = DeleteFrom(h, x.msg)
      BY <1>4 DEF Applied
    <2>2. DOMAIN DeleteFrom(h, x.msg).msgs \subseteq DOMAIN h.msgs
      BY DEF DeleteFrom
    <2> QED BY <2>1, <2>2
  <1>5. CASE x.do = "update"
    <2>1. Applied(x, h) = MergeHistory(h, x.incoming)
      BY <1>5 DEF Applied
    <2>2. DOMAIN MergeHistory(h, x.incoming).msgs = DOMAIN h.msgs \cup DOMAIN x.incoming.msgs
      BY DEF MergeHistory
    <2> QED BY <1>5, <2>1, <2>2 DEF StepExists
  <1>6. CASE x.do = "touch"
    BY <1>6 DEF Applied
  <1> QED BY <1>1, <1>2, <1>3, <1>4, <1>5, <1>6

\* A step ends, a new history having been stored or not (Finish).
LEMMA FinishKeeps ==
  ASSUME Shapes, Existing, NEW w \in Writers, run[w].at # "idle", Finish(w),
         HistoryShaped(blob'), DOMAIN blob'.msgs \subseteq 1 .. created,
         RowsShaped', DeletionsShaped', tab' = tab, created' = created, texts' = texts
  PROVE  Shapes' /\ Existing'
  <1>1. PICK r : /\ r = Done(run[w]) /\ Becomes(w, r) /\ RunShaped(r)
                 /\ r.alone => run[w].alone
    BY FinishIs DEF Shapes
  <1>2. RunExists(r)
    <2>1. PICK old : old = run[w] /\ RunShaped(old) /\ RunExists(old)
      BY DEF Shapes, RunsShaped, Existing
    <2> QED BY <1>1, <2>1, DoneExists
  <1> QED BY <1>1, <1>2, MoveKeeps

\* Deletions are kept when messages are only looked at.
LEMMA DeletionsKept ==
  ASSUME DeletionsShaped, removed' = removed, returned' = returned, created' = created
  PROVE  DeletionsShaped'
  BY DEF DeletionsShaped

\* Each step of a writer keeps types and the bound on identifiers.
LEMMA PeekKeeps ==
  ASSUME Shapes, Existing, NEW w \in Writers, Peek(w)
  PROVE  Shapes' /\ Existing'
  <1>1. /\ run[w].at # "idle" /\ HistoryShaped(blob') /\ blob'.msgs = blob.msgs
        /\ Step(w).do = "link"
    BY PeekIs
  <1>2. PICK r :
          /\ Becomes(w, r) /\ RunShaped(r) /\ (r.alone => run[w].alone)
          /\ \/ Step(w).msg \notin DOMAIN blob.msgs /\ r = Done(run[w])
             \/ /\ Step(w).msg \in DOMAIN blob.msgs /\ r.at = "load"
                /\ DOMAIN r.script = DOMAIN run[w].script
                /\ \A j \in DOMAIN r.script : j # 1 => r.script[j] = run[w].script[j]
                /\ \E k : r.script[1] = Link(Step(w).msg, k)
    BY PeekIs
  <1>3. /\ rows' = rows /\ removed' = removed /\ returned' = returned
        /\ tab' = tab /\ created' = created /\ texts' = texts
    BY DEF Peek, deletions, Bookkeeping
  <1>4. RowsShaped' /\ DeletionsShaped'
    BY <1>3, DeletionsKept DEF Shapes, RowsShaped
  <1>5. PICK old : old = run[w] /\ RunShaped(old) /\ RunExists(old) /\ old.at # "idle"
    BY <1>1 DEF Shapes, RunsShaped, Existing
  <1>6. RunExists(r)
    <2>1. CASE r = Done(old)
      BY <1>5, <2>1, DoneExists
    <2>2. CASE /\ r.at = "load" /\ DOMAIN r.script = DOMAIN old.script
               /\ \A j \in DOMAIN r.script : j # 1 => r.script[j] = old.script[j]
               /\ \E k : r.script[1] = Link(Step(w).msg, k)
      <3>1. /\ 1 \in DOMAIN old.script /\ old.script[1] = Step(w)
        BY <1>5, RunIs, ScriptIs DEF Step
      <3>2. StepExists(Step(w))
        BY <1>5, <3>1 DEF RunExists
      <3>3. r.script[1].do = "link" /\ r.script[1].msg = Step(w).msg
        BY <2>2 DEF Link
      <3>4. StepExists(r.script[1])
        BY <1>1, <3>2, <3>3 DEF StepExists
      <3> QED BY <1>5, <2>2, <3>4 DEF RunExists
    <2> QED BY <1>2, <1>5, <2>1, <2>2
  <1> QED BY <1>1, <1>2, <1>3, <1>4, <1>6, MoveKeeps DEF Existing

\* A load keeps them.
LEMMA LoadKeeps ==
  ASSUME Shapes, Existing, NEW w \in Writers, Load(w)
  PROVE  Shapes' /\ Existing'
  <1>1. /\ run[w].at = "load" /\ HistoryShaped(blob') /\ blob'.msgs = blob.msgs
        /\ Step(w).do # "read"
    BY LoadIs
  <1>2. PICK r :
          /\ Becomes(w, r) /\ RunShaped(r) /\ (r.alone => run[w].alone)
          /\ \/ r = Done(run[w])
             \/ /\ Step(w).do = "delete" => Step(w).msg \in DOMAIN blob.msgs
                /\ r.script = run[w].script
                /\ r.at = IF Step(w).do \in {"save", "link"} THEN "row" ELSE "blob"
                /\ r.copy.msgs = Applied(Step(w), blob).msgs
    BY LoadIs
  <1>3. /\ rows' = rows /\ removed' = removed /\ returned' = returned
        /\ tab' = tab /\ created' = created /\ texts' = texts
    BY DEF Load, deletions, Bookkeeping
  <1>4. RowsShaped' /\ DeletionsShaped'
    BY <1>3, DeletionsKept DEF Shapes, RowsShaped
  <1>5. PICK old : old = run[w] /\ RunShaped(old) /\ RunExists(old) /\ old.at # "idle"
    BY <1>1 DEF Shapes, RunsShaped, Existing
  <1>6. RunExists(r)
    <2>1. CASE r = Done(old)
      BY <1>5, <2>1, DoneExists
    <2>2. CASE /\ Step(w).do = "delete" => Step(w).msg \in DOMAIN blob.msgs
               /\ r.script = old.script
               /\ r.copy.msgs = Applied(Step(w), blob).msgs
               /\ r.at = IF Step(w).do \in {"save", "link"} THEN "row" ELSE "blob"
      <3>1. 1 \in DOMAIN old.script /\ old.script[1] = Step(w) /\ StepShaped(Step(w))
        BY <1>5, RunIs, ScriptIs DEF Step
      <3>2. StepExists(Step(w))
        BY <1>5, <3>1 DEF RunExists
      <3>3. DOMAIN Applied(Step(w), blob).msgs \subseteq 1 .. created
        BY <1>1, <2>2, <3>1, <3>2, AppliedExists DEF Shapes, Existing
      <3> QED BY <1>5, <2>2, <3>3 DEF RunExists
    <2> QED BY <1>2, <1>5, <2>1, <2>2
  <1> QED BY <1>1, <1>2, <1>3, <1>4, <1>6, MoveKeeps DEF Existing

\* Writing a row keeps them.
LEMMA WriteRowKeeps ==
  ASSUME Shapes, Existing, NEW w \in Writers, WriteRow(w)
  PROVE  Shapes' /\ Existing'
  <1>1. run[w].at = "row" /\ RowsShaped'
    BY WriteRowIs
  <1>2. PICK r : /\ Becomes(w, r) /\ RunShaped(r) /\ r.script = run[w].script /\ r.at = "blob"
                 /\ r.copy = run[w].copy /\ r.alone = run[w].alone
    BY WriteRowIs
  <1>3. /\ blob' = blob /\ removed' = removed /\ returned' = returned
        /\ tab' = tab /\ created' = created /\ texts' = texts
    BY DEF WriteRow, deletions, Bookkeeping
  <1>4. HistoryShaped(blob') /\ DeletionsShaped' /\ DOMAIN blob'.msgs \subseteq 1 .. created
    BY <1>3, DeletionsKept DEF Shapes, Existing
  <1>5. RunExists(r)
    BY <1>1, <1>2 DEF Existing, RunExists
  <1> QED BY <1>1, <1>2, <1>3, <1>4, <1>5, MoveKeeps

\* Writing the history keeps them.
LEMMA WriteBlobKeeps ==
  ASSUME Shapes, Existing, NEW w \in Writers, WriteBlob(w)
  PROVE  Shapes' /\ Existing'
  <1>1. run[w].at = "blob" /\ HistoryShaped(blob') /\ blob' = run[w].copy /\ DeletionsShaped'
    BY WriteBlobIs
  <1>2. PICK r : /\ Becomes(w, r) /\ RunShaped(r) /\ (r.alone => run[w].alone)
                 /\ \/ r.script = run[w].script /\ r.at = "fill" /\ r.copy = run[w].copy
                    \/ r = Done(run[w])
    BY WriteBlobIs
  <1>3. rows' = rows /\ tab' = tab /\ created' = created /\ texts' = texts
    BY DEF WriteBlob, Bookkeeping
  <1>4. RowsShaped' /\ DOMAIN blob'.msgs \subseteq 1 .. created
    BY <1>1, <1>3 DEF Shapes, RowsShaped, Existing, RunExists
  <1>5. RunExists(r)
    <2>1. PICK old : old = run[w] /\ RunShaped(old) /\ RunExists(old) /\ old.at = "blob"
      BY <1>1 DEF Shapes, RunsShaped, Existing
    <2>2. CASE r = Done(old)
      BY <2>1, <2>2, DoneExists
    <2>3. CASE r.script = old.script /\ r.at = "fill" /\ r.copy = old.copy
      BY <2>1, <2>3 DEF RunExists
    <2> QED BY <1>2, <2>1, <2>2, <2>3
  <1> QED BY <1>1, <1>2, <1>3, <1>4, <1>5, MoveKeeps

\* Filling a row keeps them.
LEMMA FillKeeps ==
  ASSUME Shapes, Existing, NEW w \in Writers, Fill(w)
  PROVE  Shapes' /\ Existing'
  <1>1. run[w].at = "fill" /\ RowsShaped'
    BY FillIs
  <1>2. PICK r : /\ Becomes(w, r) /\ RunShaped(r) /\ r.script = run[w].script /\ r.at = "fill"
                 /\ r.copy = run[w].copy /\ r.alone = run[w].alone
    BY FillIs
  <1>3. /\ blob' = blob /\ removed' = removed /\ returned' = returned
        /\ tab' = tab /\ created' = created /\ texts' = texts
    BY DEF Fill, deletions, Bookkeeping
  <1>4. HistoryShaped(blob') /\ DeletionsShaped' /\ DOMAIN blob'.msgs \subseteq 1 .. created
    BY <1>3, DeletionsKept DEF Shapes, Existing
  <1>5. RunExists(r)
    BY <1>1, <1>2 DEF Existing, RunExists
  <1> QED BY <1>1, <1>2, <1>3, <1>4, <1>5, MoveKeeps

\* Dropping the rows of deleted messages keeps them.
LEMMA DropRowsKeeps ==
  ASSUME Shapes, Existing, NEW w \in Writers, DropRows(w)
  PROVE  Shapes' /\ Existing'
  <1>1. run[w].at = "fill" /\ RowsShaped' /\ Finish(w)
    BY DropRowsIs
  <1>2. /\ blob' = blob /\ removed' = removed /\ returned' = returned
        /\ tab' = tab /\ created' = created /\ texts' = texts
    BY DEF DropRows, deletions, Bookkeeping
  <1>3. HistoryShaped(blob') /\ DeletionsShaped' /\ DOMAIN blob'.msgs \subseteq 1 .. created
    BY <1>2, DeletionsKept DEF Shapes, Existing
  <1>4. run[w].at # "idle"
    BY <1>1
  <1> QED BY <1>1, <1>2, <1>3, <1>4, FinishKeeps

\* Reading the rows keeps them.
LEMMA ReadRowsKeeps ==
  ASSUME Shapes, Existing, NEW w \in Writers, ReadRows(w)
  PROVE  Shapes' /\ Existing'
  <1>1. run[w].at = "rows"
    BY ReadRowsIs
  <1>2. /\ blob' = blob /\ rows' = rows /\ removed' = removed /\ returned' = returned
        /\ tab' = tab /\ created' = created /\ texts' = texts
    BY DEF ReadRows, deletions, Bookkeeping
  <1>3. /\ HistoryShaped(blob') /\ DeletionsShaped' /\ RowsShaped'
        /\ DOMAIN blob'.msgs \subseteq 1 .. created
    BY <1>2, DeletionsKept DEF Shapes, RowsShaped, Existing
  <1>4. CASE Finish(w)
    <2>1. run[w].at # "idle"
      BY <1>1
    <2> QED BY <1>2, <1>3, <1>4, <2>1, FinishKeeps
  <1>5. CASE \E r : /\ Becomes(w, r) /\ RunShaped(r) /\ r.script = run[w].script
                    /\ r.at = "gap" /\ r.alone = run[w].alone
    <2>1. PICK r : /\ Becomes(w, r) /\ RunShaped(r) /\ r.script = run[w].script
                   /\ r.at = "gap" /\ r.alone = run[w].alone
      BY <1>5
    <2>2. RunExists(r)
      BY <1>1, <2>1 DEF Existing, RunExists
    <2> QED BY <1>1, <1>2, <1>3, <2>1, <2>2, MoveKeeps
  <1> QED BY <1>4, <1>5, ReadRowsIs

\* Loading a history for what the rows lack keeps them.
LEMMA LoadMissingKeeps ==
  ASSUME Shapes, Existing, NEW w \in Writers, LoadMissing(w)
  PROVE  Shapes' /\ Existing'
  <1>1. run[w].at = "gap" /\ HistoryShaped(blob') /\ blob'.msgs = blob.msgs
    BY LoadMissingIs
  <1>2. PICK r : /\ Becomes(w, r) /\ RunShaped(r) /\ r.script = run[w].script /\ r.at = "fill"
                 /\ r.copy.msgs = blob.msgs /\ r.alone = run[w].alone
    BY LoadMissingIs
  <1>3. /\ rows' = rows /\ removed' = removed /\ returned' = returned
        /\ tab' = tab /\ created' = created /\ texts' = texts
    BY DEF LoadMissing, deletions, Bookkeeping
  <1>4. RowsShaped' /\ DeletionsShaped' /\ DOMAIN blob'.msgs \subseteq 1 .. created
    BY <1>1, <1>3, DeletionsKept DEF Shapes, RowsShaped, Existing
  <1>5. RunExists(r)
    BY <1>1, <1>2 DEF Existing, RunExists
  <1> QED BY <1>1, <1>2, <1>3, <1>4, <1>5, MoveKeeps

\* A writer that dies keeps them.
LEMMA DieKeeps ==
  ASSUME Shapes, Existing, NEW w \in Writers, Die(w)
  PROVE  Shapes' /\ Existing'
  <1>1. run[w].at # "idle" /\ Becomes(w, Idle)
    BY DEF Die, Busy, Becomes
  <1>2. /\ blob' = blob /\ rows' = rows /\ removed' = removed /\ returned' = returned
        /\ tab' = tab /\ created' = created /\ texts' = texts
    BY DEF Die, deletions
  <1>3. /\ HistoryShaped(blob') /\ DeletionsShaped' /\ RowsShaped'
        /\ DOMAIN blob'.msgs \subseteq 1 .. created
    BY <1>2, DeletionsKept DEF Shapes, RowsShaped, Existing
  <1>4. PICK r : r = Idle /\ RunShaped(r) /\ r.at = "idle" /\ ~r.alone
    BY IdleIs
  <1>5. RunExists(r) /\ (r.alone => run[w].alone) /\ Becomes(w, r)
    BY <1>1, <1>4 DEF RunExists
  <1> QED BY <1>1, <1>2, <1>3, <1>4, <1>5, MoveKeeps

\* A tab that loads the chat keeps them.
LEMMA LoadTabKeeps ==
  ASSUME Shapes, Existing, LoadTab
  PROVE  Shapes' /\ Existing'
  <1>1. HistoryShaped(blob') /\ blob'.msgs = blob.msgs /\ tab' = blob'
    BY RepairIs DEF LoadTab, Shapes
  <1>2. /\ rows' = rows /\ removed' = removed /\ returned' = returned /\ run' = run
        /\ created' = created /\ texts' = texts
    BY DEF LoadTab, deletions
  <1>3. RowsShaped' /\ DeletionsShaped' /\ RunsShaped'
    BY <1>2, DeletionsKept DEF Shapes, RowsShaped, RunsShaped, Busy
  <1>4. Shapes'
    BY <1>1, <1>2, <1>3 DEF Shapes
  <1>5. \A x : StepExists(x)' <=> StepExists(x)
    BY <1>2 DEF StepExists
  <1>6. \A v \in Writers : RunExists(run[v])'
    BY <1>2, <1>5 DEF Existing, RunExists
  <1> QED BY <1>1, <1>2, <1>4, <1>6 DEF Existing

\* A script begins.
LEMMA BeginKeeps ==
  ASSUME Shapes, Existing, NEW w \in Writers, SendMessage(w) \/ SaveText(w) \/ OtherScript(w)
  PROVE  Shapes' /\ Existing'
  <1>1. /\ created' \in 0 .. MaxMessages /\ created <= created'
        /\ texts' \in [Ids -> 0 .. MaxText]
    BY BeganIs
  <1>2. PICK s : Begin(w, s) /\ ScriptShaped(s) /\ \A j \in DOMAIN s : StepExists(s[j])'
    BY BeganIs
  <1>3. /\ RunsShaped' /\ w \notin Busy /\ run'[w].script = s
        /\ run'[w].at \in {"peek", "rows", "load"}
        /\ UNCHANGED <<blob, rows, tab, removed, returned>>
    BY <1>2, ScriptBegins DEF Shapes
  <1>4. \A v \in Writers : v # w =>
           /\ run'[v].script = run[v].script /\ run'[v].at = run[v].at
           /\ run'[v].copy = run[v].copy
    <2> SUFFICES ASSUME NEW v \in Writers, v # w
                 PROVE  /\ run'[v].script = run[v].script /\ run'[v].at = run[v].at
                        /\ run'[v].copy = run[v].copy
      OBVIOUS
    <2>1. PICK r : r = run[v] /\ r = RunOf(r.script, r.at, r.copy, r.left, r.gone, r.alone)
      BY DEF Shapes, RunsShaped, RunShaped
    <2>2. PICK q : q = NotAlone(r)
      OBVIOUS
    <2>3. run'[v] = q
      BY <1>2, <2>1, <2>2 DEF Begin, NotAlone
    <2>4. q.script = r.script /\ q.at = r.at /\ q.copy = r.copy
      BY <2>1, <2>2 DEF NotAlone, RunOf
    <2> QED BY <2>1, <2>3, <2>4
  <1>5. created \in 0 .. MaxMessages /\ MaxMessages \in Nat
    BY ChatConstants DEF Shapes
  <1>6. 1 .. created \subseteq 1 .. created' /\ 0 .. created \subseteq 0 .. created'
    BY <1>1, <1>5
  <1>7. DeletionsShaped' /\ RowsShaped'
    BY <1>3, <1>6 DEF Shapes, DeletionsShaped, RowsShaped
  <1>8. Shapes'
    BY <1>1, <1>3, <1>7 DEF Shapes
  <1>9. ASSUME NEW x, StepShaped(x), StepExists(x) PROVE StepExists(x)'
    <2>1. x.do \in {"save", "link"} => x.msg \in Ids /\ x.msg <= created
      BY <1>9 DEF StepShaped, StepExists
    <2>2. x.do \in {"save", "link"} => x.msg <= created'
      BY <1>1, <1>5, <2>1 DEF Ids
    <2> QED BY <1>6, <1>9, <2>2 DEF StepExists
  <1>10. ASSUME NEW v \in Writers PROVE RunExists(run[v])'
    <2>1. CASE v = w
      BY <1>2, <1>3, <2>1 DEF RunExists
    <2>2. CASE v # w
      <3>1. PICK r : r = run[v] /\ RunShaped(r) /\ RunExists(r)
        BY DEF Shapes, RunsShaped, Existing
      <3>2. PICK q : q = run'[v] /\ q.script = r.script /\ q.at = r.at /\ q.copy = r.copy
        BY <1>4, <2>2, <3>1
      <3>3. q.at \in {"row", "blob", "fill"} => DOMAIN q.copy.msgs \subseteq 1 .. created'
        BY <1>6, <3>1, <3>2 DEF RunExists
      <3>4. q.at # "idle" => \A j \in DOMAIN q.script : StepExists(q.script[j])'
        BY <1>9, <3>1, <3>2 DEF RunExists, RunShaped, ScriptShaped
      <3> QED BY <3>2, <3>3, <3>4 DEF RunExists
    <2> QED BY <2>1, <2>2
  <1>11. DOMAIN blob'.msgs \subseteq 1 .. created' /\ DOMAIN tab'.msgs \subseteq 1 .. created'
    BY <1>3, <1>6 DEF Existing
  <1> QED BY <1>8, <1>10, <1>11 DEF Existing

\* The chat in the beginning: the messages, and the children of each.
LEMMA InitIs ==
  ASSUME Init
  PROVE  /\ created \in 0 .. MaxMessages /\ DOMAIN blob.msgs = 1 .. created /\ HistoryShaped(blob)
         /\ \A m, k \in DOMAIN blob.msgs : k \in Kids(blob.msgs, m) <=> blob.msgs[k].parent = m
         /\ \A m \in DOMAIN blob.msgs : /\ Kids(blob.msgs, m) \subseteq DOMAIN blob.msgs
                                        /\ blob.msgs[m].parent \in DOMAIN blob.msgs \cup {0}
         /\ DOMAIN rows \subseteq DOMAIN blob.msgs
         /\ \A m \in DOMAIN rows : rows[m] = Row(m, blob)
         /\ run = [w \in Writers |-> Idle] /\ tab = EmptyHistory /\ removed = <<>> /\ returned = {}
         /\ texts = [m \in Ids |-> 0] /\ healed = "nothing" /\ DOMAIN removed = {}
  <1>0. PICK n \in 0 .. MaxInitial, known \in SUBSET Ids :
          \E parent \in [1 .. n -> 0 .. n] :
          /\ \A m \in 1 .. n : parent[m] < m
          /\ created = n
          /\ blob = [msgs |-> [m \in 1 .. n |->
                                 [parent |-> parent[m], text |-> 0,
                                  kids |-> InOrder({k \in 1 .. n : parent[k] = m})]],
                     current |-> n]
          /\ rows = [m \in known \cap 1 .. n |-> [parent |-> parent[m], text |-> 0]]
    BY DEF Init
  <1>1. PICK parent \in [1 .. n -> 0 .. n] :
          /\ \A m \in 1 .. n : parent[m] < m
          /\ created = n
          /\ blob = [msgs |-> [m \in 1 .. n |->
                                 [parent |-> parent[m], text |-> 0,
                                  kids |-> InOrder({k \in 1 .. n : parent[k] = m})]],
                     current |-> n]
          /\ rows = [m \in known \cap 1 .. n |-> [parent |-> parent[m], text |-> 0]]
    BY <1>0
  <1>2. MaxMessages \in Nat /\ MaxInitial \in Nat /\ MaxText \in Nat /\ MaxInitial <= MaxMessages
    BY ChatConstants
  <1>3. n \in Nat /\ n <= MaxMessages /\ 1 .. n \subseteq Ids /\ n \in 0 .. MaxMessages
    BY <1>2 DEF Ids
  <1> DEFINE kids(m) == {k \in 1 .. n : parent[k] = m}
             M == [m \in 1 .. n |-> [parent |-> parent[m], text |-> 0, kids |-> InOrder(kids(m))]]
  <1>4. ASSUME NEW m \in 1 .. n
        PROVE  InOrder(kids(m)) \in Seq(LaterThan(m)) /\ Range(InOrder(kids(m))) = kids(m)
    <2>1. kids(m) \subseteq Ids
      BY <1>3
    <2>2. ASSUME NEW k \in kids(m) PROVE k \in LaterThan(m)
      <3>1. k \in 1 .. n /\ m < k
        BY <1>1, <2>2
      <3> QED BY <1>2, <1>3, <3>1 DEF LaterThan
    <2> DEFINE S == kids(m)
    <2> HIDE DEF S
    <2>3. S \subseteq Ids /\ S \subseteq LaterThan(m)
      BY <2>1, <2>2 DEF S
    <2>4. InOrder(S) \in Seq(S) /\ Range(InOrder(S)) = S
      BY <2>3, InOrderOf
    <2>5. InOrder(S) \in Seq(LaterThan(m))
      BY <2>3, <2>4, SeqMonotonic
    <2> QED BY <2>4, <2>5 DEF S
  <1>5. blob.msgs = M /\ blob.current = n /\ blob = [msgs |-> M, current |-> n]
    BY <1>1
  <1> HIDE DEF kids
  <1>6. /\ DOMAIN M = 1 .. n
        /\ \A m \in 1 .. n : /\ M[m].parent = parent[m] /\ M[m].text = 0
                             /\ M[m].kids = InOrder(kids(m))
                             /\ M[m] = [parent |-> M[m].parent, kids |-> M[m].kids,
                                        text |-> M[m].text]
        /\ M = [m \in DOMAIN M |-> M[m]]
    OBVIOUS
  <1> HIDE DEF M
  <1>7. ASSUME NEW m \in 1 .. n PROVE M[m] \in MessageOf(m)
    <2>1. M[m].parent \in 0 .. m - 1
      BY <1>1, <1>3, <1>6
    <2>2. M[m].text \in 0 .. MaxText
      BY <1>2, <1>6
    <2>3. M[m].kids \in Seq(LaterThan(m))
      BY <1>4, <1>6
    <2>4. M[m] = [parent |-> M[m].parent, kids |-> M[m].kids, text |-> M[m].text]
      BY <1>6
    <2> QED BY <2>1, <2>2, <2>3, <2>4 DEF MessageOf
  <1>8. MessagesShaped(M)
    BY <1>3, <1>6, <1>7 DEF MessagesShaped
  <1>9. HistoryShaped(blob)
    BY <1>3, <1>5, <1>8 DEF HistoryShaped
  <1>10. \A m \in 1 .. n : Kids(M, m) = kids(m)
    BY <1>4, <1>6 DEF Kids
  <1>11. \A m, k \in 1 .. n : k \in Kids(M, m) <=> M[k].parent = m
    BY <1>6, <1>10 DEF kids
  <1>12. \A m \in 1 .. n : Kids(M, m) \subseteq 1 .. n /\ M[m].parent \in 1 .. n \cup {0}
    <2>1. \A m \in 1 .. n : parent[m] \in 0 .. n
      OBVIOUS
    <2>2. \A q \in 0 .. n : q \in 1 .. n \cup {0}
      BY <1>3
    <2> QED BY <1>6, <1>10, <2>1, <2>2 DEF kids
  <1>13. DOMAIN rows \subseteq 1 .. n /\ \A m \in DOMAIN rows : rows[m] = Row(m, blob)
    BY <1>1, <1>5, <1>6 DEF Row
  <1>14. /\ run = [w \in Writers |-> Idle] /\ tab = EmptyHistory /\ removed = <<>> /\ returned = {}
         /\ texts = [m \in Ids |-> 0] /\ healed = "nothing"
    BY DEF Init
  <1>15. \A f : f = <<>> => DOMAIN f = {}
    OBVIOUS
  <1>16. blob.msgs = M /\ DOMAIN blob.msgs = 1 .. n /\ created = n
    BY <1>1, <1>5, <1>6
  <1> HIDE DEF M
  <1>17. DOMAIN removed = {}
    BY <1>14, <1>15
  <1>18. \A m, k \in DOMAIN blob.msgs : k \in Kids(blob.msgs, m) <=> blob.msgs[k].parent = m
    BY ONLY <1>11, <1>16
  <1>19. \A m \in DOMAIN blob.msgs : /\ Kids(blob.msgs, m) \subseteq DOMAIN blob.msgs
                                     /\ blob.msgs[m].parent \in DOMAIN blob.msgs \cup {0}
    BY ONLY <1>12, <1>16
  <1>20. /\ created \in 0 .. MaxMessages /\ DOMAIN blob.msgs = 1 .. created
         /\ DOMAIN rows \subseteq DOMAIN blob.msgs
    BY <1>3, <1>13, <1>16
  <1> QED BY ONLY <1>9, <1>13, <1>14, <1>17, <1>18, <1>19, <1>20

\* The initial histories have their types.
LEMMA InitShapes ==
  ASSUME Init
  PROVE  Shapes /\ Existing
  <1>1. /\ created \in 0 .. MaxMessages /\ DOMAIN blob.msgs = 1 .. created /\ HistoryShaped(blob)
        /\ DOMAIN rows \subseteq DOMAIN blob.msgs
        /\ \A m \in DOMAIN rows : rows[m] = Row(m, blob)
        /\ run = [w \in Writers |-> Idle] /\ tab = EmptyHistory /\ removed = <<>> /\ returned = {}
        /\ texts = [m \in Ids |-> 0] /\ DOMAIN removed = {}
    BY InitIs
  <1>2. MaxMessages \in Nat /\ MaxText \in Nat
    BY ChatConstants
  <1>3. HistoryShaped(tab) /\ DOMAIN tab.msgs = {}
    BY <1>1, EmptyShaped
  <1>4. RowsShaped
    <2>1. MessagesShaped(blob.msgs)
      BY <1>1 DEF HistoryShaped
    <2>2. \A m \in DOMAIN blob.msgs :
             m \in Ids /\ Row(m, blob) \in [parent : 0 .. m - 1, text : 0 .. MaxText]
      <3> SUFFICES ASSUME NEW m \in DOMAIN blob.msgs
                   PROVE  m \in Ids /\ Row(m, blob) \in [parent : 0 .. m - 1, text : 0 .. MaxText]
        OBVIOUS
      <3>1. m \in Ids /\ blob.msgs[m].parent \in 0 .. m - 1 /\ blob.msgs[m].text \in 0 .. MaxText
        BY <2>1, MessageIs
      <3> QED BY <3>1 DEF Row
    <2> QED BY <1>1, <2>2 DEF RowsShaped
  <1>5. PICK r : r = Idle /\ RunShaped(r) /\ r.at = "idle" /\ ~r.alone
    BY IdleIs
  <1>6. \A w \in Writers : run[w] = r
    BY <1>1, <1>5
  <1>7. RunsShaped /\ \A w \in Writers : RunExists(run[w])
    <2>1. run = [w \in Writers |-> run[w]]
      BY <1>1
    <2> QED BY <2>1, <1>5, <1>6 DEF RunsShaped, RunExists, Busy
  <1>8. DeletionsShaped
    BY <1>1 DEF DeletionsShaped
  <1>9. texts \in [Ids -> 0 .. MaxText]
    <2>1. 0 \in 0 .. MaxText
      BY <1>2
    <2> QED BY <1>1, <2>1
  <1>10. DOMAIN blob.msgs \subseteq 1 .. created /\ DOMAIN tab.msgs \subseteq 1 .. created
    BY <1>1, <1>3
  <1> QED BY <1>1, <1>3, <1>4, <1>7, <1>8, <1>9, <1>10 DEF Shapes, Existing

\* Every step keeps types and the bound on identifiers.
LEMMA StepKeeps ==
  ASSUME Shapes, Existing, [Next]_vars
  PROVE  Shapes' /\ Existing'
  <1>1. CASE UNCHANGED vars
    <2>1. /\ blob' = blob /\ rows' = rows /\ removed' = removed /\ returned' = returned
          /\ run' = run /\ tab' = tab /\ created' = created /\ texts' = texts
      BY <1>1 DEF vars
    <2>2. Shapes'
      BY <2>1 DEF Shapes, RowsShaped, RunsShaped, DeletionsShaped, Busy
    <2>3. \A x : StepExists(x)' <=> StepExists(x)
      BY <2>1 DEF StepExists
    <2> QED BY <2>1, <2>2, <2>3 DEF Existing, RunExists
  <1>2. CASE LoadTab
    BY <1>2, LoadTabKeeps
  <1>3. ASSUME NEW w \in Writers,
               \/ SendMessage(w) \/ SaveText(w) \/ OtherScript(w)
               \/ Peek(w) \/ Load(w) \/ WriteRow(w) \/ WriteBlob(w) \/ Fill(w) \/ DropRows(w)
               \/ ReadRows(w) \/ LoadMissing(w) \/ Die(w)
        PROVE  Shapes' /\ Existing'
    <2>1. CASE SendMessage(w) \/ SaveText(w) \/ OtherScript(w)
      BY <2>1, BeginKeeps
    <2>2. CASE Peek(w)
      BY <2>2, PeekKeeps
    <2>3. CASE Load(w)
      BY <2>3, LoadKeeps
    <2>4. CASE WriteRow(w)
      BY <2>4, WriteRowKeeps
    <2>5. CASE WriteBlob(w)
      BY <2>5, WriteBlobKeeps
    <2>6. CASE Fill(w)
      BY <2>6, FillKeeps
    <2>7. CASE DropRows(w)
      BY <2>7, DropRowsKeeps
    <2>8. CASE ReadRows(w)
      BY <2>8, ReadRowsKeeps
    <2>9. CASE LoadMissing(w)
      BY <2>9, LoadMissingKeeps
    <2>10. CASE Die(w)
      BY <2>10, DieKeeps
    <2> QED BY <1>3, <2>1, <2>2, <2>3, <2>4, <2>5, <2>6, <2>7, <2>8, <2>9, <2>10
  <1> QED BY <1>1, <1>2, <1>3 DEF Next

-----------------------------------------------------------------------------
(* An update that runs alone heals.                                        *)

\* Children and parents agree; a row says what its message says.
Exact(M) == \A m, k \in DOMAIN M : k \in Kids(M, m) <=> M[k].parent = m
RowLike(m, M) == m \in DOMAIN rows /\ rows[m] = [parent |-> M[m].parent, text |-> M[m].text]
Healed == Exact(blob.msgs) /\ \A m \in DOMAIN blob.msgs : RowLike(m, blob.msgs)

\* What an update that is alone has healed in each phase.
HealOK(r) ==
    /\ r.at = "blob" => Exact(r.copy.msgs)
    /\ r.at = "fill" =>
        /\ blob.msgs = r.copy.msgs /\ Exact(r.copy.msgs)
        /\ \A m \in DOMAIN blob.msgs : m \in r.left \/ RowLike(m, blob.msgs)

\* While an update runs alone nothing else does.
HealInv ==
    /\ healed # "nothing" => Busy = {}
    /\ healed = "update" => Healed
    /\ \A w \in Busy : run[w].alone /\ Step(w).do = "update" => HealOK(run[w])

\* A writer moves, and what an update is doing is kept.
LEMMA HealMove ==
  ASSUME Shapes, HealInv, NEW w \in Writers, NEW r, Becomes(w, r), RunShaped(r),
         run[w].at # "idle", r.alone => run[w].alone, healed' \in {healed, "nothing"},
         r.at # "idle" /\ r.alone /\ Head(r.script).do = "update" => HealOK(r)'
  PROVE  HealInv'
  <1>1. /\ run'[w] = r /\ w \in Busy /\ Busy' \subseteq Busy
        /\ \A v, u \in Busy' : run'[v].alone => v = u
        /\ \A v \in Writers : v # w => run'[v] = run[v]
        /\ w \in Busy' <=> r.at # "idle"
    BY RunsKept DEF Shapes, RunsShaped
  <1>2. healed' = "nothing"
    BY <1>1 DEF HealInv
  <1>3. ASSUME NEW v \in Busy', run'[v].alone, Step(v)'.do = "update" PROVE HealOK(run[v])'
    <2>1. v = w
      BY <1>1, <1>3 DEF Shapes, RunsShaped, Busy
    <2>2. Step(v)' = Head(r.script) /\ r.at # "idle" /\ r.alone
      BY <1>1, <1>3, <2>1 DEF Step
    <2>3. HealOK(r)'
      BY <1>3, <2>2
    <2> QED BY <1>1, <2>1, <2>3 DEF HealOK
  <1> QED BY <1>2, <1>3 DEF HealInv

\* The last step of an update that was alone leaves the chat healed.
LEMMA FinishHeals ==
  ASSUME Shapes, HealInv, NEW w \in Writers, run[w].at # "idle", Finish(w),
         run[w].alone /\ Step(w).do = "update" => Healed'
  PROVE  HealInv'
  <1>1. PICK r : /\ r = Done(run[w]) /\ Becomes(w, r) /\ RunShaped(r)
                 /\ r.alone => run[w].alone
                 /\ healed' = IF run[w].alone /\ Step(w).do \in {"update", "read"} THEN Step(w).do
                              ELSE "nothing"
    BY FinishIs DEF Shapes
  <1>2. PICK old : old = run[w] /\ RunShaped(old)
    BY DEF Shapes, RunsShaped
  <1>3. /\ r.at \in {"idle", "peek", "rows", "load"}
        /\ r.at = "idle" <=> Tail(old.script) = <<>>
    BY <1>1, <1>2, DoneIs
  <1>4. CASE run[w].alone /\ Step(w).do \in {"update", "read"}
    <2>1. ScriptShaped(old.script) /\ Step(w) = Head(old.script)
      BY <1>2, StepIs DEF Shapes
    <2>2. Tail(old.script) = <<>>
      <3>1. PICK s : s = old.script /\ ScriptShaped(s) /\ Head(s).do \in {"update", "read"}
        BY <1>4, <2>1
      <3> QED BY <3>1, ScriptIs
    <2>3. r.at = "idle"
      BY <1>3, <2>2
    <2>4. Busy' = {}
      <3>1. /\ w \in Busy /\ Busy' \subseteq Busy /\ (w \in Busy' <=> r.at # "idle")
        BY <1>1, RunsKept DEF Shapes
      <3>2. \A v \in Busy : v = w
        BY <1>4, <3>1 DEF Shapes, RunsShaped
      <3> QED BY <2>3, <3>1, <3>2
    <2>5. healed' = "update" => Healed'
      BY <1>1, <1>4
    <2> QED BY <2>4, <2>5 DEF HealInv
  <1>5. CASE ~(run[w].alone /\ Step(w).do \in {"update", "read"})
    <2>1. healed' = "nothing"
      BY <1>1, <1>5
    <2>2. HealOK(r)'
      BY <1>3 DEF HealOK
    <2> QED BY <1>1, <2>1, <2>2, HealMove
  <1> QED BY <1>4, <1>5

\* merge_history rebuilds the children from the parents.
LEMMA MergeExact ==
  ASSUME NEW old, HistoryShaped(old), NEW new, HistoryShaped(new)
  PROVE  Exact(MergeHistory(old, new).msgs)
  <1>1. PICK M : /\ M = MergeHistory(old, new).msgs
                 /\ \A x \in DOMAIN M : Kids(M, x) = {y \in DOMAIN M : M[y].parent = x}
    BY MergeIs
  <1> QED BY <1>1 DEF Exact

\* Each step of a writer keeps what an update has healed.
LEMMA StepHeals ==
  ASSUME Shapes, HealInv, NEW w \in Writers,
         \/ Peek(w) \/ Load(w) \/ WriteRow(w) \/ WriteBlob(w) \/ Fill(w) \/ DropRows(w)
         \/ ReadRows(w) \/ LoadMissing(w)
  PROVE  HealInv'
  <1>1. CASE Peek(w)
    <2>1. run[w].at # "idle" /\ healed' \in {healed, "nothing"}
      BY <1>1, PeekIs
    <2>2. PICK r : /\ Becomes(w, r) /\ RunShaped(r) /\ (r.alone => run[w].alone)
                   /\ r = Done(run[w]) \/ r.at = "load"
      BY <1>1, PeekIs
    <2>3. r.at \notin {"blob", "fill"}
      <3>1. PICK old : old = run[w] /\ RunShaped(old)
        BY DEF Shapes, RunsShaped
      <3> QED BY <2>1, <2>2, <3>1, DoneIs
    <2>4. HealOK(r)'
      BY <2>3 DEF HealOK
    <2> QED BY <2>1, <2>2, <2>4, HealMove
  <1>2. CASE Load(w)
    <2>1. run[w].at = "load" /\ healed' \in {healed, "nothing"}
      BY <1>2, LoadIs
    <2>2. PICK r : /\ Becomes(w, r) /\ RunShaped(r) /\ (r.alone => run[w].alone)
                   /\ \/ r = Done(run[w])
                      \/ /\ r.script = run[w].script /\ r.at \in {"row", "blob"}
                         /\ r.copy.msgs = Applied(Step(w), blob).msgs
      BY <1>2, LoadIs
    <2>3. ASSUME r.at # "idle", Head(r.script).do = "update" PROVE HealOK(r)'
      <3>1. CASE r = Done(run[w])
        <4>1. PICK old : old = run[w] /\ RunShaped(old) /\ old.at # "idle"
          BY <2>1 DEF Shapes, RunsShaped
        <4>2. r.at \notin {"blob", "fill"}
          BY <3>1, <4>1, DoneIs
        <4> QED BY <4>2 DEF HealOK
      <3>2. CASE /\ r.script = run[w].script /\ r.at \in {"row", "blob"}
                 /\ r.copy.msgs = Applied(Step(w), blob).msgs
        <4>1. PICK x : x = Step(w) /\ StepShaped(x) /\ x = Head(run[w].script)
          BY <2>1, StepIs DEF Shapes
        <4>2. x.do = "update"
          BY <2>3, <3>2, <4>1
        <4>3. HistoryShaped(x.incoming) /\ HistoryShaped(blob)
          BY <4>1, <4>2 DEF StepShaped, Shapes
        <4>4. Applied(x, blob) = MergeHistory(blob, x.incoming)
          BY <4>2 DEF Applied
        <4>5. Exact(r.copy.msgs)
          BY <3>2, <4>1, <4>3, <4>4, MergeExact
        <4> QED BY <3>2, <4>5 DEF HealOK
      <3> QED BY <2>2, <3>1, <3>2
    <2> QED BY <2>1, <2>2, <2>3, HealMove
  <1>3. CASE WriteRow(w)
    <2>1. run[w].at = "row" /\ Step(w).do \in {"save", "link"}
      BY <1>3, WriteRowIs
    <2>2. PICK r : /\ Becomes(w, r) /\ RunShaped(r) /\ r.script = run[w].script
                   /\ r.at = "blob" /\ r.alone = run[w].alone
      BY <1>3, WriteRowIs
    <2>3. Head(r.script).do # "update" /\ healed' = healed
      BY <1>3, <2>1, <2>2 DEF Step, WriteRow
    <2> QED BY <2>1, <2>2, <2>3, HealMove
  <1>4. CASE WriteBlob(w)
    <2>1. run[w].at = "blob" /\ blob' = run[w].copy /\ w \in Busy
      BY <1>4, WriteBlobIs DEF Busy
    <2>2. PICK r : /\ Becomes(w, r) /\ RunShaped(r) /\ (r.alone => run[w].alone)
                   /\ healed' \in {healed, "nothing"}
                   /\ \/ /\ r.script = run[w].script /\ r.at = "fill" /\ r.copy = run[w].copy
                         /\ r.left = DOMAIN run[w].copy.msgs
                      \/ r = Done(run[w])
      BY <1>4, WriteBlobIs
    <2>3. ASSUME r.at # "idle", r.alone, Head(r.script).do = "update" PROVE HealOK(r)'
      <3>1. CASE r = Done(run[w])
        <4>1. PICK old : old = run[w] /\ RunShaped(old) /\ old.at # "idle"
          BY <2>1 DEF Shapes, RunsShaped
        <4>2. r.at \notin {"blob", "fill"}
          BY <3>1, <4>1, DoneIs
        <4> QED BY <4>2 DEF HealOK
      <3>2. CASE /\ r.script = run[w].script /\ r.at = "fill" /\ r.copy = run[w].copy
                 /\ r.left = DOMAIN run[w].copy.msgs
        <4>1. HealOK(run[w])
          BY <2>1, <2>2, <2>3, <3>2 DEF HealInv, Step
        <4>2. Exact(r.copy.msgs) /\ blob'.msgs = r.copy.msgs
          BY <2>1, <3>2, <4>1 DEF HealOK
        <4> QED BY <3>2, <4>2 DEF HealOK
      <3> QED BY <2>2, <3>1, <3>2
    <2> QED BY <2>1, <2>2, <2>3, HealMove
  <1>5. CASE Fill(w)
    <2>1. PICK m \in run[w].left :
         /\ run[w].at = "fill" /\ m \in DOMAIN run[w].copy.msgs
         /\ DOMAIN rows' = DOMAIN rows \cup {m}
         /\ rows'[m] = Row(m, run[w].copy)
         /\ \A n \in DOMAIN rows : n # m => rows'[n] = rows[n]
         /\ \E r : /\ Becomes(w, r) /\ RunShaped(r) /\ r.script = run[w].script
                   /\ r.at = "fill" /\ r.copy = run[w].copy
                   /\ r.alone = run[w].alone /\ r.left = run[w].left \ {m}
      BY <1>5, FillIs
    <2>2. PICK r : /\ Becomes(w, r) /\ RunShaped(r) /\ r.script = run[w].script
                   /\ r.at = "fill" /\ r.copy = run[w].copy
                   /\ r.alone = run[w].alone /\ r.left = run[w].left \ {m}
      BY <2>1
    <2>3. healed' = healed /\ blob' = blob /\ w \in Busy
      BY <1>5, <2>1 DEF Fill, Busy
    <2>4. ASSUME r.alone, Head(r.script).do = "update" PROVE HealOK(r)'
      <3>1. HealOK(run[w])
        BY <2>2, <2>3, <2>4 DEF HealInv, Step
      <3>2. /\ blob.msgs = r.copy.msgs /\ Exact(r.copy.msgs)
            /\ \A k \in DOMAIN blob.msgs : k \in run[w].left \/ RowLike(k, blob.msgs)
        BY <2>1, <2>2, <3>1 DEF HealOK
      <3>3. RowLike(m, blob.msgs)'
        BY <2>1, <2>2, <2>3, <3>2 DEF RowLike, Row
      <3>4. ASSUME NEW k \in DOMAIN blob.msgs, k \notin r.left PROVE RowLike(k, blob.msgs)'
        <4>1. CASE k = m
          BY <3>3, <4>1
        <4>2. CASE k # m
          <5>1. RowLike(k, blob.msgs)
            BY <2>2, <3>2, <3>4, <4>2
          <5> QED BY <2>1, <2>3, <4>2, <5>1 DEF RowLike
        <4> QED BY <4>1, <4>2
      <3> QED BY <2>2, <2>3, <3>2, <3>4 DEF HealOK
    <2> QED BY <2>1, <2>2, <2>3, <2>4, HealMove
  <1>6. CASE DropRows(w)
    <2>1. /\ run[w].at = "fill" /\ run[w].left = {} /\ Finish(w) /\ w \in Busy
          /\ Step(w).do # "delete" => DOMAIN rows' = DOMAIN rows
          /\ \A m \in DOMAIN rows' : rows'[m] = rows[m]
      BY <1>6, DropRowsIs DEF Busy
    <2>2. blob' = blob
      BY <1>6 DEF DropRows
    <2>3. ASSUME run[w].alone, Step(w).do = "update" PROVE Healed'
      <3>1. HealOK(run[w])
        BY <2>1, <2>3 DEF HealInv
      <3>2. Exact(blob.msgs) /\ \A m \in DOMAIN blob.msgs : RowLike(m, blob.msgs)
        BY <2>1, <3>1 DEF HealOK
      <3>3. \A m \in DOMAIN blob.msgs : RowLike(m, blob.msgs)'
        BY <2>1, <2>2, <2>3, <3>2 DEF RowLike
      <3> QED BY <2>2, <3>2, <3>3 DEF Healed
    <2>4. run[w].at # "idle"
      BY <2>1
    <2> QED BY <2>1, <2>3, <2>4, FinishHeals
  <1>7. CASE ReadRows(w)
    <2>1. run[w].at # "idle" /\ Step(w).do = "read"
      BY <1>7, ReadRowsIs
    <2>2. CASE Finish(w)
      BY <2>1, <2>2, FinishHeals
    <2>3. CASE /\ healed' = healed
               /\ \E r : /\ Becomes(w, r) /\ RunShaped(r) /\ r.script = run[w].script
                         /\ r.at = "gap" /\ r.alone = run[w].alone
      <3>1. PICK r : /\ Becomes(w, r) /\ RunShaped(r) /\ r.script = run[w].script
                     /\ r.at = "gap" /\ r.alone = run[w].alone
        BY <2>3
      <3>2. HealOK(r)'
        BY <3>1 DEF HealOK
      <3> QED BY <2>1, <2>3, <3>1, <3>2, HealMove
    <2> QED BY <1>7, <2>2, <2>3, ReadRowsIs
  <1>8. CASE LoadMissing(w)
    <2>1. run[w].at = "gap" /\ Step(w).do = "read"
      BY <1>8, LoadMissingIs
    <2>2. PICK r : /\ Becomes(w, r) /\ RunShaped(r) /\ r.script = run[w].script
                   /\ r.at = "fill" /\ r.alone = run[w].alone
      BY <1>8, LoadMissingIs
    <2>3. Head(r.script).do # "update" /\ healed' = healed
      BY <1>8, <2>1, <2>2 DEF Step, LoadMissing
    <2> QED BY <2>1, <2>2, <2>3, HealMove
  <1> QED BY <1>1, <1>2, <1>3, <1>4, <1>5, <1>6, <1>7, <1>8

\* A script that begins heals nothing yet.
LEMMA BeginHeals ==
  ASSUME Shapes, Existing, HealInv, NEW w \in Writers,
         SendMessage(w) \/ SaveText(w) \/ OtherScript(w)
  PROVE  HealInv'
  <1>1. PICK s : Begin(w, s) /\ ScriptShaped(s)
    BY BeganIs
  <1>2. /\ run'[w].at \in {"peek", "rows", "load"}
        /\ \A v \in Busy' : run'[v].alone => Busy' = {w}
        /\ healed' = "nothing"
    BY <1>1, ScriptBegins DEF Shapes
  <1>3. ASSUME NEW v \in Busy', run'[v].alone PROVE HealOK(run[v])'
    <2>1. v = w
      BY <1>2, <1>3
    <2> QED BY <1>2, <2>1 DEF HealOK
  <1> QED BY <1>2, <1>3 DEF HealInv

\* Every step keeps what an update has healed.
LEMMA NextHeals ==
  ASSUME Shapes, Existing, HealInv, [Next]_vars
  PROVE  HealInv'
  <1>1. CASE UNCHANGED vars
    <2>1. blob' = blob /\ rows' = rows /\ run' = run /\ healed' = healed
      BY <1>1 DEF vars
    <2>2. /\ \A m, M : RowLike(m, M)' <=> RowLike(m, M)
          /\ Healed' <=> Healed /\ Busy' = Busy /\ \A v : Step(v)' = Step(v)
      BY <2>1 DEF RowLike, Healed, Busy, Step
    <2>3. \A q : HealOK(q) => HealOK(q)'
      BY <2>1, <2>2 DEF HealOK
    <2>4. ASSUME NEW v \in Busy, HealOK(run[v]) PROVE HealOK(run[v])'
      BY <2>1, <2>2, <2>4 DEF HealOK
    <2>5. (healed # "nothing" => Busy = {})' /\ (healed = "update" => Healed)'
      <3>1. (healed # "nothing" => Busy = {}) /\ (healed = "update" => Healed)
        BY DEF HealInv
      <3> QED BY <2>1, <3>1 DEF Busy, Healed, RowLike
    <2>6. ASSUME NEW v \in Busy', run'[v].alone, Step(v)'.do = "update" PROVE HealOK(run[v])'
      <3>1. v \in Busy /\ run[v].alone /\ Step(v).do = "update"
        BY <2>1, <2>6 DEF Busy, Step
      <3>2. HealOK(run[v])
        BY <3>1 DEF HealInv
      <3> QED BY <2>4, <3>1, <3>2
    <2> QED BY <2>5, <2>6 DEF HealInv
  <1>2. CASE LoadTab
    <2>1. /\ blob'.msgs = blob.msgs /\ rows' = rows /\ run' = run /\ healed' = healed
      BY <1>2, RepairIs DEF LoadTab, Shapes
    <2>2. /\ \A m, M : RowLike(m, M)' <=> RowLike(m, M)
          /\ Healed' <=> Healed /\ Busy' = Busy /\ \A v : Step(v)' = Step(v)
      BY <2>1 DEF RowLike, Healed, Busy, Step
    <2>4. ASSUME NEW v \in Busy, HealOK(run[v]) PROVE HealOK(run[v])'
      BY <2>1, <2>2, <2>4 DEF HealOK
    <2>5. (healed # "nothing" => Busy = {})' /\ (healed = "update" => Healed)'
      <3>1. (healed # "nothing" => Busy = {}) /\ (healed = "update" => Healed)
        BY DEF HealInv
      <3> QED BY <2>1, <3>1 DEF Busy, Healed, RowLike
    <2>6. ASSUME NEW v \in Busy', run'[v].alone, Step(v)'.do = "update" PROVE HealOK(run[v])'
      <3>1. v \in Busy /\ run[v].alone /\ Step(v).do = "update"
        BY <2>1, <2>6 DEF Busy, Step
      <3>2. HealOK(run[v])
        BY <3>1 DEF HealInv
      <3> QED BY <2>4, <3>1, <3>2
    <2> QED BY <2>5, <2>6 DEF HealInv
  <1>3. ASSUME NEW w \in Writers, Die(w) PROVE HealInv'
    <2>1. healed' = "nothing" /\ w \in Busy /\ Becomes(w, Idle)
      BY <1>3 DEF Die, Becomes
    <2>2. PICK r : r = Idle /\ RunShaped(r) /\ r.at = "idle" /\ ~r.alone
      BY IdleIs
    <2>3. run[w].at # "idle" /\ Becomes(w, r) /\ (r.alone => run[w].alone)
      BY <2>1, <2>2 DEF Busy
    <2> QED BY <2>1, <2>2, <2>3, HealMove
  <1>4. ASSUME NEW w \in Writers, SendMessage(w) \/ SaveText(w) \/ OtherScript(w) PROVE HealInv'
    BY <1>4, BeginHeals
  <1>5. ASSUME NEW w \in Writers,
               \/ Peek(w) \/ Load(w) \/ WriteRow(w) \/ WriteBlob(w) \/ Fill(w) \/ DropRows(w)
               \/ ReadRows(w) \/ LoadMissing(w)
        PROVE  HealInv'
    BY <1>5, StepHeals
  <1> QED BY <1>1, <1>2, <1>3, <1>4, <1>5 DEF Next

\* In the initial states no update has run.
LEMMA InitHeals ==
  ASSUME Init
  PROVE  HealInv
  <1>1. healed = "nothing" /\ run = [w \in Writers |-> Idle]
    BY DEF Init
  <1>2. Busy = {}
    BY <1>1, IdleIs DEF Busy
  <1> QED BY <1>1, <1>2 DEF HealInv

\* What the invariant says of a finished update.
LEMMA HealingHolds ==
  ASSUME HealInv
  PROVE  UpdateHeals
  BY DEF HealInv, UpdateHeals, Healed, Exact, RowLike, KidsMatchParents, Kids, Row

-----------------------------------------------------------------------------
(* Scripts that run one after the other keep the tree in order.            *)

\* What the rest of a script will still do.
ToCome(s, m, p) == \E j \in DOMAIN s : s[j].do = "save" /\ s[j].msg = m /\ s[j].parent = p
LinkToCome(s, m, p) ==
    \E j \in DOMAIN s : s[j].do = "link" /\ s[j].msg = p /\ m \in Range(s[j].kids)

\* The tree is in order except for what the script will still do.
ListedThere(M, s) == \A m \in DOMAIN M : \A k \in Kids(M, m) :
    IF k \in DOMAIN M THEN M[k].parent = m ELSE ToCome(s, k, m)
Found(M, s) == \A k \in DOMAIN M :
    \/ M[k].parent = 0
    \/ SentLate(k, M[k].parent)
    \/ /\ M[k].parent \in DOMAIN M
       /\ k \in Kids(M, M[k].parent) \/ LinkToCome(s, k, M[k].parent)
\* Messages that are deleted and not back.
Forgotten == DOMAIN removed \ returned

\* The script saves no message twice, has or saves the parent of each first
\* and links it, and links only children it saves.
OnceEach(s) == \A i, j \in DOMAIN s :
    s[i].do = "save" /\ s[j].do = "save" /\ s[i].msg = s[j].msg => i = j
Rooted(M, s, j) ==
    /\ s[j].parent \in DOMAIN M
       \/ \E i \in DOMAIN s : i < j /\ s[i].do = "save" /\ s[i].msg = s[j].parent
    /\ \/ s[j].parent \in DOMAIN M /\ s[j].msg \in Kids(M, s[j].parent)
       \/ LinkToCome(s, s[j].msg, s[j].parent)
Parents(M, s) == \A j \in DOMAIN s :
    s[j].do = "save" /\ s[j].msg \notin DOMAIN M /\ s[j].parent # 0 =>
        SentLate(s[j].msg, s[j].parent) \/ Rooted(M, s, j)
SavedFirst(s) == \A i, j \in DOMAIN s :
    s[j].do = "link" /\ s[i].do = "save" /\ s[i].msg = s[j].msg => i < j
Links(M, s) == \A j \in DOMAIN s : s[j].do = "link" => \A k \in Range(s[j].kids) :
    IF k \in DOMAIN M THEN M[k].parent = s[j].msg ELSE ToCome(s, k, s[j].msg)

\* In order, with what the rest s of the script brings.
OnTrack(M, s) ==
    /\ ListedThere(M, s) /\ Found(M, s) /\ Forgotten \cap DOMAIN M = {}
    /\ OnceEach(s) /\ Parents(M, s) /\ SavedFirst(s) /\ Links(M, s)

\* t is what is left of s after its first step.
Follows(s, t) ==
    /\ 1 \in DOMAIN s /\ DOMAIN s \subseteq Nat /\ DOMAIN t \subseteq Nat
    /\ \A j \in DOMAIN s : j # 1 => j > 1 /\ \E i \in DOMAIN t : j = i + 1 /\ t[i] = s[j]
    /\ \A i \in DOMAIN t : i + 1 \in DOMAIN s /\ s[i + 1] = t[i] /\ i + 1 # 1

\* A message sent late stays one.
LateKept == \A m, p : SentLate(m, p) => SentLate(m, p)'

\* The rest of a script is what follows its first step.
LEMMA TailFollows ==
  ASSUME NEW s, ScriptShaped(s)
  PROVE  Follows(s, Tail(s)) /\ Head(s) = s[1]
  <1>1. /\ Len(s) \in Nat /\ Len(s) > 0 /\ DOMAIN s = 1 .. Len(s)
        /\ 1 \in DOMAIN s /\ Head(s) = s[1] /\ DOMAIN Tail(s) = 1 .. Len(s) - 1
        /\ \A j \in 1 .. Len(s) - 1 : Tail(s)[j] = s[j + 1] /\ j + 1 \in DOMAIN s
    BY ScriptIs
  <1>2. PICK t, n : t = Tail(s) /\ n = Len(s)
    OBVIOUS
  <1>3. DOMAIN s \subseteq Nat /\ DOMAIN t \subseteq Nat
    BY <1>1, <1>2
  <1>4. \A i \in DOMAIN t : i + 1 \in DOMAIN s /\ s[i + 1] = t[i] /\ i + 1 # 1
    BY <1>1, <1>2
  <1>5. ASSUME NEW j \in DOMAIN s, j # 1 PROVE j > 1 /\ \E i \in DOMAIN t : j = i + 1 /\ t[i] = s[j]
    <2>1. j - 1 \in 1 .. n - 1 /\ j = j - 1 + 1 /\ j > 1
      BY <1>1, <1>2, <1>5
    <2>2. j - 1 \in DOMAIN t /\ t[j - 1] = s[j - 1 + 1]
      BY <1>1, <1>2, <2>1
    <2> QED BY <2>1, <2>2
  <1>6. Follows(s, t)
    <2>1. 1 \in DOMAIN s
      BY <1>1
    <2> QED BY ONLY <2>1, <1>3, <1>4, <1>5 DEF Follows
  <1> QED BY <1>1, <1>2, <1>6

\* What is still to come after the first step.
LEMMA RestComes ==
  ASSUME NEW s, NEW t, Follows(s, t), NEW m, NEW p
  PROVE  /\ ToCome(s, m, p) =>
               ToCome(t, m, p) \/ (s[1].do = "save" /\ s[1].msg = m /\ s[1].parent = p)
         /\ LinkToCome(s, m, p) =>
               LinkToCome(t, m, p) \/ (s[1].do = "link" /\ s[1].msg = p /\ m \in Range(s[1].kids))
         /\ ToCome(t, m, p) => ToCome(s, m, p)
         /\ LinkToCome(t, m, p) => LinkToCome(s, m, p)
  BY DEF Follows, ToCome, LinkToCome

\* What the rest of a script has in order, the script has too.
LEMMA RestOrdered ==
  ASSUME NEW s, NEW t, Follows(s, t), OnceEach(s), SavedFirst(s)
  PROVE  OnceEach(t) /\ SavedFirst(t)
  <1>1. \A i \in DOMAIN t : i \in Nat /\ i + 1 \in DOMAIN s /\ s[i + 1] = t[i]
    BY DEF Follows
  <1>2. ASSUME NEW i \in DOMAIN t, NEW j \in DOMAIN t,
               t[i].do = "save", t[j].do = "save", t[i].msg = t[j].msg
        PROVE  i = j
    <2>1. i + 1 = j + 1
      BY <1>1, <1>2 DEF OnceEach
    <2> QED BY <1>1, <2>1
  <1>3. ASSUME NEW i \in DOMAIN t, NEW j \in DOMAIN t,
               t[j].do = "link", t[i].do = "save", t[i].msg = t[j].msg
        PROVE  i < j
    <2>1. i + 1 < j + 1
      BY <1>1, <1>3 DEF SavedFirst
    <2> QED BY <1>1, <2>1
  <1> QED BY <1>2, <1>3 DEF OnceEach, SavedFirst

\* What a rest needs: parents are there or to come, unless the first step gave them.
LEMMA RestRooted ==
  ASSUME NEW s, NEW t, Follows(s, t), NEW M, NEW N, DOMAIN M \subseteq DOMAIN N,
         \A x \in DOMAIN M : Kids(M, x) \subseteq Kids(N, x),
         s[1].do = "save" => s[1].msg \in DOMAIN N,
         \A p, k : s[1].do = "link" /\ s[1].msg = p /\ k \in Range(s[1].kids) =>
             p \in DOMAIN N /\ k \in Kids(N, p),
         NEW i \in DOMAIN t, Rooted(M, s, i + 1)
  PROVE  Rooted(N, t, i)
  <1>1. i \in Nat /\ i + 1 \in DOMAIN s /\ s[i + 1] = t[i]
    BY DEF Follows
  <1>2. PICK m, p : m = t[i].msg /\ p = t[i].parent
    OBVIOUS
  <1>3. p \in DOMAIN M \/ \E j \in DOMAIN s : j < i + 1 /\ s[j].do = "save" /\ s[j].msg = p
    BY <1>1, <1>2 DEF Rooted
  <1>4. p \in DOMAIN N \/ \E j \in DOMAIN t : j < i /\ t[j].do = "save" /\ t[j].msg = p
    <2>1. ASSUME NEW j \in DOMAIN s, j < i + 1, s[j].do = "save", s[j].msg = p
          PROVE  p \in DOMAIN N \/ \E l \in DOMAIN t : l < i /\ t[l].do = "save" /\ t[l].msg = p
      <3>1. CASE j = 1
        BY <2>1, <3>1
      <3>2. CASE j # 1
        <4>1. PICK l \in DOMAIN t : j = l + 1 /\ t[l] = s[j]
          BY <3>2 DEF Follows
        <4>2. l \in Nat /\ l < i
          BY <1>1, <2>1, <4>1 DEF Follows
        <4> QED BY <2>1, <4>1, <4>2
      <3> QED BY <3>1, <3>2
    <2> QED BY <1>3, <2>1
  <1>5. (p \in DOMAIN M /\ m \in Kids(M, p)) \/ LinkToCome(s, m, p)
    BY <1>1, <1>2 DEF Rooted
  <1>6. (p \in DOMAIN N /\ m \in Kids(N, p)) \/ LinkToCome(t, m, p)
    BY <1>5, RestComes
  <1> QED BY <1>2, <1>4, <1>6 DEF Rooted

\* A message is saved.
LEMMA SaveOnTrack ==
  ASSUME NEW M, NEW N, NEW s, NEW t, Follows(s, t), OnTrack(M, s), s[1].do = "save",
         NEW m, m = s[1].msg, DOMAIN N = DOMAIN M \cup {m}, 0 \notin DOMAIN M,
         \A x \in DOMAIN M : N[x].parent = M[x].parent /\ Kids(N, x) = Kids(M, x),
         m \notin DOMAIN M =>
             /\ Kids(N, m) = {}
             /\ \/ N[m].parent = s[1].parent
                \/ /\ s[1].parent = 0 /\ N[m].parent \in DOMAIN M
                   /\ m \in Kids(M, N[m].parent),
         LateKept, Forgotten' \subseteq Forgotten \ {m}
  PROVE  OnTrack(N, t)'
  <1>1. \A k, p : ToCome(s, k, p) => ToCome(t, k, p) \/ (k = m /\ s[1].parent = p)
    BY RestComes
  <1>2. \A k, p : LinkToCome(s, k, p) => LinkToCome(t, k, p)
    BY RestComes
  <1>3. \A p : m \notin DOMAIN M /\ ToCome(s, m, p) => s[1].parent = p
    <2> SUFFICES ASSUME NEW p, ToCome(s, m, p) PROVE s[1].parent = p
      OBVIOUS
    <2>1. PICK j \in DOMAIN s : s[j].do = "save" /\ s[j].msg = m /\ s[j].parent = p
      BY DEF ToCome
    <2>2. j = 1
      BY <2>1 DEF OnTrack, OnceEach, Follows
    <2> QED BY <2>1, <2>2
  <1>4. m \notin DOMAIN M => N[m].parent = s[1].parent
    BY <1>3 DEF OnTrack, ListedThere
  <1>5. ListedThere(N, t)'
    <2> SUFFICES ASSUME NEW y \in DOMAIN N, NEW k \in Kids(N, y)
                 PROVE  IF k \in DOMAIN N THEN N[k].parent = y ELSE ToCome(t, k, y)
      BY DEF ListedThere, ToCome, Kids
    <2>1. y \in DOMAIN M /\ k \in Kids(M, y)
      OBVIOUS
    <2>2. IF k \in DOMAIN M THEN M[k].parent = y ELSE ToCome(s, k, y)
      BY <2>1 DEF OnTrack, ListedThere
    <2>3. CASE k \in DOMAIN M
      BY <2>2, <2>3
    <2>4. CASE k \notin DOMAIN M /\ k = m
      BY <1>3, <1>4, <2>2, <2>4
    <2>5. CASE k \notin DOMAIN M /\ k # m
      BY <1>1, <2>2, <2>5
    <2> QED BY <2>3, <2>4, <2>5
  <1>6. \A j \in DOMAIN s : s[j].do = "save" /\ s[j].msg \notin DOMAIN M /\ s[j].parent # 0 =>
            SentLate(s[j].msg, s[j].parent)' \/ Rooted(M, s, j)
    BY DEF OnTrack, Parents, LateKept
  <1>7. Found(N, t)'
    <2> SUFFICES ASSUME NEW k \in DOMAIN N
                 PROVE  \/ N[k].parent = 0 \/ SentLate(k, N[k].parent)'
                        \/ /\ N[k].parent \in DOMAIN N
                           /\ k \in Kids(N, N[k].parent) \/ LinkToCome(t, k, N[k].parent)
      BY DEF Found, LinkToCome, Kids
    <2>1. CASE k \in DOMAIN M
      <3>1. \/ M[k].parent = 0 \/ SentLate(k, M[k].parent)
            \/ /\ M[k].parent \in DOMAIN M
               /\ k \in Kids(M, M[k].parent) \/ LinkToCome(s, k, M[k].parent)
        BY <2>1 DEF OnTrack, Found
      <3> QED BY <1>2, <2>1, <3>1 DEF LateKept
    <2>2. CASE k \notin DOMAIN M
      <3>1. k = m /\ N[k].parent = s[1].parent /\ 1 \in DOMAIN s
        BY <1>4, <2>2 DEF Follows
      <3>2. \/ s[1].parent = 0 \/ SentLate(m, s[1].parent)' \/ (\E j : j = 1 /\ Rooted(M, s, j))
        BY <1>6, <2>2, <3>1
      <3>3. ASSUME NEW j, j = 1, Rooted(M, s, j)
            PROVE  /\ s[1].parent \in DOMAIN N
                   /\ m \in Kids(N, s[1].parent) \/ LinkToCome(t, m, s[1].parent)
        <4>1. ~ \E i \in DOMAIN s : i < j
          BY <3>3 DEF Follows
        <4> QED BY <1>2, <3>3, <4>1 DEF Rooted
      <3> QED BY <3>1, <3>2, <3>3
    <2> QED BY <2>1, <2>2
  <1>8. Parents(N, t)'
    <2> SUFFICES ASSUME NEW i \in DOMAIN t, t[i].do = "save", t[i].msg \notin DOMAIN N,
                        t[i].parent # 0
                 PROVE  SentLate(t[i].msg, t[i].parent)' \/ Rooted(N, t, i)
      BY DEF Parents, Rooted, LinkToCome, Kids
    <2>1. i + 1 \in DOMAIN s /\ s[i + 1] = t[i]
      BY DEF Follows
    <2>2. SentLate(t[i].msg, t[i].parent)' \/ Rooted(M, s, i + 1)
      BY <1>6, <2>1
    <2>3. Rooted(M, s, i + 1) => Rooted(N, t, i)
      BY RestRooted
    <2> QED BY <2>2, <2>3
  <1>9. Links(N, t)'
    <2> SUFFICES ASSUME NEW i \in DOMAIN t, t[i].do = "link", NEW k \in Range(t[i].kids)
                 PROVE  IF k \in DOMAIN N THEN N[k].parent = t[i].msg
                        ELSE ToCome(t, k, t[i].msg)
      BY DEF Links, ToCome
    <2>1. i + 1 \in DOMAIN s /\ s[i + 1] = t[i]
      BY DEF Follows
    <2>2. IF k \in DOMAIN M THEN M[k].parent = t[i].msg ELSE ToCome(s, k, t[i].msg)
      BY <2>1 DEF OnTrack, Links
    <2>3. CASE k \in DOMAIN M
      BY <2>2, <2>3
    <2>4. CASE k \notin DOMAIN M /\ k = m
      BY <1>3, <1>4, <2>2, <2>4
    <2>5. CASE k \notin DOMAIN M /\ k # m
      BY <1>1, <2>2, <2>5
    <2> QED BY <2>3, <2>4, <2>5
  <1>10. OnceEach(t) /\ SavedFirst(t)
    BY RestOrdered DEF OnTrack
  <1>11. Forgotten' \cap DOMAIN N = {}
    BY DEF OnTrack
  <1> QED BY <1>5, <1>7, <1>8, <1>9, <1>10, <1>11 DEF OnTrack, OnceEach, SavedFirst

\* A link is written, or a step that writes no link and saves nothing is done.
LEMMA PassOnTrack ==
  ASSUME NEW M, NEW N, NEW s, NEW t, Follows(s, t), OnTrack(M, s), s[1].do # "save",
         DOMAIN N = DOMAIN M, \A x \in DOMAIN M : N[x].parent = M[x].parent,
         \A x \in DOMAIN M : Kids(M, x) \subseteq Kids(N, x),
         \A x \in DOMAIN M : Kids(N, x) # Kids(M, x) =>
             s[1].do = "link" /\ s[1].msg = x /\ Kids(N, x) = Range(s[1].kids),
         \A p, k : s[1].do = "link" /\ s[1].msg = p /\ k \in Range(s[1].kids) /\ p \in DOMAIN M =>
             k \in Kids(N, p),
         LateKept, Forgotten' \subseteq Forgotten
  PROVE  OnTrack(N, t)'
  <1>1. \A k, p : ToCome(s, k, p) => ToCome(t, k, p)
    BY RestComes
  <1>2. \A k, p : LinkToCome(s, k, p) /\ p \in DOMAIN M => LinkToCome(t, k, p) \/ k \in Kids(N, p)
    BY RestComes
  <1>3. ListedThere(N, t)'
    <2> SUFFICES ASSUME NEW y \in DOMAIN N, NEW k \in Kids(N, y)
                 PROVE  IF k \in DOMAIN N THEN N[k].parent = y ELSE ToCome(t, k, y)
      BY DEF ListedThere, ToCome, Kids
    <2>1. CASE k \in Kids(M, y)
      <3>1. IF k \in DOMAIN M THEN M[k].parent = y ELSE ToCome(s, k, y)
        BY <2>1 DEF OnTrack, ListedThere
      <3> QED BY <1>1, <3>1
    <2>2. CASE k \notin Kids(M, y)
      <3>1. s[1].do = "link" /\ s[1].msg = y /\ k \in Range(s[1].kids) /\ 1 \in DOMAIN s
        BY <2>2 DEF Follows
      <3>2. IF k \in DOMAIN M THEN M[k].parent = y ELSE ToCome(s, k, y)
        BY <3>1 DEF OnTrack, Links
      <3> QED BY <1>1, <3>2
    <2> QED BY <2>1, <2>2
  <1>4. Found(N, t)'
    <2> SUFFICES ASSUME NEW k \in DOMAIN N
                 PROVE  \/ N[k].parent = 0 \/ SentLate(k, N[k].parent)'
                        \/ /\ N[k].parent \in DOMAIN N
                           /\ k \in Kids(N, N[k].parent) \/ LinkToCome(t, k, N[k].parent)
      BY DEF Found, LinkToCome, Kids
    <2>1. \/ M[k].parent = 0 \/ SentLate(k, M[k].parent)
          \/ /\ M[k].parent \in DOMAIN M
             /\ k \in Kids(M, M[k].parent) \/ LinkToCome(s, k, M[k].parent)
      BY DEF OnTrack, Found
    <2> QED BY <1>2, <2>1 DEF LateKept
  <1>5. Parents(N, t)'
    <2> SUFFICES ASSUME NEW i \in DOMAIN t, t[i].do = "save", t[i].msg \notin DOMAIN N,
                        t[i].parent # 0
                 PROVE  SentLate(t[i].msg, t[i].parent)' \/ Rooted(N, t, i)
      BY DEF Parents, Rooted, LinkToCome, Kids
    <2>1. i + 1 \in DOMAIN s /\ s[i + 1] = t[i] /\ i \in Nat
      BY DEF Follows
    <2>2. SentLate(t[i].msg, t[i].parent)' \/ Rooted(M, s, i + 1)
      BY <2>1 DEF OnTrack, Parents, LateKept
    <2>3. ASSUME Rooted(M, s, i + 1) PROVE Rooted(N, t, i)
      <3>1. CASE s[1].do = "link" /\ s[1].msg = t[i].parent /\ s[1].msg \notin DOMAIN M
        <4>1. PICK j \in DOMAIN s : s[j].do = "save" /\ s[j].msg = t[i].parent
          BY <2>1, <2>3, <3>1 DEF Rooted
        <4>2. j < 1 /\ j \in Nat /\ 1 \in DOMAIN s
          BY <3>1, <4>1 DEF OnTrack, SavedFirst, Follows
        <4>3. j = 1 \/ j > 1
          BY <4>2 DEF Follows
        <4> QED BY <4>2, <4>3
      <3>2. CASE ~(s[1].do = "link" /\ s[1].msg = t[i].parent /\ s[1].msg \notin DOMAIN M)
        <4>1. PICK m, p : m = t[i].msg /\ p = t[i].parent
          OBVIOUS
        <4>2. p \in DOMAIN M \/ \E j \in DOMAIN s : j < i + 1 /\ s[j].do = "save" /\ s[j].msg = p
          BY <2>1, <2>3, <4>1 DEF Rooted
        <4>3. p \in DOMAIN N \/ \E j \in DOMAIN t : j < i /\ t[j].do = "save" /\ t[j].msg = p
          <5>1. ASSUME NEW j \in DOMAIN s, j < i + 1, s[j].do = "save", s[j].msg = p
                PROVE  \E l \in DOMAIN t : l < i /\ t[l].do = "save" /\ t[l].msg = p
            <6>1. j # 1
              BY <5>1
            <6>2. PICK l \in DOMAIN t : j = l + 1 /\ t[l] = s[j]
              BY <6>1 DEF Follows
            <6>3. l \in Nat /\ l < i
              BY <2>1, <5>1, <6>2 DEF Follows
            <6> QED BY <5>1, <6>2, <6>3
          <5> QED BY <4>2, <5>1
        <4>4. (p \in DOMAIN M /\ m \in Kids(M, p)) \/ LinkToCome(s, m, p)
          BY <2>1, <2>3, <4>1 DEF Rooted
        <4>5. (p \in DOMAIN N /\ m \in Kids(N, p)) \/ LinkToCome(t, m, p)
          <5>1. LinkToCome(s, m, p) =>
                   LinkToCome(t, m, p) \/ (s[1].do = "link" /\ s[1].msg = p /\ m \in Range(s[1].kids))
            BY RestComes
          <5> QED BY <3>2, <4>1, <4>4, <5>1
        <4> QED BY <4>1, <4>3, <4>5 DEF Rooted
      <3> QED BY <3>1, <3>2
    <2> QED BY <2>2, <2>3
  <1>6. Links(N, t)'
    <2> SUFFICES ASSUME NEW i \in DOMAIN t, t[i].do = "link", NEW k \in Range(t[i].kids)
                 PROVE  IF k \in DOMAIN N THEN N[k].parent = t[i].msg
                        ELSE ToCome(t, k, t[i].msg)
      BY DEF Links, ToCome
    <2>1. i + 1 \in DOMAIN s /\ s[i + 1] = t[i]
      BY DEF Follows
    <2>2. IF k \in DOMAIN M THEN M[k].parent = t[i].msg ELSE ToCome(s, k, t[i].msg)
      BY <2>1 DEF OnTrack, Links
    <2> QED BY <1>1, <2>2
  <1>7. OnceEach(t) /\ SavedFirst(t)
    BY RestOrdered DEF OnTrack
  <1>8. Forgotten' \cap DOMAIN N = {}
    BY DEF OnTrack
  <1> QED BY <1>3, <1>4, <1>5, <1>6, <1>7, <1>8 DEF OnTrack, OnceEach, SavedFirst

\* The children that are there already are added to a link.
LEMMA RelinkOnTrack ==
  ASSUME NEW M, NEW s, NEW t, OnTrack(M, s), DOMAIN t = DOMAIN s, 1 \in DOMAIN s,
         \A j \in DOMAIN s : j # 1 => t[j] = s[j],
         s[1].do = "link", t[1].do = "link", s[1].msg = t[1].msg, s[1].msg \in DOMAIN M,
         Range(t[1].kids) = Kids(M, s[1].msg) \cup Range(s[1].kids)
  PROVE  OnTrack(M, t)
  <1>1. \A j \in DOMAIN s : /\ t[j].do = s[j].do /\ (s[j].do = "save" => t[j] = s[j])
                            /\ s[j].do = "link" => /\ t[j].msg = s[j].msg
                                                   /\ Range(s[j].kids) \subseteq Range(t[j].kids)
    OBVIOUS
  <1>2. \A k, p : ToCome(s, k, p) => ToCome(t, k, p)
    BY <1>1 DEF ToCome
  <1>3. \A k, p : LinkToCome(s, k, p) => LinkToCome(t, k, p)
    BY <1>1 DEF LinkToCome
  <1>4. ListedThere(M, t) /\ Found(M, t)
    BY <1>2, <1>3 DEF OnTrack, ListedThere, Found
  <1>5. OnceEach(t)
    BY <1>1 DEF OnTrack, OnceEach
  <1>6. SavedFirst(t)
    BY <1>1 DEF OnTrack, SavedFirst
  <1>7. Parents(M, t)
    <2> SUFFICES ASSUME NEW j \in DOMAIN t, t[j].do = "save", t[j].msg \notin DOMAIN M,
                        t[j].parent # 0
                 PROVE  SentLate(t[j].msg, t[j].parent) \/ Rooted(M, t, j)
      BY DEF Parents
    <2>1. t[j] = s[j]
      BY <1>1
    <2>2. SentLate(s[j].msg, s[j].parent) \/ Rooted(M, s, j)
      BY <2>1 DEF OnTrack, Parents
    <2>3. Rooted(M, s, j) => Rooted(M, t, j)
      BY <1>1, <1>3, <2>1 DEF Rooted
    <2> QED BY <2>1, <2>2, <2>3
  <1>8. Links(M, t)
    <2> SUFFICES ASSUME NEW j \in DOMAIN t, t[j].do = "link", NEW k \in Range(t[j].kids)
                 PROVE  IF k \in DOMAIN M THEN M[k].parent = t[j].msg ELSE ToCome(t, k, t[j].msg)
      BY DEF Links
    <2>1. CASE k \in Range(s[j].kids)
      <3>1. IF k \in DOMAIN M THEN M[k].parent = s[j].msg ELSE ToCome(s, k, s[j].msg)
        BY <1>1, <2>1 DEF OnTrack, Links
      <3> QED BY <1>1, <1>2, <3>1
    <2>2. CASE k \notin Range(s[j].kids)
      <3>1. j = 1 /\ k \in Kids(M, s[1].msg) /\ t[j].msg = s[1].msg
        BY <2>2
      <3>2. IF k \in DOMAIN M THEN M[k].parent = s[1].msg ELSE ToCome(s, k, s[1].msg)
        BY <3>1 DEF OnTrack, ListedThere
      <3> QED BY <1>2, <3>1, <3>2
    <2> QED BY <2>1, <2>2
  <1> QED BY <1>4, <1>5, <1>6, <1>7, <1>8 DEF OnTrack

\* A script that neither saves nor links.
Plain(s) == \A j \in DOMAIN s : s[j].do \notin {"save", "link"}

\* A script that saves and links nothing has nothing to come.
LEMMA PlainIs ==
  ASSUME NEW s, Plain(s)
  PROVE  /\ \A k, p : ~ToCome(s, k, p) /\ ~LinkToCome(s, k, p)
         /\ OnceEach(s) /\ SavedFirst(s) /\ \A M : Parents(M, s) /\ Links(M, s)
  BY DEF Plain, ToCome, LinkToCome, OnceEach, SavedFirst, Parents, Links

\* What such a script has to keep in order.
LEMMA PlainOnTrack ==
  ASSUME NEW s, Plain(s), NEW N,
         \A y \in DOMAIN N : \A k \in Kids(N, y) : k \in DOMAIN N /\ N[k].parent = y,
         \A k \in DOMAIN N : \/ N[k].parent = 0 \/ SentLate(k, N[k].parent)'
                             \/ N[k].parent \in DOMAIN N /\ k \in Kids(N, N[k].parent),
         Forgotten' \cap DOMAIN N = {}
  PROVE  OnTrack(N, s)'
  <1>1. OnceEach(s) /\ SavedFirst(s) /\ Links(N, s)
    BY PlainIs
  <1>2. Parents(N, s)'
    BY DEF Plain, Parents
  <1>3. ListedThere(N, s)'
    BY DEF ListedThere, Kids
  <1>4. Found(N, s)'
    BY DEF Found, Kids
  <1> QED BY <1>1, <1>2, <1>3, <1>4 DEF OnTrack, OnceEach, SavedFirst, Links, ToCome

\* What such a script finds in order.
LEMMA PlainTree ==
  ASSUME NEW s, Plain(s), NEW M, OnTrack(M, s)
  PROVE  /\ \A y \in DOMAIN M : \A k \in Kids(M, y) : k \in DOMAIN M /\ M[k].parent = y
         /\ \A k \in DOMAIN M : \/ M[k].parent = 0 \/ SentLate(k, M[k].parent)
                                \/ M[k].parent \in DOMAIN M /\ k \in Kids(M, M[k].parent)
         /\ Forgotten \cap DOMAIN M = {}
  BY PlainIs DEF OnTrack, ListedThere, Found

\* A message is deleted with its children.
LEMMA DeleteOnTrack ==
  ASSUME NEW s, Plain(s), NEW M, MessagesShaped(M), OnTrack(M, s), NEW m \in DOMAIN M,
         NEW N, Deleted(M, m, N),
         LateKept, \A k, q, p : SentLate(q, p) /\ k > q /\ k \in Nat /\ q \in Nat
                                   => SentLate(k, p)',
         Forgotten' \subseteq Forgotten \cup DeletedIds(M, m)
  PROVE  OnTrack(N, s)'
  <1> USE DEF Deleted
  <1>1. DeletedIds(M, m) = {m} \cup (Kids(M, m) \cap DOMAIN M)
    BY BelowIs
  <1>2. PICK up : up = M[m].parent
    OBVIOUS
  <1>3. \A x \in DOMAIN M : x \in Nat /\ M[x].parent \in Nat /\ M[x].parent < x
    BY MessageIs
  <1>4. \A y \in DOMAIN M : \A k \in Kids(M, y) : k \in DOMAIN M /\ M[k].parent = y
    BY PlainTree
  <1>5. \A k \in DOMAIN M : \/ M[k].parent = 0 \/ SentLate(k, M[k].parent)
                            \/ M[k].parent \in DOMAIN M /\ k \in Kids(M, M[k].parent)
    BY PlainTree
  <1>6. \A k : k \in Grand(M, m) <=>
                  \E c : c \in Kids(M, m) /\ c \in DOMAIN M /\ k \in Kids(M, c) /\ k \in DOMAIN M
    BY DEF Grand
  <1>7. ASSUME NEW k \in Grand(M, m)
        PROVE  k \in DOMAIN N /\ k > m /\ k # up /\ M[k].parent \in Kids(M, m)
    <2>1. PICK c : c \in Kids(M, m) /\ c \in DOMAIN M /\ k \in Kids(M, c) /\ k \in DOMAIN M
      BY <1>6, <1>7
    <2>2. M[c].parent = m /\ M[k].parent = c
      BY <1>4, <2>1
    <2>3. m < c /\ c < k /\ up < m /\ m \in Nat /\ c \in Nat /\ k \in Nat /\ up \in Nat
      BY <1>2, <1>3, <2>1, <2>2
    <2>4. k > m /\ k # up /\ k # m /\ c # m
      BY <2>3
    <2>5. k \notin Kids(M, m)
      BY <1>4, <2>2, <2>4
    <2> QED BY <1>1, <2>1, <2>2, <2>4, <2>5
  <1>8. m \in Nat /\ up < m /\ up \in Nat
    BY <1>2, <1>3
  <1>9. up \in DOMAIN M => up \in DOMAIN N
    <2>1. up \notin Kids(M, m)
      <3>1. up \in Kids(M, m) => up \in DOMAIN M /\ M[up].parent = m
        BY <1>4
      <3>2. up \in DOMAIN M => M[up].parent < up /\ M[up].parent \in Nat
        BY <1>3
      <3> QED BY <1>8, <3>1, <3>2
    <2>2. up # m
      BY <1>8
    <2> QED BY <1>1, <2>1, <2>2
  <1>10. \A x \in DOMAIN N : x \in DOMAIN M /\ x # m /\ x \notin Kids(M, m)
    BY <1>1
  <1>11. ASSUME NEW y \in DOMAIN N, NEW k \in Kids(N, y)
         PROVE  k \in DOMAIN N /\ N[k].parent = y
    <2>1. CASE k \in Grand(M, m) /\ y = up
      BY <1>2, <1>7, <2>1
    <2>2. CASE k \in Kids(M, y) /\ k # m
      <3>1. k \in DOMAIN M /\ M[k].parent = y
        BY <1>4, <1>10, <2>2
      <3>2. k \notin Kids(M, m)
        BY <1>4, <1>10, <3>1
      <3>3. k \notin Grand(M, m)
        BY <1>7, <1>10, <3>1
      <3> QED BY <1>1, <2>2, <3>1, <3>2, <3>3
    <2>3. k = m => k \notin Kids(M, y) \/ y = up
      BY <1>2, <1>4, <1>10
    <2>4. k = m => k \notin Grand(M, m)
      BY <1>7, <1>8
    <2>5. \/ k \in Grand(M, m) /\ y = up
          \/ k \in Kids(M, y) /\ (y = up => k # m)
      BY <1>2
    <2> QED BY <2>1, <2>2, <2>3, <2>4, <2>5
  <1>12. ASSUME NEW k \in DOMAIN N
         PROVE  \/ N[k].parent = 0 \/ SentLate(k, N[k].parent)'
                \/ N[k].parent \in DOMAIN N /\ k \in Kids(N, N[k].parent)
    <2>1. CASE k \in Grand(M, m)
      <3>1. N[k].parent = up /\ k > m /\ k \in Nat
        BY <1>2, <1>3, <1>7, <1>10, <2>1
      <3>2. \/ up = 0 \/ SentLate(m, up) \/ up \in DOMAIN M
        BY <1>2, <1>5
      <3>3. up \in DOMAIN N => k \in Kids(N, up)
        BY <1>2, <2>1
      <3> QED BY <1>8, <1>9, <3>1, <3>2, <3>3
    <2>2. CASE k \notin Grand(M, m)
      <3>1. PICK q : q = M[k].parent
        OBVIOUS
      <3>2. N[k].parent = q /\ k \in DOMAIN M
        BY <1>10, <2>2, <3>1
      <3>3. q = 0 \/ SentLate(k, q) \/ (q \in DOMAIN M /\ k \in Kids(M, q))
        BY <1>5, <3>1, <3>2
      <3>4. ASSUME q \in DOMAIN M, k \in Kids(M, q) PROVE q \in DOMAIN N /\ k \in Kids(N, q)
        <4>1. q # m
          BY <1>10, <3>4
        <4>2. q \notin Kids(M, m)
          BY <1>6, <2>2, <3>2, <3>4
        <4>3. q \in DOMAIN N
          BY <1>1, <3>4, <4>1, <4>2
        <4>4. k # m
          BY <1>10
        <4> QED BY <1>2, <3>4, <4>3, <4>4
      <3> QED BY <3>2, <3>3, <3>4 DEF LateKept
    <2> QED BY <2>1, <2>2
  <1>13. Forgotten' \cap DOMAIN N = {}
    BY PlainTree
  <1> QED BY <1>11, <1>12, <1>13, PlainOnTrack

\* A tab's history is merged with the one that is stored.
Rising(M) == \A m \in DOMAIN M : M[m].parent \in DOMAIN M \cup {0} \/ SentLate(m, M[m].parent)

\* An update keeps the tree in order.
LEMMA MergeOnTrack ==
  ASSUME NEW s, Plain(s), NEW M, OnTrack(M, s), NEW G, Rising(G),
         NEW N, DOMAIN N = DOMAIN M \cup DOMAIN G,
         \A x \in DOMAIN N :
             /\ N[x].parent = IF x \in DOMAIN G THEN G[x].parent ELSE M[x].parent
             /\ Kids(N, x) = {y \in DOMAIN N : N[y].parent = x},
         LateKept, Forgotten' \subseteq Forgotten \ DOMAIN G
  PROVE  OnTrack(N, s)'
  <1>1. \A y \in DOMAIN N : \A k \in Kids(N, y) : k \in DOMAIN N /\ N[k].parent = y
    OBVIOUS
  <1>2. ASSUME NEW k \in DOMAIN N
        PROVE  \/ N[k].parent = 0 \/ SentLate(k, N[k].parent)'
               \/ N[k].parent \in DOMAIN N /\ k \in Kids(N, N[k].parent)
    <2>1. \/ N[k].parent = 0 \/ SentLate(k, N[k].parent) \/ N[k].parent \in DOMAIN N
      <3>1. CASE k \in DOMAIN G
        BY <3>1 DEF Rising
      <3>2. CASE k \notin DOMAIN G
        BY <3>2, PlainTree
      <3> QED BY <3>1, <3>2
    <2>2. N[k].parent \in DOMAIN N => k \in Kids(N, N[k].parent)
      OBVIOUS
    <2> QED BY <2>1, <2>2 DEF LateKept
  <1>3. Forgotten' \cap DOMAIN N = {}
    BY PlainTree
  <1> QED BY <1>1, <1>2, <1>3, PlainOnTrack

\* A script that begins when none is running.
LEMMA StartOnTrack ==
  ASSUME NEW M, NEW e, Plain(e), OnTrack(M, e), NEW s,
         OnceEach(s), SavedFirst(s), Parents(M, s), Links(M, s)
  PROVE  OnTrack(M, s)
  <1>1. /\ \A y \in DOMAIN M : \A k \in Kids(M, y) : k \in DOMAIN M /\ M[k].parent = y
        /\ \A k \in DOMAIN M : \/ M[k].parent = 0 \/ SentLate(k, M[k].parent)
                               \/ M[k].parent \in DOMAIN M /\ k \in Kids(M, M[k].parent)
        /\ Forgotten \cap DOMAIN M = {}
    BY PlainTree
  <1>2. ListedThere(M, s) /\ Found(M, s)
    BY <1>1 DEF ListedThere, Found
  <1> QED BY <1>1, <1>2 DEF OnTrack

\* A message is sent below one the tab shows.
LEMMA CompletionOnTrack ==
  ASSUME NEW M, NEW e, Plain(e), OnTrack(M, e), NEW c \in Nat, \A k \in DOMAIN M : k \in 1 .. c,
         NEW u, u = c + 1, NEW p \in Nat, p <= c, NEW n \in Nat \ {0}, NEW s,
         DOMAIN s = 1 .. Ahead(p) + n, \A j \in DOMAIN s : Sending(s[j], j, p, u, n),
         p # 0 => p \in DOMAIN M \/ SentLate(u, p)
  PROVE  OnTrack(M, s)
  <1>1. PICK a : a = Ahead(p) /\ ((p # 0 /\ a = 4) \/ (p = 0 /\ a = 3))
    BY DEF Ahead
  <1>2. /\ \A m, q, x : x = Save(m, q, 0) => x.do = "save" /\ x.msg = m /\ x.parent = q
        /\ \A m, k, x : x = Link(m, k) => x.do = "link" /\ x.msg = m /\ x.kids = k
        /\ Touch.do = "touch"
    BY DEF Save, Link, Touch
  <1>3. Range(Only(u)) = {u} /\ Range(Answers(u, n)) = {u + i : i \in 1 .. n}
    <2>1. \A x : <<x>>[1] = x /\ DOMAIN <<x>> = {1}
      OBVIOUS
    <2> QED BY <2>1 DEF Range, Only, Answers
  <1>4. u \in Nat /\ u > c /\ u # p /\ u \notin DOMAIN M
        /\ \A i \in 1 .. n : u + i \in Nat /\ u + i > c /\ u + i # u /\ u + i # p /\ u + i \notin DOMAIN M
    <2>1. \A k \in DOMAIN M : k <= c /\ k \in Nat
      OBVIOUS
    <2> QED BY <2>1
  \* The steps that save, and those that link.
  <1>5. ASSUME NEW j \in DOMAIN s, s[j].do = "save"
        PROVE  \/ j = 2 /\ s[j].msg = u /\ s[j].parent = p
               \/ \E i \in 1 .. n : j = a + i /\ s[j].msg = u + i /\ s[j].parent = u
    BY <1>1, <1>2, <1>5 DEF Sending
  <1>6. ASSUME NEW j \in DOMAIN s, s[j].do = "link"
        PROVE  \/ j = 3 /\ p # 0 /\ s[j].msg = p /\ Range(s[j].kids) = {u}
               \/ j = a /\ s[j].msg = u /\ Range(s[j].kids) = {u + i : i \in 1 .. n}
    <2>1. PICK x, K : x = s[j] /\ x.do = "link" /\ K = {u + i : i \in 1 .. n}
      BY <1>6
    <2>2. Range(Answers(u, n)) = K /\ Range(Only(u)) = {u}
      BY <1>3, <2>1
    <2>3. \/ j = 3 /\ p # 0 /\ x = Link(p, Only(u))
          \/ j = a /\ x = Link(u, Answers(u, n))
      <3>1. \/ j = 1 /\ x = Touch
            \/ j = 2 /\ x = Save(u, p, 0)
            \/ j = 3 /\ p # 0 /\ x = Link(p, Only(u))
            \/ j = a /\ x = Link(u, Answers(u, n))
            \/ \E i \in 1 .. n : j = a + i /\ x = Save(u + i, u, 0)
        BY <1>1, <2>1 DEF Sending
      <3> QED BY <1>2, <2>1, <3>1
    <2>4. \/ j = 3 /\ p # 0 /\ x.msg = p /\ Range(x.kids) = {u}
          \/ j = a /\ x.msg = u /\ Range(x.kids) = K
      BY <1>2, <2>2, <2>3
    <2> QED BY <2>1, <2>4
  <1>7. /\ 2 \in DOMAIN s /\ a \in DOMAIN s /\ (p # 0 => 3 \in DOMAIN s)
        /\ \A i \in 1 .. n : a + i \in DOMAIN s
    BY <1>1
  <1>8. /\ s[2].do = "save" /\ s[2].msg = u /\ s[2].parent = p
        /\ s[a].do = "link" /\ s[a].msg = u /\ Range(s[a].kids) = {u + i : i \in 1 .. n}
        /\ p # 0 => s[3].do = "link" /\ s[3].msg = p /\ Range(s[3].kids) = {u}
    <2>1. s[2] = Save(u, p, 0)
      <3>1. ~(2 = 1) /\ ~(2 = 3) /\ 2 # a /\ \A i \in 1 .. n : 2 # a + i
        BY <1>1
      <3> QED BY <1>1, <1>7, <3>1 DEF Sending
    <2>2. s[a] = Link(u, Answers(u, n))
      <3>1. ~(a = 1) /\ ~(a = 2) /\ (a = 3 => p = 0) /\ \A i \in 1 .. n : a # a + i
        BY <1>1
      <3> QED BY <1>1, <1>7, <3>1 DEF Sending
    <2>3. ASSUME p # 0 PROVE s[3] = Link(p, Only(u))
      <3>1. a = 4
        BY <1>1, <2>3
      <3>2. ~(3 = 1) /\ ~(3 = 2) /\ 3 # a /\ \A i \in 1 .. n : 3 # a + i
        BY <3>1
      <3>3. 3 \in DOMAIN s
        BY <1>7, <2>3
      <3> QED BY <1>1, <3>2, <3>3 DEF Sending
    <2>4. /\ s[2].do = "save" /\ s[2].msg = u /\ s[2].parent = p
      BY <1>2, <2>1
    <2>5. s[a].do = "link" /\ s[a].msg = u /\ s[a].kids = Answers(u, n)
      BY <1>2, <2>2
    <2>6. p # 0 => s[3].do = "link" /\ s[3].msg = p /\ s[3].kids = Only(u)
      BY <1>2, <2>3
    <2> QED BY <1>3, <2>4, <2>5, <2>6
  <1>9. \A i \in 1 .. n : /\ s[a + i].do = "save" /\ s[a + i].msg = u + i /\ s[a + i].parent = u
    <2> SUFFICES ASSUME NEW i \in 1 .. n
                 PROVE  s[a + i].do = "save" /\ s[a + i].msg = u + i /\ s[a + i].parent = u
      OBVIOUS
    <2>1. a + i # 1 /\ a + i # 2 /\ a + i # 3 /\ a + i # a
      BY <1>1
    <2>2. PICK l \in 1 .. n : a + i = a + l /\ s[a + i] = Save(u + l, u, 0)
      BY <1>1, <1>7, <2>1 DEF Sending
    <2>3. l = i
      BY <1>1, <2>2
    <2> QED BY <1>2, <2>2, <2>3
  <1>10. OnceEach(s)
    <2> SUFFICES ASSUME NEW i \in DOMAIN s, NEW j \in DOMAIN s,
                        s[i].do = "save", s[j].do = "save", s[i].msg = s[j].msg
                 PROVE  i = j
      BY DEF OnceEach
    <2>1. \/ i = 2 /\ s[i].msg = u
          \/ \E l \in 1 .. n : i = a + l /\ s[i].msg = u + l
      BY <1>5
    <2>2. \/ j = 2 /\ s[j].msg = u
          \/ \E l \in 1 .. n : j = a + l /\ s[j].msg = u + l
      BY <1>5
    <2> QED BY <1>4, <2>1, <2>2
  <1>11. SavedFirst(s)
    <2> SUFFICES ASSUME NEW i \in DOMAIN s, NEW j \in DOMAIN s,
                        s[j].do = "link", s[i].do = "save", s[i].msg = s[j].msg
                 PROVE  i < j
      BY DEF SavedFirst
    <2>1. \/ i = 2 /\ s[i].msg = u
          \/ \E l \in 1 .. n : i = a + l /\ s[i].msg = u + l
      BY <1>5
    <2>2. \/ j = 3 /\ s[j].msg = p
          \/ j = a /\ s[j].msg = u
      BY <1>6
    <2>3. i = 2 /\ j = a
      BY <1>4, <2>1, <2>2
    <2> QED BY <1>1, <2>3
  <1>12. Links(M, s)
    <2> SUFFICES ASSUME NEW j \in DOMAIN s, s[j].do = "link", NEW k \in Range(s[j].kids)
                 PROVE  k \notin DOMAIN M /\ ToCome(s, k, s[j].msg)
      BY DEF Links
    <2>1. CASE s[j].msg = p /\ Range(s[j].kids) = {u}
      BY <1>4, <1>7, <1>8, <2>1 DEF ToCome
    <2>2. CASE s[j].msg = u /\ Range(s[j].kids) = {u + i : i \in 1 .. n}
      <3>1. PICK i \in 1 .. n : k = u + i
        BY <2>2
      <3> QED BY <1>4, <1>7, <1>9, <2>2, <3>1 DEF ToCome
    <2> QED BY <1>6, <2>1, <2>2
  <1>13. Parents(M, s)
    <2> SUFFICES ASSUME NEW j \in DOMAIN s, s[j].do = "save", s[j].msg \notin DOMAIN M,
                        s[j].parent # 0
                 PROVE  SentLate(s[j].msg, s[j].parent) \/ Rooted(M, s, j)
      BY DEF Parents
    <2>1. CASE s[j].msg = u /\ s[j].parent = p
      <3>1. LinkToCome(s, u, p)
        BY <1>7, <1>8, <2>1 DEF LinkToCome
      <3> QED BY <2>1, <3>1 DEF Rooted
    <2>2. CASE \E i \in 1 .. n : j = a + i /\ s[j].msg = u + i /\ s[j].parent = u
      <3>1. PICK i \in 1 .. n : j = a + i /\ s[j].msg = u + i /\ s[j].parent = u
        BY <2>2
      <3>2. LinkToCome(s, u + i, u)
        <4>1. u + i \in Range(s[a].kids)
          BY <1>8
        <4> QED BY <1>7, <1>8, <4>1 DEF LinkToCome
      <3>3. 2 < j
        BY <1>1, <3>1
      <3> QED BY <1>7, <1>8, <3>1, <3>2, <3>3 DEF Rooted
    <2> QED BY <1>5, <2>1, <2>2
  <1> QED BY <1>10, <1>11, <1>12, <1>13, StartOnTrack

\* A row is there for a message that is there, and says the same.
InRow(m, M) == m \in DOMAIN M /\ RowLike(m, M)

\* The tree and its rows are in order except for what s will do.
NoScript == <<>>
Settled(s) == \E M : M = blob.msgs /\ OnTrack(M, s) /\ \A m \in DOMAIN rows : InRow(m, M)

\* What a tab shows is there or has been deleted.
Known(M) == Rising(M) /\ \A m \in DOMAIN M : m \in DOMAIN blob.msgs \/ m \in DOMAIN removed

\* The rows a script has not brought in line yet.
Pending(r, m) ==
    \/ r.at = "blob" /\ Head(r.script).do \in {"save", "link"} /\ m = Head(r.script).msg
    \/ r.at = "fill" /\ Head(r.script).do # "read" /\ m \in r.left
    \/ r.at = "fill" /\ Head(r.script).do = "delete" /\ m \in r.gone

\* What the one writer knows, and what is in order but for its script.
Work(r) == \E M, x :
    /\ M = blob.msgs /\ x = Head(r.script)
    /\ OnTrack(M, r.script)
    /\ x.do = "update" => Rising(x.incoming.msgs)
    /\ x.do = "link" /\ r.at \in {"load", "row", "blob"} =>
          x.msg \in DOMAIN M /\ Kids(M, x.msg) \subseteq Range(x.kids)
    /\ r.at \in {"row", "blob"} => r.copy.msgs = Applied(x, blob).msgs
    /\ r.at = "blob" /\ x.do = "delete" => x.msg \in DOMAIN M /\ r.gone = DeletedIds(M, x.msg)
    /\ r.at = "blob" /\ x.do \in {"save", "link"} => RowLike(x.msg, r.copy.msgs)
    /\ r.at = "fill" => r.copy.msgs = M
    /\ \A m \in DOMAIN rows : InRow(m, M) \/ Pending(r, m)

\* As long as no two scripts overlapped and none died, the tree is in order up
\* to the script that runs.
SerialInv ==
    ~disturbed =>
        /\ Known(tab.msgs)
        /\ \A w, v \in Busy : w = v
        /\ \A w \in Busy : Work(run[w])
        /\ Busy = {} => Settled(NoScript)

\* The one writer moves, and the tree stays in order.
LEMMA SerialMove ==
  ASSUME Shapes, SerialInv, NEW w \in Writers, NEW r, Becomes(w, r), RunShaped(r),
         run[w].at # "idle", r.alone => run[w].alone, disturbed' = disturbed,
         ~disturbed => /\ Known(tab.msgs)'
                       /\ r.at # "idle" => Work(r)'
                       /\ r.at = "idle" => Settled(NoScript)'
  PROVE  SerialInv'
  <1>1. /\ run'[w] = r /\ w \in Busy /\ Busy' \subseteq Busy
        /\ w \in Busy' <=> r.at # "idle"
    BY RunsKept DEF Shapes
  <1> SUFFICES ASSUME ~disturbed
               PROVE  /\ Known(tab.msgs)' /\ \A v, u \in Busy' : v = u
                      /\ \A v \in Busy' : Work(run[v])'
                      /\ Busy' = {} => Settled(NoScript)'
    BY DEF SerialInv
  <1>2. \A v, u \in Busy' : v = u
    BY <1>1 DEF SerialInv
  <1>3. ASSUME NEW v \in Busy' PROVE Work(run[v])'
    <2>1. v = w /\ run'[v] = r /\ r.at # "idle"
      BY <1>1, <1>3 DEF SerialInv
    <2>2. Work(r)'
      BY <2>1
    <2> QED BY <2>1, <2>2 DEF Work, Pending
  <1>4. Busy' = {} => Settled(NoScript)'
    BY <1>1
  <1> QED BY <1>2, <1>3, <1>4

\* What is at work, and alone as long as nothing was disturbed.
LEMMA WorkIs ==
  ASSUME Shapes, SerialInv, ~disturbed, NEW w \in Writers, run[w].at # "idle"
  PROVE  \E old : /\ old = run[w] /\ RunShaped(old) /\ Work(old) /\ Known(tab.msgs)
                  /\ ScriptShaped(old.script) /\ Step(w) = Head(old.script)
                  /\ StepShaped(Head(old.script))
  <1>1. RunShaped(run[w]) /\ ScriptShaped(run[w].script) /\ Step(w) = Head(run[w].script)
        /\ StepShaped(Step(w)) /\ w \in Busy
    BY StepIs DEF Shapes
  <1> QED BY <1>1 DEF SerialInv

\* No script saves or links nothing.
LEMMA NoScriptPlain == Plain(NoScript)
  <1>1. DOMAIN NoScript = {}
    BY DEF NoScript
  <1> QED BY <1>1 DEF Plain

\* After a step the next one begins, or the script is over.
LEMMA WorkAfter ==
  ASSUME NEW old, RunShaped(old), old.at # "idle", NEW d, d = Done(old),
         NEW t, t = Tail(old.script), Settled(t)'
  PROVE  /\ d.at # "idle" => Work(d)'
         /\ d.at = "idle" => Settled(NoScript)'
  <1>1. /\ RunShaped(d) /\ d.at \in {"idle", "peek", "rows", "load"}
        /\ d.at = "idle" <=> t = <<>>
        /\ d.at # "idle" => d.script = t /\ d.at = FirstPhase(Head(t))
    BY DoneIs
  <1>2. CASE d.at = "idle"
    BY <1>1, <1>2 DEF NoScript
  <1>3. CASE d.at # "idle"
    <2>1. ScriptShaped(t) /\ ScriptShaped(old.script) /\ d.script = t
      BY <1>1, <1>3 DEF RunShaped
    <2>2. Head(t).do # "update"
      <3>1. PICK s : s = old.script /\ ScriptShaped(s) /\ t = Tail(s)
        BY <2>1
      <3>2. 1 \in DOMAIN t /\ Head(t) = t[1] /\ Len(t) \in Nat /\ DOMAIN t = 1 .. Len(t)
        BY <2>1, ScriptIs
      <3>3. Follows(s, t)
        BY <3>1, TailFollows
      <3>4. Wholesale(s) => t = <<>>
        BY <3>1, ScriptIs DEF ScriptShaped
      <3>5. Head(t).do = "update" => Wholesale(s)
        BY <3>2, <3>3 DEF Follows, Wholesale
      <3> QED BY <1>1, <1>3, <3>4, <3>5
    <2>3. StepShaped(Head(t))
      BY <2>1, ScriptIs
    <2>4. Head(t).do = "link" => d.at = "peek"
      BY <1>1, <1>3, <2>3, FirstPhaseIs
    <2>5. d.at \in {"peek", "rows", "load"}
      BY <1>1, <1>3
    <2> QED BY <2>1, <2>2, <2>4, <2>5 DEF Work, Settled
  <1> QED BY <1>2, <1>3

\* What stays when messages are only looked at.
LEMMA LateSame ==
  ASSUME removed' = removed, returned' = returned
  PROVE  LateKept /\ Forgotten' = Forgotten
  BY DEF LateKept, SentLate, Forgotten

\* What the script has to keep in order stays when nothing is deleted.
LEMMA OnTrackSame ==
  ASSUME removed' = removed, returned' = returned, NEW M, NEW s, OnTrack(M, s)
  PROVE  OnTrack(M, s)'
  BY DEF OnTrack, ListedThere, Found, Parents, SentLate, Forgotten, Rooted, OnceEach, SavedFirst, Links,
         ToCome, LinkToCome, Kids

\* What a tab shows stays there or deleted.
LEMMA KnownKept ==
  ASSUME Known(tab.msgs), tab' = tab, LateKept, DOMAIN removed \subseteq DOMAIN removed',
         \A m \in DOMAIN blob.msgs : m \in DOMAIN blob'.msgs \/ m \in DOMAIN removed'
  PROVE  Known(tab.msgs)'
  <1>1. PICK M : M = tab.msgs
    OBVIOUS
  <1>2. Known(M)
    BY <1>1
  <1>3. Rising(M)'
    BY <1>2 DEF Known, Rising, LateKept
  <1>4. Known(M)'
    BY <1>2, <1>3 DEF Known
  <1> QED BY <1>1, <1>4 DEF Known, Rising

\* The rows say the same when none is written.
LEMMA RowsSame ==
  ASSUME rows' = rows
  PROVE  \A m, M : InRow(m, M)' <=> InRow(m, M)
  BY DEF InRow, RowLike

\* What a writer at work knows, in one place.
LEMMA Working ==
  ASSUME Shapes, SerialInv, ~disturbed, NEW w \in Writers, run[w].at # "idle"
  PROVE  \E old, M, x, t :
            /\ old = run[w] /\ RunShaped(old) /\ Known(tab.msgs)
            /\ x = Head(old.script) /\ x = old.script[1] /\ x = Step(w) /\ StepShaped(x)
            /\ M = blob.msgs /\ MessagesShaped(M) /\ 0 \notin DOMAIN M
            /\ t = Tail(old.script) /\ Follows(old.script, t)
            /\ x.do \in {"delete", "update", "read"} => Plain(old.script) /\ t = NoScript
            /\ OnTrack(M, old.script)
            /\ x.do = "update" => Rising(x.incoming.msgs)
            /\ x.do = "link" /\ old.at \in {"load", "row", "blob"} =>
                  x.msg \in DOMAIN M /\ Kids(M, x.msg) \subseteq Range(x.kids)
            /\ old.at \in {"row", "blob"} => old.copy.msgs = Applied(x, blob).msgs
            /\ old.at = "blob" /\ x.do = "delete" =>
                  x.msg \in DOMAIN M /\ old.gone = DeletedIds(M, x.msg)
            /\ old.at = "blob" /\ x.do \in {"save", "link"} => RowLike(x.msg, old.copy.msgs)
            /\ old.at = "fill" => old.copy.msgs = M
            /\ \A m \in DOMAIN rows : InRow(m, M) \/ Pending(old, m)
  <1>1. PICK old : /\ old = run[w] /\ RunShaped(old) /\ Work(old) /\ Known(tab.msgs)
                   /\ ScriptShaped(old.script) /\ Step(w) = Head(old.script)
                   /\ StepShaped(Head(old.script))
    BY WorkIs
  <1>2. PICK M, x :
          /\ M = blob.msgs /\ x = Head(old.script)
          /\ OnTrack(M, old.script)
          /\ x.do = "update" => Rising(x.incoming.msgs)
          /\ x.do = "link" /\ old.at \in {"load", "row", "blob"} =>
                x.msg \in DOMAIN M /\ Kids(M, x.msg) \subseteq Range(x.kids)
          /\ old.at \in {"row", "blob"} => old.copy.msgs = Applied(x, blob).msgs
          /\ old.at = "blob" /\ x.do = "delete" =>
                x.msg \in DOMAIN M /\ old.gone = DeletedIds(M, x.msg)
          /\ old.at = "blob" /\ x.do \in {"save", "link"} => RowLike(x.msg, old.copy.msgs)
          /\ old.at = "fill" => old.copy.msgs = M
          /\ \A m \in DOMAIN rows : InRow(m, M) \/ Pending(old, m)
    BY <1>1 DEF Work
  <1>3. PICK s, t : s = old.script /\ t = Tail(s) /\ ScriptShaped(s)
    BY <1>1
  <1>4. Follows(s, t) /\ Head(s) = s[1]
    BY <1>3, TailFollows
  <1>5. /\ Len(s) \in Nat /\ DOMAIN s = 1 .. Len(s)
        /\ x.do \in {"delete", "update", "read"} => Len(s) = 1 /\ t = <<>>
    BY <1>2, <1>3, ScriptIs
  <1>6. x.do \in {"delete", "update", "read"} => Plain(s)
    <2>1. x.do \in {"delete", "update", "read"} => \A j \in DOMAIN s : j = 1
      BY <1>5
    <2> QED BY <1>2, <1>3, <1>4, <2>1 DEF Plain
  <1>7. MessagesShaped(M) /\ 0 \notin DOMAIN M
    <2>1. MessagesShaped(M)
      BY <1>2 DEF Shapes, HistoryShaped
    <2> QED BY <2>1 DEF MessagesShaped, Ids
  <1> QED BY <1>1, <1>2, <1>3, <1>4, <1>5, <1>6, <1>7 DEF NoScript

\* A link that reads the children keeps the tree in order.
LEMMA PeekSerial ==
  ASSUME Shapes, Existing, SerialInv, NEW w \in Writers, Peek(w)
  PROVE  SerialInv'
  <1>1. run[w].at # "idle" /\ run[w].at = "peek" /\ blob'.msgs = blob.msgs /\ Step(w).do = "link"
    BY PeekIs DEF Peek
  <1>2. PICK r : /\ Becomes(w, r) /\ RunShaped(r) /\ (r.alone => run[w].alone)
                 /\ \/ Step(w).msg \notin DOMAIN blob.msgs /\ r = Done(run[w])
                    \/ /\ Step(w).msg \in DOMAIN blob.msgs /\ r.at = "load"
                       /\ DOMAIN r.script = DOMAIN run[w].script
                       /\ \A j \in DOMAIN r.script : j # 1 => r.script[j] = run[w].script[j]
                       /\ \E k : /\ r.script[1] = Link(Step(w).msg, k)
                                 /\ Head(r.script) = Link(Step(w).msg, k)
                                 /\ Range(k) = Kids(blob.msgs, Step(w).msg)
                                                    \cup Range(Step(w).kids)
    BY PeekIs
  <1>3. /\ rows' = rows /\ removed' = removed /\ returned' = returned
        /\ tab' = tab /\ disturbed' = disturbed
    BY DEF Peek, deletions, Bookkeeping
  <1>4. ASSUME ~disturbed
        PROVE  /\ Known(tab.msgs)'
               /\ r.at # "idle" => Work(r)'
               /\ r.at = "idle" => Settled(NoScript)'
    <2>1. PICK old, M, x, t :
            /\ old = run[w] /\ RunShaped(old) /\ Known(tab.msgs)
            /\ x = Head(old.script) /\ x = old.script[1] /\ x = Step(w) /\ StepShaped(x)
            /\ M = blob.msgs
            /\ t = Tail(old.script) /\ Follows(old.script, t) /\ OnTrack(M, old.script)
            /\ \A m \in DOMAIN rows : InRow(m, M) \/ Pending(old, m)
      BY <1>1, <1>4, Working
    <2>2. LateKept /\ Forgotten' = Forgotten
      BY <1>3, LateSame
    <2>3. Known(tab.msgs)'
      BY <1>1, <1>3, <2>1, <2>2, KnownKept
    <2>4. \A m \in DOMAIN rows' : InRow(m, M)'
      BY <1>1, <1>3, <2>1, RowsSame DEF Pending
    <2>5. CASE x.msg \notin DOMAIN M /\ r = Done(old)
      <3>1. OnTrack(M, t)'
        <4>1. PICK s : s = old.script
          OBVIOUS
        <4>2. s[1].do = "link" /\ s[1].msg \notin DOMAIN M
          BY <1>1, <2>1, <2>5, <4>1
        <4> QED BY <2>1, <2>2, <4>1, <4>2, PassOnTrack
      <3>2. Settled(t)'
        BY <1>1, <2>1, <2>4, <3>1 DEF Settled
      <3> QED BY <1>1, <2>1, <2>3, <2>5, <3>2, WorkAfter
    <2>6. CASE x.msg \in DOMAIN M /\ r.at = "load"
      <3>1. PICK k : /\ DOMAIN r.script = DOMAIN old.script
                     /\ \A j \in DOMAIN r.script : j # 1 => r.script[j] = old.script[j]
                     /\ r.script[1] = Link(x.msg, k) /\ Head(r.script) = Link(x.msg, k)
                     /\ Range(k) = Kids(M, x.msg) \cup Range(x.kids)
        BY <1>2, <2>1, <2>6
      <3>2. Link(x.msg, k).do = "link" /\ Link(x.msg, k).msg = x.msg /\ Link(x.msg, k).kids = k
        BY DEF Link
      <3>3. 1 \in DOMAIN old.script
        BY <2>1 DEF Follows
      <3>4. OnTrack(M, r.script)
        <4>1. PICK s, q : s = old.script /\ q = r.script
          OBVIOUS
        <4>2. /\ OnTrack(M, s) /\ DOMAIN q = DOMAIN s /\ 1 \in DOMAIN s
              /\ \A j \in DOMAIN s : j # 1 => q[j] = s[j]
              /\ s[1].do = "link" /\ q[1].do = "link" /\ s[1].msg = q[1].msg /\ s[1].msg \in DOMAIN M
              /\ Range(q[1].kids) = Kids(M, s[1].msg) \cup Range(s[1].kids)
          BY <1>1, <2>1, <2>6, <3>1, <3>2, <3>3, <4>1
        <4>3. OnTrack(M, q)
          BY ONLY <4>2, RelinkOnTrack
        <4> QED BY <4>1, <4>3
      <3>5. OnTrack(M, r.script)'
        BY <1>3, <3>4, OnTrackSame
      <3>6. PICK y : y = Head(r.script) /\ y.do = "link" /\ y.msg = x.msg /\ y.kids = k
        BY <3>1, <3>2
      <3> QED BY <1>1, <2>1, <2>3, <2>4, <2>6, <3>1, <3>5, <3>6 DEF Work
    <2> QED BY <1>2, <2>1, <2>5, <2>6
  <1> QED BY <1>1, <1>2, <1>3, <1>4, SerialMove

\* A load keeps the tree in order.
LEMMA LoadSerial ==
  ASSUME Shapes, Existing, SerialInv, NEW w \in Writers, Load(w)
  PROVE  SerialInv'
  <1>1. run[w].at = "load" /\ blob'.msgs = blob.msgs /\ Step(w).do # "read"
    BY LoadIs
  <1>2. PICK r : /\ Becomes(w, r) /\ RunShaped(r) /\ (r.alone => run[w].alone)
                 /\ \/ /\ Step(w).do = "delete" /\ Step(w).msg \notin DOMAIN blob.msgs
                       /\ r = Done(run[w])
                    \/ /\ Step(w).do = "delete" => Step(w).msg \in DOMAIN blob.msgs
                       /\ r.script = run[w].script
                       /\ r.at = IF Step(w).do \in {"save", "link"} THEN "row" ELSE "blob"
                       /\ r.copy.msgs = Applied(Step(w), blob).msgs
                       /\ Step(w).do = "delete" =>
                             r.gone = DeletedIds(blob.msgs, Step(w).msg)
    BY LoadIs
  <1>3. /\ rows' = rows /\ removed' = removed /\ returned' = returned
        /\ tab' = tab /\ disturbed' = disturbed
    BY DEF Load, deletions, Bookkeeping
  <1>4. ASSUME ~disturbed
        PROVE  /\ Known(tab.msgs)'
               /\ r.at # "idle" => Work(r)'
               /\ r.at = "idle" => Settled(NoScript)'
    <2>0. run[w].at # "idle"
      BY <1>1
    <2>1. PICK old, M, x, t :
            /\ old = run[w] /\ RunShaped(old) /\ Known(tab.msgs)
            /\ x = Head(old.script) /\ x = old.script[1] /\ x = Step(w) /\ StepShaped(x)
            /\ M = blob.msgs
            /\ t = Tail(old.script) /\ Follows(old.script, t)
            /\ x.do \in {"delete", "update", "read"} => Plain(old.script) /\ t = NoScript
            /\ OnTrack(M, old.script)
            /\ x.do = "update" => Rising(x.incoming.msgs)
            /\ x.do = "link" /\ old.at \in {"load", "row", "blob"} =>
                  x.msg \in DOMAIN M /\ Kids(M, x.msg) \subseteq Range(x.kids)
            /\ \A m \in DOMAIN rows : InRow(m, M) \/ Pending(old, m)
      BY <1>4, <2>0, Working
    <2>2. LateKept /\ Forgotten' = Forgotten
      BY <1>3, LateSame
    <2>3. Known(tab.msgs)'
      BY <1>1, <1>3, <2>1, <2>2, KnownKept
    <2>4. \A m \in DOMAIN rows' : InRow(m, M)'
      BY <1>1, <1>3, <2>1, RowsSame DEF Pending
    <2>5. CASE x.do = "delete" /\ r = Done(old)
      <3>1. OnTrack(M, t)'
        <4>1. PICK s : s = old.script
          OBVIOUS
        <4>2. s[1].do = "delete"
          BY <2>1, <2>5, <4>1
        <4> QED BY <2>1, <2>2, <4>1, <4>2, PassOnTrack
      <3>2. Settled(t)'
        BY <1>1, <2>1, <2>4, <3>1 DEF Settled
      <3> QED BY <2>0, <2>1, <2>3, <2>5, <3>2, WorkAfter
    <2>6. CASE /\ x.do = "delete" => x.msg \in DOMAIN M
               /\ r.script = old.script
               /\ r.at = IF x.do \in {"save", "link"} THEN "row" ELSE "blob"
               /\ r.copy.msgs = Applied(x, blob).msgs
               /\ x.do = "delete" => r.gone = DeletedIds(M, x.msg)
      <3>1. OnTrack(M, r.script)'
        BY <1>3, <2>1, <2>6, OnTrackSame
      <3>2. Applied(x, blob').msgs = Applied(x, blob).msgs
        <4>1. x.do \in {"save", "link", "delete", "update", "touch"}
          BY <1>1, <2>1 DEF StepShaped
        <4>2. PICK b, c : b = blob' /\ c = blob /\ b.msgs = c.msgs
          BY <1>1
        <4> QED BY <4>1, <4>2, AppliedSame
      <3>3. x.do = "update" => Rising(x.incoming.msgs)'
        BY <2>1, <2>2 DEF Rising, LateKept
      <3>4. r.at \in {"row", "blob"} /\ (r.at = "blob" => x.do \notin {"save", "link"})
        BY <2>6
      <3> QED BY <1>1, <2>1, <2>3, <2>4, <2>6, <3>1, <3>2, <3>3, <3>4 DEF Work
    <2> QED BY <1>2, <2>1, <2>5, <2>6
  <1>5. run[w].at # "idle"
    BY <1>1
  <1> QED BY <1>2, <1>3, <1>4, <1>5, SerialMove

\* A row that is written keeps the tree in order.
LEMMA WriteRowSerial ==
  ASSUME Shapes, Existing, SerialInv, NEW w \in Writers, WriteRow(w)
  PROVE  SerialInv'
  <1>1. /\ run[w].at = "row" /\ Step(w).do \in {"save", "link"}
        /\ DOMAIN rows' = DOMAIN rows \cup {Step(w).msg}
        /\ rows'[Step(w).msg] = Row(Step(w).msg, run[w].copy)
        /\ \A m \in DOMAIN rows : m # Step(w).msg => rows'[m] = rows[m]
    BY WriteRowIs
  <1>2. PICK r : /\ Becomes(w, r) /\ RunShaped(r) /\ r.script = run[w].script
                 /\ r.at = "blob" /\ r.copy = run[w].copy /\ r.gone = run[w].gone
                 /\ r.alone = run[w].alone
    BY WriteRowIs
  <1>3. /\ blob' = blob /\ removed' = removed /\ returned' = returned
        /\ tab' = tab /\ disturbed' = disturbed
    BY DEF WriteRow, deletions, Bookkeeping
  <1>0. run[w].at # "idle"
    BY <1>1
  <1>4. ASSUME ~disturbed
        PROVE  /\ Known(tab.msgs)'
               /\ r.at # "idle" => Work(r)'
               /\ r.at = "idle" => Settled(NoScript)'
    <2>1. PICK old, M, x :
            /\ old = run[w] /\ Known(tab.msgs)
            /\ x = Head(old.script) /\ x = Step(w)
            /\ M = blob.msgs
            /\ OnTrack(M, old.script)
            /\ x.do = "link" /\ old.at \in {"load", "row", "blob"} =>
                  x.msg \in DOMAIN M /\ Kids(M, x.msg) \subseteq Range(x.kids)
            /\ old.at \in {"row", "blob"} => old.copy.msgs = Applied(x, blob).msgs
            /\ \A m \in DOMAIN rows : InRow(m, M) \/ Pending(old, m)
      BY <1>4, <1>0, Working
    <2>2. LateKept /\ Forgotten' = Forgotten
      BY <1>3, LateSame
    <2>3. Known(tab.msgs)'
      BY <1>3, <2>1, <2>2, KnownKept
    <2>4. RowLike(x.msg, r.copy.msgs)'
      BY <1>1, <1>2, <2>1 DEF RowLike, Row
    <2>5. \A m \in DOMAIN rows' : m = x.msg \/ InRow(m, M)'
      <3>1. \A m \in DOMAIN rows : InRow(m, M)
        BY <1>1, <2>1 DEF Pending
      <3> QED BY <1>1, <2>1, <3>1 DEF InRow, RowLike
    <2>6. \A m \in DOMAIN rows' : InRow(m, M)' \/ Pending(r, m)
      BY <1>1, <1>2, <2>1, <2>5 DEF Pending
    <2>7. OnTrack(M, r.script)'
      BY <1>2, <1>3, <2>1, OnTrackSame
    <2> QED BY <1>1, <1>2, <1>3, <2>1, <2>3, <2>4, <2>6, <2>7 DEF Work
  <1> QED BY <1>0, <1>2, <1>3, <1>4, SerialMove

\* A row filled from the history keeps the tree in order.
LEMMA FillSerial ==
  ASSUME Shapes, Existing, SerialInv, NEW w \in Writers, Fill(w)
  PROVE  SerialInv'
  <1>1. PICK n \in run[w].left :
         /\ run[w].at = "fill" /\ n \in DOMAIN run[w].copy.msgs
         /\ DOMAIN rows' = DOMAIN rows \cup {n}
         /\ rows'[n] = Row(n, run[w].copy)
         /\ \A m \in DOMAIN rows : m # n => rows'[m] = rows[m]
         /\ \E r : /\ Becomes(w, r) /\ RunShaped(r) /\ r.script = run[w].script
                   /\ r.at = "fill" /\ r.copy = run[w].copy /\ r.gone = run[w].gone
                   /\ r.alone = run[w].alone /\ r.left = run[w].left \ {n}
    BY FillIs
  <1>2. PICK r : /\ Becomes(w, r) /\ RunShaped(r) /\ r.script = run[w].script
                 /\ r.at = "fill" /\ r.copy = run[w].copy /\ r.gone = run[w].gone
                 /\ r.alone = run[w].alone /\ r.left = run[w].left \ {n}
    BY <1>1
  <1>3. /\ blob' = blob /\ removed' = removed /\ returned' = returned
        /\ tab' = tab /\ disturbed' = disturbed
    BY DEF Fill, deletions, Bookkeeping
  <1>0. run[w].at # "idle"
    BY <1>1
  <1>4. ASSUME ~disturbed
        PROVE  /\ Known(tab.msgs)'
               /\ r.at # "idle" => Work(r)'
               /\ r.at = "idle" => Settled(NoScript)'
    <2>1. PICK old, M, x :
            /\ old = run[w] /\ Known(tab.msgs)
            /\ x = Head(old.script) /\ x = Step(w)
            /\ M = blob.msgs
            /\ OnTrack(M, old.script)
            /\ x.do = "update" => Rising(x.incoming.msgs)
            /\ old.at = "fill" => old.copy.msgs = M
            /\ \A m \in DOMAIN rows : InRow(m, M) \/ Pending(old, m)
      BY <1>4, <1>0, Working
    <2>2. LateKept /\ Forgotten' = Forgotten
      BY <1>3, LateSame
    <2>3. Known(tab.msgs)'
      BY <1>3, <2>1, <2>2, KnownKept
    <2>4. InRow(n, M)'
      BY <1>1, <2>1 DEF InRow, RowLike, Row
    <2>5. ASSUME NEW m \in DOMAIN rows' PROVE InRow(m, M)' \/ Pending(r, m)
      <3>1. CASE m = n
        BY <2>4, <3>1
      <3>2. CASE m # n
        <4>1. m \in DOMAIN rows /\ rows'[m] = rows[m]
          BY <1>1, <3>2
        <4>2. InRow(m, M) => InRow(m, M)'
          BY <2>5, <4>1 DEF InRow, RowLike
        <4>3. Pending(old, m) => Pending(r, m)
          BY <1>1, <1>2, <2>1, <3>2 DEF Pending
        <4> QED BY <2>1, <4>1, <4>2, <4>3
      <3> QED BY <3>1, <3>2
    <2>6. OnTrack(M, r.script)'
      BY <1>2, <1>3, <2>1, OnTrackSame
    <2>7. x.do = "update" => Rising(x.incoming.msgs)'
      BY <2>1, <2>2 DEF Rising, LateKept
    <2> QED BY <1>1, <1>2, <1>3, <2>1, <2>3, <2>5, <2>6, <2>7 DEF Work
  <1> QED BY <1>0, <1>2, <1>3, <1>4, SerialMove

\* A script that was one step is over when that step is.
LEMMA OverSerial ==
  ASSUME Shapes, SerialInv, NEW w \in Writers, run[w].at # "idle", Finish(w),
         blob' = blob, removed' = removed, returned' = returned, tab' = tab,
         disturbed' = disturbed, Step(w).do \in {"delete", "update", "read"},
         ~disturbed => \A M : M = blob.msgs => \A m \in DOMAIN rows' : InRow(m, M)'
  PROVE  SerialInv'
  <1>1. PICK r : /\ r = Done(run[w]) /\ Becomes(w, r) /\ RunShaped(r)
                 /\ r.alone => run[w].alone
    BY FinishIs DEF Shapes
  <1>2. ASSUME ~disturbed
        PROVE  /\ Known(tab.msgs)'
               /\ r.at # "idle" => Work(r)'
               /\ r.at = "idle" => Settled(NoScript)'
    <2>1. PICK old, M, x, t :
            /\ old = run[w] /\ RunShaped(old) /\ Known(tab.msgs)
            /\ x = Head(old.script) /\ x = old.script[1] /\ x = Step(w)
            /\ M = blob.msgs
            /\ t = Tail(old.script) /\ Follows(old.script, t)
            /\ OnTrack(M, old.script)
      BY <1>2, Working
    <2>2. LateKept /\ Forgotten' = Forgotten
      BY LateSame
    <2>3. Known(tab.msgs)'
      BY <2>1, <2>2, KnownKept
    <2>4. OnTrack(M, t)'
      <3>1. PICK s : s = old.script
        OBVIOUS
      <3>2. s[1].do # "save" /\ s[1].do # "link"
        BY <2>1, <3>1
      <3> QED BY <2>1, <2>2, <3>1, <3>2, PassOnTrack
    <2>5. \A m \in DOMAIN rows' : InRow(m, M)'
      BY <1>2, <2>1
    <2>6. Settled(t)'
      BY <2>1, <2>4, <2>5 DEF Settled
    <2>7. old.at # "idle" /\ r = Done(old)
      BY <1>1, <2>1
    <2> QED BY <2>1, <2>3, <2>6, <2>7, WorkAfter
  <1> QED BY <1>1, <1>2, SerialMove

\* Rows dropped after a deletion keep the tree in order.
LEMMA DropRowsSerial ==
  ASSUME Shapes, Existing, SerialInv, NEW w \in Writers, DropRows(w)
  PROVE  SerialInv'
  <1>1. /\ run[w].at = "fill" /\ run[w].left = {} /\ Finish(w)
        /\ DOMAIN rows' = IF Step(w).do = "delete" THEN DOMAIN rows \ run[w].gone ELSE DOMAIN rows
        /\ \A m \in DOMAIN rows' : rows'[m] = rows[m]
    BY DropRowsIs
  <1>2. /\ blob' = blob /\ removed' = removed /\ returned' = returned
        /\ tab' = tab /\ disturbed' = disturbed
    BY DEF DropRows, deletions, Bookkeeping
  <1>3. Step(w).do \in {"delete", "update", "read"} /\ run[w].at # "idle"
    BY <1>1, StepIs DEF Shapes
  <1>4. ASSUME ~disturbed, NEW M, M = blob.msgs, NEW m \in DOMAIN rows' PROVE InRow(m, M)'
    <2>1. PICK old, x :
            /\ old = run[w] /\ x = Head(old.script) /\ x = Step(w)
            /\ InRow(m, M) \/ Pending(old, m)
      <3>1. m \in DOMAIN rows
        BY <1>1
      <3> QED BY <1>3, <1>4, <3>1, Working
    <2>2. InRow(m, M)
      BY <1>1, <2>1 DEF Pending
    <2> QED BY <1>1, <1>4, <2>2 DEF InRow, RowLike
  <1> QED BY <1>1, <1>2, <1>3, <1>4, OverSerial

\* Reading the rows keeps the tree in order.
LEMMA ReadRowsSerial ==
  ASSUME Shapes, Existing, SerialInv, NEW w \in Writers, ReadRows(w)
  PROVE  SerialInv'
  <1>1. run[w].at = "rows" /\ Step(w).do = "read"
    BY ReadRowsIs
  <1>2. /\ blob' = blob /\ rows' = rows /\ removed' = removed /\ returned' = returned
        /\ tab' = tab /\ disturbed' = disturbed
    BY DEF ReadRows, deletions, Bookkeeping
  <1>0. run[w].at # "idle"
    BY <1>1
  <1>3. ASSUME ~disturbed, NEW M, M = blob.msgs, NEW m \in DOMAIN rows PROVE InRow(m, M)
    <2>1. PICK old : old = run[w] /\ (InRow(m, M) \/ Pending(old, m))
      BY <1>0, <1>3, Working
    <2> QED BY <1>1, <2>1 DEF Pending
  <1>4. CASE Finish(w)
    <2>1. \A M : ~disturbed /\ M = blob.msgs => \A m \in DOMAIN rows' : InRow(m, M)'
      BY <1>2, <1>3, RowsSame
    <2> QED BY <1>0, <1>1, <1>2, <1>4, <2>1, OverSerial
  <1>5. CASE \E r : /\ Becomes(w, r) /\ RunShaped(r) /\ r.script = run[w].script
                    /\ r.at = "gap" /\ r.alone = run[w].alone
    <2>1. PICK r : /\ Becomes(w, r) /\ RunShaped(r) /\ r.script = run[w].script
                   /\ r.at = "gap" /\ r.alone = run[w].alone
      BY <1>5
    <2>2. ASSUME ~disturbed
          PROVE  /\ Known(tab.msgs)'
                 /\ r.at # "idle" => Work(r)'
                 /\ r.at = "idle" => Settled(NoScript)'
      <3>1. PICK old, M, x :
              /\ old = run[w] /\ Known(tab.msgs) /\ x = Head(old.script) /\ x = Step(w)
              /\ M = blob.msgs /\ OnTrack(M, old.script)
        BY <1>0, <2>2, Working
      <3>2. LateKept
        BY <1>2, LateSame
      <3>3. Known(tab.msgs)'
        BY <1>2, <3>1, <3>2, KnownKept
      <3>4. OnTrack(M, r.script)'
        BY <1>2, <2>1, <3>1, OnTrackSame
      <3>5. \A m \in DOMAIN rows' : InRow(m, M)'
        BY <1>2, <1>3, <2>2, <3>1, RowsSame
      <3> QED BY <1>1, <1>2, <2>1, <3>1, <3>3, <3>4, <3>5 DEF Work
    <2> QED BY <1>0, <1>2, <2>1, <2>2, SerialMove
  <1> QED BY <1>4, <1>5, ReadRowsIs

\* Loading a history for what the rows lack keeps the tree in order.
LEMMA LoadMissingSerial ==
  ASSUME Shapes, Existing, SerialInv, NEW w \in Writers, LoadMissing(w)
  PROVE  SerialInv'
  <1>1. run[w].at = "gap" /\ Step(w).do = "read" /\ blob'.msgs = blob.msgs
    BY LoadMissingIs
  <1>2. PICK r : /\ Becomes(w, r) /\ RunShaped(r) /\ r.script = run[w].script
                 /\ r.at = "fill" /\ r.copy.msgs = blob.msgs /\ r.alone = run[w].alone
    BY LoadMissingIs
  <1>3. /\ rows' = rows /\ removed' = removed /\ returned' = returned
        /\ tab' = tab /\ disturbed' = disturbed
    BY DEF LoadMissing, deletions, Bookkeeping
  <1>0. run[w].at # "idle"
    BY <1>1
  <1>4. ASSUME ~disturbed
        PROVE  /\ Known(tab.msgs)'
               /\ r.at # "idle" => Work(r)'
               /\ r.at = "idle" => Settled(NoScript)'
    <2>1. PICK old, M, x :
            /\ old = run[w] /\ Known(tab.msgs) /\ x = Head(old.script) /\ x = Step(w)
            /\ M = blob.msgs /\ OnTrack(M, old.script)
            /\ \A m \in DOMAIN rows : InRow(m, M) \/ Pending(old, m)
      BY <1>0, <1>4, Working
    <2>2. LateKept
      BY <1>3, LateSame
    <2>3. Known(tab.msgs)'
      BY <1>1, <1>3, <2>1, <2>2, KnownKept
    <2>4. OnTrack(M, r.script)'
      BY <1>2, <1>3, <2>1, OnTrackSame
    <2>5. \A m \in DOMAIN rows' : InRow(m, M)'
      BY <1>1, <1>3, <2>1, RowsSame DEF Pending
    <2> QED BY <1>1, <1>2, <1>3, <2>1, <2>3, <2>4, <2>5 DEF Work
  <1> QED BY <1>0, <1>2, <1>3, <1>4, SerialMove

\* What each step does to a history.
LEMMA AppliedIs ==
  ASSUME NEW x, NEW h
  PROVE  /\ x.do = "save" => Applied(x, h) = Upsert(h, x, x.parent)
         /\ x.do = "link" => Applied(x, h) = Upsert(h, x, 0)
         /\ x.do = "delete" => Applied(x, h) = DeleteFrom(h, x.msg)
         /\ x.do = "update" => Applied(x, h) = MergeHistory(h, x.incoming)
         /\ x.do = "touch" => Applied(x, h) = h
  BY DEF Applied

\* What a save or a link makes of the messages.
UpsertedTo(M, x, N) ==
    /\ DOMAIN N = DOMAIN M \cup {x.msg}
    /\ \A y \in DOMAIN M : N[y].parent = M[y].parent /\ (y # x.msg => N[y] = M[y])
    /\ \A y \in DOMAIN M : Kids(N, y) = IF x.do = "link" /\ y = x.msg THEN Range(x.kids)
                                        ELSE Kids(M, y)
    /\ x.do = "save" /\ x.msg \notin DOMAIN M =>
          /\ Kids(N, x.msg) = {}
          /\ \/ N[x.msg].parent = x.parent
             \/ /\ x.parent = 0 /\ N[x.msg].parent \in DOMAIN M
                /\ x.msg \in Kids(M, N[x.msg].parent)

\* What an upsert does to the messages.
LEMMA UpsertedIs ==
  ASSUME NEW h, HistoryShaped(h), NEW M, M = h.msgs, NEW x, StepShaped(x), x.do \in {"save", "link"},
         NEW N, N = Applied(x, h).msgs
  PROVE  UpsertedTo(M, x, N)
  <1>1. x.msg \in Ids /\ x.msg \in Nat /\ x.msg > 0
    BY ChatConstants DEF StepShaped, Ids
  <1>2. PICK p \in 0 .. x.msg - 1 : /\ Applied(x, h) = Upsert(h, x, p)
                                    /\ x.do = "save" => p = x.parent
    <2>1. CASE x.do = "save"
      <3>1. x.parent \in 0 .. x.msg - 1
        BY <2>1 DEF StepShaped
      <3> QED BY <2>1, <3>1, AppliedIs
    <2>2. CASE x.do = "link"
      <3>1. 0 \in 0 .. x.msg - 1
        BY <1>1
      <3>2. Applied(x, h) = Upsert(h, x, 0)
        BY <2>2, AppliedIs
      <3> QED BY <2>2, <3>1, <3>2
    <2> QED BY <2>1, <2>2
  <1>3. PICK u : u = Upsert(h, x, p)
    OBVIOUS
  <1>4. x.do = "save" => x.text \in 0 .. MaxText
    BY DEF StepShaped
  <1>5. x.do = "link" => x.kids \in Seq(LaterThan(x.msg))
    BY DEF StepShaped
  <1>6. /\ DOMAIN u.msgs = DOMAIN h.msgs \cup {x.msg}
        /\ \A y \in DOMAIN h.msgs : y # x.msg => u.msgs[y] = h.msgs[y]
        /\ x.msg \in DOMAIN h.msgs => u.msgs[x.msg].parent = h.msgs[x.msg].parent
        /\ x.msg \notin DOMAIN h.msgs =>
               \/ u.msgs[x.msg].parent = p
               \/ /\ p = 0 /\ u.msgs[x.msg].parent \in DOMAIN h.msgs
                  /\ x.msg \in Kids(h.msgs, u.msgs[x.msg].parent)
        /\ Kids(u.msgs, x.msg) = IF x.do = "link" THEN Range(x.kids)
                                 ELSE IF x.msg \in DOMAIN h.msgs THEN Kids(h.msgs, x.msg) ELSE {}
    BY <1>1, <1>3, <1>4, <1>5, UpsertIs
  <1>7. N = u.msgs
    BY <1>2, <1>3
  <1>8. ASSUME NEW y \in DOMAIN M
        PROVE  Kids(N, y) = IF x.do = "link" /\ y = x.msg THEN Range(x.kids) ELSE Kids(M, y)
    <2>1. CASE y = x.msg
      BY <1>6, <1>7, <1>8, <2>1
    <2>2. CASE y # x.msg
      BY <1>6, <1>7, <1>8, <2>2 DEF Kids
    <2> QED BY <2>1, <2>2
  <1> QED BY <1>2, <1>6, <1>7, <1>8 DEF UpsertedTo

\* A deletion is noted when its history is written.
LEMMA WrittenLate ==
  ASSUME Shapes, NEW w \in Writers, WriteBlob(w)
  PROVE  /\ LateKept
         /\ \A k, q, p : SentLate(q, p) /\ k > q /\ k \in Nat /\ q \in Nat => SentLate(k, p)'
         /\ DOMAIN removed \subseteq DOMAIN removed'
         /\ Step(w).do = "delete" => Forgotten' \subseteq Forgotten \cup run[w].gone
         /\ Step(w).do = "touch" => Forgotten' \subseteq Forgotten
         /\ Step(w).do = "update" => Forgotten' \subseteq Forgotten \ DOMAIN Step(w).incoming.msgs
         /\ Step(w).do \in {"save", "link"} => Forgotten' \subseteq Forgotten \ {Step(w).msg}
  <1>1. /\ DOMAIN removed' = DOMAIN removed \cup run[w].gone
        /\ \A m \in DOMAIN removed : removed'[m] = removed[m]
        /\ Step(w).do # "delete" => run[w].gone = {}
        /\ Step(w).do = "delete" => returned' = returned \ run[w].gone
        /\ Step(w).do = "touch" => returned' = returned
        /\ Step(w).do = "update" =>
               returned' = returned \cup (DOMAIN removed \cap DOMAIN Step(w).incoming.msgs)
        /\ Step(w).do \in {"save", "link"} =>
               returned' = returned \cup (DOMAIN removed \cap {Step(w).msg})
    BY WriteBlobIs
  <1>2. LateKept
    BY <1>1 DEF LateKept, SentLate
  <1>3. ASSUME NEW k \in Nat, NEW q \in Nat, NEW p, SentLate(q, p), k > q PROVE SentLate(k, p)'
    <2>1. p \in DOMAIN removed /\ q > removed[p] /\ removed'[p] = removed[p] /\ p \in DOMAIN removed'
      BY <1>1, <1>3 DEF SentLate
    <2>2. removed[p] \in Nat
      BY <2>1 DEF Shapes, DeletionsShaped
    <2>3. k > removed[p]
      BY <1>3, <2>1, <2>2
    <2> QED BY <2>1, <2>3 DEF SentLate
  <1>4. \A k, q, p : SentLate(q, p) /\ k > q /\ k \in Nat /\ q \in Nat => SentLate(k, p)'
    BY <1>3
  <1>5. DOMAIN removed \subseteq DOMAIN removed'
    BY <1>1
  <1>6. Step(w).do = "delete" => Forgotten' \subseteq Forgotten \cup run[w].gone
    BY <1>1 DEF Forgotten
  <1>7. Step(w).do = "touch" => Forgotten' \subseteq Forgotten
    BY <1>1 DEF Forgotten
  <1>8. Step(w).do = "update" => Forgotten' \subseteq Forgotten \ DOMAIN Step(w).incoming.msgs
    BY <1>1 DEF Forgotten
  <1>9. Step(w).do \in {"save", "link"} => Forgotten' \subseteq Forgotten \ {Step(w).msg}
    BY <1>1 DEF Forgotten
  <1> QED BY <1>2, <1>4, <1>5, <1>6, <1>7, <1>8, <1>9

\* What a writer knows that writes the history back.
Writes(w, h, old, M, N, x, s, t) ==
    /\ h = blob /\ HistoryShaped(h) /\ old = run[w] /\ RunShaped(old) /\ Known(tab.msgs)
    /\ old.at = "blob" /\ s = old.script
    /\ x = Head(s) /\ x = s[1] /\ x = Step(w) /\ StepShaped(x) /\ x.do # "read"
    /\ M = blob.msgs /\ M = h.msgs /\ MessagesShaped(M) /\ 0 \notin DOMAIN M
    /\ N = blob'.msgs /\ N = old.copy.msgs /\ N = Applied(x, h).msgs
    /\ t = Tail(s) /\ Follows(s, t)
    /\ x.do \in {"delete", "update", "read"} => Plain(s)
    /\ OnTrack(M, s)
    /\ x.do = "update" => Rising(x.incoming.msgs)
    /\ x.do = "link" => x.msg \in DOMAIN M /\ Kids(M, x.msg) \subseteq Range(x.kids)
    /\ x.do = "delete" => x.msg \in DOMAIN M /\ old.gone = DeletedIds(M, x.msg)
    /\ x.do \in {"save", "link"} => RowLike(x.msg, N)
    /\ \A m \in DOMAIN rows : InRow(m, M) \/ (x.do \in {"save", "link"} /\ m = x.msg)

\* What a writer knows when it writes the history.
LEMMA Writing ==
  ASSUME Shapes, SerialInv, ~disturbed, NEW w \in Writers, WriteBlob(w)
  PROVE  \E h, old, M, N, x, s, t : Writes(w, h, old, M, N, x, s, t)
  <1>1. run[w].at = "blob" /\ run[w].at # "idle" /\ blob' = run[w].copy
    BY WriteBlobIs
  <1>2. Step(w).do # "read"
    BY <1>1, StepIs DEF Shapes
  <1>3. PICK old, M, x, t :
            /\ old = run[w] /\ RunShaped(old) /\ Known(tab.msgs)
            /\ x = Head(old.script) /\ x = old.script[1] /\ x = Step(w) /\ StepShaped(x)
            /\ M = blob.msgs /\ MessagesShaped(M) /\ 0 \notin DOMAIN M
            /\ t = Tail(old.script) /\ Follows(old.script, t)
            /\ x.do \in {"delete", "update", "read"} => Plain(old.script) /\ t = NoScript
            /\ OnTrack(M, old.script)
            /\ x.do = "update" => Rising(x.incoming.msgs)
            /\ x.do = "link" /\ old.at \in {"load", "row", "blob"} =>
                  x.msg \in DOMAIN M /\ Kids(M, x.msg) \subseteq Range(x.kids)
            /\ old.at \in {"row", "blob"} => old.copy.msgs = Applied(x, blob).msgs
            /\ old.at = "blob" /\ x.do = "delete" =>
                  x.msg \in DOMAIN M /\ old.gone = DeletedIds(M, x.msg)
            /\ old.at = "blob" /\ x.do \in {"save", "link"} => RowLike(x.msg, old.copy.msgs)
            /\ old.at = "fill" => old.copy.msgs = M
            /\ \A m \in DOMAIN rows : InRow(m, M) \/ Pending(old, m)
    BY <1>1, Working
  <1>4. PICK h, N, s : h = blob /\ N = old.copy.msgs /\ s = old.script
    OBVIOUS
  <1>5. HistoryShaped(h) /\ M = h.msgs
    BY <1>3, <1>4 DEF Shapes
  <1>6. N = blob'.msgs
    BY <1>1, <1>3, <1>4
  <1>7. old.at = "blob"
    BY <1>1, <1>3
  <1>8. N = Applied(x, h).msgs
    BY <1>3, <1>4, <1>7
  <1>9. \A m \in DOMAIN rows : InRow(m, M) \/ (x.do \in {"save", "link"} /\ m = x.msg)
    BY <1>3, <1>7 DEF Pending
  <1>10. x.do # "read" /\ s = old.script /\ x = Head(s) /\ x = s[1]
    BY <1>2, <1>3, <1>4
  <1>11. t = Tail(s) /\ Follows(s, t) /\ OnTrack(M, s)
         /\ x.do \in {"delete", "update", "read"} => Plain(s)
    BY <1>3, <1>4
  <1>12. Writes(w, h, old, M, N, x, s, t)
    BY <1>3, <1>4, <1>5, <1>6, <1>7, <1>8, <1>9, <1>10, <1>11 DEF Writes
  <1> QED BY <1>12

\* A save or a link that is written keeps the tree in order.
LEMMA SaveWritten ==
  ASSUME Shapes, SerialInv, ~disturbed, NEW w \in Writers, WriteBlob(w), Step(w).do \in {"save", "link"},
         NEW t, t = Tail(run[w].script)
  PROVE  Settled(t)' /\ Known(tab.msgs)'
  <1>0. PICK h, old, M, N, x, s, q : Writes(w, h, old, M, N, x, s, q)
    BY Writing
  <1>1. /\ h = blob /\ HistoryShaped(h) /\ old = run[w] /\ Known(tab.msgs)
        /\ s = old.script /\ x = s[1] /\ x = Step(w) /\ StepShaped(x)
        /\ M = blob.msgs /\ M = h.msgs /\ 0 \notin DOMAIN M
        /\ N = blob'.msgs /\ N = Applied(x, h).msgs
        /\ q = Tail(s) /\ Follows(s, q)
        /\ OnTrack(M, s)
        /\ x.do = "link" => x.msg \in DOMAIN M /\ Kids(M, x.msg) \subseteq Range(x.kids)
        /\ x.do \in {"save", "link"} => RowLike(x.msg, N)
        /\ \A m \in DOMAIN rows :
              InRow(m, M) \/ (x.do \in {"save", "link"} /\ m = x.msg)
    BY <1>0 DEF Writes
  <1>2. q = t /\ x.do \in {"save", "link"}
    BY <1>1
  <1>13. UpsertedTo(M, x, N)
    <2>1. HistoryShaped(h) /\ M = h.msgs /\ StepShaped(x) /\ x.do \in {"save", "link"}
          /\ N = Applied(x, h).msgs
      BY <1>1, <1>2
    <2> QED BY ONLY <2>1, UpsertedIs
  <1>3. /\ DOMAIN N = DOMAIN M \cup {x.msg}
        /\ \A y \in DOMAIN M : N[y].parent = M[y].parent /\ (y # x.msg => N[y] = M[y])
        /\ \A y \in DOMAIN M : Kids(N, y) = IF x.do = "link" /\ y = x.msg THEN Range(x.kids)
                                            ELSE Kids(M, y)
        /\ x.do = "save" /\ x.msg \notin DOMAIN M =>
              /\ Kids(N, x.msg) = {}
              /\ \/ N[x.msg].parent = x.parent
                 \/ /\ x.parent = 0 /\ N[x.msg].parent \in DOMAIN M
                    /\ x.msg \in Kids(M, N[x.msg].parent)
    BY <1>13 DEF UpsertedTo
  <1>4. LateKept /\ DOMAIN removed \subseteq DOMAIN removed' /\ Forgotten' \subseteq Forgotten \ {x.msg}
    BY <1>1, <1>2, WrittenLate
  <1>5. rows' = rows /\ tab' = tab
    BY DEF WriteBlob, Bookkeeping
  <1>6. OnTrack(N, q)'
    <2>1. CASE x.do = "save"
      <3>1. s[1].do = "save" /\ x.msg = s[1].msg /\ x.parent = s[1].parent
        BY <1>1, <2>1
      <3>2. \A y \in DOMAIN M : N[y].parent = M[y].parent /\ Kids(N, y) = Kids(M, y)
        BY <1>3, <2>1
      <3>3. x.msg \notin DOMAIN M =>
              /\ Kids(N, x.msg) = {}
              /\ \/ N[x.msg].parent = s[1].parent
                 \/ /\ s[1].parent = 0 /\ N[x.msg].parent \in DOMAIN M
                    /\ x.msg \in Kids(M, N[x.msg].parent)
        BY <1>3, <2>1, <3>1
      <3>4. PICK m : m = x.msg
        OBVIOUS
      <3>5. /\ Follows(s, q) /\ OnTrack(M, s) /\ s[1].do = "save" /\ m = s[1].msg
            /\ DOMAIN N = DOMAIN M \cup {m} /\ 0 \notin DOMAIN M
            /\ m \notin DOMAIN M =>
                  /\ Kids(N, m) = {}
                  /\ \/ N[m].parent = s[1].parent
                     \/ /\ s[1].parent = 0 /\ N[m].parent \in DOMAIN M
                        /\ m \in Kids(M, N[m].parent)
            /\ LateKept /\ Forgotten' \subseteq Forgotten \ {m}
        BY <1>1, <1>3, <1>4, <3>1, <3>3, <3>4
      <3> QED BY ONLY <3>2, <3>5, SaveOnTrack
    <2>2. CASE x.do = "link"
      <3>1. s[1].do = "link" /\ x.msg = s[1].msg /\ x.kids = s[1].kids /\ x.msg \in DOMAIN M
        BY <1>1, <2>2
      <3>2. DOMAIN N = DOMAIN M /\ Forgotten' \subseteq Forgotten
        BY <1>3, <1>4, <3>1
      <3>3. \A y \in DOMAIN M : Kids(M, y) \subseteq Kids(N, y)
        BY <1>1, <1>3, <2>2
      <3>4. \A y \in DOMAIN M : Kids(N, y) # Kids(M, y) =>
                s[1].do = "link" /\ s[1].msg = y /\ Kids(N, y) = Range(s[1].kids)
        BY <1>3, <2>2, <3>1
      <3>5. \A p, k : s[1].do = "link" /\ s[1].msg = p /\ k \in Range(s[1].kids) /\ p \in DOMAIN M =>
                k \in Kids(N, p)
        BY <1>3, <2>2, <3>1
      <3>6. s[1].do # "save"
        BY <3>1
      <3>7. \A y \in DOMAIN M : N[y].parent = M[y].parent
        BY <1>3
      <3>8. Follows(s, q) /\ OnTrack(M, s) /\ LateKept
        BY <1>1, <1>4
      <3> QED BY ONLY <3>2, <3>3, <3>4, <3>5, <3>6, <3>7, <3>8, PassOnTrack
    <2> QED BY <1>2, <2>1, <2>2
  <1>7. ASSUME NEW m \in DOMAIN rows' PROVE InRow(m, N)'
    <2>1. CASE m = x.msg
      BY <1>1, <1>2, <1>3, <1>5, <2>1 DEF InRow, RowLike
    <2>2. CASE m # x.msg
      <3>1. InRow(m, M)
        BY <1>1, <1>5, <2>2
      <3> QED BY <1>3, <1>5, <2>2, <3>1 DEF InRow, RowLike
    <2> QED BY <2>1, <2>2
  <1>8. Settled(t)'
    BY <1>1, <1>2, <1>6, <1>7 DEF Settled
  <1>9. \A m \in DOMAIN blob.msgs : m \in DOMAIN blob'.msgs \/ m \in DOMAIN removed'
    BY <1>1, <1>3
  <1>10. Known(tab.msgs)'
    BY <1>1, <1>4, <1>5, <1>9, KnownKept
  <1> QED BY <1>8, <1>10

\* A history written back as it was keeps the tree in order.
LEMMA TouchWritten ==
  ASSUME Shapes, SerialInv, ~disturbed, NEW w \in Writers, WriteBlob(w), Step(w).do = "touch",
         NEW t, t = Tail(run[w].script)
  PROVE  Settled(t)' /\ Known(tab.msgs)'
  <1>0. PICK h, old, M, N, x, s, q : Writes(w, h, old, M, N, x, s, q)
    BY Writing
  <1>1. /\ h = blob /\ old = run[w] /\ Known(tab.msgs)
        /\ s = old.script /\ x = s[1] /\ x = Step(w)
        /\ M = blob.msgs /\ M = h.msgs
        /\ N = blob'.msgs /\ N = Applied(x, h).msgs
        /\ q = Tail(s) /\ Follows(s, q) /\ OnTrack(M, s)
        /\ \A m \in DOMAIN rows :
              InRow(m, M) \/ (x.do \in {"save", "link"} /\ m = x.msg)
    BY <1>0 DEF Writes
  <1>2. q = t /\ x.do = "touch" /\ s[1].do # "save" /\ s[1].do # "link"
    BY <1>1
  <1>3. N = M
    BY <1>1, <1>2, AppliedIs
  <1>4. LateKept /\ DOMAIN removed \subseteq DOMAIN removed' /\ Forgotten' \subseteq Forgotten
    BY <1>1, <1>2, WrittenLate
  <1>5. rows' = rows /\ tab' = tab
    BY DEF WriteBlob, Bookkeeping
  <1>6. OnTrack(N, q)'
    BY <1>1, <1>2, <1>3, <1>4, PassOnTrack
  <1>7. \A m \in DOMAIN rows' : InRow(m, N)'
    BY <1>1, <1>2, <1>3, <1>5 DEF InRow, RowLike
  <1>8. Settled(t)'
    BY <1>1, <1>2, <1>6, <1>7 DEF Settled
  <1>9. \A m \in DOMAIN blob.msgs : m \in DOMAIN blob'.msgs \/ m \in DOMAIN removed'
    BY <1>1, <1>3
  <1>10. Known(tab.msgs)'
    BY <1>1, <1>4, <1>5, <1>9, KnownKept
  <1> QED BY <1>8, <1>10

\* A deletion or an update is written: the rows are still to be brought in line.
LEMMA DeleteWritten ==
  ASSUME Shapes, SerialInv, ~disturbed, NEW w \in Writers, WriteBlob(w), Step(w).do = "delete",
         NEW r, r.at = "fill", r.script = run[w].script, r.copy = run[w].copy,
         r.left = DOMAIN run[w].copy.msgs, r.gone = run[w].gone
  PROVE  Work(r)' /\ Known(tab.msgs)'
  <1>0. PICK h, old, M, N, x, s, t : Writes(w, h, old, M, N, x, s, t)
    BY Writing
  <1>1. /\ h = blob /\ HistoryShaped(h) /\ old = run[w] /\ Known(tab.msgs)
        /\ s = old.script /\ x = Head(s) /\ x = Step(w)
        /\ M = blob.msgs /\ M = h.msgs /\ MessagesShaped(M)
        /\ N = blob'.msgs /\ N = old.copy.msgs /\ N = Applied(x, h).msgs
        /\ OnTrack(M, s) /\ Plain(s)
        /\ x.msg \in DOMAIN M /\ old.gone = DeletedIds(M, x.msg)
        /\ \A m \in DOMAIN rows : InRow(m, M)
    BY <1>0 DEF Writes
  <1>2. x.do = "delete"
    BY <1>1
  <1>3. PICK m : m = x.msg /\ m \in DOMAIN M
    BY <1>1
  <1>4. N = DeleteFrom(h, m).msgs
    BY <1>1, <1>2, <1>3, AppliedIs
  <1>14. HistoryShaped(h) /\ M = h.msgs /\ m \in DOMAIN M
    BY <1>1, <1>3
  <1>15. Deleted(M, m, N)
    BY <1>4, <1>14, DeleteIs
  <1>5. DOMAIN N = DOMAIN M \ DeletedIds(M, m)
    BY <1>15 DEF Deleted
  <1>6. /\ LateKept /\ DOMAIN removed \subseteq DOMAIN removed'
        /\ \A k, q, p : SentLate(q, p) /\ k > q /\ k \in Nat /\ q \in Nat => SentLate(k, p)'
        /\ Forgotten' \subseteq Forgotten \cup DeletedIds(M, m)
    BY <1>1, <1>2, <1>3, WrittenLate
  <1>7. OnTrack(N, s)'
    <2>1. Plain(s) /\ MessagesShaped(M) /\ OnTrack(M, s)
      BY <1>1
    <2> QED BY ONLY <1>6, <1>14, <1>15, <2>1, DeleteOnTrack
  <1>8. rows' = rows /\ tab' = tab
    BY DEF WriteBlob, Bookkeeping
  <1>9. \A k \in DOMAIN rows' : InRow(k, N)' \/ Pending(r, k)
    BY <1>1, <1>2, <1>3, <1>5, <1>8 DEF Pending, InRow
  <1>10. Work(r)'
    BY <1>1, <1>2, <1>7, <1>9 DEF Work
  <1>11. DOMAIN removed' = DOMAIN removed \cup old.gone
    BY <1>1, WriteBlobIs
  <1>12. \A k \in DOMAIN blob.msgs : k \in DOMAIN blob'.msgs \/ k \in DOMAIN removed'
    BY <1>1, <1>3, <1>5, <1>11
  <1>13. Known(tab.msgs)'
    BY <1>1, <1>6, <1>8, <1>12, KnownKept
  <1> QED BY <1>10, <1>13

\* An update that is written keeps the tree in order.
LEMMA UpdateWritten ==
  ASSUME Shapes, SerialInv, ~disturbed, NEW w \in Writers, WriteBlob(w), Step(w).do = "update",
         NEW r, r.at = "fill", r.script = run[w].script, r.copy = run[w].copy,
         r.left = DOMAIN run[w].copy.msgs, r.gone = run[w].gone
  PROVE  Work(r)' /\ Known(tab.msgs)'
  <1>0. PICK h, old, M, N, x, s, t : Writes(w, h, old, M, N, x, s, t)
    BY Writing
  <1>2. x.do = "update" /\ x = Step(w)
    BY <1>0 DEF Writes
  <1>1. /\ h = blob /\ HistoryShaped(h) /\ old = run[w] /\ Known(tab.msgs)
        /\ s = old.script /\ x = Head(s) /\ StepShaped(x)
        /\ M = blob.msgs /\ M = h.msgs
        /\ N = blob'.msgs /\ N = old.copy.msgs /\ N = Applied(x, h).msgs
        /\ OnTrack(M, s) /\ Plain(s) /\ Rising(x.incoming.msgs)
        /\ \A m \in DOMAIN rows : InRow(m, M)
    BY <1>0, <1>2 DEF Writes
  <1>3. PICK g : g = x.incoming /\ HistoryShaped(g)
    BY <1>1, <1>2 DEF StepShaped
  <1>4. N = MergeHistory(h, g).msgs
    BY <1>1, <1>2, <1>3, AppliedIs
  <1>14. PICK G : G = g.msgs
    OBVIOUS
  <1>5. /\ DOMAIN N = DOMAIN M \cup DOMAIN G
        /\ \A y \in DOMAIN N :
             /\ N[y].parent = IF y \in DOMAIN G THEN G[y].parent ELSE M[y].parent
             /\ Kids(N, y) = {z \in DOMAIN N : N[z].parent = y}
    BY <1>1, <1>3, <1>4, <1>14, MergeIs
  <1>6. /\ LateKept /\ DOMAIN removed \subseteq DOMAIN removed'
        /\ Forgotten' \subseteq Forgotten \ DOMAIN G
    BY <1>1, <1>2, <1>3, <1>14, WrittenLate
  <1>15. Rising(G)
    BY <1>1, <1>3, <1>14
  <1>7. OnTrack(N, s)'
    BY ONLY <1>1, <1>5, <1>6, <1>15, MergeOnTrack
  <1>8. rows' = rows /\ tab' = tab
    BY DEF WriteBlob, Bookkeeping
  <1>9. \A k \in DOMAIN rows' : InRow(k, N)' \/ Pending(r, k)
    BY <1>1, <1>2, <1>5, <1>8 DEF Pending, InRow
  <1>16. Rising(G)'
    BY <1>6, <1>15 DEF Rising, LateKept
  <1>10. Work(r)'
    BY <1>1, <1>2, <1>3, <1>7, <1>9, <1>14, <1>16 DEF Work
  <1>12. \A k \in DOMAIN blob.msgs : k \in DOMAIN blob'.msgs \/ k \in DOMAIN removed'
    BY <1>1, <1>5
  <1>13. Known(tab.msgs)'
    BY <1>1, <1>6, <1>8, <1>12, KnownKept
  <1> QED BY <1>10, <1>13

\* A history that is written keeps the tree in order.
LEMMA WriteBlobSerial ==
  ASSUME Shapes, SerialInv, NEW w \in Writers, WriteBlob(w)
  PROVE  SerialInv'
  <1>1. run[w].at = "blob" /\ run[w].at # "idle" /\ disturbed' = disturbed
    BY WriteBlobIs DEF WriteBlob, Bookkeeping
  <1>2. PICK r : /\ Becomes(w, r) /\ RunShaped(r) /\ (r.alone => run[w].alone)
                 /\ \/ /\ Step(w).do \in {"delete", "update"} /\ healed' = healed
                       /\ r.script = run[w].script /\ r.at = "fill" /\ r.copy = run[w].copy
                       /\ r.left = DOMAIN run[w].copy.msgs /\ r.gone = run[w].gone
                    \/ /\ Step(w).do \notin {"delete", "update"} /\ healed' = "nothing"
                       /\ r = Done(run[w])
    BY WriteBlobIs
  <1>3. RunShaped(run[w]) /\ StepShaped(Step(w)) /\ Step(w).do # "read"
    BY <1>1, StepIs DEF Shapes
  <1>4. ASSUME ~disturbed
        PROVE  /\ Known(tab.msgs)'
               /\ r.at # "idle" => Work(r)'
               /\ r.at = "idle" => Settled(NoScript)'
    <2>1. CASE Step(w).do = "delete"
      BY <1>2, <1>4, <2>1, DeleteWritten
    <2>2. CASE Step(w).do = "update"
      BY <1>2, <1>4, <2>2, UpdateWritten
    <2>3. CASE Step(w).do \in {"save", "link", "touch"}
      <3>1. PICK old, t : old = run[w] /\ t = Tail(old.script) /\ RunShaped(old) /\ old.at # "idle"
        BY <1>1, <1>3
      <3>2. r = Done(old)
        BY <1>2, <2>3, <3>1
      <3>3. Settled(t)' /\ Known(tab.msgs)'
        BY <1>4, <2>3, <3>1, SaveWritten, TouchWritten
      <3> QED BY ONLY <3>1, <3>2, <3>3, WorkAfter
    <2> QED BY <1>3, <2>1, <2>2, <2>3 DEF StepShaped
  <1> QED BY <1>1, <1>2, <1>4, SerialMove

\* What a writer is at stays what it is when nothing is written.
LEMMA WorkSame ==
  ASSUME blob'.msgs = blob.msgs, rows' = rows, removed' = removed, returned' = returned,
         NEW r, RunShaped(r), r.at # "idle", Work(r)
  PROVE  Work(r)'
  <1>1. PICK M, x :
          /\ M = blob.msgs /\ x = Head(r.script)
          /\ OnTrack(M, r.script)
          /\ x.do = "update" => Rising(x.incoming.msgs)
          /\ x.do = "link" /\ r.at \in {"load", "row", "blob"} =>
                x.msg \in DOMAIN M /\ Kids(M, x.msg) \subseteq Range(x.kids)
          /\ r.at \in {"row", "blob"} => r.copy.msgs = Applied(x, blob).msgs
          /\ r.at = "blob" /\ x.do = "delete" => x.msg \in DOMAIN M /\ r.gone = DeletedIds(M, x.msg)
          /\ r.at = "blob" /\ x.do \in {"save", "link"} => RowLike(x.msg, r.copy.msgs)
          /\ r.at = "fill" => r.copy.msgs = M
          /\ \A m \in DOMAIN rows : InRow(m, M) \/ Pending(r, m)
    BY DEF Work
  <1>2. LateKept
    BY LateSame
  <1>3. OnTrack(M, r.script)'
    BY <1>1, OnTrackSame
  <1>4. x.do = "update" => Rising(x.incoming.msgs)'
    BY <1>1, <1>2 DEF Rising, LateKept
  <1>5. r.at \in {"row", "blob"} => Applied(x, blob').msgs = Applied(x, blob).msgs
    <2>1. StepShaped(x) /\ (r.at = "row" => x.do # "read") /\ (r.at = "blob" => x.do # "read")
      BY <1>1, RunIs
    <2>2. PICK b, c : b = blob' /\ c = blob /\ b.msgs = c.msgs
      OBVIOUS
    <2>3. r.at \in {"row", "blob"} => x.do \in {"save", "link", "delete", "update", "touch"}
      BY <2>1 DEF StepShaped
    <2> QED BY <2>2, <2>3, AppliedSame
  <1>6. RowLike(x.msg, r.copy.msgs) => RowLike(x.msg, r.copy.msgs)'
    BY DEF RowLike
  <1>7. \A m \in DOMAIN rows' : InRow(m, M)' \/ Pending(r, m)
    BY <1>1, RowsSame DEF InRow, RowLike
  <1> QED BY <1>1, <1>3, <1>4, <1>5, <1>6, <1>7 DEF Work

\* The tab asks for the chat, or nothing happens.
LEMMA LookingSerial ==
  ASSUME Shapes, SerialInv, blob'.msgs = blob.msgs, rows' = rows, run' = run, removed' = removed,
         returned' = returned, disturbed' = disturbed,
         tab' = tab \/ tab'.msgs = blob.msgs
  PROVE  SerialInv'
  <1> SUFFICES ASSUME ~disturbed
               PROVE  /\ Known(tab.msgs)' /\ \A v, u \in Busy' : v = u
                      /\ \A v \in Busy' : Work(run[v])'
                      /\ Busy' = {} => Settled(NoScript)'
    BY DEF SerialInv
  <1>1. Busy' = Busy /\ LateKept
    BY LateSame DEF Busy
  <1>2. ASSUME NEW v \in Busy' PROVE Work(run[v])'
    <2>1. v \in Busy /\ v \in Writers /\ run[v].at # "idle"
      BY <1>1 DEF Busy
    <2>2. PICK r : r = run[v] /\ RunShaped(r) /\ r.at # "idle" /\ Work(r)
      BY <2>1 DEF SerialInv, Shapes, RunsShaped
    <2>3. Work(r)' /\ run'[v] = r
      BY <2>2, WorkSame
    <2> QED BY <2>3 DEF Work, Pending
  <1>3. ASSUME Busy = {} PROVE Settled(NoScript)'
    <2>1. PICK M, e : /\ M = blob.msgs /\ e = NoScript /\ OnTrack(M, e)
                      /\ \A m \in DOMAIN rows : InRow(m, M)
      BY <1>3 DEF SerialInv, Settled
    <2>2. OnTrack(M, e)'
      BY <2>1, OnTrackSame
    <2>3. \A m \in DOMAIN rows' : InRow(m, M)'
      BY <2>1, RowsSame
    <2> QED BY <2>1, <2>2, <2>3 DEF Settled
  <1>4. Known(tab.msgs)'
    <2>1. CASE tab' = tab
      BY <1>1, <2>1, KnownKept DEF SerialInv
    <2>2. CASE tab'.msgs = blob.msgs
      <3>1. PICK M, s : M = blob.msgs /\ OnTrack(M, s)
        <4>1. CASE Busy = {}
          BY <4>1 DEF SerialInv, Settled
        <4>2. CASE Busy # {}
          BY <4>2 DEF SerialInv, Work
        <4> QED BY <4>1, <4>2
      <3>2. Rising(M)
        BY <3>1 DEF OnTrack, Found, Rising
      <3>3. Known(M)'
        BY <1>1, <3>1, <3>2 DEF Known, Rising, LateKept
      <3>4. M = tab'.msgs
        BY <2>2, <3>1
      <3> QED BY <3>3, <3>4 DEF Known
    <2> QED BY <2>1, <2>2
  <1> QED BY <1>1, <1>2, <1>3, <1>4 DEF SerialInv

\* A tab that loads the chat keeps the tree in order.
LEMMA LoadTabSerial ==
  ASSUME Shapes, SerialInv, LoadTab
  PROVE  SerialInv'
  <1>1. blob'.msgs = blob.msgs
    BY RepairIs DEF LoadTab, Shapes
  <1> QED BY <1>1, LookingSerial DEF LoadTab, deletions

\* A stutter keeps the tree in order.
LEMMA StutterSerial ==
  ASSUME Shapes, SerialInv, UNCHANGED vars
  PROVE  SerialInv'
  BY LookingSerial DEF vars, deletions

\* A writer that dies disturbs the chat, and nothing is promised of it.
LEMMA DieSerial ==
  ASSUME NEW w \in Writers, Die(w)
  PROVE  SerialInv'
  BY DEF Die, SerialInv

\* The initial trees are in order.
LEMMA InitSerial ==
  ASSUME Init
  PROVE  SerialInv
  <1>1. /\ \A m, k \in DOMAIN blob.msgs : k \in Kids(blob.msgs, m) <=> blob.msgs[k].parent = m
        /\ \A m \in DOMAIN blob.msgs : /\ Kids(blob.msgs, m) \subseteq DOMAIN blob.msgs
                                       /\ blob.msgs[m].parent \in DOMAIN blob.msgs \cup {0}
        /\ DOMAIN rows \subseteq DOMAIN blob.msgs
        /\ \A m \in DOMAIN rows : rows[m] = Row(m, blob)
        /\ run = [v \in Writers |-> Idle] /\ tab = EmptyHistory /\ DOMAIN removed = {}
    BY InitIs
  <1>2. PICK M, e : M = blob.msgs /\ e = NoScript
    OBVIOUS
  <1>3. /\ \A e1, k, p : e1 = e => ~ToCome(e1, k, p) /\ ~LinkToCome(e1, k, p)
        /\ OnceEach(e) /\ SavedFirst(e) /\ Parents(M, e) /\ Links(M, e)
    <2>1. Plain(e)
      BY <1>2, NoScriptPlain
    <2> QED BY <2>1, PlainIs
  <1>4. ListedThere(M, e) /\ Found(M, e) /\ Forgotten \cap DOMAIN M = {}
    BY <1>1, <1>2 DEF ListedThere, Found, Forgotten
  <1>5. OnTrack(M, e)
    BY <1>3, <1>4 DEF OnTrack
  <1>6. \A m \in DOMAIN rows : InRow(m, M)
    BY <1>1, <1>2 DEF InRow, RowLike, Row
  <1>7. Settled(NoScript)
    BY <1>2, <1>5, <1>6 DEF Settled
  <1>8. Busy = {}
    BY <1>1, IdleIs DEF Busy
  <1>9. Known(tab.msgs)
    BY <1>1, EmptyShaped DEF Known, Rising
  <1> QED BY <1>7, <1>8, <1>9 DEF SerialInv

\* Between scripts the history is in order.
LEMMA SerialHolds ==
  ASSUME SerialInv
  PROVE  InOrderWhenSerial
  <1> SUFFICES ASSUME ~disturbed, Busy = {}
               PROVE  /\ \A m \in DOMAIN blob.msgs : \A k \in Range(blob.msgs[m].kids) :
                            k \in DOMAIN blob.msgs /\ blob.msgs[k].parent = m
                      /\ \A m \in DOMAIN blob.msgs :
                            LET up == blob.msgs[m].parent
                            IN \/ up = 0 \/ SentLate(m, up)
                               \/ up \in DOMAIN blob.msgs /\ m \in Range(blob.msgs[up].kids)
                      /\ (DOMAIN removed \ returned) \cap (DOMAIN blob.msgs \cup DOMAIN rows) = {}
                      /\ \A m \in DOMAIN rows : m \in DOMAIN blob.msgs /\ rows[m] = Row(m, blob)
    BY DEF InOrderWhenSerial
  <1>1. PICK M, e : /\ M = blob.msgs /\ e = NoScript /\ OnTrack(M, e)
                    /\ \A m \in DOMAIN rows : InRow(m, M)
    BY DEF SerialInv, Settled
  <1>2. Plain(e)
    BY <1>1, NoScriptPlain
  <1>3. /\ \A y \in DOMAIN M : \A k \in Kids(M, y) : k \in DOMAIN M /\ M[k].parent = y
        /\ \A k \in DOMAIN M : \/ M[k].parent = 0 \/ SentLate(k, M[k].parent)
                               \/ M[k].parent \in DOMAIN M /\ k \in Kids(M, M[k].parent)
        /\ Forgotten \cap DOMAIN M = {}
    BY <1>1, <1>2, PlainTree
  <1>4. (DOMAIN removed \ returned) \cap (DOMAIN blob.msgs \cup DOMAIN rows) = {}
    BY <1>1, <1>3 DEF Forgotten, InRow
  <1>5. \A m \in DOMAIN rows : m \in DOMAIN blob.msgs /\ rows[m] = Row(m, blob)
    BY <1>1 DEF InRow, RowLike, Row
  <1> QED BY <1>1, <1>3, <1>4, <1>5 DEF Kids

\* A script begins when none is running.
LEMMA SmallOnTrack ==
  ASSUME NEW M, NEW e, Plain(e), OnTrack(M, e), NEW x, NEW s, DOMAIN s = {1}, s[1] = x,
         x.do # "link", x.do = "save" => x.parent = 0
  PROVE  OnTrack(M, s)
  <1>1. OnceEach(s) /\ SavedFirst(s) /\ Links(M, s) /\ Parents(M, s)
    BY DEF OnceEach, SavedFirst, Links, Parents
  <1> QED BY <1>1, StartOnTrack

\* A message that is sent brings the order of what it saves.
LEMMA SendOnTrack ==
  ASSUME Shapes, Existing, Known(tab.msgs), NEW M, M = blob.msgs, NEW e, Plain(e), OnTrack(M, e),
         NEW p \in DOMAIN tab.msgs \cup {0}, NEW n \in Nat \ {0}, created + 1 + n <= MaxMessages,
         NEW s, s = Completion(p, created + 1, Answers(created + 1, n))
  PROVE  OnTrack(M, s)
  <1>1. PICK c : c = created
    OBVIOUS
  <1>2. c \in Nat /\ DOMAIN M \subseteq 1 .. c /\ DOMAIN tab.msgs \subseteq 1 .. c
    BY <1>1, ChatConstants DEF Shapes, Existing
  <1>3. PICK u : u = c + 1 /\ u \in Nat
    BY <1>2
  <1>4. p \in Nat /\ p <= c /\ p \in 0 .. u - 1
    <2>1. p = 0 \/ p \in 1 .. c
      BY <1>2
    <2> QED BY ONLY <1>2, <1>3, <2>1
  <1>5. p # 0 => p \in DOMAIN M \/ SentLate(u, p)
    <2>1. ASSUME p # 0, p \in DOMAIN removed PROVE SentLate(u, p)
      <3>1. removed[p] \in 0 .. c
        BY <1>1, <2>1 DEF Shapes, DeletionsShaped
      <3>2. u > removed[p]
        BY <1>2, <1>3, <3>1
      <3> QED BY <2>1, <3>2 DEF SentLate
    <2>2. p # 0 => p \in DOMAIN M \/ p \in DOMAIN removed
      BY DEF Known
    <2> QED BY <2>1, <2>2
  <1>6. PICK a : a = Answers(u, n)
    OBVIOUS
  <1>7. s = Completion(p, u, a) /\ u + n <= MaxMessages
    BY <1>1, <1>3, <1>6
  <1>8. ScriptShaped(s) /\ \A j \in DOMAIN s : Sending(s[j], j, p, u, n)
    BY <1>3, <1>4, <1>6, <1>7, CompletionShaped
  <1>9. DOMAIN s = 1 .. Ahead(p) + n
    <2>1. Sends(s, p, u, n)
      BY <1>3, <1>4, <1>6, <1>7, CompletionIs
    <2> QED BY <2>1 DEF Sends
  <1>10. \A k \in DOMAIN M : k \in 1 .. c
    BY <1>2
  <1> QED BY <1>2, <1>3, <1>4, <1>5, <1>8, <1>9, <1>10, CompletionOnTrack

\* A script that begins finds the tree in order.
LEMMA BeginSerial ==
  ASSUME Shapes, Existing, SerialInv, NEW w \in Writers,
         SendMessage(w) \/ SaveText(w) \/ OtherScript(w)
  PROVE  SerialInv'
  <1>1. /\ created' \in 0 .. MaxMessages
        /\ \E s : /\ Begin(w, s) /\ ScriptShaped(s)
                  /\ \/ \E p \in DOMAIN tab.msgs \cup {0}, n \in Nat \ {0} :
                          /\ created' = created + 1 + n
                          /\ s = Completion(p, created + 1, Answers(created + 1, n))
                     \/ \E x : /\ s = <<x>> /\ StepShaped(x)
                               /\ \/ \E m \in 1 .. created : \E t : x = Save(m, 0, t)
                                  \/ x = Touch \/ x = Read \/ x = Update(tab)
                                  \/ \E m : x = Delete(m)
    BY BeganIs
  <1>2. PICK s : /\ Begin(w, s) /\ ScriptShaped(s)
                 /\ \/ \E p \in DOMAIN tab.msgs \cup {0}, n \in Nat \ {0} :
                         /\ created' = created + 1 + n
                         /\ s = Completion(p, created + 1, Answers(created + 1, n))
                    \/ \E x : /\ s = <<x>> /\ StepShaped(x)
                              /\ \/ \E m \in 1 .. created : \E t : x = Save(m, 0, t)
                                 \/ x = Touch \/ x = Read \/ x = Update(tab)
                                 \/ \E m : x = Delete(m)
    BY <1>1
  <1>3. /\ Busy' = Busy \cup {w}
        /\ run'[w].script = s /\ run'[w].at = FirstPhase(Head(s))
        /\ run'[w].at \in {"peek", "rows", "load"}
        /\ disturbed' = (disturbed \/ Busy # {})
        /\ blob' = blob /\ rows' = rows /\ tab' = tab /\ removed' = removed /\ returned' = returned
    BY <1>2, ScriptBegins DEF Shapes
  <1> SUFFICES ASSUME ~disturbed, Busy = {}
               PROVE  /\ Known(tab.msgs)' /\ \A v, u \in Busy' : v = u
                      /\ \A v \in Busy' : Work(run[v])'
                      /\ Busy' # {}
    BY <1>3 DEF SerialInv
  <1>4. Busy' = {w} /\ LateKept /\ Known(tab.msgs)
    BY <1>3, LateSame DEF SerialInv
  <1>5. Known(tab.msgs)'
    BY <1>3, <1>4, KnownKept
  <1>6. PICK M, e : /\ M = blob.msgs /\ e = NoScript /\ OnTrack(M, e)
                    /\ \A m \in DOMAIN rows : InRow(m, M)
    BY DEF SerialInv, Settled
  <1>7. Plain(e)
    BY <1>6, NoScriptPlain
  <1>8. OnTrack(M, s) /\ (Head(s).do = "update" => Head(s).incoming.msgs = tab.msgs)
    <2>1. CASE \E p \in DOMAIN tab.msgs \cup {0}, n \in Nat \ {0} :
                 /\ created' = created + 1 + n
                 /\ s = Completion(p, created + 1, Answers(created + 1, n))
      <3>1. PICK p \in DOMAIN tab.msgs \cup {0}, n \in Nat \ {0} :
                 /\ created' = created + 1 + n
                 /\ s = Completion(p, created + 1, Answers(created + 1, n))
        BY <2>1
      <3>2. created + 1 + n <= MaxMessages
        BY <1>1, <3>1, ChatConstants
      <3>3. OnTrack(M, s)
        BY <1>4, <1>6, <1>7, <3>1, <3>2, SendOnTrack
      <3>4. Head(s).do # "update"
        <4>1. PICK u, a : u = created + 1 /\ u \in Nat /\ a = Answers(u, n)
          BY ChatConstants DEF Shapes
        <4>2. p \in Nat
          BY ChatConstants DEF Existing, Shapes
        <4>3. Sends(s, p, u, n)
          BY <3>1, <4>1, <4>2, CompletionIs
        <4> QED BY <4>3 DEF Sends, Touch
      <3> QED BY <3>3, <3>4
    <2>2. CASE \E x : /\ s = <<x>> /\ StepShaped(x)
                      /\ \/ \E m \in 1 .. created : \E t : x = Save(m, 0, t)
                         \/ x = Touch \/ x = Read \/ x = Update(tab)
                         \/ \E m : x = Delete(m)
      <3>1. PICK x : /\ s = <<x>> /\ StepShaped(x)
                     /\ \/ \E m \in 1 .. created : \E t : x = Save(m, 0, t)
                        \/ x = Touch \/ x = Read \/ x = Update(tab)
                        \/ \E m : x = Delete(m)
        BY <2>2
      <3>2. DOMAIN s = {1} /\ s[1] = x /\ Head(s) = x
        BY <3>1, SmallScript
      <3>3. /\ x.do # "link" /\ (x.do = "save" => x.parent = 0)
            /\ x.do = "update" => x.incoming = tab
        BY <3>1 DEF Save, Touch, Read, Update, Delete
      <3>4. OnTrack(M, s)
        BY <1>6, <1>7, <3>2, <3>3, SmallOnTrack
      <3> QED BY <3>2, <3>3, <3>4
    <2> QED BY <1>2, <2>1, <2>2
  <1>9. PICK r : r = run'[w] /\ r.script = s /\ r.at \in {"peek", "rows", "load"}
                 /\ r.at = FirstPhase(Head(s))
    BY <1>3
  <1>10. Work(r)'
    <2>1. OnTrack(M, r.script)'
      BY <1>3, <1>8, <1>9, OnTrackSame
    <2>2. \A m \in DOMAIN rows' : InRow(m, M)'
      BY <1>3, <1>6, RowsSame
    <2>3. PICK x : x = Head(s)
      OBVIOUS
    <2>4. x.do = "update" => Rising(x.incoming.msgs)'
      <3>1. PICK T : T = tab.msgs /\ Known(T)'
        BY <1>3, <1>5
      <3> QED BY <1>8, <2>3, <3>1 DEF Known
    <2>5. x.do = "link" => r.at = "peek"
      BY <1>2, <1>9, <2>3, ScriptIs, FirstPhaseIs
    <2> QED BY <1>3, <1>6, <1>9, <2>1, <2>2, <2>3, <2>4, <2>5 DEF Work
  <1>11. \A v \in Busy' : Work(run[v])'
    BY <1>4, <1>9, <1>10 DEF Work, Pending
  <1> QED BY <1>4, <1>5, <1>11

\* Every step keeps the tree in order.
LEMMA NextSerial ==
  ASSUME Shapes, Existing, SerialInv, [Next]_vars
  PROVE  SerialInv'
  <1>1. CASE UNCHANGED vars
    BY <1>1, StutterSerial
  <1>2. CASE LoadTab
    BY <1>2, LoadTabSerial
  <1>3. ASSUME NEW w \in Writers,
               \/ SendMessage(w) \/ SaveText(w) \/ OtherScript(w)
               \/ Peek(w) \/ Load(w) \/ WriteRow(w) \/ WriteBlob(w) \/ Fill(w) \/ DropRows(w)
               \/ ReadRows(w) \/ LoadMissing(w) \/ Die(w)
        PROVE  SerialInv'
    BY <1>3, BeginSerial, PeekSerial, LoadSerial, WriteRowSerial, WriteBlobSerial, FillSerial,
       DropRowsSerial, ReadRowsSerial, LoadMissingSerial, DieSerial
  <1> QED BY <1>1, <1>2, <1>3 DEF Next

\* What Shapes says, in the words of TypeOK.
LEMMA HistoryTyped ==
  ASSUME NEW h, HistoryShaped(h)
  PROVE  HistoryOK(h)
  <1>1. MessagesShaped(h.msgs) /\ h.current \in 0 .. MaxMessages
    BY DEF HistoryShaped
  <1>2. ASSUME NEW m \in DOMAIN h.msgs
        PROVE  /\ h.msgs[m].parent \in 0 .. m - 1 /\ Range(h.msgs[m].kids) \subseteq Ids
               /\ h.msgs[m].text \in 0 .. MaxText
    BY <1>1, MessageIs DEF Kids
  <1> QED BY <1>1, <1>2 DEF HistoryOK, MessagesShaped

\* The stored history, the tab's and the writers' copies hold messages of this
\* chat, each of them younger than its parent, so that no walk along parents
\* runs in a circle, whatever scripts overlap or die (models/chats.py 554-614).
THEOREM HistoriesTyped == Spec => []TypeOK
  <1>1. Init => Shapes /\ Existing
    BY InitShapes
  <1>2. Shapes /\ Existing /\ [Next]_vars => (Shapes /\ Existing)'
    BY StepKeeps
  <1>3. Shapes => TypeOK
    <2> SUFFICES ASSUME Shapes PROVE TypeOK
      OBVIOUS
    <2>1. HistoryOK(blob) /\ HistoryOK(tab)
      BY HistoryTyped DEF Shapes
    <2>2. ASSUME NEW w \in Writers PROVE HistoryOK(run[w].copy) /\ run[w].left \subseteq Ids
      <3>1. HistoryShaped(run[w].copy) /\ run[w].left \subseteq Ids
        BY DEF Shapes, RunsShaped, RunShaped
      <3> QED BY <3>1, HistoryTyped
    <2> QED BY <2>1, <2>2 DEF Shapes, RowsShaped, DeletionsShaped, TypeOK
  <1> QED BY <1>1, <1>2, <1>3, PTL DEF Spec

\* What is true of every history, and its proof.
HistoryInv == Shapes /\ Existing /\ HealInv /\ SerialInv

\* As long as no two scripts overlap and none dies, each leaves the tree of the
\* chat in order: children and parents agree both ways, except below a message
\* deleted under a tab that still showed it; nothing deleted is back unless it
\* was saved again; and every row says what the history says.  An update that
\* runs alone leaves history and rows in agreement whatever went before it
\* (models/chats.py: merge_history 554, delete_message_from_history 577,
\* upsert and delete_message_from_chat 704-794).
THEOREM HistoryStaysInOrder == Spec => []HistoryInOrder
  <1>1. Init => HistoryInv
    BY InitShapes, InitHeals, InitSerial DEF HistoryInv
  <1>2. HistoryInv /\ [Next]_vars => HistoryInv'
    BY StepKeeps, NextHeals, NextSerial DEF HistoryInv
  <1>3. HistoryInv => HistoryInOrder
    BY HealingHolds, SerialHolds DEF HistoryInv, HistoryInOrder
  <1> QED BY <1>1, <1>2, <1>3, PTL DEF Spec
=============================================================================
