----------------------------- MODULE ProjectDraft -----------------------------
(***************************************************************************)
(* A project edited in browsers: the editor's draft with its undo stacks   *)
(* and autosave loop (useProjectDraft.ts), background uploads beside it    *)
(* (LevelManager.tsx, project_assets.py), and the server's versioned       *)
(* projects with their optimistic lock (project_repository.py,             *)
(* api/projects.py).                                                       *)
(*                                                                         *)
(* A document is the set of edits it contains and a version id is the hash *)
(* of its document, so the document itself.  Requests of one editor come   *)
(* from one login and are kept apart by the row lock of its sliding        *)
(* session; requests of two editors interleave at every statement.         *)
(***************************************************************************)
EXTENDS Integers, Sequences, FiniteSets

CONSTANTS
  Editor,      \* open editor pages, each of a user of its own
  Edit,        \* edits; a document is a set of them
  Background,  \* the edit a background upload makes on the server
  Invalid,     \* documents validate_document finds errors in
  Gone,        \* current_version_id of a deleted project
  NoMatch,     \* a request without If-Match
  MaxHistory,  \* MAX_HISTORY
  Channel,     \* bound: the kinds of request in play, of "save" and "side"
  MaxUndo,     \* bound: how many undone documents wait to be redone
  TakenBack,   \* bound: edits that may be taken out of a document again
  Faults       \* bound: what goes wrong, of "lose", "abort" and "reload"

ASSUME BackgroundAssumption == Background \in Edit
ASSUME MaxHistoryAssumption == MaxHistory \in Nat \ {0, 1}
ASSUME MarkerAssumption == Gone # NoMatch /\ {Gone, NoMatch} \cap SUBSET Edit = {}
ASSUME BoundsAssumption == Channel \subseteq {"save", "side"} /\ MaxUndo \in Nat
ASSUME TakenBackAssumption == TakenBack \subseteq Edit \ {Background}
ASSUME FaultsAssumption == Faults \subseteq {"lose", "abort", "reload"}

VARIABLES
  current,   \* the project's current_version_id
  versions,  \* versions[v]: parent_version_id of the stored version v
  editor,    \* editor[e]: the state of the hook
  request,   \* request[e][c]: what the server does for editor e
  overlap    \* history: two requests have been inside save_version at once

vars == <<current, versions, editor, request, overlap>>

Doc == SUBSET Edit
First == {}

Answer == {"ok", "conflict", "error"}

FreeRequest == [pc |-> "free", kind |-> "save", doc |-> First, base |-> NoMatch,
                parent |-> First, heard |-> FALSE, answer |-> "ok"]

Loaded(doc) == [doc |-> doc, past |-> <<>>, future |-> <<>>, saved |-> doc, lastSaved |-> doc,
                flight |-> "none", side |-> "none", fetched |-> First,
                conflict |-> FALSE, error |-> FALSE]

Init ==
  /\ current = First
  /\ versions = [v \in {First} |-> NoMatch]
  /\ editor = [e \in Editor |-> Loaded(First)]
  /\ request = [e \in Editor |-> [c \in Channel |-> FreeRequest]]
  /\ overlap = FALSE

-----------------------------------------------------------------------------
(* The reducer: patch, undo, redo *)

server == <<current, versions, request, overlap>>

\* A new document cancels the effect whose save is in flight: the interval is
\* rebuilt and the answer of that save is not looked at.
Cancelled(flight) == IF flight = "live" THEN "cancelled" ELSE flight

Show(e, doc, past, future) ==
  LET d == editor[e]
  IN editor' = [editor EXCEPT ![e] = [d EXCEPT !.doc = doc, !.past = past, !.future = future,
                                               !.flight = Cancelled(d.flight)]]

\* past.slice(-MAX_HISTORY + 1)
LastOf(s) == IF Len(s) < MaxHistory THEN s ELSE SubSeq(s, Len(s) - MaxHistory + 2, Len(s))

\* The user makes an edit or takes one back.
Edited(doc) ==
  {doc \cup {x} : x \in Edit \ (doc \cup {Background})} \cup {doc \ {x} : x \in doc \cap TakenBack}

Patch(e) ==
  LET d == editor[e]
  IN /\ \E next \in Edited(d.doc) : Show(e, next, Append(LastOf(d.past), d.doc), <<>>)
     /\ UNCHANGED server

Undo(e) ==
  LET d == editor[e]
  IN /\ d.past # <<>> /\ Len(d.future) < MaxUndo
     /\ Show(e, d.past[Len(d.past)], SubSeq(d.past, 1, Len(d.past) - 1), <<d.doc>> \o d.future)
     /\ UNCHANGED server

Redo(e) ==
  LET d == editor[e]
  IN /\ d.future # <<>>
     /\ Show(e, d.future[1], Append(d.past, d.doc), Tail(d.future))
     /\ UNCHANGED server

-----------------------------------------------------------------------------
(* The autosave loop *)

Send(e, c, kind, doc, base) ==
  /\ c \in Channel /\ request[e][c].pc = "free"
  /\ request' = [request EXCEPT ![e][c] = [FreeRequest EXCEPT
        !.pc = "sent", !.kind = kind, !.doc = doc, !.base = base, !.heard = TRUE]]

Dirty(e) == editor[e].doc # editor[e].lastSaved

\* The interval fires.
Autosave(e) ==
  LET d == editor[e]
  IN /\ Dirty(e) /\ d.flight = "none" /\ ~d.conflict
     /\ Send(e, "save", "save", d.doc, d.saved)
     /\ editor' = [editor EXCEPT ![e].flight = "live"]
     /\ UNCHANGED <<current, versions, overlap>>

\* What the hook makes of the outcome of the save it waits for.
Settle(d, sent, answer) ==
  LET heard == [d EXCEPT !.flight = "none"]
  IN IF d.flight = "cancelled" THEN heard
     ELSE CASE answer = "ok"       -> [heard EXCEPT !.saved = sent, !.lastSaved = sent]
            [] answer = "conflict" -> [heard EXCEPT !.conflict = TRUE]
            [] answer = "error"    -> [heard EXCEPT !.error = TRUE]

\* Mutants of HearSave: what is shown counts as saved; a failure is swallowed.
HearSaveOfShown(e) ==
  "save" \in Channel /\ LET r == request[e]["save"]
  IN /\ r.pc = "answered"
     /\ editor' = [editor EXCEPT ![e] = [Settle([@ EXCEPT !.flight = "live"], editor[e].doc, r.answer)
                                         EXCEPT !.saved = IF r.answer = "ok" THEN r.doc ELSE @]]
     /\ request' = [request EXCEPT ![e]["save"] = FreeRequest]
     /\ UNCHANGED <<current, versions, overlap>>

HearSaveOnly(e) ==
  "save" \in Channel /\ LET r == request[e]["save"]
  IN /\ r.pc = "answered"
     /\ editor' = [editor EXCEPT ![e] = IF r.answer = "ok" THEN Settle(@, r.doc, r.answer) ELSE @]
     /\ request' = [request EXCEPT ![e]["save"] = FreeRequest]
     /\ UNCHANGED <<current, versions, overlap>>

HearSave(e) ==
  "save" \in Channel /\ LET r == request[e]["save"]
  IN /\ r.pc = "answered"
     /\ editor' = [editor EXCEPT ![e] = Settle(@, r.doc, r.answer)]
     /\ request' = [request EXCEPT ![e]["save"] = FreeRequest]
     /\ UNCHANGED <<current, versions, overlap>>

-----------------------------------------------------------------------------
(* Background images *)

\* handleUpload sends the saved version along, handleClear sends none.
StartUpload(e) ==
  /\ editor[e].side = "none"
  /\ Send(e, "side", "upload", First, editor[e].saved)
  /\ editor' = [editor EXCEPT ![e].side = "posting"]
  /\ UNCHANGED <<current, versions, overlap>>

StartClear(e) ==
  /\ editor[e].side = "none"
  /\ Send(e, "side", "clear", First, NoMatch)
  /\ editor' = [editor EXCEPT ![e].side = "posting"]
  /\ UNCHANGED <<current, versions, overlap>>

\* On success the project is fetched anew; on an error a message is shown.
HearSide(e) ==
  /\ "side" \in Channel /\ request[e]["side"].pc = "answered"
  /\ editor' = [editor EXCEPT ![e].side =
                  IF request[e]["side"].answer = "ok" THEN "fetching" ELSE "none"]
  /\ request' = [request EXCEPT ![e]["side"] = FreeRequest]
  /\ UNCHANGED <<current, versions, overlap>>

Fetch(e) ==
  /\ editor[e].side = "fetching"
  /\ editor' = [editor EXCEPT ![e] =
       IF current = Gone THEN [@ EXCEPT !.side = "none"]
       ELSE [@ EXCEPT !.side = "fetched", !.fetched = current]]
  /\ UNCHANGED server

\* The answer replaces the draft and its history, unsaved edits included.
ApplyServerUpdate(e) ==
  LET d == editor[e]
  IN /\ d.side = "fetched"
     /\ editor' = [editor EXCEPT ![e] = [Loaded(d.fetched) EXCEPT
                     !.flight = Cancelled(d.flight), !.error = d.error]]
     /\ UNCHANGED server

-----------------------------------------------------------------------------
(* The server *)

Working(e, c) == request[e][c].pc \in {"read", "locked"}

\* The handler of e on channel c is done; nobody hears a request given up.
Finish(e, c, answer) ==
  request' = [request EXCEPT ![e][c] =
    IF @.heard THEN [FreeRequest EXCEPT !.pc = "answered", !.doc = request[e][c].doc,
                                        !.heard = TRUE, !.answer = answer]
    ELSE FreeRequest]

\* Mutant of Matches: the If-Match header is not compared.
MatchesAnything(e, c) == TRUE

\* save_version: parent_version_id is If-Match, or what was just read.
Matches(e, c) == request[e][c].base \in {NoMatch, current}

\* The document to store: the one sent, or the current one with the
\* background set or cleared.
Proposed(r) ==
  CASE r.kind = "save"   -> r.doc
    [] r.kind = "upload" -> current \cup {Background}
    [] r.kind = "clear"  -> current \ {Background}

\* parent_version_id of the version to store.
Parent(r) == IF r.base = NoMatch THEN current ELSE r.base

\* Authentication has locked the login's session row, the project is read,
\* the document validated and If-Match compared.
ReadProject(e, c) ==
  LET r == request[e][c]
  IN /\ r.pc = "sent"
     /\ \A b \in Channel \ {c} : ~Working(e, b)
     /\ IF current = Gone \/ (r.kind = "save" /\ r.doc \in Invalid) THEN Finish(e, c, "error")
        ELSE IF ~Matches(e, c) THEN Finish(e, c, "conflict")
        ELSE request' = [request EXCEPT ![e][c] =
               [@ EXCEPT !.pc = "read", !.doc = Proposed(r), !.base = NoMatch, !.parent = Parent(r)]]
     /\ UNCHANGED <<current, versions, editor>>

\* The lookup of the new version flushes the UPDATE of the project first,
\* which waits for the row; a project deleted meanwhile is an error.
LockProject(e, c) ==
  /\ request[e][c].pc = "read"
  /\ \A f \in Editor, b \in Channel : request[f][b].pc # "locked"
  /\ IF current = Gone THEN Finish(e, c, "error")
     ELSE request' = [request EXCEPT ![e][c].pc = "locked"]
  /\ UNCHANGED <<current, versions, editor>>

\* Mutant of Store: an existing version is stored again under a new parent.
StoreAnew(doc, parent) ==
  [v \in DOMAIN versions \cup {doc} |-> IF v = doc THEN parent ELSE versions[v]]

\* _insert_version: a content that is stored already is not stored again.
Store(doc, parent) ==
  [v \in DOMAIN versions \cup {doc} |-> IF v \in DOMAIN versions THEN versions[v] ELSE parent]

\* Version and pointer are flushed and committed together.
CommitSave(e, c) ==
  LET r == request[e][c]
  IN /\ r.pc = "locked"
     /\ versions' = Store(r.doc, r.parent)
     /\ current' = r.doc
     /\ Finish(e, c, "ok")
     /\ UNCHANGED editor

\* The server fails: the transaction is rolled back.
Abort(e, c) ==
  /\ request[e][c].pc \in {"sent", "read", "locked"}
  /\ Finish(e, c, "error")
  /\ UNCHANGED <<current, versions, editor>>

\* A save holds the project's row from its UPDATE on, an upload from the
\* asset it inserts first.
Holds(r) == r.pc = "locked" \/ (r.pc = "read" /\ r.kind = "upload")

\* The row is deleted and its versions with it, once no request holds it.
DeleteProject ==
  /\ current # Gone
  /\ \A e \in Editor, c \in Channel : ~Holds(request[e][c])
  /\ current' = Gone /\ versions' = <<>>
  /\ UNCHANGED <<editor, request>>

-----------------------------------------------------------------------------
(* The link and the page *)

GiveUp(r) == IF r.pc = "answered" THEN FreeRequest ELSE [r EXCEPT !.heard = FALSE]

\* fetch rejects: the request or its answer is lost, the server may go on.
LoseSave(e) ==
  /\ "save" \in Channel /\ request[e]["save"].pc # "free" /\ request[e]["save"].heard
  /\ request' = [request EXCEPT ![e]["save"] = GiveUp(@)]
  /\ editor' = [editor EXCEPT ![e] = Settle(@, First, "error")]
  /\ UNCHANGED <<current, versions>>

LoseSide(e) ==
  /\ "side" \in Channel /\ request[e]["side"].pc # "free" /\ request[e]["side"].heard
  /\ request' = [request EXCEPT ![e]["side"] = GiveUp(@)]
  /\ editor' = [editor EXCEPT ![e].side = "none"]
  /\ UNCHANGED <<current, versions>>

\* The page is loaded again.
Reload(e) ==
  /\ current # Gone
  /\ editor' = [editor EXCEPT ![e] = Loaded(current)]
  /\ request' = [request EXCEPT ![e] = [c \in Channel |->
                   IF request[e][c].pc = "free" THEN FreeRequest ELSE GiveUp(request[e][c])]]
  /\ UNCHANGED <<current, versions>>

-----------------------------------------------------------------------------

Overlapping ==
  \E e, f \in Editor : e # f /\ \E c, b \in Channel : Working(e, c) /\ Working(f, b)

Track == overlap' = (overlap \/ Overlapping')

User(e) == Patch(e) \/ Undo(e) \/ Redo(e) \/ StartUpload(e) \/ StartClear(e)
Page(e) == Autosave(e) \/ HearSave(e) \/ HearSide(e) \/ Fetch(e) \/ ApplyServerUpdate(e)
Handle(e, c) == (ReadProject(e, c) \/ LockProject(e, c) \/ CommitSave(e, c)) /\ Track
Delete == DeleteProject /\ Track
Failure(e) ==
  /\ \/ "lose" \in Faults /\ (LoseSave(e) \/ LoseSide(e))
     \/ "reload" \in Faults /\ Reload(e)
     \/ "abort" \in Faults /\ \E c \in Channel : Abort(e, c)
  /\ Track

Next ==
  \/ \E e \in Editor :
       User(e) \/ Page(e) \/ Failure(e) \/ \E c \in Channel : Handle(e, c)
  \/ Delete

Spec == Init /\ [][Next]_vars

\* Timers fire, answers arrive and handlers run, and there comes a time when
\* the user looks on and nothing fails. (An edit restarts the interval, so
\* nothing is promised while edits go on.)
Disturbance == Delete \/ \E e \in Editor : User(e) \/ Failure(e)

FairSpec ==
  /\ Spec
  /\ \A e \in Editor : WF_vars(Page(e)) /\ \A c \in Channel : WF_vars(Handle(e, c))
  /\ <>[][~Disturbance]_vars

-----------------------------------------------------------------------------
(* Properties *)

RequestType ==
  [pc: {"free", "sent", "read", "locked", "answered"}, kind: {"save", "upload", "clear"},
   doc: Doc, base: Doc \cup {NoMatch}, parent: Doc, heard: BOOLEAN, answer: Answer]

EditorType ==
  [doc: Doc, past: Seq(Doc), future: Seq(Doc), saved: Doc, lastSaved: Doc,
   flight: {"none", "live", "cancelled"}, side: {"none", "posting", "fetching", "fetched"},
   fetched: Doc, conflict: BOOLEAN, error: BOOLEAN]

TypeOK ==
  /\ current \in Doc \cup {Gone}
  /\ DOMAIN versions \subseteq Doc
  /\ \A v \in DOMAIN versions : versions[v] \in Doc \cup {NoMatch}
  /\ editor \in [Editor -> EditorType]
  /\ request \in [Editor -> [Channel -> RequestType]]
  /\ overlap \in BOOLEAN

\* The history of a project stays a tree however saves race and contents
\* repeat: the current version and every parent are stored, and following
\* parents never goes in a circle.
HistoryIsATree ==
  /\ current # Gone => current \in DOMAIN versions
  /\ \A v \in DOMAIN versions : versions[v] \in DOMAIN versions \cup {NoMatch}
  /\ \A S \in SUBSET DOMAIN versions : S # {} => \E v \in S : versions[v] \notin S

\* What an editor counts as saved is stored on the server under the version
\* it will send as If-Match, whatever was edited while the save was on its way.
SavedIsStored ==
  \A e \in Editor :
    /\ editor[e].saved = editor[e].lastSaved
    /\ current # Gone => editor[e].saved \in DOMAIN versions

Linear ==
  current' \in Doc /\ current' \notin DOMAIN versions => versions'[current'] = current

\* Saves that do not overlap never overwrite each other: a new version
\* replaces its own parent.
SeparateSavesAreLinear == [][~overlap => Linear]_vars

\* An edit never stays unsaved in silence: it is saved, or the page shows a
\* conflict or an error.
NeverSilentlyUnsaved ==
  \A e \in Editor : Dirty(e) ~> ~Dirty(e) \/ editor[e].conflict \/ editor[e].error

\* What a sole editor shows is in the end what the project holds, or the page
\* shows a conflict or an error (useProjectDraft.ts: "the autosave loop reads
\* the latest state and posts it to the backend").
LatestStateIsPosted ==
  Cardinality(Editor) = 1 =>
    \A e \in Editor :
      <>[](editor[e].doc = current \/ editor[e].conflict \/ editor[e].error \/ current = Gone)

\* A new version replaces its own parent (save_version: "atomically swap the
\* project's `current_version_id` pointer. Raises `OptimisticLockError` if
\* `parent_version_id` no longer matches the live pointer").
SavesAreLinear == [][Linear]_vars

\* A user who is the only editor is never told of a conflict (update_project:
\* "Project was edited by someone else; reload and try again").
AloneNoConflict == Cardinality(Editor) = 1 => \A e \in Editor : ~editor[e].conflict
=============================================================================
