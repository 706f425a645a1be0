--------------------------- MODULE ProjectDraftProofs ---------------------------
(* For any editors, edits and documents: what an editor counts as saved is    *)
(* stored, the history of a project is a tree, and saves that do not overlap  *)
(* follow one another.                                                        *)
EXTENDS ProjectDraft, SequenceTheorems, TLAPS

\* A version that can be shown, sent or built upon, unless the project is gone.
Stored(v) == current # Gone => v \in DOMAIN versions

\* What the server works on has a stored parent, and an answer that a document
\* is stored is true.
RequestHolds(e, c) ==
  LET r == request[e][c]
  IN /\ r.pc \in {"read", "locked"} => Stored(r.parent)
     /\ r.pc = "locked" => current # Gone
     /\ r.pc = "answered" /\ r.answer = "ok" /\ c = "save" => Stored(r.doc)

\* One request of an editor is worked on at a time; nobody overtakes it
\* unless two editors are at work, which is noticed.
Alone(e) == \A b, c \in Channel : Working(e, b) /\ Working(e, c) => b = c
UpToDate(e, c) ==
  ~overlap /\ Working(e, c) /\ current # Gone => request[e][c].parent = current

IInv ==
  /\ TypeOK
  /\ HistoryIsATree
  /\ SavedIsStored
  /\ \A e \in Editor : editor[e].side = "fetched" => Stored(editor[e].fetched)
  /\ \A e \in Editor, c \in Channel : RequestHolds(e, c)
  /\ \A e \in Editor : Alone(e)
  /\ Overlapping => overlap
  /\ \A e \in Editor, c \in Channel : UpToDate(e, c)

-----------------------------------------------------------------------------
(* The first page.                                                            *)

LEMMA Marks == Gone \notin Doc /\ NoMatch \notin Doc /\ Gone # NoMatch
BY MarkerAssumption DEF Doc

LEMMA DocSets ==
  ASSUME NEW a \in Doc, NEW x \in Edit
  PROVE  a \cup {x} \in Doc /\ a \ {x} \in Doc
BY DEF Doc

LEMMA FirstFacts == First \in Doc /\ FreeRequest \in RequestType /\ FreeRequest.pc = "free"
<1>1. First \in Doc
  BY DEF First, Doc
<1>2. QED
  BY <1>1 DEF FreeRequest, RequestType, Answer

LEMMA LoadedFacts ==
  ASSUME NEW a \in Doc
  PROVE  /\ Loaded(a) \in EditorType /\ Loaded(a).saved = a /\ Loaded(a).lastSaved = a
         /\ Loaded(a).side = "none"
<1>1. <<>> \in Seq(Doc)
  BY EmptySeq
<1>2. QED
  BY <1>1, FirstFacts DEF Loaded, EditorType

LEMMA InitInv == Init => IInv
<1> SUFFICES ASSUME Init PROVE IInv
  OBVIOUS
<1>1. /\ current = First /\ First \in Doc /\ First # Gone
      /\ DOMAIN versions = {First} /\ versions[First] = NoMatch
      /\ overlap = FALSE
  BY FirstFacts, Marks DEF Init
<1>2. \A e \in Editor : editor[e] = Loaded(First)
  BY DEF Init
<1>3. \A e \in Editor, c \in Channel : request[e][c] = FreeRequest
  BY DEF Init
<1>4. TypeOK
  <2>1. editor \in [Editor -> EditorType]
    BY FirstFacts, LoadedFacts DEF Init
  <2>2. request \in [Editor -> [Channel -> RequestType]]
    BY FirstFacts DEF Init
  <2>3. QED
    BY <1>1, <2>1, <2>2 DEF TypeOK
<1>5. HistoryIsATree
  BY <1>1, Marks DEF HistoryIsATree
<1>6. SavedIsStored
  BY <1>1, <1>2, LoadedFacts DEF SavedIsStored
<1>7. \A e \in Editor : editor[e].side = "fetched" => Stored(editor[e].fetched)
  BY <1>1, <1>2, LoadedFacts
<1>8. \A e \in Editor, c \in Channel : ~Working(e, c)
  BY <1>3, FirstFacts DEF Working
<1>9. \A e \in Editor, c \in Channel : RequestHolds(e, c)
  BY <1>3, FirstFacts DEF RequestHolds
<1>10. QED
  BY <1>4, <1>5, <1>6, <1>7, <1>8, <1>9 DEF IInv, Alone, Overlapping, UpToDate

-----------------------------------------------------------------------------
(* Steps of a page, and steps of the server that store nothing.               *)

\* What the editors show and count as saved after a step that stores nothing.
EditorsHold ==
  /\ editor' \in [Editor -> EditorType]
  /\ \A e \in Editor : /\ editor'[e].saved = editor'[e].lastSaved
                       /\ Stored(editor'[e].saved)
                       /\ editor'[e].side = "fetched" => Stored(editor'[e].fetched)

\* A request stays where it is, begins, or ends without having stored anything.
Meek ==
  /\ request' \in [Editor -> [Channel -> RequestType]]
  /\ \A e \in Editor, c \in Channel :
       LET r == request[e][c]
           q == request'[e][c]
       IN \/ q.pc = r.pc /\ q.doc = r.doc /\ q.parent = r.parent /\ q.answer = r.answer
          \/ q.pc \in {"free", "sent"}
          \/ q.pc = "answered" /\ q.answer # "ok"

Remembered == overlap' \in BOOLEAN /\ (overlap => overlap')

LEMMA NothingStored ==
  ASSUME IInv, UNCHANGED <<current, versions>>, EditorsHold, Meek, Remembered
  PROVE  IInv'
<1>1. \A v : Stored(v)' = Stored(v)
  BY DEF Stored
<1>2. \A e \in Editor, c \in Channel : Working(e, c)' =>
        Working(e, c) /\ request'[e][c].parent = request[e][c].parent
  BY DEF Working, Meek
<1>3. TypeOK'
  BY DEF IInv, TypeOK, EditorsHold, Meek, Remembered
<1>4. HistoryIsATree'
  BY DEF IInv, HistoryIsATree
<1>5. SavedIsStored'
  BY DEF SavedIsStored, EditorsHold, Stored
<1>6. \A e \in Editor : (editor[e].side = "fetched" => Stored(editor[e].fetched))'
  BY DEF EditorsHold, Stored
<1>7. ASSUME NEW e \in Editor, NEW c \in Channel
      PROVE  RequestHolds(e, c)'
  <2>1. RequestHolds(e, c)
    BY DEF IInv
  <2>2. QED
    BY <2>1 DEF RequestHolds, Meek, Stored
<1>8. \A e \in Editor : Alone(e)'
  BY <1>2 DEF IInv, Alone
<1>9. Overlapping' => overlap'
  BY <1>2 DEF IInv, Overlapping, Remembered
<1>10. ASSUME NEW e \in Editor, NEW c \in Channel
       PROVE  UpToDate(e, c)'
  <2>1. UpToDate(e, c)
    BY DEF IInv
  <2>2. QED
    BY <1>2, <2>1 DEF UpToDate, Remembered
<1>11. QED
  BY <1>3, <1>4, <1>5, <1>6, <1>7, <1>8, <1>9, <1>10 DEF IInv

LEMMA SameRequests ==
  ASSUME IInv, request' = request
  PROVE  Meek
BY DEF Meek, IInv, TypeOK

LEMMA SameEditors ==
  ASSUME IInv, editor' = editor
  PROVE  EditorsHold
BY DEF EditorsHold, IInv, TypeOK, SavedIsStored, Stored

\* One editor at a time.
LEMMA OneEditor ==
  ASSUME IInv, NEW e \in Editor, NEW d \in EditorType, editor' = [editor EXCEPT ![e] = d],
         d.saved = d.lastSaved, Stored(d.saved), d.side = "fetched" => Stored(d.fetched)
  PROVE  EditorsHold
<1>1. editor \in [Editor -> EditorType]
  BY DEF IInv, TypeOK
<1>2. /\ editor' \in [Editor -> EditorType] /\ editor'[e] = d
      /\ \A f \in Editor \ {e} : editor'[f] = editor[f]
  BY <1>1
<1>3. QED
  BY <1>2 DEF EditorsHold, IInv, SavedIsStored, Stored

\* One request at a time.
OnlyRequest(e, c, q) ==
  /\ request' \in [Editor -> [Channel -> RequestType]] /\ request'[e][c] = q
  /\ \A f \in Editor, b \in Channel : f # e \/ b # c => request'[f][b] = request[f][b]

LEMMA OneRequest ==
  ASSUME IInv, NEW e \in Editor, NEW c \in Channel, NEW q \in RequestType,
         request' = [request EXCEPT ![e][c] = q]
  PROVE  OnlyRequest(e, c, q)
<1>1. request \in [Editor -> [Channel -> RequestType]]
  BY DEF IInv, TypeOK
<1>2. PICK g : g = [request[e] EXCEPT ![c] = q]
  OBVIOUS
<1>3. /\ g \in [Channel -> RequestType] /\ g[c] = q
      /\ \A b \in Channel \ {c} : g[b] = request[e][b]
  BY <1>1, <1>2
<1>4. request' = [request EXCEPT ![e] = g]
  BY <1>2
<1>5. /\ request' \in [Editor -> [Channel -> RequestType]] /\ request'[e] = g
      /\ \A f \in Editor \ {e} : request'[f] = request[f]
  BY <1>1, <1>3, <1>4
<1>6. QED
  BY <1>3, <1>5 DEF OnlyRequest

LEMMA EditorFacts ==
  ASSUME IInv, NEW e \in Editor
  PROVE  /\ editor[e] \in EditorType /\ editor[e].saved = editor[e].lastSaved
         /\ Stored(editor[e].saved)
         /\ editor[e].side = "fetched" => Stored(editor[e].fetched)
BY DEF IInv, TypeOK, SavedIsStored, Stored

LEMMA RequestFacts ==
  ASSUME IInv, NEW e \in Editor, NEW c \in Channel
  PROVE  request[e][c] \in RequestType /\ RequestHolds(e, c)
BY DEF IInv, TypeOK

\* An editor shows another document; what it counts as saved stays.
LEMMA ShowKeeps ==
  ASSUME IInv, NEW e \in Editor, NEW doc \in Doc, NEW past \in Seq(Doc), NEW future \in Seq(Doc),
         Show(e, doc, past, future), UNCHANGED server
  PROVE  IInv'
<1>1. PICK d \in EditorType : d = editor[e]
  BY EditorFacts
<1>2. PICK m : m = [d EXCEPT !.doc = doc, !.past = past, !.future = future,
                             !.flight = Cancelled(d.flight)]
  OBVIOUS
<1>3. Cancelled(d.flight) \in {"none", "live", "cancelled"}
  BY DEF Cancelled, EditorType
<1>4. /\ m \in EditorType /\ m.saved = d.saved /\ m.lastSaved = d.lastSaved
      /\ m.side = d.side /\ m.fetched = d.fetched
  BY <1>2, <1>3 DEF EditorType
<1>5. editor' = [editor EXCEPT ![e] = m]
  <2>1. editor' = [editor EXCEPT ![e] = [d EXCEPT !.doc = doc, !.past = past,
                     !.future = future, !.flight = Cancelled(d.flight)]]
    BY <1>1 DEF Show, EditorType
  <2>2. QED
    BY <1>2, <2>1
<1>6. EditorsHold
  BY <1>1, <1>4, <1>5, EditorFacts, OneEditor
<1>7. Remembered /\ UNCHANGED <<current, versions>>
  BY DEF Remembered, server, IInv, TypeOK
<1>8. Meek
  BY SameRequests DEF server
<1>9. QED
  BY <1>6, <1>7, <1>8, NothingStored

LEMMA LastOfType ==
  ASSUME NEW s \in Seq(Doc)
  PROVE  LastOf(s) \in Seq(Doc)
<1>1. Len(s) \in Nat
  BY LenProperties
<1>2. CASE Len(s) < MaxHistory
  BY <1>2 DEF LastOf
<1>3. CASE ~(Len(s) < MaxHistory)
  <2>1. PICK m \in Int : m = Len(s) - MaxHistory + 2
    <3>1. Len(s) \in Int /\ MaxHistory \in Int
      BY <1>1, MaxHistoryAssumption
    <3>2. Len(s) - MaxHistory + 2 \in Int
      BY <3>1
    <3>3. QED
      BY <3>2
  <2>2. m >= 1
    BY <1>1, <1>3, <2>1, MaxHistoryAssumption
  <2>3. \A i \in m..Len(s) : s[i] \in Doc
    BY <1>1, <2>2, ElementOfSeq
  <2>4. SubSeq(s, m, Len(s)) \in Seq(Doc)
    BY <1>1, <2>3, SubSeqProperties
  <2>5. QED
    BY <1>3, <2>1, <2>4 DEF LastOf
<1>4. QED
  BY <1>2, <1>3

LEMMA PatchKeeps ==
  ASSUME IInv, NEW e \in Editor, Patch(e)
  PROVE  IInv'
<1>1. PICK d \in EditorType : d = editor[e]
  BY EditorFacts
<1>2. PICK next \in Edited(d.doc) : Show(e, next, Append(LastOf(d.past), d.doc), <<>>)
  BY <1>1 DEF Patch
<1>3. next \in Doc
  <2>1. d.doc \in Doc /\ d.doc \subseteq Edit
    BY DEF EditorType, Doc
  <2>2. QED
    BY <2>1, DocSets DEF Edited
<1>4. d.past \in Seq(Doc) /\ d.doc \in Doc
  BY DEF EditorType
<1>5. Append(LastOf(d.past), d.doc) \in Seq(Doc) /\ <<>> \in Seq(Doc)
  BY <1>4, LastOfType, AppendProperties, EmptySeq
<1>6. UNCHANGED server
  BY DEF Patch
<1>7. QED
  BY <1>2, <1>3, <1>5, <1>6, ShowKeeps

LEMMA UndoKeeps ==
  ASSUME IInv, NEW e \in Editor, Undo(e)
  PROVE  IInv'
<1>1. PICK d \in EditorType : d = editor[e]
  BY EditorFacts
<1>2. PICK s : s = d.past
  OBVIOUS
<1>3. /\ s # <<>>
      /\ Show(e, s[Len(s)], SubSeq(s, 1, Len(s) - 1), <<d.doc>> \o d.future)
      /\ UNCHANGED server
  BY <1>1, <1>2 DEF Undo
<1>4. s \in Seq(Doc) /\ d.future \in Seq(Doc) /\ d.doc \in Doc
  BY <1>2 DEF EditorType
<1>5. Len(s) \in Nat \ {0}
  BY <1>3, <1>4, EmptySeq
<1>6. s[Len(s)] \in Doc
  BY <1>4, <1>5, ElementOfSeq
<1>7. SubSeq(s, 1, Len(s) - 1) \in Seq(Doc)
  <2>1. \A i \in 1..(Len(s) - 1) : s[i] \in Doc
    BY <1>4, <1>5, ElementOfSeq
  <2>2. PICK n \in Int : n = Len(s) - 1
    BY <1>5
  <2>3. SubSeq(s, 1, n) \in Seq(Doc)
    BY <2>1, <2>2, SubSeqProperties
  <2>4. QED
    BY <2>2, <2>3
<1>8. <<d.doc>> \in Seq(Doc)
  BY <1>4
<1>9. <<d.doc>> \o d.future \in Seq(Doc)
  BY <1>4, <1>8, ConcatProperties
<1>10. QED
  BY <1>3, <1>6, <1>7, <1>9, ShowKeeps

LEMMA RedoKeeps ==
  ASSUME IInv, NEW e \in Editor, Redo(e)
  PROVE  IInv'
<1>1. PICK d \in EditorType : d = editor[e]
  BY EditorFacts
<1>2. PICK s : s = d.future
  OBVIOUS
<1>3. /\ s # <<>> /\ Show(e, s[1], Append(d.past, d.doc), Tail(s)) /\ UNCHANGED server
  BY <1>1, <1>2 DEF Redo
<1>4. s \in Seq(Doc) /\ d.past \in Seq(Doc) /\ d.doc \in Doc
  BY <1>2 DEF EditorType
<1>5. Len(s) \in Nat \ {0}
  BY <1>3, <1>4, EmptySeq
<1>6. s[1] \in Doc
  BY <1>4, <1>5, ElementOfSeq
<1>7. Append(d.past, d.doc) \in Seq(Doc) /\ Tail(s) \in Seq(Doc)
  BY <1>3, <1>4, AppendProperties, HeadTailProperties
<1>8. QED
  BY <1>3, <1>6, <1>7, ShowKeeps

\* What may become of a request in a step that stores nothing.
Quiet(r, q) ==
  \/ q.pc = r.pc /\ q.doc = r.doc /\ q.parent = r.parent /\ q.answer = r.answer
  \/ q.pc \in {"free", "sent"}
  \/ q.pc = "answered" /\ q.answer # "ok"

LEMMA QuietIsMeek ==
  ASSUME IInv, NEW e \in Editor, NEW c \in Channel, NEW q \in RequestType,
         request' = [request EXCEPT ![e][c] = q], Quiet(request[e][c], q)
  PROVE  Meek
<1>1. /\ request' \in [Editor -> [Channel -> RequestType]] /\ request'[e][c] = q
      /\ \A f \in Editor, b \in Channel : f # e \/ b # c => request'[f][b] = request[f][b]
  <2>1. OnlyRequest(e, c, q)
    BY OneRequest
  <2>2. QED
    BY <2>1 DEF OnlyRequest
<1>2. QED
  BY <1>1 DEF Meek, Quiet

LEMMA FreedIsMeek ==
  ASSUME IInv, NEW e \in Editor, NEW c \in Channel,
         request' = [request EXCEPT ![e][c] = FreeRequest]
  PROVE  Meek
BY FirstFacts, QuietIsMeek DEF Quiet

LEMMA SendIsMeek ==
  ASSUME IInv, NEW e \in Editor, NEW c, NEW kind \in {"save", "upload", "clear"},
         NEW doc \in Doc, NEW base \in Doc \cup {NoMatch}, Send(e, c, kind, doc, base)
  PROVE  Meek
<1>1. PICK q : q = [FreeRequest EXCEPT !.pc = "sent", !.kind = kind, !.doc = doc,
                                       !.base = base, !.heard = TRUE]
  OBVIOUS
<1>2. q \in RequestType /\ q.pc = "sent"
  BY <1>1, FirstFacts DEF FreeRequest, RequestType, Answer
<1>3. c \in Channel /\ request' = [request EXCEPT ![e][c] = q]
  BY <1>1 DEF Send
<1>4. QED
  BY <1>2, <1>3, QuietIsMeek DEF Quiet

\* The background of an editor changes, what it counts as saved does not.
LEMMA SideHolds ==
  ASSUME IInv, NEW e \in Editor, NEW x \in {"none", "posting", "fetching"},
         editor' = [editor EXCEPT ![e].side = x]
  PROVE  EditorsHold
<1>1. PICK d \in EditorType : d = editor[e]
  BY EditorFacts
<1>2. PICK m : m = [d EXCEPT !.side = x]
  OBVIOUS
<1>3. m \in EditorType /\ m.saved = d.saved /\ m.lastSaved = d.lastSaved /\ m.side = x
  BY <1>2 DEF EditorType
<1>4. editor' = [editor EXCEPT ![e] = m]
  BY <1>1, <1>2
<1>5. m.side # "fetched" /\ m.saved = m.lastSaved /\ Stored(m.saved)
  BY <1>1, <1>3, EditorFacts
<1>6. QED
  BY <1>3, <1>4, <1>5, OneEditor

LEMMA StartSideKeeps ==
  ASSUME IInv, NEW e \in Editor, StartUpload(e) \/ StartClear(e)
  PROVE  IInv'
<1>1. editor[e].saved \in Doc
  BY EditorFacts DEF EditorType
<1>2. Meek
  BY <1>1, FirstFacts, SendIsMeek DEF StartUpload, StartClear
<1>3. EditorsHold
  BY SideHolds DEF StartUpload, StartClear
<1>4. UNCHANGED <<current, versions, overlap>>
  BY DEF StartUpload, StartClear
<1>5. QED
  BY <1>2, <1>3, <1>4, NothingStored DEF Remembered, IInv, TypeOK

LEMMA AutosaveKeeps ==
  ASSUME IInv, NEW e \in Editor, Autosave(e)
  PROVE  IInv'
<1>1. PICK d \in EditorType : d = editor[e]
  BY EditorFacts
<1>2. PICK m : m = [d EXCEPT !.flight = "live"]
  OBVIOUS
<1>3. /\ m \in EditorType /\ m.saved = d.saved /\ m.lastSaved = d.lastSaved
      /\ m.side = d.side /\ m.fetched = d.fetched
  BY <1>2 DEF EditorType
<1>4. /\ editor' = [editor EXCEPT ![e] = m] /\ Send(e, "save", "save", d.doc, d.saved)
      /\ UNCHANGED <<current, versions, overlap>>
  BY <1>1, <1>2 DEF Autosave
<1>5. EditorsHold
  BY <1>1, <1>3, <1>4, EditorFacts, OneEditor
<1>6. d.doc \in Doc /\ d.saved \in Doc
  BY DEF EditorType
<1>7. Meek
  BY <1>4, <1>6, SendIsMeek
<1>8. QED
  BY <1>4, <1>5, <1>7, NothingStored DEF Remembered, IInv, TypeOK

\* What the outcome of a save does to an editor.
LEMMA SettleFacts ==
  ASSUME NEW d \in EditorType, NEW sent \in Doc, NEW answer \in Answer
  PROVE  /\ Settle(d, sent, answer) \in EditorType
         /\ Settle(d, sent, answer).side = d.side /\ Settle(d, sent, answer).fetched = d.fetched
         /\ \/ /\ Settle(d, sent, answer).saved = d.saved
               /\ Settle(d, sent, answer).lastSaved = d.lastSaved
            \/ /\ Settle(d, sent, answer).saved = sent
               /\ Settle(d, sent, answer).lastSaved = sent /\ answer = "ok"
<1>1. PICK h : h = [d EXCEPT !.flight = "none"]
  OBVIOUS
<1>2. /\ h \in EditorType /\ h.side = d.side /\ h.fetched = d.fetched
      /\ h.saved = d.saved /\ h.lastSaved = d.lastSaved
  BY <1>1 DEF EditorType
<1>3. PICK m : m = Settle(d, sent, answer)
  OBVIOUS
<1>4. CASE d.flight = "cancelled"
  <2>1. m = h
    BY <1>1, <1>3, <1>4, Zenon DEF Settle
  <2>2. QED
    BY <1>2, <1>3, <2>1
<1>5. CASE d.flight # "cancelled" /\ answer = "ok"
  <2>1. m = [h EXCEPT !.saved = sent, !.lastSaved = sent]
    BY <1>1, <1>3, <1>5, Zenon DEF Settle
  <2>2. /\ m \in EditorType /\ m.side = h.side /\ m.fetched = h.fetched
        /\ m.saved = sent /\ m.lastSaved = sent
    BY <1>2, <2>1 DEF EditorType
  <2>3. QED
    BY <1>2, <1>3, <1>5, <2>2
<1>6. CASE d.flight # "cancelled" /\ answer = "conflict"
  <2>1. m = [h EXCEPT !.conflict = TRUE]
    BY <1>1, <1>3, <1>6, Zenon DEF Settle
  <2>2. /\ m \in EditorType /\ m.side = h.side /\ m.fetched = h.fetched
        /\ m.saved = h.saved /\ m.lastSaved = h.lastSaved
    BY <1>2, <2>1 DEF EditorType
  <2>3. QED
    BY <1>2, <1>3, <2>2
<1>7. CASE d.flight # "cancelled" /\ answer = "error"
  <2>1. m = [h EXCEPT !.error = TRUE]
    BY <1>1, <1>3, <1>7, Zenon DEF Settle
  <2>2. /\ m \in EditorType /\ m.side = h.side /\ m.fetched = h.fetched
        /\ m.saved = h.saved /\ m.lastSaved = h.lastSaved
    BY <1>2, <2>1 DEF EditorType
  <2>3. QED
    BY <1>2, <1>3, <2>2
<1>8. QED
  BY <1>4, <1>5, <1>6, <1>7 DEF Answer

LEMMA SettleHolds ==
  ASSUME IInv, NEW e \in Editor, NEW sent \in Doc, NEW answer \in Answer,
         answer = "ok" => Stored(sent),
         editor' = [editor EXCEPT ![e] = Settle(editor[e], sent, answer)]
  PROVE  EditorsHold
<1>1. PICK d \in EditorType : d = editor[e]
  BY EditorFacts
<1>2. PICK m : m = Settle(d, sent, answer)
  OBVIOUS
<1>3. /\ m \in EditorType /\ m.side = d.side /\ m.fetched = d.fetched
      /\ \/ m.saved = d.saved /\ m.lastSaved = d.lastSaved
         \/ m.saved = sent /\ m.lastSaved = sent /\ answer = "ok"
  BY <1>2, SettleFacts
<1>4. m.saved = m.lastSaved /\ Stored(m.saved) /\ (m.side = "fetched" => Stored(m.fetched))
  BY <1>1, <1>3, EditorFacts
<1>5. editor' = [editor EXCEPT ![e] = m]
  BY <1>1, <1>2
<1>6. QED
  BY <1>3, <1>4, <1>5, OneEditor

LEMMA HearSaveKeeps ==
  ASSUME IInv, NEW e \in Editor, HearSave(e)
  PROVE  IInv'
<1>1. PICK c \in Channel : c = "save"
  BY DEF HearSave
<1>2. PICK r \in RequestType : r = request[e][c]
  BY RequestFacts
<1>3. /\ r.pc = "answered"
      /\ editor' = [editor EXCEPT ![e] = Settle(editor[e], r.doc, r.answer)]
      /\ request' = [request EXCEPT ![e][c] = FreeRequest]
      /\ UNCHANGED <<current, versions, overlap>>
  BY <1>1, <1>2 DEF HearSave
<1>4. r.doc \in Doc /\ r.answer \in Answer
  BY DEF RequestType
<1>5. r.answer = "ok" => Stored(r.doc)
  BY <1>1, <1>2, <1>3, RequestFacts DEF RequestHolds
<1>6. EditorsHold
  BY <1>3, <1>4, <1>5, SettleHolds
<1>7. Meek
  BY <1>3, FreedIsMeek
<1>8. QED
  BY <1>3, <1>6, <1>7, NothingStored DEF Remembered, IInv, TypeOK

LEMMA HearSideKeeps ==
  ASSUME IInv, NEW e \in Editor, HearSide(e)
  PROVE  IInv'
<1>1. PICK x : x = IF request[e]["side"].answer = "ok" THEN "fetching" ELSE "none"
  OBVIOUS
<1>2. /\ "side" \in Channel /\ x \in {"none", "posting", "fetching"}
      /\ editor' = [editor EXCEPT ![e].side = x]
      /\ request' = [request EXCEPT ![e]["side"] = FreeRequest]
      /\ UNCHANGED <<current, versions, overlap>>
  BY <1>1 DEF HearSide
<1>3. EditorsHold /\ Meek
  BY <1>2, SideHolds, FreedIsMeek
<1>4. QED
  BY <1>2, <1>3, NothingStored DEF Remembered, IInv, TypeOK

\* What a page fetches is the current version, and that is stored.
LEMMA CurrentIsStored ==
  ASSUME IInv
  PROVE  Stored(current) /\ (current # Gone => current \in Doc)
BY DEF IInv, TypeOK, HistoryIsATree, Stored

LEMMA FetchKeeps ==
  ASSUME IInv, NEW e \in Editor, Fetch(e)
  PROVE  IInv'
<1>1. PICK d \in EditorType : d = editor[e]
  BY EditorFacts
<1>2. UNCHANGED server
  BY DEF Fetch
<1>3. EditorsHold
  <2>1. CASE current = Gone
    <3>1. PICK m : m = [d EXCEPT !.side = "none"]
      OBVIOUS
    <3>2. /\ m \in EditorType /\ m.saved = d.saved /\ m.lastSaved = d.lastSaved
          /\ m.side = "none"
      BY <3>1 DEF EditorType
    <3>3. editor' = [editor EXCEPT ![e] = m]
      BY <1>1, <2>1, <3>1 DEF Fetch
    <3>4. QED
      BY <1>1, <3>2, <3>3, EditorFacts, OneEditor
  <2>2. CASE current # Gone
    <3>1. PICK m : m = [d EXCEPT !.side = "fetched", !.fetched = current]
      OBVIOUS
    <3>2. /\ m \in EditorType /\ m.saved = d.saved /\ m.lastSaved = d.lastSaved
          /\ m.fetched = current
      BY <2>2, <3>1, CurrentIsStored DEF EditorType
    <3>3. editor' = [editor EXCEPT ![e] = m]
      BY <1>1, <2>2, <3>1 DEF Fetch
    <3>4. QED
      BY <1>1, <3>2, <3>3, EditorFacts, CurrentIsStored, OneEditor
  <2>3. QED
    BY <2>1, <2>2
<1>4. QED
  BY <1>2, <1>3, SameRequests, NothingStored DEF Remembered, IInv, TypeOK, server

LEMMA ApplyKeeps ==
  ASSUME IInv, NEW e \in Editor, ApplyServerUpdate(e)
  PROVE  IInv'
<1>1. PICK d \in EditorType : d = editor[e]
  BY EditorFacts
<1>2. d.fetched \in Doc /\ d.error \in BOOLEAN
      /\ Cancelled(d.flight) \in {"none", "live", "cancelled"}
  BY DEF EditorType, Cancelled
<1>3. PICK l \in EditorType : l = Loaded(d.fetched)
  BY <1>2, LoadedFacts
<1>4. PICK m : m = [l EXCEPT !.flight = Cancelled(d.flight), !.error = d.error]
  OBVIOUS
<1>5. m \in EditorType /\ m.saved = l.saved /\ m.lastSaved = l.lastSaved /\ m.side = l.side
  BY <1>2, <1>4 DEF EditorType
<1>6. /\ d.side = "fetched" /\ editor' = [editor EXCEPT ![e] = m] /\ UNCHANGED server
  BY <1>1, <1>3, <1>4 DEF ApplyServerUpdate
<1>7. m.saved = d.fetched /\ m.lastSaved = d.fetched /\ m.side = "none"
  BY <1>2, <1>3, <1>5, LoadedFacts
<1>8. EditorsHold
  BY <1>1, <1>5, <1>6, <1>7, EditorFacts, OneEditor
<1>9. QED
  BY <1>6, <1>8, SameRequests, NothingStored DEF Remembered, IInv, TypeOK, server

-----------------------------------------------------------------------------
(* Failures.                                                                  *)

LEMMA TrackRemembers ==
  ASSUME IInv, Track
  PROVE  Remembered
BY DEF Track, Remembered, IInv, TypeOK

LEMMA GiveUpFacts ==
  ASSUME NEW r \in RequestType
  PROVE  GiveUp(r) \in RequestType /\ Quiet(r, GiveUp(r))
<1>1. CASE r.pc = "answered"
  BY <1>1, FirstFacts DEF GiveUp, Quiet
<1>2. CASE r.pc # "answered"
  <2>1. PICK q : q = [r EXCEPT !.heard = FALSE]
    OBVIOUS
  <2>2. /\ q \in RequestType /\ q.pc = r.pc /\ q.doc = r.doc /\ q.parent = r.parent
        /\ q.answer = r.answer
    BY <2>1 DEF RequestType
  <2>3. GiveUp(r) = q
    BY <1>2, <2>1 DEF GiveUp
  <2>4. QED
    BY <2>2, <2>3 DEF Quiet
<1>3. QED
  BY <1>1, <1>2

LEMMA GivenUpIsMeek ==
  ASSUME IInv, NEW e \in Editor, NEW c \in Channel,
         request' = [request EXCEPT ![e][c] = GiveUp(request[e][c])]
  PROVE  Meek
BY RequestFacts, GiveUpFacts, QuietIsMeek

LEMMA LoseSaveKeeps ==
  ASSUME IInv, NEW e \in Editor, LoseSave(e), Track
  PROVE  IInv'
<1>1. /\ "save" \in Channel
      /\ request' = [request EXCEPT ![e]["save"] = GiveUp(request[e]["save"])]
      /\ editor' = [editor EXCEPT ![e] = Settle(editor[e], First, "error")]
      /\ UNCHANGED <<current, versions>>
  BY RequestFacts DEF LoseSave
<1>2. Meek
  BY <1>1, GivenUpIsMeek
<1>3. EditorsHold
  <2>1. "error" \in Answer
    BY DEF Answer
  <2>2. QED
    BY <1>1, <2>1, FirstFacts, SettleHolds
<1>4. QED
  BY <1>1, <1>2, <1>3, TrackRemembers, NothingStored

LEMMA LoseSideKeeps ==
  ASSUME IInv, NEW e \in Editor, LoseSide(e), Track
  PROVE  IInv'
<1>1. /\ "side" \in Channel
      /\ request' = [request EXCEPT ![e]["side"] = GiveUp(request[e]["side"])]
      /\ editor' = [editor EXCEPT ![e].side = "none"]
      /\ UNCHANGED <<current, versions>>
  BY DEF LoseSide
<1>2. Meek /\ EditorsHold
  BY <1>1, GivenUpIsMeek, SideHolds
<1>3. QED
  BY <1>1, <1>2, TrackRemembers, NothingStored

LEMMA ReloadKeeps ==
  ASSUME IInv, NEW e \in Editor, Reload(e), Track
  PROVE  IInv'
<1>1. PICK g : g = [c \in Channel |->
                      IF request[e][c].pc = "free" THEN FreeRequest ELSE GiveUp(request[e][c])]
  OBVIOUS
<1>2. /\ current # Gone /\ editor' = [editor EXCEPT ![e] = Loaded(current)]
      /\ request' = [request EXCEPT ![e] = g]
      /\ UNCHANGED <<current, versions>>
  BY <1>1 DEF Reload
<1>3. \A c \in Channel : g[c] \in RequestType /\ Quiet(request[e][c], g[c])
  BY <1>1, FirstFacts, RequestFacts, GiveUpFacts DEF Quiet
<1>4. g \in [Channel -> RequestType]
  BY <1>1, <1>3
<1>5. request \in [Editor -> [Channel -> RequestType]]
  BY DEF IInv, TypeOK
<1>6. /\ request' \in [Editor -> [Channel -> RequestType]] /\ request'[e] = g
      /\ \A f \in Editor \ {e} : request'[f] = request[f]
  BY <1>2, <1>4, <1>5
<1>7. Meek
  BY <1>3, <1>6 DEF Meek, Quiet
<1>8. EditorsHold
  BY <1>2, CurrentIsStored, LoadedFacts, OneEditor
<1>9. QED
  BY <1>2, <1>7, <1>8, TrackRemembers, NothingStored

-----------------------------------------------------------------------------
(* The server.                                                                *)

LEMMA FinishFacts ==
  ASSUME IInv, NEW e \in Editor, NEW c \in Channel, NEW answer \in Answer, Finish(e, c, answer)
  PROVE  \E q \in RequestType :
           /\ request' = [request EXCEPT ![e][c] = q]
           /\ \/ q.pc = "free"
              \/ q.pc = "answered" /\ q.answer = answer /\ q.doc = request[e][c].doc
<1>1. PICK r \in RequestType : r = request[e][c]
  BY RequestFacts
<1>2. PICK a : a = [FreeRequest EXCEPT !.pc = "answered", !.doc = r.doc,
                                       !.heard = TRUE, !.answer = answer]
  OBVIOUS
<1>3. a \in RequestType /\ a.pc = "answered" /\ a.answer = answer /\ a.doc = r.doc
  BY <1>2, FirstFacts DEF FreeRequest, RequestType
<1>4. PICK q : q = IF r.heard THEN a ELSE FreeRequest
  OBVIOUS
<1>5. request' = [request EXCEPT ![e][c] = q]
  BY <1>1, <1>2, <1>4 DEF Finish
<1>6. QED
  BY <1>1, <1>3, <1>4, <1>5, FirstFacts

LEMMA RefusedKeeps ==
  ASSUME IInv, NEW e \in Editor, NEW c \in Channel, NEW answer \in Answer, answer # "ok",
         Finish(e, c, answer), UNCHANGED <<current, versions, editor>>, Track
  PROVE  IInv'
<1>1. PICK q \in RequestType :
        /\ request' = [request EXCEPT ![e][c] = q]
        /\ q.pc = "free" \/ (q.pc = "answered" /\ q.answer = answer)
  BY FinishFacts
<1>2. Meek
  BY <1>1, QuietIsMeek DEF Quiet
<1>3. QED
  BY <1>2, SameEditors, TrackRemembers, NothingStored

\* A request is worked on, alone among those of its editor.
LEMMA WorkKeeps ==
  ASSUME IInv, NEW e \in Editor, NEW c \in Channel, NEW q \in RequestType,
         request' = [request EXCEPT ![e][c] = q], UNCHANGED <<current, versions, editor>>, Track,
         current # Gone, q.pc \in {"read", "locked"}, Stored(q.parent),
         \A b \in Channel \ {c} : ~Working(e, b),
         ~overlap => q.parent = current
  PROVE  IInv'
<1>1. /\ request' \in [Editor -> [Channel -> RequestType]] /\ request'[e][c] = q
      /\ \A f \in Editor, b \in Channel : f # e \/ b # c => request'[f][b] = request[f][b]
  <2>1. OnlyRequest(e, c, q)
    BY OneRequest
  <2>2. QED
    BY <2>1 DEF OnlyRequest
<1>2. Remembered
  BY TrackRemembers
<1>3. TypeOK'
  BY <1>1, <1>2 DEF IInv, TypeOK, Remembered
<1>4. HistoryIsATree' /\ SavedIsStored'
  BY DEF IInv, HistoryIsATree, SavedIsStored
<1>5. \A f \in Editor : (editor[f].side = "fetched" => Stored(editor[f].fetched))'
  BY DEF IInv, Stored
<1>6. ASSUME NEW f \in Editor, NEW b \in Channel
      PROVE  RequestHolds(f, b)' /\ UpToDate(f, b)'
  <2>1. CASE f = e /\ b = c
    BY <1>1, <1>2, <2>1 DEF RequestHolds, Stored, UpToDate, Remembered
  <2>2. CASE f # e \/ b # c
    <3>1. request'[f][b] = request[f][b]
      BY <1>1, <2>2
    <3>2. RequestHolds(f, b) /\ UpToDate(f, b)
      BY DEF IInv
    <3>3. QED
      BY <1>2, <3>1, <3>2 DEF RequestHolds, Stored, UpToDate, Remembered, Working
  <2>3. QED
    BY <2>1, <2>2
<1>7. ASSUME NEW f \in Editor
      PROVE  Alone(f)'
  <2>1. CASE f = e
    BY <1>1, <2>1 DEF Alone, Working
  <2>2. CASE f # e
    BY <1>1, <2>2 DEF IInv, Alone, Working
  <2>3. QED
    BY <2>1, <2>2
<1>8. Overlapping' => overlap'
  BY DEF Track
<1>9. QED
  BY <1>3, <1>4, <1>5, <1>6, <1>7, <1>8 DEF IInv

LEMMA ProposedType ==
  ASSUME NEW r \in RequestType, current \in Doc
  PROVE  Proposed(r) \in Doc
<1>1. current \cup {Background} \in Doc /\ current \ {Background} \in Doc
  BY BackgroundAssumption, DocSets
<1>2. CASE r.kind = "save"
  <2>1. Proposed(r) = r.doc
    BY <1>2, Zenon DEF Proposed
  <2>2. QED
    BY <2>1 DEF RequestType
<1>3. CASE r.kind = "upload"
  <2>1. Proposed(r) = current \cup {Background}
    BY <1>3, Zenon DEF Proposed
  <2>2. QED
    BY <1>1, <2>1
<1>4. CASE r.kind = "clear"
  <2>1. Proposed(r) = current \ {Background}
    BY <1>4, Zenon DEF Proposed
  <2>2. QED
    BY <1>1, <2>1
<1>5. QED
  BY <1>2, <1>3, <1>4 DEF RequestType

LEMMA ReadProjectKeeps ==
  ASSUME IInv, NEW e \in Editor, NEW c \in Channel, ReadProject(e, c), Track
  PROVE  IInv'
<1>1. PICK r \in RequestType : r = request[e][c]
  BY RequestFacts
<1>2. UNCHANGED <<current, versions, editor>> /\ \A b \in Channel \ {c} : ~Working(e, b)
  BY DEF ReadProject
<1>3. CASE Finish(e, c, "error") \/ Finish(e, c, "conflict")
  <2>1. {"error", "conflict"} \subseteq Answer
    BY DEF Answer
  <2>2. QED
    BY <1>2, <1>3, <2>1, RefusedKeeps
<1>4. CASE ~(Finish(e, c, "error") \/ Finish(e, c, "conflict"))
  <2>1. /\ current # Gone /\ Matches(e, c)
        /\ request' = [request EXCEPT ![e][c] =
             [r EXCEPT !.pc = "read", !.doc = Proposed(r), !.base = NoMatch, !.parent = Parent(r)]]
    BY <1>1, <1>4 DEF ReadProject
  <2>2. current \in Doc /\ Stored(current)
    BY <2>1, CurrentIsStored
  <2>3. Parent(r) = current
    BY <1>1, <2>1 DEF Matches, Parent
  <2>4. PICK q : q = [r EXCEPT !.pc = "read", !.doc = Proposed(r), !.base = NoMatch,
                               !.parent = Parent(r)]
    OBVIOUS
  <2>5. Proposed(r) \in Doc
    BY <2>2, ProposedType
  <2>6. q \in RequestType /\ q.pc = "read" /\ q.parent = current
    BY <2>2, <2>3, <2>4, <2>5 DEF RequestType
  <2>7. QED
    BY <1>2, <2>1, <2>2, <2>4, <2>6, WorkKeeps
<1>5. QED
  BY <1>3, <1>4

LEMMA LockProjectKeeps ==
  ASSUME IInv, NEW e \in Editor, NEW c \in Channel, LockProject(e, c), Track
  PROVE  IInv'
<1>1. PICK r \in RequestType : r = request[e][c]
  BY RequestFacts
<1>2. r.pc = "read" /\ Working(e, c) /\ UNCHANGED <<current, versions, editor>>
  BY <1>1 DEF LockProject, Working
<1>3. CASE current = Gone
  <2>1. Finish(e, c, "error") /\ "error" \in Answer
    BY <1>3 DEF LockProject, Answer
  <2>2. QED
    BY <1>2, <2>1, RefusedKeeps
<1>4. CASE current # Gone
  <2>1. PICK q : q = [r EXCEPT !.pc = "locked"]
    OBVIOUS
  <2>2. q \in RequestType /\ q.pc = "locked" /\ q.parent = r.parent
    BY <2>1 DEF RequestType
  <2>3. request' = [request EXCEPT ![e][c] = q]
    BY <1>1, <1>4, <2>1 DEF LockProject
  <2>4. Stored(r.parent) /\ (~overlap => r.parent = current)
    BY <1>1, <1>2, <1>4 DEF IInv, RequestHolds, UpToDate
  <2>5. \A b \in Channel \ {c} : ~Working(e, b)
    BY <1>2 DEF IInv, Alone
  <2>6. QED
    BY <1>2, <1>4, <2>2, <2>3, <2>4, <2>5, WorkKeeps
<1>5. QED
  BY <1>3, <1>4

\* A tree grows by one leaf.
LEMMA StoreKeepsTree ==
  ASSUME IInv, NEW doc \in Doc, NEW parent \in DOMAIN versions,
         versions' = Store(doc, parent), current' = doc
  PROVE  /\ HistoryIsATree'
         /\ DOMAIN versions' = DOMAIN versions \cup {doc}
         /\ \A v \in DOMAIN versions' : versions'[v] \in Doc \cup {NoMatch}
         /\ doc \notin DOMAIN versions => versions'[doc] = parent
<1>1. /\ DOMAIN versions' = DOMAIN versions \cup {doc}
      /\ \A v \in DOMAIN versions : versions'[v] = versions[v]
      /\ doc \notin DOMAIN versions => versions'[doc] = parent
  BY DEF Store
<1>2. /\ \A v \in DOMAIN versions : versions[v] \in DOMAIN versions \cup {NoMatch}
      /\ \A S \in SUBSET DOMAIN versions : S # {} => \E v \in S : versions[v] \notin S
      /\ DOMAIN versions \subseteq Doc
      /\ \A v \in DOMAIN versions : versions[v] \in Doc \cup {NoMatch}
  BY DEF IInv, HistoryIsATree, TypeOK
<1>3. \A v \in DOMAIN versions' : versions'[v] \in DOMAIN versions \cup {NoMatch}
  BY <1>1, <1>2
<1>4. ASSUME NEW S \in SUBSET DOMAIN versions', S # {}
      PROVE  \E v \in S : versions'[v] \notin S
  <2>1. CASE doc \in DOMAIN versions
    <3>1. S \in SUBSET DOMAIN versions
      BY <1>1, <2>1
    <3>2. QED
      BY <1>1, <1>2, <1>4, <3>1
  <2>2. CASE doc \notin DOMAIN versions
    <3>1. PICK T \in SUBSET DOMAIN versions : T = S \ {doc}
      BY <1>1
    <3>2. CASE T = {}
      BY <1>1, <1>4, <2>2, <3>1, <3>2
    <3>3. CASE T # {}
      <4>1. PICK v \in T : versions[v] \notin T
        BY <1>2, <3>3
      <4>2. versions[v] # doc
        BY <1>2, <2>2, Marks
      <4>3. QED
        BY <1>1, <3>1, <4>1, <4>2
    <3>4. QED
      BY <3>2, <3>3
  <2>3. QED
    BY <2>1, <2>2
<1>5. HistoryIsATree'
  BY <1>1, <1>3, <1>4 DEF HistoryIsATree
<1>6. QED
  BY <1>1, <1>2, <1>3, <1>5

LEMMA CommitSaveFacts ==
  ASSUME IInv, NEW e \in Editor, NEW c \in Channel, CommitSave(e, c)
  PROVE  /\ current # Gone /\ Working(e, c) /\ request[e][c].doc \in Doc
         /\ request[e][c].parent \in DOMAIN versions
         /\ versions' = Store(request[e][c].doc, request[e][c].parent)
         /\ current' = request[e][c].doc
<1>1. RequestHolds(e, c) /\ request[e][c].doc \in Doc
  BY RequestFacts DEF RequestType
<1>2. request[e][c].pc = "locked"
  BY DEF CommitSave
<1>3. QED
  BY <1>1, <1>2 DEF RequestHolds, Stored, Working, CommitSave

LEMMA CommitSaveKeeps ==
  ASSUME IInv, NEW e \in Editor, NEW c \in Channel, CommitSave(e, c), Track
  PROVE  IInv'
<1>1. PICK doc \in Doc, parent \in DOMAIN versions :
        doc = request[e][c].doc /\ parent = request[e][c].parent
  BY CommitSaveFacts
<1>2. /\ current # Gone /\ Working(e, c)
      /\ versions' = Store(doc, parent) /\ current' = doc
      /\ Finish(e, c, "ok") /\ editor' = editor
  BY <1>1, CommitSaveFacts DEF CommitSave
<1>3. /\ HistoryIsATree'
      /\ DOMAIN versions' = DOMAIN versions \cup {doc}
      /\ \A v \in DOMAIN versions' : versions'[v] \in Doc \cup {NoMatch}
  BY <1>2, StoreKeepsTree
<1>4. "ok" \in Answer
  BY DEF Answer
<1>5. PICK q \in RequestType :
        /\ request' = [request EXCEPT ![e][c] = q]
        /\ q.pc = "free" \/ (q.pc = "answered" /\ q.answer = "ok" /\ q.doc = doc)
  BY <1>1, <1>2, <1>4, FinishFacts
<1>6. /\ request' \in [Editor -> [Channel -> RequestType]] /\ request'[e][c] = q
      /\ \A f \in Editor, b \in Channel : f # e \/ b # c => request'[f][b] = request[f][b]
  <2>1. OnlyRequest(e, c, q)
    BY <1>5, OneRequest
  <2>2. QED
    BY <2>1 DEF OnlyRequest
<1>7. Remembered /\ (Overlapping' => overlap')
  BY TrackRemembers DEF Track
<1>8. TypeOK'
  <2>1. DOMAIN versions \subseteq Doc
    BY DEF IInv, TypeOK
  <2>2. QED
    BY <1>2, <1>3, <1>6, <1>7, <2>1 DEF IInv, TypeOK, Remembered
<1>9. current' # Gone /\ \A v : Stored(v) => v \in DOMAIN versions'
  BY <1>2, <1>3, Marks DEF Stored
<1>10. SavedIsStored'
  BY <1>2, <1>9, EditorFacts DEF SavedIsStored
<1>11. \A f \in Editor : (editor[f].side = "fetched" => Stored(editor[f].fetched))'
  BY <1>2, <1>9, EditorFacts DEF Stored
<1>12. ASSUME NEW f \in Editor, NEW b \in Channel
       PROVE  RequestHolds(f, b)' /\ UpToDate(f, b)'
  <2>1. CASE f = e /\ b = c
    BY <1>3, <1>5, <1>6, <2>1 DEF RequestHolds, Stored, UpToDate, Working
  <2>2. CASE f # e \/ b # c
    <3>1. request'[f][b] = request[f][b] /\ RequestHolds(f, b)
      BY <1>6, <2>2 DEF IInv
    <3>2. RequestHolds(f, b)'
      BY <1>9, <3>1 DEF RequestHolds, Stored
    <3>3. Working(f, b) => overlap
      <4>1. CASE f = e
        BY <1>2, <2>2, <4>1 DEF IInv, Alone
      <4>2. CASE f # e
        BY <1>2, <4>2 DEF IInv, Overlapping
      <4>3. QED
        BY <4>1, <4>2
    <3>4. UpToDate(f, b)'
      BY <1>7, <3>1, <3>3 DEF UpToDate, Working, Remembered
    <3>5. QED
      BY <3>2, <3>4
  <2>3. QED
    BY <2>1, <2>2
<1>13. ASSUME NEW f \in Editor
       PROVE  Alone(f)'
  <2>1. \A b \in Channel : Working(f, b)' => Working(f, b)
    BY <1>5, <1>6 DEF Working
  <2>2. QED
    BY <2>1 DEF IInv, Alone
<1>14. QED
  BY <1>3, <1>7, <1>8, <1>10, <1>11, <1>12, <1>13 DEF IInv

LEMMA AbortKeeps ==
  ASSUME IInv, NEW e \in Editor, NEW c \in Channel, Abort(e, c), Track
  PROVE  IInv'
<1>1. "error" \in Answer
  BY DEF Answer
<1>2. QED
  BY <1>1, RefusedKeeps DEF Abort

LEMMA DeleteKeeps ==
  ASSUME IInv, Delete
  PROVE  IInv'
<1>1. /\ \A e \in Editor, c \in Channel : ~Holds(request[e][c])
      /\ current' = Gone /\ versions' = <<>> /\ editor' = editor /\ request' = request
  BY DEF Delete, DeleteProject
<1>2. Remembered /\ (Overlapping' => overlap')
  BY TrackRemembers DEF Delete, Track
<1>3. DOMAIN versions' = {}
  BY <1>1
<1>4. TypeOK'
  BY <1>1, <1>2, <1>3 DEF IInv, TypeOK, Remembered
<1>5. HistoryIsATree'
  BY <1>1, <1>3 DEF HistoryIsATree
<1>6. SavedIsStored'
  BY <1>1 DEF IInv, SavedIsStored
<1>7. \A v : Stored(v)'
  BY <1>1 DEF Stored
<1>8. \A e \in Editor : (editor[e].side = "fetched" => Stored(editor[e].fetched))'
  BY <1>1 DEF Stored
<1>9. \A e \in Editor, c \in Channel : RequestHolds(e, c)' /\ UpToDate(e, c)'
  BY <1>1 DEF RequestHolds, Stored, UpToDate, Holds
<1>10. \A e \in Editor : Alone(e)'
  BY <1>1 DEF IInv, Alone, Working
<1>11. QED
  BY <1>2, <1>4, <1>5, <1>6, <1>8, <1>9, <1>10 DEF IInv

-----------------------------------------------------------------------------
(* What holds of every run.                                                   *)

LEMMA StepKeeps == IInv /\ [Next]_vars => IInv'
<1> SUFFICES ASSUME IInv, [Next]_vars PROVE IInv'
  OBVIOUS
<1>1. ASSUME NEW e \in Editor, User(e) \/ Page(e)
      PROVE  IInv'
  BY <1>1, PatchKeeps, UndoKeeps, RedoKeeps, StartSideKeeps, AutosaveKeeps, HearSaveKeeps,
     HearSideKeeps, FetchKeeps, ApplyKeeps DEF User, Page
<1>2. ASSUME NEW e \in Editor, Failure(e)
      PROVE  IInv'
  BY <1>2, LoseSaveKeeps, LoseSideKeeps, ReloadKeeps, AbortKeeps DEF Failure
<1>3. ASSUME NEW e \in Editor, NEW c \in Channel, Handle(e, c)
      PROVE  IInv'
  BY <1>3, ReadProjectKeeps, LockProjectKeeps, CommitSaveKeeps DEF Handle
<1>4. CASE Delete
  BY <1>4, DeleteKeeps
<1>5. CASE UNCHANGED vars
  <2>1. UNCHANGED <<current, versions, overlap>> /\ editor' = editor /\ request' = request
    BY <1>5 DEF vars
  <2>2. QED
    BY <2>1, SameEditors, SameRequests, NothingStored DEF Remembered, IInv, TypeOK
<1>6. QED
  BY <1>1, <1>2, <1>3, <1>4, <1>5 DEF Next

LEMMA Invariance == Spec => []IInv
BY InitInv, StepKeeps, PTL DEF Spec

\* A new version is stored on top of the one that was current, as long as no
\* two requests have been at work at a time.
LEMMA StepIsLinear ==
  ASSUME IInv, [Next]_vars, ~overlap
  PROVE  Linear
<1>1. CASE UNCHANGED current
  BY <1>1, CurrentIsStored, Marks DEF Linear, Stored
<1>2. ASSUME NEW e \in Editor, NEW c \in Channel, CommitSave(e, c)
      PROVE  Linear
  <2>1. PICK doc \in Doc, parent \in DOMAIN versions :
          doc = request[e][c].doc /\ parent = request[e][c].parent
    BY <1>2, CommitSaveFacts
  <2>2. /\ versions' = Store(doc, parent) /\ current' = doc
        /\ current # Gone /\ Working(e, c)
    BY <1>2, <2>1, CommitSaveFacts
  <2>3. parent = current
    BY <2>1, <2>2 DEF IInv, UpToDate
  <2>4. QED
    BY <2>2, <2>3, StoreKeepsTree DEF Linear
<1>3. CASE Delete
  BY <1>3, Marks DEF Delete, DeleteProject, Linear
<1>4. CASE \E e \in Editor : User(e) \/ Page(e) \/ Failure(e)
  <2>1. UNCHANGED current
    BY <1>4 DEF User, Page, Failure, Patch, Undo, Redo, StartUpload, StartClear, Autosave,
                HearSave, HearSide, Fetch, ApplyServerUpdate, LoseSave, LoseSide, Reload, Abort,
                server
  <2>2. QED
    BY <1>1, <2>1
<1>5. ASSUME NEW e \in Editor, NEW c \in Channel, ReadProject(e, c) \/ LockProject(e, c)
      PROVE  Linear
  BY <1>1, <1>5 DEF ReadProject, LockProject
<1>6. CASE UNCHANGED vars
  BY <1>1, <1>6 DEF vars
<1>7. QED
  BY <1>2, <1>3, <1>4, <1>5, <1>6 DEF Next, Handle

\* The project, its versions, the pages and the requests have their types.
THEOREM TypeCorrect == Spec => []TypeOK
<1>1. IInv => TypeOK
  BY DEF IInv
<1>2. QED
  BY <1>1, Invariance, PTL

\* What a page counts as saved (mark-saved in useProjectDraft.ts:153) is stored
\* under the version it will send as If-Match, whatever was edited, lost,
\* reloaded or fetched while the save was on its way.
THEOREM SavedAlwaysStored == Spec => []SavedIsStored
<1>1. IInv => SavedIsStored
  BY DEF IInv
<1>2. QED
  BY <1>1, Invariance, PTL

\* However saves race and contents repeat, following parent_version_id from the
\* current version (project_repository.py, _insert_version) never leaves the
\* stored versions and never goes in a circle.
THEOREM HistoryAlwaysATree == Spec => []HistoryIsATree
<1>1. IInv => HistoryIsATree
  BY DEF IInv
<1>2. QED
  BY <1>1, Invariance, PTL

\* As long as the requests of two editors have not been at work at a time, each
\* new version is stored on top of the one it replaces (save_version).
THEOREM SeparateSavesFollowEachOther == Spec => SeparateSavesAreLinear
<1>1. IInv /\ [Next]_vars => [~overlap => Linear]_vars
  BY StepIsLinear
<1>2. QED
  BY <1>1, Invariance, PTL DEF Spec, SeparateSavesAreLinear
=============================================================================
