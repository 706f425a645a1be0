------------------------- MODULE SourceRegistryProofs -------------------------
(* Theorems about SourceRegistry, for every number of organisations, project *)
(* versions and handlers: a source that carries a version runs it.           *)
EXTENDS SourceRegistry, TLAPS

USE BundledAssumption, DefaultAssumption, MarkerAssumption DEF Kinds

\* What the registry may hold for an organisation (state/registry.py).
Held(cur) == cur = NoSource \/ SourceOK(cur)

-----------------------------------------------------------------------------
(* Seeds and the calls of the registry *)

\* load_seed_document finds the one seed that has the slug (seeds/loader.py).
LEMMA SeedOfSlug ==
  ASSUME NEW slug \in Seeds
  PROVE  SeedOf(slug) \in Bundled /\ SlugOf[SeedOf(slug)] = slug
<1>1. PICK v \in Bundled : SlugOf[v] = slug
  BY DEF Seeds
<1> QED
  BY <1>1 DEF SeedOf

\* A seed's document is found again by its slug (seeds/loader.py).
LEMMA SeedIsSeedOf ==
  ASSUME NEW v \in Bundled
  PROVE  SlugOf[v] \in Seeds /\ SeedOf(SlugOf[v]) = v
<1>1. SlugOf[v] \in Seeds
  BY DEF Seeds
<1> QED
  BY <1>1, SeedOfSlug

\* A simulation or a live source built from a seed is consistent.
LEMMA SeedSourceOK ==
  ASSUME NEW slug \in Seeds
  PROVE  SourceOK(Engine(slug, NoVersion, SeedOf(slug)))
         /\ SourceOK(LiveSource(NoVersion, SeedOf(slug)))
BY SeedOfSlug DEF SourceOK, Source, Engine, LiveSource, Slug

\* One built from a version is consistent.
LEMMA VersionSourceOK ==
  ASSUME NEW v \in Version
  PROVE  SourceOK(Engine(SlugOf[v], v, v)) /\ SourceOK(LiveSource(v, v))
BY DEF SourceOK, Source, Engine, LiveSource, Slug

\* for_org keeps or builds a consistent source (state/registry.py:58).
LEMMA ForOrgOK ==
  ASSUME NEW cur, NEW slug, Held(cur), Loadable(cur, slug)
  PROVE  SourceOK(ForOrg(cur, slug))
<1>1. CASE Simulates(cur)
  BY <1>1 DEF Held, ForOrg, Simulates
<1>2. CASE ~Simulates(cur)
  BY <1>2, SeedSourceOK DEF ForOrg, Loadable
<1> QED
  BY <1>1, <1>2

\* for_org_at_version tags an untagged engine only with the version whose
\* document it runs (state/registry.py:78).
LEMMA ForOrgAtVersionOK ==
  ASSUME NEW cur, NEW v \in Version, Held(cur)
  PROVE  SourceOK(ForOrgAtVersion(cur, v))
<1>1. CASE Simulates(cur) /\ cur.version # v /\ cur.version = NoVersion /\ cur.slug = SlugOf[v]
  <2>1. SourceOK(cur)
    BY <1>1 DEF Held, Simulates
  <2>2. SlugsApart => cur.doc = v
    <3> SUFFICES ASSUME SlugsApart
                 PROVE  cur.doc = v
      OBVIOUS
    <3>1. cur.doc \in Bundled /\ SlugOf[cur.doc] = SlugOf[v]
      BY <1>1, <2>1 DEF SourceOK
    <3>2. v \in Bundled
      BY <3>1, SeedIsSeedOf DEF SlugsApart
    <3> QED
      BY <3>1, <3>2
  <2>3. SourceOK([cur EXCEPT !.version = v])
    BY <2>1, <2>2 DEF SourceOK, Source
  <2> QED
    BY <1>1, <2>3 DEF ForOrgAtVersion
<1>2. CASE Simulates(cur) /\ cur.version = v
  BY <1>2 DEF ForOrgAtVersion, Held, Simulates
<1>3. CASE ~Simulates(cur) \/ (cur.version # v /\ ~(cur.version = NoVersion /\ cur.slug = SlugOf[v]))
  BY <1>3, VersionSourceOK DEF ForOrgAtVersion
<1> QED
  BY <1>1, <1>2, <1>3

\* get_source leaves a consistent source (api/deps.py:217).
LEMMA GetSourceOK ==
  ASSUME NEW cur, NEW row \in Row, Held(cur), Resolves(cur, row), stored \subseteq Version
  PROVE  SourceOK(GetSource(cur, row))
<1>1. CASE row.live /\ Pinned(row)
  BY <1>1, VersionSourceOK DEF GetSource, ForOrgLive, Held, Pinned
<1>2. CASE row.live /\ ~Pinned(row) /\ LiveSlug(row) \in Seeds
  BY <1>2, SeedSourceOK DEF GetSource, ForOrgLive, Held
<1>3. CASE ~row.live /\ Pinned(row)
  BY <1>3, ForOrgAtVersionOK DEF GetSource, Pinned
<1>4. CASE ~Pinned(row) /\ ~(row.live /\ LiveSlug(row) \in Seeds)
  BY <1>4, ForOrgOK DEF GetSource, Resolves
<1> QED
  BY <1>1, <1>2, <1>3, <1>4

-----------------------------------------------------------------------------
(* Rows *)

\* A handler asks for a well-formed row (api/routes.py, api/projects.py).
LEMMA TargetInRow ==
  ASSUME NEW q, q.seen \in Row, q.kind \in Writes, ChoiceOK(q)
  PROVE  Target(q) \in Row
BY DEF Target, Row, Writes, ChoiceOK, Slug, Seeds

\* The UPDATE of some columns leaves a well-formed row.
LEMMA MergedInRow ==
  ASSUME NEW row \in Row, NEW seen \in Row, NEW target \in Row
  PROVE  Merged(row, seen, target) \in Row
<1> DEFINE m == Merged(row, seen, target)
<1>1. DOMAIN row = {"exists", "slug", "pin", "live"}
  BY DEF Row
<1>2. m = [exists |-> m["exists"], slug |-> m["slug"], pin |-> m["pin"], live |-> m["live"]]
  BY <1>1 DEF Merged
<1>3. /\ m["exists"] \in BOOLEAN /\ m["slug"] \in Slug \cup {NoSlug}
      /\ m["pin"] \in Version \cup {NoVersion} /\ m["live"] \in BOOLEAN
  BY <1>1 DEF Merged, Row
<1> QED
  BY <1>2, <1>3 DEF Row

-----------------------------------------------------------------------------
(* The inductive invariant, in three parts *)

RowsOK == org \in [Org -> Row] /\ Bundled \subseteq stored /\ stored \subseteq Version
          /\ stale \in [Org -> BOOLEAN]

SourcesOK == source = [o \in Org |-> source[o]] /\ \A o \in Org : Held(source[o])

RequestOK(q) ==
  q = Free \/ (/\ q = Handler(q) /\ q.pc \in {"read", "write", "flushed"} /\ q.org \in Org
               /\ q.kind \in Kinds /\ q.seen \in Row /\ ChoiceOK(q))

RequestsOK == request = [r \in Request |-> request[r]] /\ \A r \in Request : RequestOK(request[r])

LEMMA Parts == IInv <=> RowsOK /\ SourcesOK /\ RequestsOK
<1>1. ASSUME NEW s PROVE Held(s) => s = NoSource \/ s \in Source
  BY DEF Held, SourceOK
<1>2. IInv => RowsOK /\ SourcesOK
  BY DEF IInv, TypeOK, RowsOK, SourcesOK, Held
<1>3. IInv => RequestsOK
  BY DEF IInv, TypeOK, RequestsOK, RequestOK
<1>4. RowsOK /\ SourcesOK /\ RequestsOK => TypeOK
  BY <1>1 DEF TypeOK, RowsOK, SourcesOK, RequestsOK, RequestOK
<1>5. RowsOK /\ SourcesOK /\ RequestsOK => IInv
  BY <1>4 DEF IInv, SourcesOK, RequestsOK, RequestOK, Held
<1> QED
  BY <1>2, <1>3, <1>5

\* The initial choices, and no source.
LEMMA InitIInv == Init => IInv
<1> SUFFICES ASSUME Init PROVE RowsOK /\ SourcesOK /\ RequestsOK
  BY Parts
<1>1. RowsOK
  BY DEF Init, RowsOK, Row
<1>2. SourcesOK
  BY DEF Init, SourcesOK, Held
<1>3. RequestsOK
  BY DEF Init, RequestsOK, RequestOK
<1> QED
  BY <1>1, <1>2, <1>3

\* One source changes, to a consistent one.
LEMMA SourceStep ==
  ASSUME SourcesOK, NEW o \in Org, NEW s, Held(s), source' = [source EXCEPT ![o] = s]
  PROVE  SourcesOK'
<1>1. \A p \in Org : source'[p] = IF p = o THEN s ELSE source[p]
  BY DEF SourcesOK
<1>2. \A p \in Org : Held(source'[p])
  BY <1>1 DEF SourcesOK
<1>3. source' = [p \in Org |-> source'[p]]
  BY DEF SourcesOK
<1>4. (\A p \in Org : Held(source[p]))' <=> \A p \in Org : Held(source'[p])
  BY DEF Held, SourceOK, SlugsApart, Seeds, Source, Slug
<1> QED
  BY <1>2, <1>3, <1>4 DEF SourcesOK

\* One handler changes, to a well-formed one.
LEMMA RequestStep ==
  ASSUME RequestsOK, NEW r \in Request, NEW q, RequestOK(q), request' = [request EXCEPT ![r] = q]
  PROVE  RequestsOK'
<1>1. \A p \in Request : request'[p] = IF p = r THEN q ELSE request[p]
  BY DEF RequestsOK
<1>2. \A p \in Request : RequestOK(request'[p])
  BY <1>1 DEF RequestsOK
<1>3. request' = [p \in Request |-> request'[p]]
  BY DEF RequestsOK
<1>4. (\A p \in Request : RequestOK(request[p]))' <=> \A p \in Request : RequestOK(request'[p])
  BY DEF RequestOK, Handler, Free, ChoiceOK, Row, Seeds, Slug
<1> QED
  BY <1>2, <1>3, <1>4 DEF RequestsOK

\* A handler goes on to another point.
LEMMA MovesOn ==
  ASSUME NEW q, RequestOK(q), q # Free, NEW pc \in {"write", "flushed"}, q.kind \in Writes
  PROVE  RequestOK([q EXCEPT !.pc = pc])
<1>1. [q EXCEPT !.pc = pc] = [pc |-> pc, org |-> q.org, kind |-> q.kind, choice |-> q.choice, seen |-> q.seen]
  BY DEF RequestOK, Handler
<1> QED
  BY <1>1 DEF RequestOK, Handler, ChoiceOK

\* Every kind of request: nothing it may ask for breaks the invariant.
LEMMA BeginIInv ==
  ASSUME IInv, NEW r \in Request, NEW o \in Org, NEW kind \in Kind, Begin(r, o, kind)
  PROVE  IInv'
<1> USE Parts
<1>1. PICK choice \in Choices(o, kind) : request' = [request EXCEPT ![r] =
         [pc |-> "read", org |-> o, kind |-> kind, choice |-> choice, seen |-> org[o]]]
  BY DEF Begin
<1> DEFINE q == [pc |-> "read", org |-> o, kind |-> kind, choice |-> choice, seen |-> org[o]]
<1>2. kind \in Kinds
  BY KindAssumption
<1>3. org[o] \in Row /\ stored \subseteq Version
  BY DEF RowsOK
<1>4. ChoiceOK(q)
  <2>1. kind \in {"seed", "legacy"} => Choices(o, kind) = Seeds
    BY DEF Choices
  <2>2. kind = "activate" => Choices(o, kind) \subseteq stored
    BY DEF Choices
  <2>3. kind = "mode" => Choices(o, kind) = BOOLEAN
    BY DEF Choices
  <2> QED
    BY <2>1, <2>2, <2>3, <1>3 DEF ChoiceOK
<1>5. RequestOK(q)
  BY <1>2, <1>3, <1>4 DEF RequestOK, Handler
<1>6. RequestsOK'
  BY <1>1, <1>5, RequestStep
<1>7. RowsOK' /\ SourcesOK'
  BY DEF Begin, RowsOK, SourcesOK, Held, SourceOK, SlugsApart, Seeds, Source, Slug, Row
<1> QED
  BY <1>6, <1>7, Parts, PTL

\* What a request's own calls of the registry leave is consistent.
LEMMA ResolveIInv ==
  ASSUME IInv, NEW r \in Request, Resolve(r)
  PROVE  IInv'
<1> DEFINE q == request[r]
           cur == source[q.org]
           got == GetSource(cur, q.seen)
<1>1. RowsOK /\ SourcesOK /\ RequestsOK
  BY Parts
<1>2. RequestOK(q) /\ q # Free
  BY <1>1 DEF RequestsOK, Resolve, Free
<1>3. q.org \in Org /\ q.seen \in Row /\ ChoiceOK(q) /\ stored \subseteq Version /\ Held(cur)
        /\ q.kind \in Kinds
  BY <1>1, <1>2 DEF RequestOK, RowsOK, SourcesOK
<1>4. RequestsOK'
  <2>1. RequestOK(Free) /\ (q.kind \in Writes => RequestOK([q EXCEPT !.pc = "write"]))
    BY <1>2, MovesOn DEF RequestOK
  <2> DEFINE new == IF q.kind \notin Writes \/ (q.kind \in {"seed", "legacy"} /\ ~Resolves(cur, q.seen))
                    THEN Free ELSE [q EXCEPT !.pc = "write"]
  <2>2. request' = [request EXCEPT ![r] = new]
    BY DEF Resolve
  <2>3. RequestOK(new)
    BY <2>1
  <2> QED
    BY <1>1, <2>2, <2>3, RequestStep
<1>5. SourcesOK'
  <2> DEFINE new == IF q.kind = "delete" THEN NoSource
                    ELSE IF q.kind \in {"activate", "mode"} \/ ~Resolves(cur, q.seen) THEN cur
                    ELSE IF q.kind = "plain" THEN got
                    ELSE IF q.kind # "recs" /\ Reloads(q, got) THEN LoadProject(got, q.choice)
                    ELSE WithRecs(got)
  <2>1. source' = [source EXCEPT ![q.org] = new]
    BY <1>3 DEF Resolve
  <2>2. Resolves(cur, q.seen) => SourceOK(got)
    BY <1>3, GetSourceOK
  <2>3. Resolves(cur, q.seen) => SourceOK(WithRecs(got))
    BY <2>2, ForOrgOK DEF WithRecs, Held, Loadable
  <2>4. q.kind \in {"seed", "legacy"} => SourceOK(LoadProject(got, q.choice))
    BY <1>3, SeedSourceOK DEF LoadProject, ChoiceOK
  <2>5. Held(new)
    BY <1>3, <2>2, <2>3, <2>4 DEF Held
  <2> QED
    BY <1>1, <1>3, <2>1, <2>5, SourceStep
<1>6. RowsOK'
  BY <1>1 DEF Resolve, RowsOK, Row, Slug
<1> QED
  BY <1>4, <1>5, <1>6, Parts, PTL

\* The UPDATE of a handler.
LEMMA FlushIInv ==
  ASSUME IInv, NEW r \in Request, Flush(r)
  PROVE  IInv'
<1> DEFINE q == request[r]
           new == IF org[q.org].exists THEN [q EXCEPT !.pc = "flushed"] ELSE Free
<1>1. RowsOK /\ SourcesOK /\ RequestsOK
  BY Parts
<1>2. RequestOK(q) /\ q # Free
  BY <1>1 DEF RequestsOK, Flush, Free
<1>3. RequestOK(new)
  <2>1. q.kind \in Writes
    BY <1>2 DEF RequestOK, ChoiceOK, Flush
  <2> QED
    BY <1>2, <2>1, MovesOn DEF RequestOK
<1>4. request' = [request EXCEPT ![r] = new]
  BY DEF Flush
<1>5. RequestsOK'
  BY <1>1, <1>3, <1>4, RequestStep
<1>6. RowsOK' /\ SourcesOK'
  BY <1>1 DEF Flush, RowsOK, SourcesOK, Held, SourceOK, SlugsApart, Seeds, Source, Slug, Row
<1> QED
  BY <1>5, <1>6, Parts, PTL

\* A handler that ends, whatever becomes of the rows.
LEMMA HandlerEnds ==
  ASSUME IInv, NEW r \in Request, request' = [request EXCEPT ![r] = Free], source' = source
  PROVE  SourcesOK' /\ RequestsOK'
<1>1. SourcesOK /\ RequestsOK
  BY Parts
<1>2. RequestsOK'
  BY <1>1, RequestStep DEF RequestOK
<1>3. SourcesOK'
  BY <1>1 DEF SourcesOK, Held, SourceOK, SlugsApart, Seeds, Source, Slug
<1> QED
  BY <1>2, <1>3

\* The commit of a handler's changes over whatever the row has become.
LEMMA CommitIInv ==
  ASSUME IInv, NEW r \in Request, Commit(r)
  PROVE  IInv'
<1> DEFINE q == request[r]
<1>1. RowsOK /\ SourcesOK /\ RequestsOK
  BY Parts
<1>2. RequestOK(q) /\ q # Free
  BY <1>1 DEF RequestsOK, Commit, Free
<1>3. q.org \in Org /\ q.seen \in Row /\ Target(q) \in Row
  BY <1>2, TargetInRow DEF RequestOK, ChoiceOK, Commit
<1>4. Merged(org[q.org], q.seen, Target(q)) \in Row
  BY <1>1, <1>3, MergedInRow DEF RowsOK
<1>5. org' \in [Org -> Row]
  BY <1>1, <1>4 DEF Commit, RowsOK
<1>6. Bundled \subseteq stored' /\ stored' \subseteq Version /\ stale' \in [Org -> BOOLEAN]
  BY <1>1, <1>3 DEF Commit, RowsOK
<1>7. RowsOK'
  BY <1>5, <1>6 DEF RowsOK, Row, Slug
<1>8. SourcesOK' /\ RequestsOK'
  BY HandlerEnds DEF Commit
<1> QED
  BY <1>7, <1>8, Parts, PTL

\* Projects saved and deleted.
LEMMA ProjectIInv ==
  ASSUME IInv, NEW v \in Version, SaveProject(v) \/ DeleteProject(v)
  PROVE  IInv'
<1>1. RowsOK /\ SourcesOK /\ RequestsOK
  BY Parts
<1>2. UNCHANGED <<org, source, request, stale>>
  BY DEF SaveProject, DeleteProject
<1>3. Bundled \subseteq stored' /\ stored' \subseteq Version
  BY <1>1 DEF SaveProject, DeleteProject, RowsOK
<1>4. RowsOK'
  BY <1>1, <1>2, <1>3 DEF RowsOK, Row, Slug
<1>5. SourcesOK'
  BY <1>1, <1>2 DEF SourcesOK, Held, SourceOK, SlugsApart, Seeds, Source, Slug
<1>6. RequestsOK'
  BY <1>1, <1>2 DEF RequestsOK, RequestOK, Handler, Free, ChoiceOK, Row, Seeds, Slug, Writes
<1> QED
  BY <1>4, <1>5, <1>6, Parts, PTL

\* The loops and the websockets of an organisation.
LEMMA BackgroundIInv ==
  ASSUME IInv, NEW o \in Org, Background(o)
  PROVE  IInv'
<1>1. RowsOK /\ SourcesOK /\ RequestsOK
  BY Parts
<1>2. Held(source[o])
  BY <1>1 DEF SourcesOK
<1>3. SourcesOK'
  <2>1. CASE Tick(o)
    <3>1. SourceOK([source[o] EXCEPT !.worked = TRUE])
      BY <1>2, <2>1 DEF Tick, Simulates, Held, SourceOK, Source
    <3>2. source' = [source EXCEPT ![o] = [source[o] EXCEPT !.worked = TRUE]]
      BY <2>1 DEF Tick
    <3> QED
      BY <1>1, <3>1, <3>2, SourceStep DEF Held
  <2>2. CASE Analytics(o) \/ Connect(o)
    <3>1. source' = [source EXCEPT ![o] = ForOrg(source[o], NoSlug)]
      BY <2>2 DEF Analytics, Connect, WithRecs
    <3>2. SourceOK(ForOrg(source[o], NoSlug))
      BY <1>2, ForOrgOK DEF Loadable
    <3> QED
      BY <1>1, <3>1, <3>2, SourceStep DEF Held
  <2> QED
    BY <2>1, <2>2 DEF Background
<1>4. UNCHANGED <<org, stored, request, stale>>
  BY DEF Background, Tick, Analytics, Connect
<1>5. RowsOK'
  BY <1>1, <1>4 DEF RowsOK, Row, Slug
<1>6. RequestsOK'
  BY <1>1, <1>4 DEF RequestsOK, RequestOK, Handler, Free, ChoiceOK, Row, Seeds, Slug, Writes
<1> QED
  BY <1>3, <1>5, <1>6, Parts, PTL

\* Failing handlers and restarts, and steps of something else.
LEMMA EndIInv ==
  ASSUME IInv, (\E r \in Request : Abort(r)) \/ Restart \/ UNCHANGED vars
  PROVE  IInv'
<1>1. RowsOK /\ SourcesOK /\ RequestsOK
  BY Parts
<1>2. RowsOK'
  BY <1>1 DEF RowsOK, Row, Slug, Abort, Restart, vars
<1>3. CASE \E r \in Request : Abort(r)
  <2>1. SourcesOK' /\ RequestsOK'
    BY <1>3, HandlerEnds DEF Abort
  <2> QED
    BY <1>2, <2>1, Parts, PTL
<1>4. CASE Restart
  <2>1. SourcesOK'
    BY <1>4 DEF Restart, SourcesOK, Held
  <2>2. RequestsOK'
    BY <1>4 DEF Restart, RequestsOK, RequestOK, Free
  <2> QED
    BY <1>2, <2>1, <2>2, Parts, PTL
<1>5. CASE UNCHANGED vars
  <2>1. SourcesOK'
    BY <1>1, <1>5 DEF vars, SourcesOK, Held, SourceOK, SlugsApart, Seeds, Source, Slug
  <2>2. RequestsOK'
    BY <1>1, <1>5 DEF vars, RequestsOK, RequestOK, Handler, Free, ChoiceOK, Row, Seeds, Slug, Writes
  <2> QED
    BY <1>2, <2>1, <2>2, Parts, PTL
<1> QED
  BY <1>3, <1>4, <1>5

-----------------------------------------------------------------------------
(* Theorems *)

\* The inductive invariant holds in every reachable state.
THEOREM Invariance == Spec => []IInv
<1>1. Init => IInv
  BY InitIInv
<1>2. IInv /\ [Next]_vars => IInv'
  <2> SUFFICES ASSUME IInv, [Next]_vars PROVE IInv'
    OBVIOUS
  <2>1. ASSUME NEW r \in Request, Handle(r) PROVE IInv'
    BY <2>1, ResolveIInv, FlushIInv, CommitIInv, EndIInv DEF Handle
  <2>2. ASSUME NEW r \in Request, NEW o \in Org, NEW kind \in Kind, Begin(r, o, kind) PROVE IInv'
    BY <2>2, BeginIInv
  <2>3. ASSUME NEW o \in Org, Background(o) PROVE IInv'
    BY <2>3, BackgroundIInv
  <2>4. ASSUME NEW v \in Version, SaveProject(v) \/ DeleteProject(v) PROVE IInv'
    BY <2>4, ProjectIInv
  <2>5. CASE Restart \/ UNCHANGED vars
    BY <2>5, EndIInv
  <2> QED
    BY <2>1, <2>2, <2>3, <2>4, <2>5 DEF Next
<1> QED
  BY <1>1, <1>2, PTL DEF Spec

\* Rows, sources and handlers are well formed.
THEOREM TypeCorrect == Spec => []TypeOK
<1>1. IInv => TypeOK
  BY DEF IInv
<1> QED
  BY <1>1, Invariance, PTL

\* However requests, loops, websockets, deletions and restarts interleave, a
\* source the registry holds for a version runs that version's document
\* (state/registry.py, for_org_at_version).
THEOREM SourceAlwaysRunsItsVersion == Spec => []SourceRunsItsVersion
<1>1. IInv => SourceRunsItsVersion
  BY DEF IInv, SourceOK, SourceRunsItsVersion
<1> QED
  BY <1>1, Invariance, PTL

\* A commit over the row its handler read writes that handler's choice.
LEMMA CommitIsOneChoice ==
  ASSUME IInv, NEW r \in Request, Commit(r), NEW o \in Org, ~stale'[o], ~stale[o] => OneChoice(o)
  PROVE  OneChoice(o)'
<1> DEFINE q == request[r]
           new == Merged(org[q.org], q.seen, Target(q))
<1>1. RowsOK /\ RequestsOK
  BY Parts
<1>2. RequestOK(q) /\ q # Free
  BY <1>1 DEF RequestsOK, Commit, Free
<1>3. q.org \in Org /\ q.seen \in Row /\ ChoiceOK(q) /\ q.kind \in Writes
  BY <1>2 DEF RequestOK, ChoiceOK, Commit
<1>4. ~stale[o]
  BY <1>1 DEF Commit, RowsOK
<1>5. CASE o # q.org
  <2>1. org'[o] = org[o]
    BY <1>1, <1>5 DEF Commit, RowsOK
  <2> QED
    BY <1>4, <2>1 DEF OneChoice, Seeds
<1>6. CASE o = q.org
  <2>1. q.seen = org[o]
    BY <1>1, <1>3, <1>6 DEF Commit, RowsOK
  <2>2. org'[o] = new
    BY <1>1, <1>3, <1>6 DEF Commit, RowsOK
  <2>3. DOMAIN org[o] = {"exists", "slug", "pin", "live"}
    BY <1>1 DEF RowsOK, Row
  <2>4. new.slug = Target(q).slug /\ new.pin = Target(q).pin
    BY <1>6, <2>1, <2>3 DEF Merged
  <2>5. CASE q.kind \in {"seed", "legacy"}
    <3>1. Target(q) = [q.seen EXCEPT !.slug = q.choice, !.pin = NoVersion]
      BY <2>5 DEF Target
    <3>2. Target(q).slug = q.choice /\ Target(q).pin = NoVersion
      BY <1>3, <3>1 DEF Row
    <3> QED
      BY <1>3, <2>2, <2>4, <2>5, <3>2 DEF OneChoice, ChoiceOK, Seeds
  <2>6. CASE q.kind = "activate"
    <3>1. Target(q) = [q.seen EXCEPT !.slug = SlugOf[q.choice], !.pin = q.choice]
      BY <2>6 DEF Target
    <3>2. Target(q).slug = SlugOf[q.choice] /\ Target(q).pin = q.choice
      BY <1>3, <3>1 DEF Row
    <3> QED
      BY <1>3, <2>2, <2>4, <2>6, <3>2 DEF OneChoice, ChoiceOK
  <2>7. CASE q.kind \in {"mode", "delete"}
    <3>1. Target(q).slug = q.seen.slug /\ Target(q).pin = q.seen.pin
      <4>1. CASE q.kind = "mode"
        <5>1. Target(q) = [q.seen EXCEPT !.live = q.choice]
          BY <4>1 DEF Target
        <5> QED
          BY <1>3, <5>1 DEF Row
      <4>2. CASE q.kind = "delete"
        <5>1. Target(q) = [q.seen EXCEPT !.exists = FALSE]
          BY <4>2 DEF Target
        <5> QED
          BY <1>3, <5>1 DEF Row
      <4> QED
        BY <2>7, <4>1, <4>2
    <3> QED
      BY <1>4, <2>1, <2>2, <2>4, <3>1 DEF OneChoice, Seeds
  <2> QED
    BY <1>3, <2>5, <2>6, <2>7 DEF Writes
<1> QED
  BY <1>5, <1>6

\* Slug and pin are the two columns of one choice as long as no handler has
\* written over a row that had changed under it (api/routes.py,
\* api/projects.py: two assignments on a row read earlier).
THEOREM UnracedChoiceIsAlwaysOne == Spec => []UnracedChoiceIsOne
<1>1. Init => UnracedChoiceIsOne
  BY DEF Init, UnracedChoiceIsOne, OneChoice
<1>2. IInv /\ UnracedChoiceIsOne /\ [Next]_vars => UnracedChoiceIsOne'
  <2> SUFFICES ASSUME IInv, UnracedChoiceIsOne, [Next]_vars PROVE UnracedChoiceIsOne'
    OBVIOUS
  <2>1. CASE \E r \in Request : Commit(r)
    BY <2>1, CommitIsOneChoice DEF UnracedChoiceIsOne
  <2>2. CASE UNCHANGED <<org, stale>>
    BY <2>2 DEF UnracedChoiceIsOne, OneChoice, Seeds
  <2>3. (\E r \in Request : Commit(r)) \/ UNCHANGED <<org, stale>>
    BY DEF Next, vars, Handle, Resolve, Flush, Abort, Begin, Background, Tick, Analytics, Connect,
           SaveProject, DeleteProject, Restart
  <2> QED
    BY <2>1, <2>2, <2>3
<1> QED
  BY <1>1, <1>2, Invariance, PTL DEF Spec

\* A request that read the current choice is served the pinned version, live
\* or simulated, whatever the registry held before (api/deps.py, get_source).
THEOREM FreshRequestIsServed == Spec => FreshRequestSeesChoice
<1>1. ASSUME IInv, NEW r \in Request, Resolve(r), request[r].kind = "plain",
             Pinned(request[r].seen), SlugsApart
      PROVE  /\ source'[request[r].org].doc = request[r].seen.pin
             /\ source'[request[r].org].live = request[r].seen.live
  <2> DEFINE q == request[r]
             cur == source[q.org]
             pin == q.seen.pin
  <2>1. RowsOK /\ SourcesOK /\ RequestsOK
    BY <1>1, Parts
  <2>2. RequestOK(q) /\ q # Free
    BY <1>1, <2>1 DEF RequestsOK, Resolve, Free
  <2>3. q.org \in Org /\ q.seen \in Row /\ Held(cur) /\ pin \in Version /\ pin # NoVersion
    BY <1>1, <2>1, <2>2 DEF RequestOK, RowsOK, SourcesOK, Pinned
  <2>4. source'[q.org] = GetSource(cur, q.seen)
    BY <1>1, <2>1, <2>3 DEF Resolve, Resolves, SourcesOK
  <2>5. q.seen.live \in BOOLEAN
    BY <2>3 DEF Row
  <2>6. CASE q.seen.live
    <3>1. GetSource(cur, q.seen) = ForOrgLive(cur, pin, pin)
      BY <1>1, <2>6 DEF GetSource
    <3>2. LiveSource(pin, pin).doc = pin /\ LiveSource(pin, pin).live = TRUE
      BY DEF LiveSource, Engine
    <3>3. cur # NoSource /\ cur.live /\ cur.version = pin => cur.doc = pin /\ cur.live = TRUE
      BY <1>1, <2>3 DEF Held, SourceOK, Source
    <3>4. ForOrgLive(cur, pin, pin).doc = pin /\ ForOrgLive(cur, pin, pin).live = TRUE
      BY <3>2, <3>3 DEF ForOrgLive
    <3> QED
      BY <2>4, <2>5, <2>6, <3>1, <3>4
  <2>7. CASE ~q.seen.live
    <3>1. GetSource(cur, q.seen) = ForOrgAtVersion(cur, pin)
      BY <1>1, <2>7 DEF GetSource
    <3>2. SourceOK(ForOrgAtVersion(cur, pin))
      BY <2>3, ForOrgAtVersionOK
    <3>3. ForOrgAtVersion(cur, pin).version = pin /\ ForOrgAtVersion(cur, pin).live = FALSE
      BY <2>3 DEF ForOrgAtVersion, Engine, Simulates, Held, SourceOK, Source
    <3>4. ForOrgAtVersion(cur, pin).doc = pin
      BY <1>1, <2>3, <3>2, <3>3 DEF SourceOK
    <3> QED
      BY <2>4, <2>5, <2>7, <3>1, <3>3, <3>4
  <2> QED
    BY <2>6, <2>7
<1>2. IInv /\ [Next]_vars =>
        [\A r \in Request :
           LET q == request[r] IN
           Resolve(r) /\ q.kind = "plain" /\ q.seen = org[q.org] /\ Pinned(q.seen) /\ SlugsApart
             => /\ source'[q.org].doc = q.seen.pin
                /\ source'[q.org].live = q.seen.live]_vars
  BY <1>1
<1> QED
  BY <1>2, Invariance, PTL DEF Spec, FreshRequestSeesChoice

\* The registry keeps a simulation that runs what the row says (state/registry.py).
LEMMA GetSourceKeeps ==
  ASSUME NEW o \in Org, SourcesOK, Serves(o), SlugsApart
  PROVE  GetSource(source[o], org[o])
           \in {source[o], [source[o] EXCEPT !.version = org[o].pin]}
<1> DEFINE cur == source[o]
           pin == org[o].pin
<1>1. Simulates(cur) /\ ~org[o].live
  BY DEF Serves
<1>2. SourceOK(cur)
  BY <1>1 DEF SourcesOK, Held, Simulates
<1>3. CASE Pinned(org[o])
  <2>1. cur.doc = pin
    BY <1>3 DEF Serves
  <2>2. cur.slug = SlugOf[pin] /\ (cur.version = NoVersion \/ cur.version = pin)
    BY <1>2, <2>1 DEF SourceOK
  <2> QED
    BY <1>1, <1>3, <2>2 DEF GetSource, ForOrgAtVersion
<1>4. CASE ~Pinned(org[o])
  BY <1>1, <1>4 DEF GetSource, ForOrg
<1> QED
  BY <1>3, <1>4

\* While a choice stands and nobody holds an old one, no request, loop or
\* websocket rebuilds the simulation that runs it (api/routes.py:106).
THEOREM ProgressIsAlwaysKept == Spec => ProgressIsKept
<1> DEFINE Kept(o) == source'[o] = NoSource \/ (source'[o].worked /\ source'[o].doc = source[o].doc)
<1>1. ASSUME IInv, Next, NEW o \in Org,
             Serves(o), source[o].worked, Settled(o), SlugsApart
      PROVE  Kept(o)
  <2>1. SourcesOK /\ RequestsOK
    BY <1>1, Parts
  <2>2. SourceOK(source[o]) /\ Simulates(source[o])
    BY <1>1, <2>1 DEF Serves, SourcesOK, Held, Simulates
  <2>3. ForOrg(source[o], NoSlug) = source[o]
    BY <2>2 DEF ForOrg
  <2>4. ASSUME NEW r \in Request, Resolve(r), request[r].org = o
        PROVE  Kept(o)
    <3> DEFINE q == request[r]
               got == GetSource(source[o], q.seen)
    <3>1. q.kind \in {"plain", "recs"} /\ q.seen = org[o]
      BY <1>1, <2>4 DEF Settled, Resolve
    <3>2. got \in {source[o], [source[o] EXCEPT !.version = org[o].pin]}
      BY <1>1, <2>1, <3>1, GetSourceKeeps
    <3>3. got.worked /\ got.doc = source[o].doc /\ Simulates(got)
      <4>1. CASE got = source[o]
        BY <1>1, <2>2, <4>1
      <4>2. CASE got = [source[o] EXCEPT !.version = org[o].pin] /\ got # source[o]
        <5>1. Pinned(org[o])
          BY <1>1, <2>2, <3>1, <4>2 DEF GetSource, Serves, ForOrg
        <5>2. org[o].pin \in Version
          BY <1>1, <5>1, Parts DEF RowsOK, Pinned
        <5>3. got \in Source
          BY <2>2, <4>2, <5>2 DEF SourceOK, Source
        <5>4. got # NoSource
          BY <5>3, NoSourceAssumption
        <5> QED
          BY <1>1, <2>2, <4>2, <5>4 DEF SourceOK, Source, Simulates
      <4> QED
        BY <3>2, <4>1, <4>2
    <3>4. WithRecs(got) = got
      BY <3>3 DEF WithRecs, ForOrg
    <3>5. source'[o] \in {source[o], got}
      BY <2>1, <2>4, <3>1, <3>4 DEF Resolve, SourcesOK
    <3> QED
      BY <1>1, <3>3, <3>5
  <2>5. ASSUME NEW r \in Request, Resolve(r), request[r].org # o
        PROVE  Kept(o)
    BY <1>1, <2>1, <2>5 DEF Resolve, SourcesOK
  <2>6. ASSUME NEW p \in Org, Background(p)
        PROVE  Kept(o)
    <3>1. CASE Tick(p)
      BY <1>1, <2>1, <2>2, <3>1 DEF Tick, SourcesOK, SourceOK, Source
    <3>2. CASE Analytics(p) \/ Connect(p)
      BY <1>1, <2>1, <2>3, <3>2 DEF Analytics, Connect, WithRecs, SourcesOK
    <3> QED
      BY <2>6, <3>1, <3>2 DEF Background
  <2>7. CASE Restart
    BY <2>7 DEF Restart
  <2>8. CASE UNCHANGED source
    BY <1>1, <2>8
  <2>9. \/ \E r \in Request : Resolve(r)
        \/ \E p \in Org : Background(p)
        \/ Restart \/ UNCHANGED source
    BY <1>1 DEF Next, Handle, Flush, Commit, Abort, Begin, SaveProject, DeleteProject
  <2> QED
    BY <2>4, <2>5, <2>6, <2>7, <2>8, <2>9
<1>2. IInv /\ [Next]_vars =>
        [\A o \in Org :
           Serves(o) /\ source[o].worked /\ Settled(o) /\ SlugsApart /\ org'[o] = org[o] /\ stored' = stored
             => source'[o] = NoSource \/ (source'[o].worked /\ source'[o].doc = source[o].doc)]_vars
  BY <1>1
<1> QED
  BY <1>2, Invariance, PTL DEF Spec, ProgressIsKept
=============================================================================
