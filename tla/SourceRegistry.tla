---------------------------- MODULE SourceRegistry ----------------------------
(***************************************************************************)
(* Which site an organisation is shown: its choice in the database (a      *)
(* pinned project version, a bundled seed, the live mode) and the source   *)
(* the process holds for it in memory (state/registry.py), which request   *)
(* handlers, background loops and websockets look up, build and replace    *)
(* (api/deps.py, api/routes.py, api/projects.py, main.py).                 *)
(*                                                                         *)
(* A handler reads the organisation's row first and uses it after further  *)
(* awaits; a call of the registry has no await in it and is one step.      *)
(***************************************************************************)
EXTENDS Integers, FiniteSets, TLC

CONSTANTS
  Org,        \* organisations
  Version,    \* project versions; an id is the hash of a document, so also the documents
  Bundled,    \* versions that are the documents of the bundled seeds
  SlugOf,     \* SlugOf[v]: the slug in document v
  OwnerOf,    \* OwnerOf[v]: the organisation whose project has the version v
  Default,    \* default_project_id
  NoSlug, NoVersion, NoSource,
  Request,    \* request handlers in progress at a time
  Kind        \* bound: the kinds of request in play

Kinds == {"plain", "recs", "seed", "legacy", "activate", "mode", "delete"}
Slug == {SlugOf[v] : v \in Version}
Seeds == {SlugOf[v] : v \in Bundled}

ASSUME BundledAssumption ==
  /\ Bundled \subseteq Version /\ DOMAIN SlugOf = Version
  /\ \A v, w \in Bundled : SlugOf[v] = SlugOf[w] => v = w
ASSUME DefaultAssumption == Default \in Seeds
ASSUME OwnerAssumption == OwnerOf \in [Version \ Bundled -> Org]
ASSUME MarkerAssumption == NoSlug \notin Slug /\ NoVersion \notin Version
ASSUME KindAssumption == Kind \subseteq Kinds

VARIABLES
  org,      \* org[o]: the row in the database
  stored,   \* versions that have a row
  source,   \* source[o]: what the registry holds
  request,  \* request[r]: a handler
  stale     \* history: o has been written by a handler whose copy was out of date

vars == <<org, stored, source, request, stale>>

Free == [pc |-> "free"]

Init ==
  /\ org = [o \in Org |-> [exists |-> TRUE, slug |-> NoSlug, pin |-> NoVersion, live |-> FALSE]]
  /\ stored = Bundled
  /\ source = [o \in Org |-> NoSource]
  /\ request = [r \in Request |-> Free]
  /\ stale = [o \in Org |-> FALSE]

-----------------------------------------------------------------------------
(* The registry: each operator is what it holds for the organisation after *)
(* the call, cur being what it held before.                                *)

SeedOf(slug) == CHOOSE v \in Bundled : SlugOf[v] = slug

\* A simulation that has not run yet, and a live source.
Engine(slug, version, doc) ==
  [live |-> FALSE, slug |-> slug, version |-> version, doc |-> doc, worked |-> FALSE]
LiveSource(version, doc) == [Engine(SlugOf[doc], version, doc) EXCEPT !.live = TRUE]

Simulates(cur) == cur # NoSource /\ ~cur.live

\* A slug no seed has is an unknown project: SimulationEngine raises.
Loadable(cur, slug) == Simulates(cur) \/ slug \in Seeds \cup {NoSlug}

ForOrg(cur, slug) ==
  IF Simulates(cur) THEN cur
  ELSE LET s == IF slug = NoSlug THEN Default ELSE slug IN Engine(s, NoVersion, SeedOf(s))

\* Mutants of ForOrgAtVersion: an engine of the same slug is never tagged; an
\* untagged engine is taken whatever it runs.
ForOrgAtVersionUntagged(cur, v) ==
  IF Simulates(cur) /\ cur.version = v THEN cur ELSE Engine(SlugOf[v], v, v)

ForOrgAtVersionTagged(cur, v) ==
  IF Simulates(cur) /\ cur.version = v THEN cur
  ELSE IF Simulates(cur) /\ cur.version = NoVersion THEN [cur EXCEPT !.version = v]
  ELSE Engine(SlugOf[v], v, v)

ForOrgAtVersion(cur, v) ==
  IF Simulates(cur) /\ cur.version = v THEN cur
  ELSE IF Simulates(cur) /\ cur.version = NoVersion /\ cur.slug = SlugOf[v]
       THEN [cur EXCEPT !.version = v]
  ELSE Engine(SlugOf[v], v, v)

ForOrgLive(cur, version, doc) ==
  IF cur # NoSource /\ cur.live /\ cur.slug = SlugOf[doc] /\ cur.version = version THEN cur
  ELSE LiveSource(version, doc)

\* Mutant of LoadProject: the tag of the old document stays.
LoadProjectKeepingTag(cur, slug) == Engine(slug, cur.version, SeedOf(slug))

LoadProject(cur, slug) == Engine(slug, NoVersion, SeedOf(slug))

-----------------------------------------------------------------------------
(* get_source *)

Pinned(row) == row.pin # NoVersion /\ row.pin \in stored

\* The slug a live source falls back to.
LiveSlug(row) == IF row.slug = NoSlug THEN Default ELSE row.slug

GetSource(cur, row) ==
  IF row.live /\ Pinned(row) THEN ForOrgLive(cur, row.pin, row.pin)
  ELSE IF row.live /\ LiveSlug(row) \in Seeds
       THEN ForOrgLive(cur, NoVersion, SeedOf(LiveSlug(row)))
  ELSE IF Pinned(row) THEN ForOrgAtVersion(cur, row.pin)
  ELSE ForOrg(cur, row.slug)

\* get_source finds something to return: not so only when neither a version
\* nor a seed is left and no simulation is running.
Resolves(cur, row) ==
  Pinned(row) \/ (row.live /\ LiveSlug(row) \in Seeds) \/ Loadable(cur, row.slug)

\* get_rec_service: for_org once more, without a slug.
WithRecs(cur) == ForOrg(cur, NoSlug)

-----------------------------------------------------------------------------
(* Request handlers *)

Writes == {"seed", "legacy", "activate", "mode", "delete"}

\* What a request may ask for: a seed, a version (of the organisation's own
\* projects or a template; clients send the version of the project they name),
\* or a mode.
Choices(o, kind) ==
  CASE kind \in {"seed", "legacy"} -> Seeds
    [] kind = "activate" -> {v \in stored : v \in Bundled \/ OwnerOf[v] = o}
    [] kind = "mode" -> BOOLEAN
    [] OTHER -> {NoSlug}

\* Authentication and the read of the organisation's row (and, to activate,
\* of the project and the version).
Begin(r, o, kind) ==
  /\ request[r].pc = "free" /\ org[o].exists
  /\ \E choice \in Choices(o, kind) :
       request' = [request EXCEPT ![r] =
         [pc |-> "read", org |-> o, kind |-> kind, choice |-> choice, seen |-> org[o]]]
  /\ UNCHANGED <<org, stored, source, stale>>

\* The row as the handler wants it.
Target(q) ==
  CASE q.kind \in {"seed", "legacy"} -> [q.seen EXCEPT !.slug = q.choice, !.pin = NoVersion]
    [] q.kind = "activate" -> [q.seen EXCEPT !.slug = SlugOf[q.choice], !.pin = q.choice]
    [] q.kind = "mode"     -> [q.seen EXCEPT !.live = q.choice]
    [] q.kind = "delete"   -> [q.seen EXCEPT !.exists = FALSE]

\* load-seed leaves the seed alone if it is running, the old route does not.
Reloads(q, cur) == Simulates(cur) /\ (q.kind = "legacy" \/ cur.slug # q.choice)

\* The calls of the registry, and the end of a handler that only reads.
Resolve(r) ==
  LET q == request[r]
      got == GetSource(source[q.org], q.seen)
      both == WithRecs(got)
  IN /\ q.pc = "read"
     /\ request' = [request EXCEPT ![r] =
          IF q.kind \notin Writes \/ (q.kind \in {"seed", "legacy"} /\ ~Resolves(source[q.org], q.seen))
          THEN Free ELSE [@ EXCEPT !.pc = "write"]]
     /\ source' = [source EXCEPT ![q.org] =
          IF q.kind = "delete" THEN NoSource
          ELSE IF q.kind \in {"activate", "mode"} \/ ~Resolves(@, q.seen) THEN @
          ELSE IF q.kind = "plain" THEN got
          ELSE IF q.kind # "recs" /\ Reloads(q, got) THEN LoadProject(got, q.choice)
          ELSE both]
     /\ UNCHANGED <<org, stored, stale>>

\* The UPDATE waits for the row and sets the columns that differ from the
\* handler's copy; a row deleted meanwhile is an error.
Flush(r) ==
  LET q == request[r]
  IN /\ q.pc = "write"
     /\ \A p \in Request : request[p].pc = "flushed" => request[p].org # q.org
     /\ request' = [request EXCEPT ![r] =
          IF org[q.org].exists THEN [@ EXCEPT !.pc = "flushed"] ELSE Free]
     /\ UNCHANGED <<org, stored, source, stale>>

\* The columns of the row a handler has changed, written over the row there is.
Merged(row, seen, target) ==
  [c \in DOMAIN row |-> IF target[c] = seen[c] THEN row[c] ELSE target[c]]

\* Mutant of Commit: only the pin is written.
CommitPin(r) ==
  LET q == request[r]
  IN /\ q.pc = "flushed"
     /\ org' = [org EXCEPT ![q.org] = [Merged(@, q.seen, Target(q)) EXCEPT !.slug = org[q.org].slug]]
     /\ stored' = IF org'[q.org].exists THEN stored
                  ELSE {v \in stored : v \in Bundled \/ OwnerOf[v] # q.org}
     /\ stale' = [stale EXCEPT ![q.org] = @ \/ q.seen # org[q.org]]
     /\ request' = [request EXCEPT ![r] = Free]
     /\ UNCHANGED source

\* An organisation's projects and their versions go with it.
Commit(r) ==
  LET q == request[r]
  IN /\ q.pc = "flushed"
     /\ org' = [org EXCEPT ![q.org] = Merged(@, q.seen, Target(q))]
     /\ stored' = IF org'[q.org].exists THEN stored
                  ELSE {v \in stored : v \in Bundled \/ OwnerOf[v] # q.org}
     /\ stale' = [stale EXCEPT ![q.org] = @ \/ q.seen # org[q.org]]
     /\ request' = [request EXCEPT ![r] = Free]
     /\ UNCHANGED source

\* The handler fails or its transaction does.
Abort(r) ==
  /\ request[r].pc # "free"
  /\ request' = [request EXCEPT ![r] = Free]
  /\ UNCHANGED <<org, stored, source, stale>>

-----------------------------------------------------------------------------
(* Projects, loops, websockets, the process *)

SaveProject(v) ==
  /\ v \in Version \ (stored \cup Bundled)
  /\ org[OwnerOf[v]].exists
  /\ stored' = stored \cup {v}
  /\ UNCHANGED <<org, source, request, stale>>

DeleteProject(v) ==
  /\ v \in stored \ Bundled
  /\ stored' = stored \ {v}
  /\ UNCHANGED <<org, source, request, stale>>

\* The simulation loop; LiveSources are left alone.
Tick(o) ==
  /\ Simulates(source[o])
  /\ source' = [source EXCEPT ![o].worked = TRUE]
  /\ UNCHANGED <<org, stored, request, stale>>

\* The analytics loop asks for the recommendation service of every source.
Analytics(o) ==
  /\ source[o] # NoSource
  /\ source' = [source EXCEPT ![o] = WithRecs(@)]
  /\ UNCHANGED <<org, stored, request, stale>>

\* A websocket takes what the registry has, or has it build the default.
Connect(o) ==
  /\ org[o].exists
  /\ source' = [source EXCEPT ![o] = ForOrg(@, NoSlug)]
  /\ UNCHANGED <<org, stored, request, stale>>

Restart ==
  /\ source' = [o \in Org |-> NoSource]
  /\ request' = [r \in Request |-> Free]
  /\ UNCHANGED <<org, stored, stale>>

Handle(r) == Resolve(r) \/ Flush(r) \/ Commit(r) \/ Abort(r)
Background(o) == Tick(o) \/ Analytics(o) \/ Connect(o)

Next ==
  \/ \E r \in Request : Handle(r) \/ \E o \in Org, kind \in Kind : Begin(r, o, kind)
  \/ \E o \in Org : Background(o)
  \/ \E v \in Version : SaveProject(v) \/ DeleteProject(v)
  \/ Restart

Spec == Init /\ [][Next]_vars

-----------------------------------------------------------------------------
(* Properties *)

Row == [exists: BOOLEAN, slug: Slug \cup {NoSlug}, pin: Version \cup {NoVersion}, live: BOOLEAN]
Source == [live: BOOLEAN, slug: Slug, version: Version \cup {NoVersion}, doc: Version,
           worked: BOOLEAN]

ASSUME NoSourceAssumption == NoSource \notin Source

TypeOK ==
  /\ org \in [Org -> Row]
  /\ Bundled \subseteq stored /\ stored \subseteq Version
  /\ \A o \in Org : source[o] = NoSource \/ source[o] \in Source
  /\ \A r \in Request : request[r] = Free \/
       (request[r].pc \in {"read", "write", "flushed"} /\ request[r].org \in Org
          /\ request[r].kind \in Kinds /\ request[r].seen \in Row)
  /\ stale \in [Org -> BOOLEAN]

\* The premise of tagging: no organisation's project has the slug of a seed.
SlugsApart == \A v \in Version \ Bundled : SlugOf[v] \notin Seeds

\* What a handler was asked for fits its kind, and only those that write go on.
ChoiceOK(q) ==
  /\ q.kind \in {"seed", "legacy"} => q.choice \in Seeds
  /\ q.kind = "activate" => q.choice \in Version
  /\ q.kind = "mode" => q.choice \in BOOLEAN
  /\ q.pc # "read" => q.kind \in Writes

Handler(q) ==
  [pc |-> q.pc, org |-> q.org, kind |-> q.kind, choice |-> q.choice, seen |-> q.seen]

\* A source bears the slug of the document it runs, and one without a version
\* runs a seed.
SourceOK(s) ==
  /\ s \in Source /\ s.slug = SlugOf[s.doc]
  /\ IF s.version = NoVersion THEN s.doc \in Bundled ELSE SlugsApart => s.doc = s.version

\* The inductive invariant: sources are consistent, handlers carry rows and
\* choices of their kind.
IInv ==
  /\ TypeOK
  /\ source = [o \in Org |-> source[o]] /\ request = [r \in Request |-> request[r]]
  /\ \A o \in Org : source[o] = NoSource \/ SourceOK(source[o])
  /\ \A r \in Request : request[r] = Free \/
       (request[r] = Handler(request[r]) /\ ChoiceOK(request[r]))

\* A source that carries a version runs that version, through taggings, seed
\* loads and replacements in any order (for_org_at_version: an engine with the
\* slug and no tag "is, by construction, running the same document").
SourceRunsItsVersion ==
  SlugsApart =>
    \A o \in Org : source[o] # NoSource /\ source[o].version # NoVersion
                     => source[o].doc = source[o].version

\* A handler that read the current choice gets the pinned version, or the
\* live view of it, whatever ran before.
FreshRequestSeesChoice ==
  [][\A r \in Request :
       LET q == request[r] IN
       Resolve(r) /\ q.kind = "plain" /\ q.seen = org[q.org] /\ Pinned(q.seen) /\ SlugsApart
         => /\ source'[q.org].doc = q.seen.pin
            /\ source'[q.org].live = q.seen.live]_vars

\* Only readers with an up-to-date copy are in progress for o.
Settled(o) ==
  \A r \in Request : request[r].pc = "free" \/ request[r].org # o \/
    (request[r].kind \in {"plain", "recs"} /\ request[r].seen = org[o])

\* The simulation of o runs what o has chosen.
Serves(o) ==
  /\ org[o].exists /\ ~org[o].live /\ Simulates(source[o])
  /\ IF Pinned(org[o]) THEN source[o].doc = org[o].pin
     ELSE org[o].pin = NoVersion /\ source[o].slug = org[o].slug /\ source[o].doc \in Bundled

\* While the choice stands and nobody holds an old one, the simulation that
\* runs it goes on: its day is never lost to a rebuild (routes.py, load-seed:
\* "I clicked the active project and lost my progress").
ProgressIsKept ==
  [][\A o \in Org :
       Serves(o) /\ source[o].worked /\ Settled(o) /\ SlugsApart /\ org'[o] = org[o] /\ stored' = stored
         => source'[o] = NoSource \/ (source'[o].worked /\ source'[o].doc = source[o].doc)]_vars

OneChoice(o) ==
  IF org[o].pin = NoVersion THEN org[o].slug \in Seeds \cup {NoSlug}
  ELSE org[o].slug = SlugOf[org[o].pin]

\* Slug and pin are the two columns of one choice, as long as no handler
\* wrote over a row that had changed under it.
UnracedChoiceIsOne == \A o \in Org : ~stale[o] => OneChoice(o)

\* Slug and pin are always the two columns of one choice (models.py: "a
\* "swap project for this org" is one atomic UPDATE").
ChoiceIsOne == \A o \in Org : OneChoice(o)

\* An organisation in live mode is not put back on a simulation (models.py:
\* "the org's dashboard is driven by a `LiveSource` ... instead of the
\* `SimulationEngine`").
LiveStaysLive ==
  [][\A o \in Org :
       org[o].live /\ source[o] # NoSource /\ source[o].live /\ Settled(o) /\ org'[o] = org[o]
         => source'[o] = NoSource \/ source'[o].live]_vars
=============================================================================
