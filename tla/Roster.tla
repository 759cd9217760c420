-------------------------------- MODULE Roster --------------------------------
(***************************************************************************)
(* Which collectors a crawl runs: the descriptors under config/oems, the   *)
(* scope of a request and the plan run_all makes of both.                  *)
(*                                                                         *)
(* The descriptors are read twice for a selection: when the request is     *)
(* answered and again when its crawl begins.  The operator may edit them   *)
(* in between, and while the crawl runs on what it has loaded.             *)
(***************************************************************************)
EXTENDS Naturals, FiniteSets

CONSTANTS
  Files,     \* descriptors, one per file
  MakerOf,   \* MakerOf[f]: the manufacturer that file f is about
  Later,     \* Later[f]: files that are loaded after f
  Ids,       \* source ids
  Descriptors, \* what a file may hold, besides nonsense
  Broken,    \* a file that does not validate
  NoCrawl,   \* no crawl under way
  MaxEdits   \* bound: edits of a descriptor

Entries == [id : Ids, routine : BOOLEAN, enabled : BOOLEAN]

\* The crawls under way: asked for, then running on what they have loaded.
Requests == [by : {"routine", "selected", "all", "source"}, ids : SUBSET Ids,
             force : BOOLEAN, step : {"asked", "running"}]

ASSUME RosterAssumption ==
  /\ Descriptors \subseteq SUBSET Entries
  /\ \A d \in Descriptors : \A e, g \in d : e.id = g.id => e = g
  /\ Later \in [Files -> SUBSET Files]
  /\ Broken \notin Descriptors /\ NoCrawl \notin Requests
  /\ MaxEdits \in Nat

VARIABLES
  disk,      \* disk[f]: what is in file f
  edits,
  crawl,     \* the crawl under way: who asked for what, NoCrawl without one
  loaded,    \* the sources it has loaded
  plan,      \* ids it has planned and not come to
  crawled, skipped, \* ids it has crawled, and passed over as crawled lately
  recent,    \* ids whose last good run is within their min_interval
  visible,   \* rows of manufacturers
  edited     \* a descriptor was edited between the request and the load

crawlVars == <<crawl, loaded, plan, crawled, skipped, edited>>
rosterVars == <<disk, edits, crawlVars, recent, visible>>

IdsOf(entries) == {e.id : e \in entries}

---------------------------------------------------------------------------
(* load_oem_configs.  A manufacturer named by two files has the sources of  *)
(* the later one.                                                           *)

Shadowed(f) == \E g \in Later[f] : MakerOf[g] = MakerOf[f]

DuplicateId == \E f \in Files : \E g \in Later[f] : IdsOf(disk[f]) \cap IdsOf(disk[g]) # {}

Loads == (\A f \in Files : disk[f] # Broken) /\ ~DuplicateId

Loaded == UNION {disk[f] : f \in {h \in Files : ~Shadowed(h)}}

Enabled(entries) == {e \in entries : e.enabled}
Routine(entries) == {e \in Enabled(entries) : e.routine}

---------------------------------------------------------------------------
RosterInit ==
  /\ disk \in [Files -> Descriptors] /\ edits = 0
  /\ crawl = NoCrawl /\ loaded = {} /\ plan = {} /\ crawled = {} /\ skipped = {}
  /\ edited = FALSE
  /\ recent = {} /\ visible = {}

Edit(f) ==
  /\ edits < MaxEdits /\ edits' = edits + 1
  /\ disk' \in {[disk EXCEPT ![f] = d] : d \in Descriptors \cup {Broken}}
  /\ edited' = (edited \/ (crawl # NoCrawl /\ crawl.step = "asked"))
  /\ UNCHANGED <<crawl, loaded, plan, crawled, skipped, recent, visible>>

Ask(by, ids, force) ==
  /\ crawl = NoCrawl
  /\ crawl' = [by |-> by, ids |-> ids, force |-> force, step |-> "asked"]
  /\ edited' = FALSE
  /\ UNCHANGED <<disk, edits, loaded, plan, crawled, skipped, recent, visible>>

\* POST /api/crawl without ids: the routine default, as a mode.
PostRoutine(force) == Ask("routine", {}, force)

\* POST /api/crawl with ids: each must be known and enabled now.
PostSelection(ids, force) ==
  /\ ids # {} /\ Loads /\ ids \subseteq IdsOf(Enabled(Loaded))
  /\ Ask("selected", ids, force)

\* `oem-radar run`, with or without --source, which is not looked up.
RunFromTerminal(force) ==
  \/ Ask("all", {}, force)
  \/ \E s \in Ids : Ask("source", {s}, force)

InScope(e) ==
  CASE crawl.by = "all" -> TRUE
    [] crawl.by = "routine" -> e.routine
    [] crawl.by \in {"selected", "source"} -> e.id \in crawl.ids

\* Mutant of Planned: the ids of the request stand for themselves.
PlannedAsAsked ==
  IF crawl.by = "selected" THEN crawl.ids \cap IdsOf(Loaded) ELSE {e.id : e \in {g \in Enabled(Loaded) : InScope(g)}}

\* The sources run_all will come to.
Planned == {e.id : e \in {g \in Enabled(Loaded) : InScope(g)}}

EndCrawl ==
  /\ crawl' = NoCrawl /\ loaded' = {} /\ plan' = {} /\ crawled' = {} /\ skipped' = {}
  /\ edited' = FALSE

NothingRoutine == crawl.by = "routine" /\ Routine(Loaded) = {}

\* The descriptors do not load, or none of them is routine.
Refuse ==
  /\ crawl # NoCrawl /\ crawl.step = "asked"
  /\ Loads => NothingRoutine
  /\ EndCrawl
  /\ UNCHANGED <<disk, edits, recent, visible>>

Visible == visible \cup {MakerOf[f] : f \in Files}

\* Every configured manufacturer is registered, those without an enabled
\* source too.
Load ==
  /\ crawl # NoCrawl /\ crawl.step = "asked"
  /\ Loads /\ ~NothingRoutine
  /\ crawl' = [crawl EXCEPT !.step = "running"]
  /\ loaded' = Loaded /\ plan' = Planned
  /\ visible' = Visible
  /\ UNCHANGED <<disk, edits, crawled, skipped, edited, recent>>

Due(s) == crawl.force \/ s \notin recent

SkipSource(s) ==
  /\ s \in plan /\ ~Due(s)
  /\ plan' = plan \ {s} /\ skipped' = skipped \cup {s}
  /\ UNCHANGED <<disk, edits, crawl, loaded, crawled, edited, recent, visible>>

\* It ends well or it fails; the next source is crawled all the same.
CrawlSource(s) ==
  /\ s \in plan /\ Due(s)
  /\ plan' = plan \ {s} /\ crawled' = crawled \cup {s}
  /\ recent' \in {recent, recent \cup {s}}
  /\ UNCHANGED <<disk, edits, crawl, loaded, skipped, edited, visible>>

Ended == crawl # NoCrawl /\ crawl.step = "running" /\ plan = {}

\* It is over, or its process dies on the way.
LeaveCrawl ==
  /\ crawl # NoCrawl /\ crawl.step = "running"
  /\ EndCrawl
  /\ UNCHANGED <<disk, edits, recent, visible>>

\* A dashboard is opened.
SyncBeforeServe ==
  /\ Loads /\ visible' = Visible
  /\ UNCHANGED <<disk, edits, crawlVars, recent>>

IntervalPasses(s) ==
  /\ s \in recent /\ recent' = recent \ {s}
  /\ UNCHANGED <<disk, edits, crawlVars, visible>>

RosterNext ==
  \/ \E f \in Files : Edit(f)
  \/ \E force \in BOOLEAN :
       PostRoutine(force) \/ RunFromTerminal(force) \/ \E ids \in SUBSET Ids : PostSelection(ids, force)
  \/ Refuse \/ Load \/ LeaveCrawl \/ SyncBeforeServe
  \/ \E s \in Ids : SkipSource(s) \/ CrawlSource(s) \/ IntervalPasses(s)

RosterSpec == RosterInit /\ [][RosterNext]_rosterVars
---------------------------------------------------------------------------
(* Properties. *)

\* No crawl touches a source that the descriptors it runs on disable, and the
\* routine default none that they class as long-running, however they were
\* edited between the click and the crawl.
CrawlsWhatItLoaded ==
  \A s \in crawled \cup skipped :
    \E e \in loaded : e.id = s /\ e.enabled /\ (crawl.by = "routine" => e.routine)

\* A selection that was accepted is carried out to the letter unless the
\* descriptors were edited before its crawl began: every source is crawled,
\* or was crawled within its interval and the operator did not insist.
SelectionIsHonoured ==
  Ended /\ crawl.by = "selected" /\ ~edited =>
    /\ crawled \cup skipped = crawl.ids
    /\ crawl.force => crawled = crawl.ids

\* No crawl does less or more than it was asked for and may.
ScopeIsKept == CrawlsWhatItLoaded /\ SelectionIsHonoured
=============================================================================
