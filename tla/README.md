# A verification project for OEM Radar

OEM Radar crawls vendor catalogues, keeps an immutable snapshot of every page that
changed, turns the difference of two snapshots into change events and announces
those on Discord, at most once each, from an outbox in SQLite. It is a single
Python program, run by a scheduler, by hand and from a dashboard, all on the same
database file. There is no server to serialise them: what keeps the data right is
a file lock, the order of commits and a handful of UNIQUE constraints.

This directory holds TLA+ modules of the parts in which that order matters, TLC
configurations that check them on small instances, and proofs of what matters
most for every instance. Paths below are those of the repository; source files
are relative to `src/oem_radar/`.

| Module | Models | Checked by | Proved in |
|---|---|---|---|
| `CrawlPipeline` | one crawl: store commits, change detection, outbox, drain | `MCCrawlPipeline`, `CrawlPipeline_*.cfg` | `CrawlPipelineProofs` |
| `Alerts` | what the outbox promises (abstract) | as `RefinesAlerts` | `AlertsRefined` |
| `CrawlService` | run lock, `execute_crawl`, dashboard controllers | `MCCrawlService`, `CrawlService_*.cfg` | `CrawlServiceProofs` |
| `SchemaGate` | opening the database: inspect, bootstrap, migrate, admit | `MCSchemaGate`, `SchemaGate_open.cfg` | `SchemaGateProofs` |
| `Stories` | the cross-manufacturer story step of a run | `MCStories`, `Stories_*.cfg` | `StoriesProofs` |
| `Evidence` | community evidence: rotation, intake, revisions, log | `MCEvidence`, `Evidence_turns.cfg` | `EvidenceProofs` |
| `Feedback` | reviews with history, detectors, rule suggestions | `MCDecisions`, `Decisions_kept.cfg` | `DecisionsProofs` |
| `Reports` | the figures told of alerts and reviews | the same run | `DecisionsProofs` |
| `Discovery` | the inbox of research leads: generations, CURRENT, evidence | the same run | `DecisionsProofs` |
| `Collectors` | catalogue discovery, the catalogue gate, the run ledger and its readers | `MCFetching`, `Fetching_sources.cfg` | `FetchingProofs` |
| `HttpCache` | conditional requests and the two-file cache | the same run | `FetchingProofs` |
| `Roster` | descriptors, the scope of a crawl and its plan | the same run | `FetchingProofs` |
| `SitemapDelta`, `BeelinkDelta` | the isolated delta collectors | the same run | `FetchingProofs` |
| `ProductDatabase` | official evidence: PSREF records, links, new-model candidates | the same run | `FetchingProofs` |

`InductionLemmas` models nothing: it has what the proofs need about numbers, finite sets,
sequences, sums and folds and the theorem library lacks (section 4).

## 1. The system and its parts

**Crawl pipeline** (`core/runner.py`, `core/pipeline.py`). `run_all` plans the due
sources, runs `run_source` for each, drains the outbox after each source, detects
stories and drains once more. `run_source` gates the catalogue on its size, then
takes one product at a time: stamp its components against the known-hardware
table, resolve the prior snapshot, compare content hashes, `append`, `diff`,
`enqueue` every event, learn unseen components. Nearly every exception is caught
and logged per product or per source. State: local variables only, so everything
that survives a crash is in the store. *Hard:* each store call commits alone, and
the next run decides from what the last one happened to commit. *Correct when:* a
committed change has its events and rows; a first crawl announces nothing; an
unseen component is news once.

**Store** (`providers/sqlite/__init__.py`, `schema.sql`). Listings, snapshots
(UNIQUE per listing and content hash), components, change_events, notifications
(UNIQUE dedup_key), crawler_runs, stories, evidence, reviews. Every method
commits. It is shared by the crawl, the command line and the dashboard.

**Outbox and notifier** (`providers/discord/__init__.py`; `outbox` in `cli.py`).
`enqueue` records the event and puts a row that is pending or suppressed; `drain`
copies the pending rows and posts each, marking it afterwards. *Hard:* lost
acknowledgements, rate limits, retries with an attempt budget, rows changed by
the operator while a drain holds a copy. *Correct when:* what is posted was
earned, twice only with a lost acknowledgement, and what is settled stays so.

**Diff, severity, dedup** (`core/diff.py`, `core/models.py`). Pure functions; the
dedup key contains neither time nor run.

**Run lock** (`core/run_lock.py`). An `flock` on a file that is never removed; the
metadata in it is only shown to people.

**Crawl service** (`core/crawl_service.py`). `execute_crawl` validates the
configuration, takes the lock, builds the store, runs `run_all`, releases.
`CrawlController` runs it in a thread, one at a time per dashboard process.
*Hard:* two processes and their crashes, the window between open and flock, an
exception between the lock and the `try` that releases it. *Correct when:* crawls
of one database take turns and a refusal has an active run behind it.

**Schema gate** (`providers/sqlite/compatibility.py`, the constructor and
`_admit_compatibility` of the store). Classifies the file read-only, then
bootstraps, migrates, or refuses. *Hard:* two processes at once, a bootstrap that
commits statement by statement, a verdict that is old when it is used. *Correct
when:* work starts only on the current schema, or on what an earlier release has passed off
as it, and no interruption leaves a file whose marker lies.

**Story engine** (`core/story.py` and the tail of `run_all`). Groups recent events
by value; enough manufacturers make a story whose embed replaces the pending pings
of its products. *Hard:* it depends on flags stamped earlier, on a moving window
and on three separate commits. *Correct when:* a story in the table was told, a
ping is withheld only for a story, and a shared new part becomes one.

**Collector engines, run ledger and collector health** (`engines/`, the gate in
`core/pipeline.py`, `run_started`, `run_finished`, `source_due`; the readers in
`dashboard/data.py` and `core/metrics.py`). Five engines read a vendor's catalogue
page by page, through an API, category pages or sitemaps that name sitemaps. The
gate compares the number of products with that of the last run with status `ok`;
the row a run leaves decides whether the next one is due, what it is compared with
and whether it is announced. *Hard:* the site changes while it is read; thresholds,
zero, degraded runs that become baselines; runs that die and leave a row without a
verdict; three readers with three rules for "the latest run". *Correct when:* a clean
read finds everything once, what is announced is news, and the readers do not
contradict each other.

**Configuration and roster** (`core/config.py`, `run_all`'s scope in `core/runner.py`,
`resolve_manual_sources` in `core/crawl_service.py`, the crawl endpoint of the
dashboard). One YAML descriptor per manufacturer; a manual request is resolved against
them when it is answered, and the crawl loads them again. *Hard:* they are edited in
between. *Correct when:* a crawl does no more and no less than it was asked for.

**HTTP fetcher** (`core/fetch.py`). Conditional GET with a disk cache of metadata
and body, per-host pacing, retries. *Hard:* metadata and body are two writes and two
reads, by processes that share the directory. *Correct when:* "not modified" is
answered with the body the server means.

**Evidence fusion and Reddit rotation** (`core/evidence_pipeline.py`,
`evidence_sources/reddit`, the head of `run_all`, `src/clank_reddit`). A run asks one
community, the one after that of the newest row of `crawler_runs`, if it is due. Every
submission of its listing becomes an item; a new or edited one also a link and an
event. State: the three evidence tables and the run's own row. *Hard:* item, link and
event are three commits, and an item once stored is "unchanged" from then on; runs
fail, die, are forced, and may meet listings in any order. *Correct when:* a revision
is logged once or was cut off, the first good intake is baseline and stays so, no
revision is overwritten, and neither community loses its turn.

**Feedback** (`core/feedback*.py`, review methods of the store, the review endpoint of
`dashboard/__init__.py`, `feedback` in `cli.py`). Reviews with a history, written from
any number of dashboard threads; detectors that propose rules from all reviews;
suggestions with legal status transitions; simulations. *Hard:* the present review is
read before the transaction that replaces it; analyses overlap, and store what was read
earlier, while reviews are revised and the operator decides. *Correct when:* the
history ends in the present review and invents no past, a suggestion does not claim
more than can be found, and no analysis undoes a decision.

**Official evidence** (`evidence_sources/lenovo_psref`, `run_evidence_source` and
`candidates_for_evidence` in `core/evidence_pipeline.py`). A run over Lenovo's product
database stores its records, links each to a tracked product of that name and notes
those without one as candidates for a new model; it is started by a script and shares
the database with crawls that track and rename products. *Correct when:* a tracked
product is no candidate and a candidate is not shown as tracked.

**Reports** (`core/feedback_analytics.py`, the signal metrics of `core/metrics.py`, the front
page and the page of an alert in `dashboard/__init__.py` and `dashboard/data.py`). A report is a
series of SELECTs in no transaction. *Hard:* crawls
and reviewers commit between two of them. *Correct when:* a quiet report adds up, and a
disturbed one errs on one side only; the review shown of an alert is in its history.

**Discovery** (`discovery.py`, `discovery_cli.py`, `discovery_dashboard.py`). An inbox of
research leads, apart from the main database. Every command builds a new generation, a
copy of the published database, and publishes it by replacing a pointer, CURRENT; copies
of evidence are kept by digest. *Hard:* commands overlap, raise, are interrupted and
die at any point. *Correct when:* what CURRENT names is whole, and no
lead, review or evidence is ever lost by what comes after it.

**Delta collectors** (`experimental/`). Polls of Lenovo's and ASUS's regional sitemaps
and of Beelink's Chinese catalogue, each with a database of its own: the first good poll
is the baseline, later ones make candidates of what is new. *Hard:* one model shows in
several regions, regions fail one by one, a save that raises leaves rows behind.
*Correct when:* a launch after the baseline is reported, as new in one region only.

Left out: the HTML of the dashboard (`dashboard/render.py`, `dashboard/collector_ui.py`),
the parsing of product pages (`core/jsonld.py` and the normalisers of `engines/`),
onboarding, probing and benchmarks, and the runtime bridge. They keep no state that
another part depends on; what the parsers hand to the pipeline is a constant of its
module.

**How they interact.** A scheduler, a shell or a dashboard button calls
`execute_crawl`, which holds the run lock (`CrawlService`) around the opening of
the store (`SchemaGate`) and `run_all` (`CrawlPipeline`), whose last step is the
story engine (`Stories`). All four share the database; the lock excludes other
crawls, not the command line's `outbox` command nor dashboard reviews. The modules
meet at these seams: `BuildStore` and `StoreRefuses` of `CrawlService` are a whole
`SchemaGate` opening; its `crawl` place is a whole `StartRun … idle` stretch of
`CrawlPipeline`, which is why that module has one crawling process; `Stories`
takes the enqueueing of a change, several commits in `CrawlPipeline`, as one action.
`Evidence` comes first in a run and shares only `crawler_runs` with the rest: one
collection at a time, again by the run lock. `Feedback` reads the events that the
pipeline records and takes no lock at all; `Reports` extends it. `Roster` ends where
`StartRun` of `CrawlPipeline` begins, with a plan; `Collectors` is what stands behind its
`CrawlSource` and `UnhealthySource`, with the products of one source instead of the
commits of one product; `HttpCache` is below every page that `Collectors` reads, whose
`PageFails` is its `GiveUp`. `ProductDatabase` reads what `CrawlPipeline` commits, as
`Track`. `Discovery` and the delta collectors have databases of their own.

## 2. The modules and how they correspond to the code

### CrawlPipeline

One action per commit. `pc` is the position in `run_all`/`run_source`/`drain`;
`plan`, `src`, `hadOk`, `todo`, `change`, `queue`, `entry`, `newChip`, `batch` and
`mailing` are the local variables, lost in `Kill`; `snaps`, `known`, `events`,
`outbox`, `completed` are the tables. `obs`, `changes`, `cut`, `unlearned`,
`posts`, `unacked` are history: they guard nothing.

| Action | Code |
|---|---|
| `StartRun`, `FinishPlan` | `run_all`'s plan, its last drain |
| `CrawlSource`, `UnhealthySource`, `BrokenSource`, `FinishSource` | one source: baseline decision, catalogue gate, exceptions, `run_finished` |
| `SkipProduct`, `UnchangedProduct`, `ChangedProduct` | one product up to the commit of `append` |
| `RecordEvent`, `OutboxPut` | `enqueue`: `record_event`, then `outbox_put` (INSERT OR IGNORE) |
| `LearnComponents`, `ProductRaises` | learning; the per-product `except` |
| `DrainUnconfigured`, `DrainStart`, `NeutraliseMuted`, `PostAccepted`, `MarkSent`, `PostRateLimited`, `PostFails`, `EndDrain`, `DrainRaises` | `drain`, branch by branch |
| `Kill`, `EditPolicy`, `SuppressPending` | death; an edit of radar.yaml; `outbox --suppress-pending` |

Pages are records of three values (a processor, a spec, an image set), because the
dedup key treats these three kinds of change differently: processors can be unseen
news, specs carry old and new value in the key, images carry neither. `Latest` is
the row with the highest id, and `append` under UNIQUE(listing, hash) adds no row
for a content that was there before, as in the code.

`Alerts` says what the notification side is for: one life per distinct change.
`AlertOf` maps an outbox row and its posts to it; an acceptance the outbox never
heard of counts as announced.

### CrawlService

Any number of one-shot processes and dashboards, each in `execute_crawl`. The lock
is modelled as the kernel has it: `file` is the inode at the path, `fd[p]` the one
`p` opened, `holder[i]` who has it locked; it goes with the process (`Gone`). The
window between `os.open` and `flock` is the place `flock`. `leaked` remembers
dashboards in which the constructor of the store raised after the lock was taken.
The Windows branch (`msvcrt`) is not modelled.

### SchemaGate

The file is `db`: tables, columns and recorded versions; `HalfBuilt(k)`, `Release(v)`,
`Laundered(v)` and so on are the files that can be met. Two kinds are what the docstring of
compatibility.py (:8-17) says of earlier releases, whose `migrate()` ran schema.sql over any
database first: cut short, it left `Laundered(v)`; carried through over a `Markerless(v)`,
`Blessed(v)`, which has every table and every version and lacks the columns that its old
tables never got. `Verdict` is
`inspect_schema`, tests in the order of the code: it looks at tables and versions, at no
column (:233), so a blessed file is COMPATIBLE. `schema.sql` is executed a
statement at a time (`Script`), as `executescript` commits; a migration is inside
a transaction that `writer` holds. Host[c] is the version whose table the column
added by version c belongs to: it is what makes a `CREATE TABLE` at the current
release clash with an `ALTER TABLE` later.

### Stories

A key is a value that a rule groups by; the keys in `Parts` belong to rules that
match only `unseen_component` events. `Matching`, `Makers`, `Earliest`, `Tellings`
and `Detection` are `detect` (several outcomes where the order of equal timestamps
decides). `SaveStory`, `DemotePings` and `EnqueueStory` are three commits. `cut`
and `unlearned` are history.

### Evidence

Of `crawler_runs` only what its three queries read is kept: `latest`
(`latest_source_key_among`), `completed` (`has_completed_run`) and `fresh`
(`source_due`). `Open` is `collect_community` up to the commit of `run_started`;
`Scheduled` asks for the turn and the interval, `Manual` for neither (`force`, or a
scope with one community). `Discover` and `DiscoverFails` are `discover`: `retrieve`
refuses a listing with nothing usable in it. `Unchanged`, `StoreItem`, `LinkEvidence`
and `RecordEvent` are the loop body with its three commits, `RowOf` the row that
`record_evidence_item` writes; `Interrupt` is an exception of the store or the death of
the process. `feed` is Reddit. `missed` (revisions cut off) and `intake` (the listing of
the first good run) are history.

### Feedback

`BeginReview` is `upsert_review` up to its SELECT, `WriteReview` the transaction:
`Save`, or the UNIQUE constraint (`Conflicts`). `Focus(d, g)` is the set of reviewed
alerts detector d looks at in group g, `Emitted` the thresholds, `CodeOf` the reason
code, which is part of the fingerprint; `Analysed` is one `analyze_reviews`, a single
read. `LookUp`, then `InsertSuggestion` or `RefreshSuggestion`, are one round of
`persist_candidates`. `Decide` and `Record` are `update_rule_suggestion_status`.
`Matched` is `_match_rule`: `normalize_image_url` and `suppress_exact_duplicate` match
every alert of their group, as the code does.

### Reports

`Statements` lists the SELECTs of `feedback_analytics.py` ("metrics"), of the daily figures
("signal"), of the front page ("board") and of one alert ("detail") in their order; `Ask`
executes the next one on the state it finds, `File` and `Judge` are commits of a crawl and of a reviewer in between. `Breakdown` is a
LEFT JOIN grouped by a key, `BreakdownOfReasons` counts a review once under each reason.
`window` stands for the date filter, `first` for the baseline alerts that every figure
but theirs and the daily ones leaves out. Seven of the statements are `Lists` with a `LIMIT`,
or a slice of what was sorted: 300 cards (dashboard/data.py:103), 100 collectors, 100
types and 50 reasons (core/feedback_analytics.py:314-316), the breakdown that the request
names a limit for (50 by default, dashboard/__init__.py:237) and the two waiting lists with
the smaller of that and 20 (core/feedback_analytics.py:396). `Cut` returns the rows of the
highest `Rank`, any of those that tie; a negative limit, which SQLite takes for none and a
slice for "all but", is left out. `past` is the history, written with a review; the
neighbours and the product shown beside an alert are left out.

### Discovery

A generation is a database with the export written from it. `BeginImport` (all checks
of `prepare`), `BeginRefresh` with `ChildCompletes`, or `BeginLabel`; then `CopyCurrent`
(`new_generation`), `CreateCopy`, `WriteCopy` and `StoreObservation` per lead or
`StoreReview`; then `Export` and `Replace` (`publish`). `Stop` is an exception or a death at
any of these steps; `InterruptLate` is the handler of `BaseException` when it is reached
after the replacement. `behind` (commands whose copy is old), `overtaken` and `torn` are
history.

### Collectors

`site` is the catalogue in the order the shop lists it, `Page(k)` one page of it. The five
engines differ in `start`, `onError`, `last` and `dedup`, for instance Shopify in reading until
an empty page and WooCommerce in stopping at a short or unreadable one; `ReadIndex` is
the sitemap engine's queue with its limit. `ReadSitemaps` is Shopify's second strategy, which
most of its shipped sources use: after the pages it adds what only the product sitemaps name
(`hidden`), and skips what it cannot read of them without a word
(engines/shopify/__init__.py:177-199), where a page that cannot be read fails the run.
`Kept` is what the limit `max_products` leaves (engines/sitemap_jsonld/__init__.py:147; 3000,
and 700 in config/oems/medion.yaml:63); the gate and the product loop see no more than
that. `Health` is the gate, `Close` writes the row
of `crawler_runs`, `Die` leaves it running. `Recent`, `BoardHealth` and `MetricsHealth` are
the readers. `hiccup`, `partial` and `arrived` are history.

### HttpCache

One URL, two files, any number of fetchers. `ReadMeta`, `ReadBody`; `FreshPage` or
`NotModified`; `WriteMeta`, `WriteBody`; `Tear` is a write that fails or a process that dies
in it. A text is a version of the page and its tag is that version, so an answer is right
if its text is the version that the server said had not changed. `mixed` and `suspect`
are history: they say when two files, or what was read of them, need not belong together.

### Roster

`disk` holds the descriptors, `Loaded` what `load_oem_configs` makes of them (a later file
of the same manufacturer replaces the earlier one's sources), `Planned` what `run_all` will
come to. `PostRoutine`, `PostSelection` and `RunFromTerminal` ask, `Load` or `Refuse` is the
head of the crawl, which loads the descriptors again.

### SitemapDelta, BeelinkDelta

`Baseline`, `ReadSitemap`, `ReadNewPage` and `SaveRegion` are a poll of one region,
`RegionFails` the `except` around it; a page has the identity of its URL until its data
give it another. `SaveCutShort` is `save_success` raising half-way, with `save_failure`
committing what it left. `PollBeelink` is a poll of a catalogue that one answer
lists, `Arrivals` its candidates, `BeelinkCutShort` again the half-way save.

### ProductDatabase

`DiscoverRecords` is the one request of `discover`, `RecordItem` the first commit,
`ResolveLink` the queries of `resolve_evidence_link`, `LinkItem` and `LogEvent` the other two
commits. `Track` is a crawl's snapshot of a product, with its model and aliases. `Shown` is
the row that the evidence tab's `LIMIT 1` picks.

## 3. What the runs check

Every run that should pass explores its whole (bounded) state space.

| Run | Question | Instance |
|---|---|---|
| `CrawlPipeline_changes` | Do changes reach the outbox, once, earned, with one life each? `EveryChangeEnqueued`, `SecondSightingIsNoNews`, `PostsAreEarned`, `RefinesAlerts` | two listings of one product, processor and images flip together; store calls raise; operator suppresses between runs |
| `CrawlPipeline_outbox` | The same under every fault at once: `DoublePostExplained` | two unrelated listings with one page each; kills, lost acknowledgements, rejections, rate limits, edits of the mute list, suppression at any time |
| `CrawlPipeline_live` | Does every alert settle? `EveryAlertSettles` | two alerts, rejections and rate limits |
| `CrawlService_turns` | Do crawls take turns, are refusals honest, does every triggered crawl end, does the lock come free? | two one-shot runs, a dashboard, every fault, lock file deleted with care |
| `SchemaGate_open` | Is what is admitted current, or blessed by an earlier release; does the gate bless nothing itself, is nothing hopeless touched, is nothing sound refused without cause, does every opening end? `AdmittedIsReady`, `NothingIsLaundered`, `HonestStaysHonest`, `HopelessIsLeftAlone`, `SoundIsRefusedForCause`, `EveryOpeningEnds` | two openers, four versions, every file of `OnDisk`, crashes and database errors |
| `Stories_told` | Is a saved story told, a withheld ping explained, an unseen part shared? `SavedIsTold`, `DemotedHasStory`, `UnseenIsOneMakers` | two manufacturers, three products, one part and one memory rule, two days, all faults |
| `Evidence_turns` | Is each revision logged once, is the first intake baseline, is everyone asked, is what stays listed stored? `EveryRevisionLoggedOnce`, `FirstIntakeIsBaseline`, `EveryCommunityInTurn`, `ListedIsStored` | both communities, three submissions of two texts, three changes of the listings, one fault of any kind |
| `Decisions_kept` | Does a history invent no past, do samples hold, do decisions stand, do figures add up; is a published generation whole, is nothing forgotten, can evidence be opened ever after? `PreviousWasCurrent`, `SampleNeverShrinks`, `DecisionsStand`, `FiguresAddUp`, `CurrentIsComplete`, `NothingForgotten`, `EvidenceStays` | two requests, two analyses, an operator, three alerts, three reviews; or two commands over one lead with two texts, three generations; or a report of three alerts, begun in every state and overtaken twice, its lists with room for all or cut |
| `Fetching_sources` | Does the cache answer right, does discovery find all, is what is announced news, do the readers of the ledger agree; is every launch reported, and once; is a scope kept; is a tracked product no news? `CacheAnswersRight`, `CleanDiscoveryIsExact`, `LoudIsNews`, `ReadersAgree`, `EveryLaunchReported`, `NewModelsOfOneRegion`, `CatalogueArrivalsReported`, `ScopeIsKept`, `AnnouncedIsNotLinked`, `TrackedIsNoNews` | two fetchers, three versions; or five engines, three or four products on three pages, hidden ones and a limit of three included, three runs; or two regions of two pages; or two models with a configuration; or two descriptors edited twice; or one record and two listings of two names |

The last two runs each check several modules that share no variable: a behaviour is
about one of them (`desk`, `part`) and leaves the others at an initial state, so that
the states add up and are not multiplied.

The remaining runs each refute one statement that the documentation or a comment
makes. TLC's trace is the argument.

| Run | Statement | What happens |
|---|---|---|
| `CrawlPipeline_lost` | docs/ARCHITECTURE.md:21 "Nothing is lost" | killed after `append` and before `enqueue`: the next crawl finds the page unchanged |
| `CrawlPipeline_flap` | docs/DATABASE.md:83 the latest snapshot is the live state | a page that returns to an earlier content stores no row, so it is diffed against a stale one ever after |
| `Stories_shared` | docs/STORY_ENGINE.md:6, config/radar.yaml:61 a shared unseen part is the flagship story | the first manufacturer's product teaches the part, so the second one's change is no longer unseen; the rule, which asks for two, cannot fire |

### Bounds, and why they are enough

* `MaxAttempts` is 1 where the code has 5: the drain tells only "below" from "at"
  the limit, and a second attempt is where those differ. Attempts count to
  `MaxAttempts` + 1 and `posts` to 2 ("twice or more"); both saturate, nothing reads
  more.
* `FewChanges` (`CrawlPipeline_changes`): three distinct transitions. Two make a page
  flip back; the third is another listing's, or the repeat against a stale snapshot.
* `CrawlPipeline_changes` lets store calls raise where `CrawlPipeline_outbox` also kills:
  a raise interrupts a product at every place a kill does, and the run continues
  from it in the same process, which is the harder case for the outbox.
* One source in the pipeline instances: sources touch disjoint listings, and what
  they share (components, the outbox) two listings share as well. The modules and
  proofs have any number.
* `MaxInode` 2: one deletion of the lock file, which is what it takes for two crawls
  to hold different files. Three processes: two contenders and a dashboard that leaks.
* `SchemaGate`: four versions, two of them columns, one of these on a table that a
  migration creates: the smallest history with every kind of step and the clash.
  Two openers: inspection by one between any two steps of the other.
* `Stories`: `MaxTime` 1 with `Window` 0 makes an event leave the window; three events
  are two makers' plus one of a sibling product whose ping is demoted along.
* `Evidence`: three changes make a submission appear, be edited, and go while another
  one comes; one fault cuts off any one revision, fails any one run. An empty listing is a
  failure that costs nothing, so a community that fails every time is in the instance.
* `Feedback`: two reviewed alerts make a suggestion (`MinSamples` 2), the third review
  revises one of them or races with it; two requests and two analyses are what a race
  takes. Only the duplicate detector fires in the instance, the only one that reads
  alerts of any type; the proofs are about all five. Threads and analyses are symmetric;
  no property of the run is a liveness property.

* `Reports`: alerts of two collectors, two types and two buckets, one of them a new product,
  baseline and outside of the window; two commits fall between any two statements. Every report is
  run with limits that hold all, those that have lists also with lists of one row
  where there are two alerts or more at the start, ties among their rows included.
* `Discovery`: with one lead every step that could lose a label, an observation or a
  review is there; two texts make a change, and a return to the first text, and three
  generations let one command overtake another and a third build on the result.
* `Collectors`: pages of two products, so the catalogue ends inside a page, at the end of one,
  or with an empty one; three runs are a baseline, a run compared with it, and one
  compared with that; thresholds are those of the default configuration. A window of two
  rows lets the newest `ok` row leave it. A limit of six sitemaps leaves room for all; of the
  four products, the limit of three on the sitemap engine cuts one off, and the other engines have
  none. A fourth product may be hidden from the start, become so, or arrive. `BaselineQuiet` is
  TRUE, as config/radar.yaml:9 ships it; where it is FALSE (the default of core/config.py:215) first
  crawls announce all they find, and `LoudIsNews` claims nothing.
* `HttpCache`: one page without a tag and two with; three requests of two fetchers are one
  that fills the cache, and two that overlap. `MaxRetries` 1 is one failure and one more attempt.
* `SitemapDelta`: one model shown in both regions, one page whose URL looks like another
  page's; three changes list a page in each region and fill one. `BeelinkDelta`: a
  configuration that moves between models, and one without an id.
* `Roster`: two manufacturers with a file each, three ids, one of them in both; one edit
  falls between request and load and another during the crawl. Shadowing, which needs two files of
  one manufacturer, is in the module and not in the instance.
* `ProductDatabase`: records do not interact, one is enough; two listings of a name are what the
  choice of a link takes, two changes each of PSREF and of the shop a rename and its return.

### Fairness

* `CrawlPipeline`: WF of `Crawl ∨ Drain`, since a scheduler starts run after run and
  a running process goes on; SF of `Handle(k)`, since a rate limit at the head of
  every drain for ever would keep a row from ever being tried: Discord's limits
  expire. Kills, edits and operators are not fair.
* `CrawlService`: WF of `Step(p)`: a process inside `execute_crawl` goes on, and the
  crawl itself ends (fetches have timeouts, the products are finitely many).
* `SchemaGate`: WF of `Step(p)`. A process that waits for another one's write
  transaction gets its turn or SQLite's busy timeout (5 s), which is the
  `DatabaseError` action.
* `Evidence`: WF of `Work` (a run goes on) and of `Tick(c)` (an interval passes); SF of a
  scheduled run, since the scheduler calls again and again and finds another collection
  under way at most now and then. Forced runs, faults and listings are not fair.
* Starting a process, a crash and a reopening have no fairness anywhere; the modules of
  `Decisions_kept` and `Fetching_sources` have none: what they promise is safety.

Deadlock is checked in every run but these two: the scheduler can always start another crawl.
They may stop, once reviews, generations, requests or changes of the world have reached
their bounds, and a rejected rule is never taken up again.

## 4. What is proved

Each theorem is `Spec ⇒ □…` (or a refinement) for every value of the constants
that satisfies the module's `ASSUME`; TLC evaluates these assumptions in every run.

| Theorem | States | By |
|---|---|---|
| `CrawlPipelineProofs`: `TypeCorrect` | `TypeOK` | `Typed` = `TypeOK` ∧ where each local variable has a value |
| `ChangesAreEnqueued` | `EveryChangeEnqueued` | `EnqueueInv`: what is left of the change in flight, with what is done of it, is all its keys |
| `PostsEarned` | `PostsAreEarned` | `EarnedInv`: every row that was ever pending has an earned event; mutes only take away |
| `DoublePostsAreExplained` | `DoublePostExplained` | `AckInv`: posts recorded by the outbox are settled rows, others are in `unacked` |
| `SecondSightings` | `SecondSightingIsNoNews` | `NoveltyInv`: whatever was flagged is known, about to be learned, or cut short |
| `TerminalStaysFinal` | `TerminalIsFinal` (proved; no run repeats it) | `SettledInv`: the rows a drain holds are pending or were suppressed meanwhile |
| `AlertsRefined` | `RefinesAlerts` | `BatchInv`: the rows a drain holds are still pending. Assumes `"suppress_any" ∉ Faults`: an operator who suppresses during a drain breaks exactly that (see below) |
| `CrawlServiceProofs`: `TypeCorrect` | `TypeOK` | `Typed` = `TypeOK` ∧ `Opened` |
| `CrawlsExclude` | `OneCrawlAtATime` | `LockInv`: whoever has the file open has the one at the path, and who is past the flock holds it. Assumes `CarefulDelete` (see below) |
| `RefusalsAreHonest` | `RefusalExplained` | `HeldInv`: a held inode has a locked or leaked holder |
| `SchemaGateProofs`: `TypeCorrect` | `TypeOK` | — |
| `AdmissionIsSound`, `NoLaundering`, `HonestyKept`, `HopelessKept` | `AdmittedIsReady`, `NothingIsLaundered`, `HonestStaysHonest`, `HopelessIsLeftAlone` | `FileInv`: the file is one of the known kinds, and fits what each process believes about it |
| `RefusalsAreCaused` | `SoundIsRefusedForCause` | `CauseInv`, on top: where a half-built file comes from |
| `StoriesProofs`: `TypeCorrect` | `TypeOK` | `Typed` = `TypeOK` ∧ `Located` |
| `NothingSilenced` | `SavedIsTold` | inductive with `Typed` |
| `DemotionIsExplained` | `DemotedHasStory` | `StoryInv`: evidence names its own manufacturers and the story is saved before its pings are demoted |
| `UnseenNeverShared` | `UnseenIsOneMakers` | `OneSighting`: at most one unseen event per part; a singleton cannot reach a minimum of two |
| `EvidenceProofs`: `TypeCorrect` | `TypeOK` | `Typed` = `TypeOK` ∧ `Located` |
| `LogIsComplete` | `EveryRevisionLoggedOnce` | `Logged`: the count is inductive once the submission in hand is known to be in its second or third commit |
| `IntakeIsBaseline` | `FirstIntakeIsBaseline` | `Admitted`: what a first run has stored is baseline, and what it was listed is stored or still to do |
| `HistoryKept` | `NothingOverwritten` (proved; no run repeats it) | only `StoreItem` writes an item |
| `DecisionsProofs`: `TypeCorrect` | `TypeOK` | `Typed` = `TypeOK` ∧ `FoundStays`: a suggestion an analysis has found is there for ever |
| `LatestIsReview`, `HistoryIsRooted` | `CurrentIsLastEntry`, `PreviousWasCurrent` | `Chained`: with both, whatever a request has read is in the history |
| `SamplesStay` | `SampleNeverShrinks` | `Supported`: candidates in hand have their samples too; `FocusIsSampled`, detector by detector; no alert becomes NEW again, so samples only grow |
| `DecisionsHold` | `DecisionsStand` | `RulesKept` of every step, `DecisionLegal`: the choice is still legal when it is written |
| `FetchingProofs`: `HttpTypeCorrect`, `DatabaseTypeCorrect` | `HttpTypeOK`, `DatabaseTypeOK` | with what a writing fetcher replies, and the record between two commits |
| `AnswersAreRight` | `CacheAnswersRight` | `CacheInv`: two files nobody writes to and nobody mixed are of one version (`FilesFit`); a fetcher that is not suspect read the tag that is in the file, and its body (`ReadersFit`) |
| `AnnouncedStaysUnlinked` | `AnnouncedIsNotLinked` | `LinkedFirst`: what is announced, or about to be, has its row without a product |
| `TrackedStaysQuiet` | `TrackedIsNoNews` | `UntrackedSeen`: a name that no listing has now had none at some moment of the run |
| `ScopesAreKept` | `ScopeIsKept` | `ScopeInv`: planned, done and passed over are loaded and allowed; an unedited selection is accepted or divided into these three |
| `ArrivalsAreReported` | `CatalogueArrivalsReported` | inductive itself |
| `LaunchesAreReported`, `NewModelsAreUnique` | `EveryLaunchReported`, `NewModelsOfOneRegion` | `SitemapInv`: finds are new pages with their data's identity; an emitted identity has its candidate stored, in hand or orphaned; a stored candidate has its page's row |
| `CollectorTypeCorrect` | `CollectorTypeOK` (proved; no run repeats it) | `CollectorTyped`: with `LedgerKept` and `WithinLimit`, see below |
| `LedgerReadAlike` | `ReadersAgree` | `LedgerKept`: a row is `ok` exactly when its verdict is ok or degraded, and failed when its verdict is |
| `CleanDiscovery` | `CleanDiscoveryIsExact` | `ReadingInv` = `CollectorTyped` ∧ the catalogue lists nothing twice ∧ `ReadInOrder` ∧ `CleanSoFar` ∧ `CleanWithSitemaps` |
| `NewsIsNews` | `LoudIsNews` | `CollectorInv` = `ReadingInv` ∧ `NewsKept` ∧ `LoudIsNews` |
| `DecisionsProofs`: `ReportTypeCorrect` | `ReportTypeOK` (proved; no run repeats it) | `ReportInv`, see below |
| `FiguresHold` | `FiguresAddUp` | `ReportInv`: no count is ahead of the database or of a count asked later; a report nothing overtook is of the present state; a history ends with its review |
| `InboxTypeCorrect` | `DiscoveryTypeOK` | `InboxTyped` = `DiscoveryTypeOK` ∧ `JobFits` |
| `NothingIsForgotten` | `NothingForgotten` | `DraftsKeep`: a draft that was not overtaken has all that is published |
| `ServedStays` | `EvidenceStays` | the same, and no step takes a whole copy away (`WholeStays`) |
| `PublishedIsComplete` | `CurrentIsComplete` | `DraftsAreWhole`, `InboxIsWhole`: what a draft, or the inbox, claims to own is whole; `ReviewsInHand`: a review is of a lead that its copy has |

The properties are seldom inductive. `EveryChangeEnqueued`, say, excuses the change
in flight altogether, and a state in which that change's `queue` lacks an event would
break it one step later, so the invariant has to account for every key of it; `AdmittedIsReady` is about one
process but another one's migration can undo it, so the invariant has to say in
which files a `CREATE TABLE IF NOT EXISTS` or an `ALTER TABLE` is still possible.

`ReadersAgree` is about rows and says nothing of the run that writes them: that a row gets its
status and its verdict together, and a crawl that goes on has a last row marked running, is
`LedgerKept`. `CleanDiscoveryIsExact` is about the end of a discovery, so `CleanSoFar` says what
holds on the way: the finds are the products of the pages read, once each; whatever a
sitemap index has named was read or is queued; and a page to start from is read, queued or,
behind the end of the list, empty. `CleanWithSitemaps` continues it past the sitemaps: all that
is offered was found; and `KeptTyped` says what a limit leaves of it. The last case of `CleanSoFar` needs `ReadInOrder`: an engine that stops
at a page has only later ones on its queue. That the limit drops nothing without a hiccup is
`WithinLimit`, which counts the pages that wait. `LoudIsNews` needs the site in it: once there
is a completed run that went well and was not cut at its limit, the site offers nothing but
what is known or has arrived since (`NewsKept`); a run in its drain does not count as completed yet, because it may still
lose its status (`SettledRuns`).

`FiguresAddUp` compares sums over the rows of different statements. `BreakdownAdds` shows
that a breakdown, whatever it groups by, counts every alert once, `CardsAdd` and `WaitingAdds` the same
of the cards and of what waits, `ReturnedIsSome` and `SumOfSome` that a list cut at its
limit counts no more; `AnswersAdd` puts it together for a state that holds still, and
`ReportInv` carries it over the commits of crawls and reviewers, which only ever add.

**Induction over data.** Sums and folds are defined by recursive functions, and the library's
induction theorems take an operator, which no prover here can instantiate.
`InductionLemmas` states induction with the set of numbers that have the property instead of an operator. It
derives from `WFMin` that a set of numbers has a least one (`LeastNumber`), and from
that, in the first order, that a fold over a finite set exists and is computed element by element
(`FoldInduction`), what the sum of the sizes of disjoint sets is (`SumOfParts`), and
what a fold over a list collects (`LeftFold`: `Dropping` for the engines' removal of
repetitions, `Queueing` for the sitemap queue).

**What is assumed of the constants.** Mostly that sets are finite and bounds are numbers. Two theorems
assume more, as their rows say. Among the modules `Collectors` assumes most, from the code:
that the limit on pages is the safety valve `max_pages` and `max_sitemaps` are called
(engines/shopify/__init__.py:132, engines/sitemap_jsonld/__init__.py:87), so the pages an engine starts
from fit in it; that an engine which stops at the end of the list reads numbered pages in
ascending order and follows no links (engines/woocommerce_store_api, engines/shopify); that whatever the
sitemaps reach holds all products; and that a site lists no product twice. A
sitemap index that names more than the limit is not excluded: it is a hiccup. Nor is a catalogue
of more than `max_products`: the limit of an engine is any number from 1 on.

**Only model-checked.** Liveness (`EveryAlertSettles`, `EveryTriggerEnds`,
`LockComesFree`, `EveryOpeningEnds`, `EveryCommunityInTurn`, `ListedIsStored`): temporal reasoning
about ENABLED and fairness is beyond the provers used. The refuted statements are single
behaviours. Every safety invariant and action property that a passing run checks is proved.

## 5. Known from the model, without a run of their own

* A kill between Discord's acceptance and `outbox_mark` posts the message again;
  `DoublePostExplained` names this as the only way.
* `outbox_mark` adds an attempt on a rate limit too (providers/discord/__init__.py:279
  against the comment at 277 "no attempt burned"); `PostRateLimited` has it.
* `outbox --suppress-pending` takes no lock, and rows suppressed during a drain are
  still posted ("won't send", cli.py:468). Hence the assumption of `AlertsRefined`.
* A first crawl that fails, dies, or is turned to failed by its drain makes the next
  one a baseline again.
* A drain per source can use up a row's attempts within one run.
* The gate compares tables and versions, no columns (providers/sqlite/compatibility.py:233): a file
  that an earlier release has stamped current over tables without their later columns is
  admitted, and stays as it is; a later query meets the missing column. `AdmittedIsReady` names
  exactly these (`Blessed`), `NothingIsLaundered` says that today's code adds none.
* A half-bootstrapped file is refused as UNKNOWN for ever: nothing takes the
  bootstrap up again, although the message says the database was left untouched.
* A dedup key has no time in it, so the same change, should it come again after
  being undone, is never announced a second time.
* A story's manufacturers are its dedup key: when one leaves the window, the rest is
  a new story without a new event (docs/STORY_ENGINE.md:47 says only a newcomer
  re-fires it).
* The lock file is never removed (docs/DATABASE_LIFECYCLE.md:45 says otherwise), and
  docs/SERVICE_RUNNER.md:71-79 still describes reclaiming by PID.

* `resolve_prior` answers "existing_product" only together with a prior snapshot and
  `diff` yields new_product only without one, so the re-typing to `duplicate_listing`
  (core/pipeline.py:213-217, docs/DIFF_ENGINE.md:27) is unreachable: a second listing of
  a known product is announced as neither.
* `acquire` opens the lock file and then locks what it opened: a deletion in between,
  which docs/SERVICE_RUNNER.md:80 asks for only when no crawl is running, gives two crawls a
  lock each. Hence `CarefulDelete`.
* An evidence item whose run died between its commits is "unchanged" from then on: its
  link and event never come. `missed` counts these.
* UNIQUE(evidence_item_id, product_key) does not compare NULLs, so every revision of an
  unlinked item adds a link row; `links` counts them, the dashboard shows one.
* The turn names the community after the newest one. With the two of the code nobody
  can be passed over; with three, an operator who keeps forcing one could starve another.
* Two requests that revise a review at once both name the same previous one, so a history
  is rooted but need not chain (docs/FEEDBACK_SYSTEM.md describes previous and new outcome).
* An image rule's reason code depends on what its alerts cite now, and is part of the
  fingerprint: a rejected rule may be proposed again under another code.
* `max_signal_loss` never keeps a candidate from being stored, the check "Need repeated
  product keys" (core/feedback_analyze.py:254) keeps none that the sample size admits, and
  no analysis withdraws a suggestion whose noise has gone down.
* Two operators who decide at once could take a rejected suggestion back; the model has
  one, like the code, in which nothing but its tests calls `update_rule_suggestion_status`.

* A store that is refused in a dashboard leaves the run lock held (core/crawl_service.py:292):
  later runs are refused although nobody crawls, against core/run_lock.py:32 "a refusal means
  another run is genuinely active"; `RefusalExplained` has the exact condition.

Collectors, ledger and roster:

* A degraded run has the status `ok` and is the baseline of the next (core/runner.py:187,
  against the comment at core/pipeline.py:101): a catalogue may shrink step by step, each
  step within the threshold, without a failed run.
* The board passes over runs without a verdict (dashboard/data.py:239), so that after a crash it
  shows an older one; its window of 40 rows is over all sources. The metrics take the newest
  row of any kind, the runtime bridge the newest finished one, whatever its status, as the last
  successful run. `ReadersAgree` says how far the first two may differ.
* A first crawl that is cut at `max_products`, or in which a product sitemap could not be read, is
  a completed one all the same. What it has missed is announced as new by a later crawl
  that comes to it, though it was on the site all along; Medion's limit of 700 is a handful of
  products above what its sitemap was seen to name (config/oems/medion.yaml:42, :63).
  `LoudIsNews` excuses just these (`partial`).
* WooCommerce's reader stops at a page that cannot be read, so what follows it is missing
  and the gate alone can tell.
* A later descriptor of the same manufacturer silently replaces the earlier one's sources
  (core/config.py:263); manufacturers taken out of the configuration stay in the table.
* A source that is disabled between a selection and the load of its crawl is not crawled, without
  a word; `--source` with an unknown id runs nothing and ends well.

HTTP cache:

* A body that cannot be written after its metadata was pairs the new tag with the old body,
  which every later 304 serves; a body cut inside a character makes `get` raise
  `UnicodeDecodeError` for as long as the file is there.

Delta collectors:

* An identity emitted for one region, which then fails, suppresses its mirror in another region
  of that run: nobody has the candidate until the first region is polled again.
* A page without product data when it is first read is stored and never read again.
* Rows of a baseline carry the identity of their URL, so a later page with the same product's
  data is a new model.
* What a half-way save has stored is committed with the record of its failure, and not announced.
* A Beelink configuration without an id has its model's.

Discovery:

* A command that dies between the creation of a copy of evidence and its writing leaves a file
  that every later import of the same evidence is refused for.
* An interrupt after CURRENT was replaced removes the generation it names; a review that was
  in the making may then be published without its lead.
* Of two overlapping commands the later one undoes the earlier one's work
  (docs/D1_DISCOVERY.md:123 asks for one manual writer).

Reports and official evidence:

* Past their limits the lists of a report stop adding up to its totals, and nothing in them says that
  they are cut: the front page counts all events beside at most 300 cards
  (dashboard/data.py:103), the metrics all alerts beside at most 50, 100 or 20 rows.
  `FiguresAddUp` claims no more of a full list than that it does not exceed the rest.
* Reviewed alerts may outnumber all alerts in the metrics, and a rate exceed 1, when commits fall between
  two of its statements (core/feedback_analytics.py:91-105).
* The figures per day of the signal metrics count baseline alerts, the total beside them does
  not (core/metrics.py:173, core/feedback_analytics.py:91).
* The page of an alert may show it unreviewed above a history that has a review, when one is
  committed between the two statements (dashboard/data.py:548, :564).
* `content_hash` leaves out `raw_data`, so a record that PSREF marks as new later is
  unchanged, and never a candidate; one whose product is tracked later stays unlinked.
* The evidence tab takes the first row of the index, where NULL comes first: what was once
  unlinked is shown unlinked for ever.
* A record that is withdrawn and taken back is announced again.

## 6. Simplifications

`append` is one commit (its earlier statements only prepare rows that the next
`append` would write too). Drain treats pending rows in any order. The clock of the
pipeline is left out: any source may be due. Custom severity rules are the default
ones. In `SchemaGate` all tables that one version adds are one element, the
stamping transaction fails as a whole, and the data that migration 7 moves is left
out; databases that hold a marker and no other table, as some tests make them
(tests/legacy_db.py), are not among its files. In `Stories` a drain leaves any set of rows pending, and `source_due`
and the catalogue gate show only as manufacturers without changes. In `Evidence` a listing
is stored in any order, and a community report never links to a product (its
manufacturer is UNKNOWN), so correlation is left out. In `Feedback` notes, reviewers and
the filters and thresholds given to one analysis are left out; a suggestion keeps two of
its numbers.

In `Collectors` one source is crawled, its products are stored in any number before a
failure, and the interval between runs is left to the caller. What one product sitemap
names is not told from what another does: the reader comes away with any part of it. The limit
`max_pages` is taken never to be reached. In `HttpCache` tags
identify versions (a weak server is not modelled), and pacing is left out. In `Roster` the
community part of a routine scope is left out, which is `Evidence`'s. `Discovery` abstracts the checks of an
export to "passes or nothing happens", and the digest of a piece of evidence to its text.
The two sitemap collectors are one module: their runs differ in URLs, minimum and field
names. In `Reports` days and filters are one set, `window`. `ProductDatabase` takes the database to
be the one that crawls use (the script's default is one of its own), and leaves out
resolution by SKU and MPN, which its records do not have.

## 7. Plan

1. `CrawlPipeline` with `Alerts`, proofs: done.
2. `CrawlService`, proofs: done.
3. `SchemaGate`, proofs: done.
4. `Stories`, proofs: done.
5. `Evidence`, proofs: done.
6. `Feedback`, proofs: done.
7. `HttpCache`, `Roster`, `SitemapDelta`, `BeelinkDelta`, `ProductDatabase` and `Collectors` with
   `Fetching_sources`, proofs: done.
8. `Discovery` with `Decisions_kept`, proofs: done.
9. `Reports` with the same run, proofs, with the induction they need: done.
10. `Diff`: numeric matching, configurations, prices and severity rules as pure
    operators against a reference over bounded inputs.
11. An abstract specification of `Feedback` (a review and its history as one object) and of
    `Discovery` (an inbox that only grows), shown to be implemented.
