---------------------------- MODULE Collectors ------------------------------
(***************************************************************************)
(* How a source's catalogue becomes a run in the ledger: the discovery of  *)
(* the five engines (engines/), the catalogue gate of run_source           *)
(* (core/pipeline.py), the bookkeeping of run_all (core/runner.py) and the *)
(* rows of crawler_runs.                                                   *)
(*                                                                         *)
(* The site is an ordered list cut into pages; it changes while an engine  *)
(* reads it page by page.  A page is a number; a sitemap index is a node   *)
(* that names pages and other indexes.  Fetching, parsing and normalising  *)
(* a product either give the product or fail.                              *)
(***************************************************************************)
EXTENDS Naturals, Sequences, FiniteSets, SequencesExt

CONSTANTS
  Products,
  Sites,          \* what the site may list at first
  PerPage,        \* products on a full page
  Engines,        \* what each engine makes of its pages, see below
  Links,          \* what each sitemap index names
  MaxSitemaps,    \* how many sitemaps an engine reads
  MinPct, WarnPct,  \* of the previous catalogue: failed below, degraded below
  ZeroIsFailure,
  BaselineQuiet,  \* nothing is announced before a first completed run
  Window,         \* rows of the ledger that a dashboard reads
  MaxRuns, MaxMoves  \* bounds: runs, and changes of the site

\* An engine: the pages it starts from, what it does when one cannot be read
\* ("raise", "stop" or "skip"), whether a page that is "empty" or "short" is
\* the last one, whether it drops what it has already seen, whether it reads the
\* product sitemaps after the pages, and how many products it returns at most.

VARIABLES
  engine, site,
  hidden,   \* products that only the product sitemaps name
  ledger,   \* crawler_runs: status, health and discovered of each run
  known,    \* products that have a snapshot
  loud,     \* products announced as new
  pc, queue, visited, refs,   \* the run: its work list and its finds
  quiet,    \* it is the first crawl: its finds are not announced
  hiccup,   \* a page or sitemap failed, or the site moved under the reader
  partial,  \* the first completed run had such a hiccup, or was cut at its limit
  arrived,  \* products put on the site since that run began
  moves

siteVars == <<site, hidden, moves>>
runVars  == <<pc, queue, visited, refs, quiet>>
collectorVars == <<engine, siteVars, ledger, known, loud, runVars, hiccup,
                   partial, arrived>>

\* The pages that a site with all products has.
PageNumbers ==
  {k \in 1..Cardinality(Products) : (k - 1) * PerPage < Cardinality(Products)}

\* What an engine may come to read, and what holds all that its indexes name.
Nodes(e) ==
  ToSet(e.start) \cup DOMAIN Links \cup UNION {ToSet(Links[k]) : k \in DOMAIN Links}
FollowsLinks(S) == \A k \in S \cap DOMAIN Links : ToSet(Links[k]) \subseteq S

ASSUME ThresholdAssumption ==
  /\ MinPct \in Nat /\ WarnPct \in Nat /\ MinPct < WarnPct /\ WarnPct <= 100
  /\ ZeroIsFailure \in BOOLEAN /\ BaselineQuiet \in BOOLEAN

ASSUME BoundsAssumption ==
  MaxSitemaps \in Nat /\ Window \in Nat \ {0} /\ MaxRuns \in Nat /\ MaxMoves \in Nat

ASSUME SiteAssumption ==
  /\ IsFiniteSet(Products) /\ PerPage \in Nat \ {0}
  /\ \A s \in Sites : s \in Seq(Products) /\ IsInjective(s)

ASSUME LinksAssumption ==
  \A k \in DOMAIN Links : k \notin PageNumbers /\ Links[k] \in Seq(Nat \ {0})

\* The limit on pages is a safety valve that no site reaches; an engine that
\* stops at the end of the list reads it in order.
ASSUME EngineAssumption ==
  \A e \in Engines :
    /\ e \in [start : Seq(Nat \ {0}), onError : {"raise", "stop", "skip"},
              last : {"none", "empty", "short"}, dedup : BOOLEAN,
              sitemap : BOOLEAN, limit : Nat \ {0}]
    /\ Len(e.start) <= MaxSitemaps
    /\ e.last # "none" =>
         /\ \A i, j \in DOMAIN e.start : i < j => e.start[i] < e.start[j]
         /\ ToSet(e.start) \cap DOMAIN Links = {}
    /\ \A S \in SUBSET Nodes(e) :
         ToSet(e.start) \subseteq S /\ FollowsLinks(S) => PageNumbers \subseteq S

Page(k) ==
  SubSeq(site, (k - 1) * PerPage + 1,
         IF k * PerPage < Len(site) THEN k * PerPage ELSE Len(site))

\* What the engine could find.
Offered == ToSet(site) \cup hidden

\* The newest of some rows, if there is one, and the rows of completed runs.
Newest(rows) == {ledger[i] : i \in {j \in rows : \A k \in rows : k <= j}}
Completed == {i \in DOMAIN ledger : ledger[i].status = "ok"}

CollectorInit ==
  /\ engine \in Engines
  /\ site \in Sites
  /\ hidden \in IF engine.sitemap THEN SUBSET (Products \ ToSet(site)) ELSE {{}}
  /\ ledger = <<>> /\ known = {} /\ loud = {}
  /\ pc = "idle" /\ queue = <<>> /\ visited = {} /\ refs = <<>> /\ quiet = FALSE
  /\ hiccup = FALSE /\ partial = FALSE /\ arrived = {} /\ moves = 0

InDiscovery == pc \in {"discover", "mapped"}

\* New products come first; any product may be taken off, and stay in the sitemaps.
\* What these hide matters to an engine that reads them, and may change by itself.
SiteMoves ==
  /\ moves < MaxMoves
  /\ moves' = moves + 1
  /\ \/ /\ \/ \E p \in Products \ ToSet(site) : site' = <<p>> \o site
           \/ \E i \in DOMAIN site : site' = RemoveAt(site, i)
           \/ site' = <<>>
        /\ \E named \in IF engine.sitemap THEN {hidden, Offered} ELSE {{}} :
             hidden' = named \ ToSet(site')
     \/ /\ engine.sitemap
        /\ hidden' \in SUBSET (Products \ ToSet(site))
        /\ UNCHANGED site
  /\ arrived' = arrived \cup (Offered' \ Offered)
  /\ hiccup' = (hiccup \/ InDiscovery)
  /\ UNCHANGED <<engine, ledger, known, loud, runVars, partial>>

\* Mutant of StartRun: only the very first run is quiet.
StartLoud ==
  /\ pc = "idle" /\ Len(ledger) < MaxRuns
  /\ ledger' = Append(ledger,
                 [status |-> "running", health |-> "none", discovered |-> 0])
  /\ quiet' = (BaselineQuiet /\ ledger = <<>>)
  /\ arrived' = IF Completed = {} THEN {} ELSE arrived
  /\ pc' = "discover" /\ queue' = engine.start /\ visited' = {} /\ refs' = <<>>
  /\ hiccup' = FALSE
  /\ UNCHANGED <<engine, siteVars, known, loud, partial>>

StartRun ==
  /\ pc = "idle" /\ Len(ledger) < MaxRuns
  /\ ledger' = Append(ledger,
                 [status |-> "running", health |-> "none", discovered |-> 0])
  /\ quiet' = (BaselineQuiet /\ Completed = {})
  /\ arrived' = IF Completed = {} THEN {} ELSE arrived
  /\ pc' = "discover" /\ queue' = engine.start /\ visited' = {} /\ refs' = <<>>
  /\ hiccup' = FALSE
  /\ UNCHANGED <<engine, siteVars, known, loud, partial>>
-----------------------------------------------------------------------------
(* Discovery.                                                                *)

\* A page's products join what was found; most engines drop repetitions.
Found(page) ==
  IF engine.dedup
  THEN FoldLeft(LAMBDA rs, p : IF p \in ToSet(rs) THEN rs ELSE Append(rs, p), refs, page)
  ELSE refs \o page

\* Mutant of Rest: a full page is taken for the last.
RestUntilFull(page) ==
  IF engine.last = "short" /\ Len(page) <= PerPage THEN <<>> ELSE Tail(queue)

\* The reader goes on unless the page says that it is the last.
Rest(page) ==
  IF \/ engine.last \in {"empty", "short"} /\ page = <<>>
     \/ engine.last = "short" /\ Len(page) < PerPage
  THEN <<>> ELSE Tail(queue)

\* What a sitemap index names is queued, while the limit leaves room.
Queued(links, seen) ==
  FoldLeft(LAMBDA q, k : IF k \notin seen /\ Len(q) + Cardinality(seen) < MaxSitemaps
                         THEN Append(q, k) ELSE q,
           Tail(queue), links)

Discovering ==
  pc = "discover" /\ queue # <<>> /\ Cardinality(visited) < MaxSitemaps

\* An index may name a sitemap twice, or one that names it.
SkipVisited ==
  /\ Discovering /\ Head(queue) \in visited
  /\ queue' = Tail(queue)
  /\ UNCHANGED <<engine, siteVars, ledger, known, loud, pc, visited, refs,
                 quiet, hiccup, partial, arrived>>

ReadIndex ==
  /\ Discovering /\ Head(queue) \in DOMAIN Links \ visited
  /\ LET k == Head(queue)
         seen == visited \cup {k}
     IN  /\ visited' = seen
         /\ queue' = Queued(Links[k], seen)
         /\ hiccup' = (hiccup \/ ~(ToSet(Links[k]) \subseteq seen \cup ToSet(queue')))
  /\ UNCHANGED <<engine, siteVars, ledger, known, loud, pc, refs, quiet,
                 partial, arrived>>

ReadPage ==
  /\ Discovering /\ Head(queue) \notin DOMAIN Links \cup visited
  /\ LET page == Page(Head(queue))
     IN  refs' = Found(page) /\ queue' = Rest(page)
  /\ visited' = visited \cup {Head(queue)}
  /\ UNCHANGED <<engine, siteVars, ledger, known, loud, pc, quiet, hiccup,
                 partial, arrived>>

\* A page that cannot be read loses itself, all pages after it, or the run.
PageFails ==
  /\ Discovering /\ Head(queue) \notin visited
  /\ engine.onError # "raise"
  /\ queue' = IF engine.onError = "stop" THEN <<>> ELSE Tail(queue)
  /\ visited' = visited \cup {Head(queue)}
  /\ hiccup' = TRUE
  /\ UNCHANGED <<engine, siteVars, ledger, known, loud, pc, refs, quiet,
                 partial, arrived>>

\* With the pages read, the sitemaps add what the pages have not shown.  Each of
\* them may fail, and what it names is then missed without a word.
ReadSitemaps ==
  /\ pc = "discover" /\ ~Discovering /\ engine.sitemap
  /\ \E read \in SUBSET Offered :
       /\ refs' = refs \o SetToSeq(read \ ToSet(refs))
       /\ hiccup' = (hiccup \/ read # Offered)
  /\ pc' = "mapped"
  /\ UNCHANGED <<engine, siteVars, ledger, known, loud, queue, visited, quiet,
                 partial, arrived>>

\* The run's row is the last one: a source is crawled by one run at a time.
Close(status, health, n) ==
  ledger' = [ledger EXCEPT ![Len(ledger)] =
               [status |-> status, health |-> health, discovered |-> n]]

Leave(where) ==
  /\ pc' = where
  /\ queue' = <<>> /\ visited' = {} /\ refs' = <<>>
  /\ quiet' = FALSE /\ hiccup' = FALSE

\* Whatever raises leaves a failed row without statistics.
RunRaises ==
  /\ \/ Discovering /\ engine.onError = "raise"
     \/ pc = "drain"
  /\ Close("failed", "none", 0)
  /\ Leave("idle")
  /\ UNCHANGED <<engine, siteVars, known, loud, partial, arrived>>
-----------------------------------------------------------------------------
(* The catalogue gate.                                                       *)

\* The catalogue of the last completed run, if there is one.
Previous == {r.discovered : r \in Newest(Completed)}

Health(n) ==
  CASE n = 0 -> IF ZeroIsFailure /\ 0 \notin Previous THEN "failed" ELSE "ok"
    [] n > 0 /\ \E m \in Previous : 100 * n < MinPct * m -> "failed"
    [] n > 0 /\ \A m \in Previous : 100 * n >= MinPct * m ->
         IF \E m \in Previous : 100 * n < WarnPct * m THEN "degraded" ELSE "ok"

Discovered ==
  \/ pc = "discover" /\ ~Discovering /\ ~engine.sitemap
  \/ pc = "mapped"

\* The engine returns no more than its limit.
Kept == IF Len(refs) <= engine.limit THEN refs ELSE SubSeq(refs, 1, engine.limit)

\* Mutant of StatusOf: a run that ended is a completed one.
StatusOfEnded(health) == "ok"

\* A degraded catalogue counts as a completed run, a failed one does not.
StatusOf(health) == IF health = "failed" THEN "failed" ELSE "ok"

Finish(trouble) ==
  LET health == Health(Len(Kept))
  IN  /\ Close(StatusOf(health), health, Len(Kept))
      /\ partial' = IF StatusOf(health) = "ok" /\ Completed = {}
                    THEN trouble ELSE partial

\* A failed or empty catalogue ends the run before any product is touched.
GateStops ==
  /\ Discovered /\ (Kept = <<>> \/ Health(Len(Kept)) = "failed")
  /\ Finish(hiccup)
  /\ Leave("drain")
  /\ UNCHANGED <<engine, siteVars, known, loud, arrived>>

\* Products are stored one by one; those that fail, or that the limit has cut off,
\* are left for another run.
Store(done) ==
  /\ known' = known \cup done
  /\ loud' = loud \cup (IF quiet THEN {} ELSE done \ known)

ProcessProducts ==
  /\ Discovered /\ Kept # <<>> /\ Health(Len(Kept)) # "failed"
  /\ \E done \in SUBSET ToSet(Kept) :
       Store(done) /\ Finish(hiccup \/ done # ToSet(refs))
  /\ Leave("drain")
  /\ UNCHANGED <<engine, siteVars, arrived>>

Drained ==
  /\ pc = "drain"
  /\ Leave("idle")
  /\ UNCHANGED <<engine, siteVars, ledger, known, loud, partial, arrived>>

\* A process that dies leaves its row running, and the products it has stored.
Die ==
  /\ pc # "idle"
  /\ \/ /\ Discovered /\ Health(Len(Kept)) # "failed"
        /\ \E done \in SUBSET ToSet(Kept) : Store(done)
     \/ UNCHANGED <<known, loud>>
  /\ Leave("idle")
  /\ UNCHANGED <<engine, siteVars, ledger, partial, arrived>>

Run ==
  \/ SkipVisited \/ ReadIndex \/ ReadPage \/ PageFails \/ ReadSitemaps
  \/ RunRaises \/ GateStops \/ ProcessProducts \/ Drained

CollectorNext == SiteMoves \/ StartRun \/ Run \/ Die

CollectorSpec == CollectorInit /\ [][CollectorNext]_collectorVars
-----------------------------------------------------------------------------
(* What is told of the ledger.                                               *)

\* The rows that a dashboard reads.
Recent == {i \in DOMAIN ledger : i + Window > Len(ledger)}

\* The collector board shows the newest of them that has a verdict: a run that
\* raised, died or goes on has none, and is passed over.
BoardHealth == Newest({i \in Recent : ledger[i].health # "none"})

\* The metrics count a source by the verdict of its newest row, if it has one.
MetricsHealth == {r.health : r \in Newest(DOMAIN ledger)} \ {"none"}
-----------------------------------------------------------------------------
\* Without a failing page or sitemap, and on a site that holds still, every engine
\* returns every product once, hidden ones included, or as many different ones as
\* its limit allows: no page boundary, full last page, repeated or circular
\* sitemap loses or doubles one.
CleanDiscoveryIsExact ==
  Discovered /\ ~hiccup =>
    /\ IsInjective(Kept) /\ ToSet(Kept) \subseteq Offered
    /\ ToSet(Kept) = Offered \/ Len(Kept) = engine.limit

\* Where baselines are quiet, what is announced as new has come to the site since
\* the first completed run began, unless that run had a page, a sitemap or a
\* product that failed, found more than its limit, or the site moved under it: a
\* first crawl that dies, fails its gate or fails to drain leaves the next one as
\* quiet as itself.
LoudIsNews == BaselineQuiet => loud \subseteq arrived \/ partial

\* The readers of the ledger never contradict each other or the gate: a source
\* shown as ok or degraded is shown for the very run that the next one will be
\* compared with, one shown as failed was stopped by the gate and is no baseline,
\* and the metrics, which look at the newest row only, then say the same or count
\* the source nowhere.
ReadersAgree ==
  /\ \A r \in BoardHealth :
       IF r.health = "failed" THEN r.status = "failed"
       ELSE r \in Newest(Completed)
  /\ MetricsHealth # {} => MetricsHealth = {r.health : r \in BoardHealth}
=============================================================================
