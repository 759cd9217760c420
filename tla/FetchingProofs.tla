---------------------------- MODULE FetchingProofs ----------------------------
(***************************************************************************)
(* Proofs about what is fetched: the HTTP cache, the run over the product  *)
(* database, the scope of a crawl, the two kinds of delta collectors and   *)
(* the catalogue engines with the run ledger, for any values of their      *)
(* constants.                                                              *)
(***************************************************************************)
EXTENDS HttpCache, Collectors, ProductDatabase, Roster, BeelinkDelta, SitemapDelta,
        InductionLemmas, TLAPS

-----------------------------------------------------------------------------
(* The HTTP cache.                                                          *)

\* A fetcher that writes has a version to write.
Replied == \A f \in Fetchers : at[f] \in {"meta", "body"} => reply[f] \in Versions

HttpTyped == HttpTypeOK /\ Replied

LEMMA TagTyped ==
  ASSUME NEW v \in Versions
  PROVE  /\ TagOf(v) \in Versions \cup {NoTag}
         /\ TagOf(v) \in Versions => TagOf(v) = v
BY MarkersAssumption, TaggedAssumption DEF TagOf

LEMMA HttpInitTyped == HttpInit => HttpTyped
<1>. SUFFICES ASSUME HttpInit PROVE HttpTyped
    OBVIOUS
<1>1. NoAnswer \in [from : {"nowhere", "cache", "server", "error"},
                   text : Texts, right : Versions \cup {Absent}]
    BY DEF NoAnswer, Texts
<1>2. attempt \in [Fetchers -> 0..(MaxRetries + 1)]
    BY RetriesAssumption DEF HttpInit
<1>3. changes \in 0..MaxChanges /\ gets \in 0..MaxGets
    BY HttpBoundsAssumption DEF HttpInit
<1>. QED  BY <1>1, <1>2, <1>3 DEF HttpInit, HttpTyped, HttpTypeOK, Replied, Texts

LEMMA HttpNextTyped == HttpTyped /\ [HttpNext]_httpVars => HttpTyped'
<1>. SUFFICES ASSUME HttpTyped, [HttpNext]_httpVars PROVE HttpTyped'
    OBVIOUS
<1>. USE DEF HttpTyped, HttpTypeOK, Replied, Texts
<1>1. CASE PageChanges
  <2>1. changes' \in 0..MaxChanges
      BY <1>1, HttpBoundsAssumption DEF PageChanges
  <2>2. page' \in Versions
      BY <1>1 DEF PageChanges
  <2>. QED  BY <1>1, <2>1, <2>2 DEF PageChanges, files, mine
<1>2. ASSUME NEW f \in Fetchers, Fetch(f) PROVE HttpTyped'
  <2>1. CASE ReadMeta(f)
    <3>1. gets' \in 0..MaxGets /\ attempt' \in [Fetchers -> 0..(MaxRetries + 1)]
        BY <2>1, RetriesAssumption, HttpBoundsAssumption DEF ReadMeta
    <3>2. answer' \in [Fetchers -> [from : {"nowhere", "cache", "server", "error"},
                                   text : Texts, right : Versions \cup {Absent}]]
        BY <2>1 DEF ReadMeta, NoAnswer
    <3>3. tag' \in [Fetchers -> Versions \cup {NoTag}] /\ suspect' \subseteq Fetchers
        BY <2>1 DEF ReadMeta
    <3>4. /\ at' \in [Fetchers -> {"idle", "read", "send", "meta", "body"}]
          /\ cached' \in [Fetchers -> Texts]
          /\ Replied'
        BY <2>1 DEF ReadMeta, Step
    <3>. QED  BY <2>1, <3>1, <3>2, <3>3, <3>4 DEF ReadMeta, files
  <2>2. CASE ReadBody(f)
      BY <2>2 DEF ReadBody, Step, files
  <2>3. CASE Undecodable(f)
    <3>1. answer' \in [Fetchers -> [from : {"nowhere", "cache", "server", "error"},
                                   text : Texts, right : Versions \cup {Absent}]]
        BY <2>3 DEF Undecodable
    <3>2. at' \in [Fetchers -> {"idle", "read", "send", "meta", "body"}] /\ Replied'
        BY <2>3 DEF Undecodable, Step, mine
    <3>. QED  BY <2>3, <3>1, <3>2 DEF Undecodable, files, mine
  <2>4. CASE NotModified(f)
      BY <2>4 DEF NotModified, Attempts, Step, files, mine
  <2>5. CASE FreshPage(f)
      BY <2>5 DEF FreshPage, Attempts, Step, files
  <2>6. CASE Retry(f)
      BY <2>6, RetriesAssumption DEF Retry, Attempts, files
  <2>7. CASE GiveUp(f)
      BY <2>7 DEF GiveUp, Step, files, mine
  <2>8. CASE WriteMeta(f)
      BY <2>8, TagTyped DEF WriteMeta, Spoil, Reading, Step, mine
  <2>9. CASE WriteBody(f)
    <3>1. Live(f) \in [from : {"nowhere", "cache", "server", "error"},
                       text : Texts, right : Versions \cup {Absent}]
        BY <2>9 DEF WriteBody, Live
    <3>. QED  BY <2>9, <3>1 DEF WriteBody, Writing, Reading, Step, mine
  <2>10. CASE Tear(f)
    <3>1. Live(f) \in [from : {"nowhere", "cache", "server", "error"},
                       text : Texts, right : Versions \cup {Absent}]
        BY <2>10 DEF Tear, Live
    <3>. QED  BY <2>10, <3>1 DEF Tear, Reading, Step, mine
  <2>. QED  BY <1>2, <2>1, <2>2, <2>3, <2>4, <2>5, <2>6, <2>7, <2>8, <2>9, <2>10
            DEF Fetch
<1>3. CASE UNCHANGED httpVars
    BY <1>3 DEF httpVars
<1>. QED  BY <1>1, <1>2, <1>3 DEF HttpNext

\* Every reachable state of the cache and its fetchers has its types, for any
\* number of processes, versions and retries (HttpFetcher.get, core/fetch.py).
THEOREM HttpTypeCorrect == HttpSpec => []HttpTypeOK
<1>1. HttpTyped => HttpTypeOK
    BY DEF HttpTyped
<1>. QED  BY HttpInitTyped, HttpNextTyped, <1>1, PTL DEF HttpSpec
-----------------------------------------------------------------------------
(* The body goes with the tag.                                               *)

\* Two files that nobody writes to, and nobody has mixed, are of one version,
\* and whoever is between the two has written the tag of its own.
FilesFit ==
  /\ ~mixed /\ Writing = {} /\ meta \in Versions => body = meta
  /\ \A f \in Fetchers : ~mixed /\ at[f] = "body" => meta = TagOf(reply[f])

\* A fetcher that is not suspect has read the tag that is in the file, and the
\* body that goes with it.
ReadersFit ==
  \A f \in Fetchers \ suspect :
    /\ at[f] = "read" => tag[f] = meta /\ ~mixed /\ Writing = {}
    /\ at[f] = "send" /\ tag[f] \in Versions => cached[f] = tag[f]

CacheInv == FilesFit /\ ReadersFit /\ CacheAnswersRight

LEMMA InitCache == HttpInit => CacheInv
BY MarkersAssumption
   DEF HttpInit, CacheInv, FilesFit, ReadersFit, CacheAnswersRight, NoAnswer

LEMMA NextCache == HttpTyped /\ CacheInv /\ [HttpNext]_httpVars => CacheInv'
<1>. SUFFICES ASSUME HttpTyped, CacheInv, [HttpNext]_httpVars PROVE CacheInv'
    OBVIOUS
<1>. USE DEF HttpTyped, HttpTypeOK, Replied, CacheInv, FilesFit, ReadersFit,
             CacheAnswersRight, Writing, Reading
<1>1. CASE PageChanges
    BY <1>1 DEF PageChanges, files, mine
<1>2. ASSUME NEW f \in Fetchers, Fetch(f) PROVE CacheInv'
  <2>1. CASE ReadMeta(f)
      BY <2>1, MarkersAssumption DEF ReadMeta, Step, files, NoAnswer
  <2>2. CASE ReadBody(f)
      BY <2>2, MarkersAssumption DEF ReadBody, Step, files
  <2>3. CASE Undecodable(f)
      BY <2>3 DEF Undecodable, Step, files, mine
  <2>4. CASE NotModified(f)
      BY <2>4 DEF NotModified, Attempts, Step, files, mine
  <2>5. CASE FreshPage(f)
      BY <2>5 DEF FreshPage, Attempts, Step, files
  <2>6. CASE Retry(f)
      BY <2>6 DEF Retry, Attempts, files
  <2>7. CASE GiveUp(f)
      BY <2>7 DEF GiveUp, Step, files, mine
  <2>8. CASE WriteMeta(f)
    <3>1. FilesFit'
      <4>1. meta' = TagOf(reply[f]) /\ at' = [at EXCEPT ![f] = "body"]
          BY <2>8 DEF WriteMeta, Step
      <4>2. ~mixed' => Writing \ {f} = {} /\ ~mixed
          BY <2>8 DEF WriteMeta, Spoil
      <4>3. Writing' = Writing \cup {f} /\ reply' = reply
          BY <2>8, <4>1 DEF WriteMeta, mine
      <4>. QED  BY <4>1, <4>2, <4>3
    <3>2. ReadersFit'
        BY <2>8 DEF WriteMeta, Spoil, Step, mine
    <3>3. CacheAnswersRight'
        BY <2>8 DEF WriteMeta, Spoil, Step, mine
    <3>. QED  BY <3>1, <3>2, <3>3
  <2>9. CASE WriteBody(f)
    <3>1. FilesFit'
      <4>1. Writing' = Writing \ {f}
          BY <2>9 DEF WriteBody, Step
      <4>2. ASSUME ~mixed' PROVE Writing = {f} /\ meta = TagOf(reply[f])
          BY <2>9, <4>2 DEF WriteBody
      <4>3. meta = TagOf(reply[f]) /\ meta \in Versions => meta = reply[f]
          BY <2>9, TagTyped DEF WriteBody
      <4>4. ~mixed' /\ meta' \in Versions => body' = meta'
          BY <2>9, <4>2, <4>3 DEF WriteBody
      <4>5. ~mixed' => \A g \in Fetchers : at'[g] # "body"
          BY <2>9, <4>1, <4>2 DEF WriteBody, Step
      <4>. QED  BY <4>4, <4>5
    <3>2. ReadersFit'
        BY <2>9 DEF WriteBody, Step, mine
    <3>3. CacheAnswersRight'
        BY <2>9 DEF WriteBody, Live, Step, mine
    <3>. QED  BY <3>1, <3>2, <3>3
  <2>10. CASE Tear(f)
    <3>1. FilesFit'
        BY <2>10, MarkersAssumption DEF Tear, Step, mine
    <3>2. ReadersFit'
        BY <2>10 DEF Tear, Step, mine
    <3>3. CacheAnswersRight'
        BY <2>10 DEF Tear, Live, Step, mine
    <3>. QED  BY <3>1, <3>2, <3>3
  <2>. QED  BY <1>2, <2>1, <2>2, <2>3, <2>4, <2>5, <2>6, <2>7, <2>8, <2>9, <2>10
            DEF Fetch
<1>3. CASE UNCHANGED httpVars
    BY <1>3 DEF httpVars
<1>. QED  BY <1>1, <1>2, <1>3 DEF HttpNext

\* "Not modified" is answered with the text the server means, by any number of
\* fetchers that share the cache directory, unless the fetcher has read files that a
\* cut, failed or overlapping write has mixed (_cache_read, _cache_write).
THEOREM AnswersAreRight == HttpSpec => []CacheAnswersRight
<1>1. CacheInv => CacheAnswersRight
    BY DEF CacheInv
<1>. QED  BY HttpInitTyped, HttpNextTyped, InitCache, NextCache, <1>1, PTL DEF HttpSpec
-----------------------------------------------------------------------------
(* The run over the product database.                                       *)

\* Between two commits a run has a record in hand.
InHand ==
  phase \in {"resolve", "link", "event"} =>
    current.record \in Records /\ current.entry \in Entry

DatabaseTyped == DatabaseTypeOK /\ InHand

LEMMA DatabaseInitTyped == DatabaseInit => DatabaseTyped
<1>. SUFFICES ASSUME DatabaseInit PROVE DatabaseTyped
    OBVIOUS
<1>1. tree \in [Records -> Handled] /\ batch \in [Records -> Handled]
  <2>1. ASSUME NEW n \in Names
        PROVE  [name |-> n, withdrawn |-> FALSE, new |-> TRUE] \in Handled
      BY DEF Handled, Entry
  <2>. QED  BY <2>1 DEF DatabaseInit, None, Handled
<1>2. published \in 0..MaxPublished /\ tracks \in 0..MaxTracked
    BY ProductDatabaseAssumption DEF DatabaseInit
<1>. QED  BY <1>1, <1>2 DEF DatabaseInit, DatabaseTyped, DatabaseTypeOK, InHand, None, NotAt, Handled

LEMMA ResolvedTyped ==
  ASSUME NEW n \in Names
  PROVE  Resolved(n) \subseteq Keys \cup {Unlinked}
BY DEF Resolved

LEMMA DatabaseNextTyped == DatabaseTyped /\ [DatabaseNext]_databaseVars => DatabaseTyped'
<1>. SUFFICES ASSUME DatabaseTyped, [DatabaseNext]_databaseVars PROVE DatabaseTyped'
    OBVIOUS
<1>. USE DEF DatabaseTyped, DatabaseTypeOK, InHand, Handled
<1>1. ASSUME NEW r \in Records, Publish(r) PROVE DatabaseTyped'
    BY <1>1, ProductDatabaseAssumption DEF Publish, shop, databaseStore, databaseRun
<1>2. ASSUME NEW r \in Records, RecordItem(r) PROVE DatabaseTyped'
  <2>1. batch[r] \in Entry /\ Facts(batch[r]) \in Stored
      BY <1>2 DEF RecordItem, Facts, Entry, Stored
  <2>2. CASE Extracted(batch[r]) /\ fact[r] # Facts(batch[r])
      BY <1>2, <2>1, <2>2 DEF RecordItem, shop
  <2>3. CASE ~(Extracted(batch[r]) /\ fact[r] # Facts(batch[r]))
      BY <1>2, <2>1, <2>3 DEF RecordItem, shop
  <2>. QED  BY <2>2, <2>3
<1>3. ASSUME NEW k \in Keys, NEW n \in Names, NEW names \in SUBSET Names,
             Track(k, n, names)
      PROVE DatabaseTyped'
  <2>1. model' \in [Keys -> Names \cup {Nothing}] /\ alias' \in [Keys -> SUBSET Names]
      BY <1>3 DEF Track
  <2>2. untracked' \subseteq Names
      BY <1>3 DEF Track, Untracked
  <2>3. tracks' \in 0..MaxTracked
      BY <1>3, ProductDatabaseAssumption DEF Track
  <2>. QED  BY <1>3, <2>1, <2>2, <2>3 DEF Track, databaseStore, databaseRun
<1>4. CASE DiscoverRecords
    BY <1>4 DEF DiscoverRecords, Untracked, NotAt, shop, databaseStore
<1>5. CASE ResolveLink
  <2>1. key' \in Keys \cup {Unlinked}
      BY <1>5, ResolvedTyped DEF ResolveLink, Entry
  <2>. QED  BY <1>5, <2>1 DEF ResolveLink, shop, databaseStore
<1>6. CASE LinkItem
    BY <1>6 DEF LinkItem, shop
<1>7. CASE LogEvent
    BY <1>7 DEF LogEvent, NotAt, shop
<1>8. CASE LeaveRecords
    BY <1>8 DEF LeaveRecords, NotAt, None, shop, databaseStore
<1>9. CASE UNCHANGED databaseVars
    BY <1>9 DEF databaseVars, shop, databaseStore, databaseRun
<1>. QED  BY <1>1, <1>2, <1>3, <1>4, <1>5, <1>6, <1>7, <1>8, <1>9 DEF DatabaseNext

\* Every reachable state of a run over the product database, and of the crawls beside it, has
\* its types (run_evidence_source, core/evidence_pipeline.py).
THEOREM DatabaseTypeCorrect == DatabaseSpec => []DatabaseTypeOK
<1>1. DatabaseTyped => DatabaseTypeOK
    BY DEF DatabaseTyped
<1>. QED  BY DatabaseInitTyped, DatabaseNextTyped, <1>1, PTL DEF DatabaseSpec
-----------------------------------------------------------------------------
(* What is announced is not linked.                                          *)

\* What is announced, or about to be, has its row without a product.
LinkedFirst ==
  /\ \A r \in announced : Unlinked \in linked[r]
  /\ phase = "event" => key \in linked[current.record]

LEMMA NextLinked ==
  DatabaseTyped /\ LinkedFirst /\ [DatabaseNext]_databaseVars => LinkedFirst'
<1>. SUFFICES ASSUME DatabaseTyped, LinkedFirst, [DatabaseNext]_databaseVars
              PROVE LinkedFirst'
    OBVIOUS
<1>. USE DEF DatabaseTyped, DatabaseTypeOK, InHand, LinkedFirst
<1>1. ASSUME NEW r \in Records, Publish(r) PROVE LinkedFirst'
    BY <1>1 DEF Publish, shop, databaseStore, databaseRun
<1>2. ASSUME NEW r \in Records, RecordItem(r) PROVE LinkedFirst'
    BY <1>2 DEF RecordItem, shop
<1>3. ASSUME NEW k \in Keys, NEW n \in Names, NEW names \in SUBSET Names,
             Track(k, n, names)
      PROVE LinkedFirst'
    BY <1>3 DEF Track, databaseStore, databaseRun
<1>4. CASE DiscoverRecords
    BY <1>4 DEF DiscoverRecords, shop, databaseStore
<1>5. CASE ResolveLink
    BY <1>5 DEF ResolveLink, shop, databaseStore
<1>6. CASE LinkItem
    BY <1>6 DEF LinkItem, shop
<1>7. CASE LogEvent
    BY <1>7 DEF LogEvent, IsCandidate, shop
<1>8. CASE LeaveRecords
    BY <1>8 DEF LeaveRecords, shop, databaseStore
<1>9. CASE UNCHANGED databaseVars
    BY <1>9 DEF databaseVars, shop, databaseStore, databaseRun
<1>. QED  BY <1>1, <1>2, <1>3, <1>4, <1>5, <1>6, <1>7, <1>8, <1>9 DEF DatabaseNext

\* A record noted as a candidate for a new model is never shown as the page of a tracked
\* product (core/evidence_pipeline.py:125, :132): its link precedes its event
\* and stays, whatever crawls, renames and later runs do.
THEOREM AnnouncedStaysUnlinked == DatabaseSpec => []AnnouncedIsNotLinked
<1>1. DatabaseInit => LinkedFirst
    BY DEF DatabaseInit, LinkedFirst
<1>2. LinkedFirst => AnnouncedIsNotLinked
    BY DEF LinkedFirst, AnnouncedIsNotLinked, Shown
<1>. QED  BY DatabaseInitTyped, DatabaseNextTyped, NextLinked, <1>1, <1>2, PTL DEF DatabaseSpec
-----------------------------------------------------------------------------
(* What is tracked is not announced.                                         *)

\* The names that no listing has now are among those that none had at some moment of
\* the run, and so is the name of a record that was not resolved.
UntrackedSeen ==
  /\ phase # "idle" => Untracked(model, alias) \subseteq untracked
  /\ phase \in {"link", "event"} /\ key = Unlinked => current.entry.name \in untracked

\* Resolution finds nothing only for a name that no listing has.
LEMMA UnresolvedIsUntracked ==
  ASSUME NEW n \in Names, Unlinked \in Resolved(n)
  PROVE  n \in Untracked(model, alias)
BY ProductDatabaseAssumption DEF Resolved, Untracked

LEMMA NextUntracked ==
  DatabaseTyped /\ UntrackedSeen /\ [DatabaseNext]_databaseVars => UntrackedSeen'
<1>. SUFFICES ASSUME DatabaseTyped, UntrackedSeen, [DatabaseNext]_databaseVars
              PROVE UntrackedSeen'
    OBVIOUS
<1>. USE DEF DatabaseTyped, DatabaseTypeOK, InHand, UntrackedSeen
<1>1. ASSUME NEW r \in Records, Publish(r) PROVE UntrackedSeen'
    BY <1>1 DEF Publish, shop, databaseStore, databaseRun
<1>2. ASSUME NEW r \in Records, RecordItem(r) PROVE UntrackedSeen'
    BY <1>2 DEF RecordItem, shop
<1>3. ASSUME NEW k \in Keys, NEW n \in Names, NEW names \in SUBSET Names,
             Track(k, n, names)
      PROVE UntrackedSeen'
    BY <1>3 DEF Track, databaseStore, databaseRun
<1>4. CASE DiscoverRecords
    BY <1>4 DEF DiscoverRecords, shop, databaseStore
<1>5. CASE ResolveLink
    BY <1>5, UnresolvedIsUntracked DEF ResolveLink, shop, databaseStore, Entry
<1>6. CASE LinkItem
    BY <1>6 DEF LinkItem, shop
<1>7. CASE LogEvent
    BY <1>7 DEF LogEvent, shop
<1>8. CASE LeaveRecords
    BY <1>8 DEF LeaveRecords, shop, databaseStore
<1>9. CASE UNCHANGED databaseVars
    BY <1>9 DEF databaseVars, shop, databaseStore, databaseRun
<1>. QED  BY <1>1, <1>2, <1>3, <1>4, <1>5, <1>6, <1>7, <1>8, <1>9 DEF DatabaseNext

\* A name that some tracked product has, as its model or an alias, all through a run is never
\* noted as a new model by it (resolve_evidence_link, candidates_for_evidence).
THEOREM TrackedStaysQuiet == DatabaseSpec => TrackedIsNoNews
<1>1. DatabaseInit => UntrackedSeen
    BY DEF DatabaseInit, UntrackedSeen
<1>2. DatabaseTyped /\ UntrackedSeen /\ [DatabaseNext]_databaseVars
      => [\A r \in announced' \ announced : current.entry.name \in untracked]_databaseVars
  <2>. SUFFICES ASSUME UntrackedSeen, DatabaseNext, NEW r \in announced' \ announced
                PROVE current.entry.name \in untracked
      BY DEF UntrackedSeen
  <2>1. LogEvent
      BY DEF DatabaseNext, Publish, RecordItem, Track, DiscoverRecords, ResolveLink,
             LinkItem, LeaveRecords, shop, databaseStore, databaseRun
  <2>2. IsCandidate(current.entry, key) /\ phase = "event"
      BY <2>1 DEF LogEvent
  <2>. QED  BY <2>2 DEF IsCandidate, UntrackedSeen
<1>. QED  BY DatabaseInitTyped, DatabaseNextTyped, NextUntracked, <1>1, <1>2, PTL
          DEF DatabaseSpec, TrackedIsNoNews
-----------------------------------------------------------------------------
(* The scope of a crawl.                                                    *)

\* What a crawl has planned, done and passed over it has loaded and may crawl, and
\* one that has loaded nothing has planned nothing.
InScopeOnly ==
  /\ crawl \in Requests \cup {NoCrawl}
  /\ crawl = NoCrawl \/ crawl.step = "asked"
       => plan = {} /\ crawled = {} /\ skipped = {}
  /\ \A s \in plan \cup crawled \cup skipped :
       \E e \in loaded : e.id = s /\ e.enabled /\ (crawl.by = "routine" => e.routine)

\* A selection that nobody has edited the descriptors under is still accepted, or is
\* divided into what is planned, done and passed over.
SelectionInHand ==
  crawl # NoCrawl /\ crawl.by = "selected" /\ ~edited =>
    /\ crawl.step = "asked" => crawl.ids \subseteq IdsOf(Enabled(Loaded))
    /\ crawl.step = "running" =>
         /\ plan \cup crawled \cup skipped = crawl.ids
         /\ crawl.force => skipped = {}

ScopeInv == InScopeOnly /\ SelectionInHand

LEMMA InitScope == RosterInit => ScopeInv
BY DEF RosterInit, ScopeInv, InScopeOnly, SelectionInHand

LEMMA PlannedInScope ==
  ASSUME crawl \in Requests
  PROVE  /\ \A s \in Planned : \E e \in Loaded :
              e.id = s /\ e.enabled /\ (crawl.by = "routine" => e.routine)
         /\ crawl.by = "selected" /\ crawl.ids \subseteq IdsOf(Enabled(Loaded))
              => Planned = crawl.ids
<1>1. \A s \in Planned : \E e \in Enabled(Loaded) : e.id = s /\ InScope(e)
    BY DEF Planned
<1>2. \A e : crawl.by = "routine" /\ InScope(e) => e.routine
    BY DEF InScope
<1>3. ASSUME crawl.by = "selected"
      PROVE  \A e : InScope(e) <=> e.id \in crawl.ids
    BY <1>3 DEF InScope
<1>4. ASSUME crawl.by = "selected", crawl.ids \subseteq IdsOf(Enabled(Loaded))
      PROVE  Planned = crawl.ids
    BY <1>3, <1>4 DEF Planned, IdsOf
<1>. QED  BY <1>1, <1>2, <1>4 DEF Enabled

LEMMA NextScope == ScopeInv /\ [RosterNext]_rosterVars => ScopeInv'
<1>. SUFFICES ASSUME ScopeInv, [RosterNext]_rosterVars PROVE ScopeInv'
    OBVIOUS
<1>. USE DEF ScopeInv, InScopeOnly, SelectionInHand
<1>1. ASSUME NEW f \in Files, Edit(f) PROVE ScopeInv'
    BY <1>1 DEF Edit
<1>2. ASSUME NEW by \in {"routine", "selected", "all", "source"}, NEW ids \in SUBSET Ids,
             NEW force \in BOOLEAN, Ask(by, ids, force),
             by = "selected" => ids \subseteq IdsOf(Enabled(Loaded))
      PROVE ScopeInv'
  <2>1. crawl' \in Requests /\ crawl'.step = "asked" /\ crawl'.by = by /\ crawl'.ids = ids
      BY <1>2 DEF Ask, Requests
  <2>2. plan' = {} /\ crawled' = {} /\ skipped' = {} /\ Loaded' = Loaded
      BY <1>2 DEF Ask, Loaded, Shadowed
  <2>. QED  BY <1>2, <2>1, <2>2 DEF Ask, IdsOf, Enabled
<1>3. CASE Refuse
    BY <1>3 DEF Refuse, EndCrawl
<1>4. CASE Load
  <2>1. crawl \in Requests /\ crawl # NoCrawl /\ crawl.step = "asked"
      BY <1>4 DEF Load
  <2>2. /\ crawl' \in Requests /\ crawl'.step = "running"
        /\ crawl'.by = crawl.by /\ crawl'.ids = crawl.ids /\ crawl'.force = crawl.force
      BY <1>4, <2>1 DEF Load, Requests
  <2>3. /\ loaded' = Loaded /\ plan' = Planned /\ crawled' = {} /\ skipped' = {}
        /\ edited' = edited
      BY <1>4, <2>1 DEF Load
  <2>4. InScopeOnly'
    <3>1. \A s \in plan' \cup crawled' \cup skipped' :
            \E e \in loaded' : e.id = s /\ e.enabled /\ (crawl'.by = "routine" => e.routine)
        BY <2>1, <2>2, <2>3, PlannedInScope
    <3>2. crawl' \in Requests \cup {NoCrawl} /\ ~(crawl' = NoCrawl \/ crawl'.step = "asked")
        BY <2>2, RosterAssumption
    <3>. QED  BY <3>1, <3>2
  <2>5. SelectionInHand'
    <3>1. ASSUME crawl'.by = "selected", ~edited' PROVE plan' = crawl'.ids
        BY <2>1, <2>2, <2>3, <3>1, PlannedInScope
    <3>. QED  BY <2>2, <2>3, <3>1
  <2>. QED  BY <2>4, <2>5
<1>5. ASSUME NEW s \in Ids, SkipSource(s) PROVE ScopeInv'
    BY <1>5 DEF SkipSource, Due
<1>6. ASSUME NEW s \in Ids, CrawlSource(s) PROVE ScopeInv'
    BY <1>6 DEF CrawlSource
<1>7. CASE LeaveCrawl
    BY <1>7 DEF LeaveCrawl, EndCrawl
<1>8. CASE SyncBeforeServe
    BY <1>8 DEF SyncBeforeServe, crawlVars, Loaded, Shadowed
<1>9. ASSUME NEW s \in Ids, IntervalPasses(s) PROVE ScopeInv'
    BY <1>9 DEF IntervalPasses, crawlVars, Loaded, Shadowed
<1>10. CASE UNCHANGED rosterVars
    BY <1>10 DEF rosterVars, crawlVars, Loaded, Shadowed
<1>11. ASSUME NEW force \in BOOLEAN,
              \/ PostRoutine(force) \/ RunFromTerminal(force)
              \/ \E ids \in SUBSET Ids : PostSelection(ids, force)
       PROVE ScopeInv'
    BY <1>2, <1>11 DEF PostRoutine, RunFromTerminal, PostSelection
<1>. QED  BY <1>1, <1>3, <1>4, <1>5, <1>6, <1>7, <1>8, <1>9, <1>10, <1>11 DEF RosterNext

\* A crawl does no more than it may and, when nobody edited the descriptors before it
\* loaded them, no less than it was asked for (resolve_manual_sources in
\* core/crawl_service.py, run_all in core/runner.py).
THEOREM ScopesAreKept == RosterSpec => []ScopeIsKept
<1>1. ScopeInv => ScopeIsKept
    BY DEF ScopeInv, InScopeOnly, SelectionInHand, ScopeIsKept, CrawlsWhatItLoaded,
           SelectionIsHonoured, Ended
<1>. QED  BY InitScope, NextScope, <1>1, PTL DEF RosterSpec
-----------------------------------------------------------------------------
(* The catalogue delta.                                                     *)

Told == arrivals \cup firstKnown \cup halfSaved

\* What ConfigsAfter gives keeps what is stored and files the rest under a model
\* of the catalogue that lists it.
LEMMA FiledUnderModel ==
  ASSUME NEW keys, NEW f \in ConfigsAfter(keys)
  PROVE  /\ DOMAIN f = DOMAIN configs \cup keys
         /\ \A c \in DOMAIN f :
              IF c \in DOMAIN configs THEN f[c] = configs[c]
              ELSE f[c] \in DOMAIN shelf /\ c \in KeysOf(f[c])
BY DEF ConfigsAfter

LEMMA NextTold ==
  CatalogueArrivalsReported /\ [BeelinkNext]_beelinkVars => CatalogueArrivalsReported'
<1>. SUFFICES ASSUME CatalogueArrivalsReported, [BeelinkNext]_beelinkVars
              PROVE CatalogueArrivalsReported'
    OBVIOUS
<1>. USE DEF CatalogueArrivalsReported
<1>1. CASE CatalogueChanges
    BY <1>1 DEF CatalogueChanges
<1>2. CASE PollBeelink
  <2>1. models' = models \cup DOMAIN shelf
      BY <1>2 DEF PollBeelink
  <2>2. /\ DOMAIN configs' = DOMAIN configs \cup ShelfKeys
        /\ \A c \in DOMAIN configs' :
             IF c \in DOMAIN configs THEN configs'[c] = configs[c]
             ELSE configs'[c] \in DOMAIN shelf /\ c \in KeysOf(configs'[c])
      BY <1>2, FiledUnderModel DEF PollBeelink
  <2>3. joined' = joined \cup {c \in DOMAIN configs' \ DOMAIN configs :
                                 configs'[c] \notin models}
      BY <1>2 DEF PollBeelink
  <2>4. CASE shelved = {}
    <3>1. firstKnown' = firstKnown \cup {Model(p) : p \in DOMAIN shelf}
                          \cup {Configuration(c) : c \in ShelfKeys}
          /\ arrivals' = arrivals /\ halfSaved' = halfSaved
        BY <1>2, <2>4 DEF PollBeelink
    <3>. QED  BY <2>1, <2>2, <2>3, <3>1
  <2>5. CASE shelved # {}
    <3>1. arrivals' = arrivals \cup Arrivals /\ firstKnown' = firstKnown
          /\ halfSaved' = halfSaved
        BY <1>2, <2>5 DEF PollBeelink
    <3>2. \A p \in DOMAIN shelf \ models : Model(p) \in Arrivals
        BY DEF Arrivals
    <3>3. \A c \in DOMAIN configs' \ DOMAIN configs :
            \/ Configuration(c) \in Arrivals
            \/ c \in joined' /\ Model(configs'[c]) \in Arrivals
      <4>. TAKE c \in DOMAIN configs' \ DOMAIN configs
      <4>1. configs'[c] \in DOMAIN shelf /\ c \in KeysOf(configs'[c])
          BY <2>2
      <4>2. CASE configs'[c] \in models
        <5>1. c \in (UNION {KeysOf(p) : p \in DOMAIN shelf \cap models}) \ DOMAIN configs
            BY <4>1, <4>2
        <5>. QED  BY <5>1 DEF Arrivals
      <4>3. CASE configs'[c] \notin models
          BY <4>1, <4>3, <2>3, <3>2
      <4>. QED  BY <4>2, <4>3
    <3>. QED  BY <2>1, <2>2, <2>3, <3>1, <3>2, <3>3
  <2>. QED  BY <2>4, <2>5
<1>3. CASE BeelinkCutShort
  <2>1. PICK ms \in SUBSET DOMAIN shelf, keys \in SUBSET ShelfKeys :
          /\ models' = models \cup ms
          /\ configs' \in ConfigsAfter(keys)
          /\ halfSaved' = halfSaved \cup {Model(p) : p \in ms \ models}
                            \cup {Configuration(c) : c \in keys \ DOMAIN configs}
      BY <1>3 DEF BeelinkCutShort
  <2>2. /\ DOMAIN configs' = DOMAIN configs \cup keys
        /\ \A c \in DOMAIN configs : configs'[c] = configs[c]
      BY <2>1, FiledUnderModel
  <2>. QED  BY <1>3, <2>1, <2>2 DEF BeelinkCutShort
<1>4. CASE UNCHANGED beelinkVars
    BY <1>4 DEF beelinkVars
<1>. QED  BY <1>1, <1>2, <1>3, <1>4 DEF BeelinkNext

\* Whatever joins the catalogue after its baseline is announced, for any models and
\* configurations, but for what a half-way save has stored
\* (experimental/beelink_china_delta.py).
THEOREM ArrivalsAreReported == BeelinkSpec => []CatalogueArrivalsReported
<1>1. BeelinkInit => CatalogueArrivalsReported
    BY DEF BeelinkInit, CatalogueArrivalsReported
<1>. QED  BY NextTold, <1>1, PTL DEF BeelinkSpec
-----------------------------------------------------------------------------
(* The sitemap delta.                                                       *)

\* What is found of a region are new pages of its sitemap with their data's identity.
FindsAreNew ==
  /\ unread \subseteq urls \ DOMAIN rows
  /\ stage = "sitemap" \/ poll = 0 => urls = {}
  /\ \A u \in urls : Home[u] = Order[poll]
  /\ \A c \in found : /\ c.page \in urls \ DOMAIN rows
                      /\ c.identity = DataIdentity[c.page]

\* A page that was read and had its data has its identity emitted, and an emitted
\* identity has its candidate in the store, in hand or lost with a poll.
EmittedAreKept ==
  /\ \A u \in urls \ (DOMAIN rows \cup unread \cup blank) : DataIdentity[u] \in emitted
  /\ \A i \in emitted :
       i \in orphaned \/ \E c \in candidates \cup found : c.identity = i

\* A stored candidate has its page's row, and a new model in hand has no stored
\* candidate of its identity in another region.
NewModelsAreNew ==
  /\ \A d \in candidates :
       d.page \in torn \/ (d.page \in DOMAIN rows /\ rows[d.page] = d.identity)
  /\ \A c \in found, d \in candidates :
       c.type = "new_model" /\ d.identity = c.identity /\ d.page \notin torn
         => Home[d.page] = Home[c.page]

SitemapInv ==
  FindsAreNew /\ EmittedAreKept /\ NewModelsAreNew /\ EveryLaunchReported
  /\ NewModelsOfOneRegion

LEMMA InitSitemap == SitemapInit => SitemapInv
BY DEF SitemapInit, SitemapInv, FindsAreNew, EmittedAreKept, NewModelsAreNew,
       EveryLaunchReported, NewModelsOfOneRegion

\* Polls leave a region with nothing in hand.
LEMMA HandsEmpty ==
  ASSUME NextRegion PROVE urls' = {} /\ unread' = {} /\ found' = {}
BY DEF NextRegion

\* Saving pages, with finds of other pages than the stored ones, keeps the rows and
\* gives the page of each find its identity.
LEMMA RowsKept ==
  ASSUME NEW us, NEW ds, rows' = RowsAfter(us, ds),
         \A c \in ds : c.page \notin DOMAIN rows /\ c.identity = DataIdentity[c.page]
  PROVE  /\ DOMAIN rows' = DOMAIN rows \cup us
         /\ \A u \in DOMAIN rows : rows'[u] = rows[u]
         /\ \A c \in ds : c.page \in us => rows'[c.page] = c.identity
<1>1. rows' = [u \in DOMAIN rows \cup us |->
                 IF \E c \in ds : c.page = u THEN (CHOOSE c \in ds : c.page = u).identity
                 ELSE IF u \in DOMAIN rows THEN rows[u] ELSE UrlIdentity[u]]
    BY DEF RowsAfter
<1>2. DOMAIN rows' = DOMAIN rows \cup us
    BY <1>1
<1>3. ASSUME NEW u \in DOMAIN rows PROVE rows'[u] = rows[u]
  <2>1. ~\E c \in ds : c.page = u
      OBVIOUS
  <2>. QED  BY <1>1, <2>1
<1>4. ASSUME NEW c \in ds, c.page \in us PROVE rows'[c.page] = c.identity
  <2>. DEFINE d == CHOOSE e \in ds : e.page = c.page
  <2>1. d \in ds /\ d.page = c.page
      OBVIOUS
  <2>2. d.identity = c.identity
      BY <2>1
  <2>3. rows'[c.page] = d.identity
      BY <1>1, <1>4
  <2>. QED  BY <2>2, <2>3
<1>. QED  BY <1>2, <1>3, <1>4

LEMMA NextSitemap == SitemapInv /\ [SitemapNext]_sitemapVars => SitemapInv'
<1>. SUFFICES ASSUME SitemapInv, [SitemapNext]_sitemapVars PROVE SitemapInv'
    OBVIOUS
<1>0. FindsAreNew /\ EmittedAreKept /\ NewModelsAreNew /\ EveryLaunchReported
      /\ NewModelsOfOneRegion
    BY DEF SitemapInv
<1>1. CASE SiteChanges
  <2>1. UNCHANGED <<pollVars, regionVars, baseline, torn>>
      BY <1>1 DEF SiteChanges
  <2>. QED  BY <1>0, <2>1 DEF pollVars, regionVars, SitemapInv, FindsAreNew,
         EmittedAreKept, NewModelsAreNew, EveryLaunchReported, NewModelsOfOneRegion
<1>2. CASE StartPolls
  <2>1. /\ UNCHANGED <<urls, unread, found, regionVars, baseline, torn>>
        /\ emitted' = {} /\ poll = 0 /\ poll' = 1
      BY <1>2 DEF StartPolls
  <2>2. urls = {} /\ found = {}
      BY <1>0, <2>1 DEF FindsAreNew
  <2>. QED  BY <1>0, <2>1, <2>2 DEF regionVars, SitemapInv, FindsAreNew,
         EmittedAreKept, NewModelsAreNew, EveryLaunchReported, NewModelsOfOneRegion
<1>3. CASE Baseline
  <2>1. DOMAIN rows' = DOMAIN rows \cup Sitemap /\ \A u \in DOMAIN rows : rows'[u] = rows[u]
      BY <1>3, RowsKept DEF Baseline
  <2>2. /\ UNCHANGED <<emitted, candidates, blank, orphaned, torn>>
        /\ baseline' = baseline \cup Sitemap /\ NextRegion
      BY <1>3 DEF Baseline
  <2>3. found = {}
      BY <1>0, <1>3 DEF Baseline, FindsAreNew
  <2>. QED  BY <1>0, <2>1, <2>2, <2>3, HandsEmpty DEF SitemapInv, FindsAreNew,
         EmittedAreKept, NewModelsAreNew, EveryLaunchReported, NewModelsOfOneRegion
<1>4. CASE ReadSitemap
    BY <1>0, <1>4 DEF ReadSitemap, pageVars, regionVars, Sitemap, SitemapInv, FindsAreNew,
         EmittedAreKept, NewModelsAreNew, EveryLaunchReported, NewModelsOfOneRegion
<1>5. ASSUME NEW u \in unread, ReadNewPage(u) PROVE SitemapInv'
  <2>. DEFINE find == [page |-> u, identity |-> DataIdentity[u], type |-> TypeOfFind(u)]
  <2>1. /\ unread' = unread \ {u} /\ u \in urls \ DOMAIN rows
        /\ UNCHANGED <<poll, stage, urls, rows, candidates, orphaned, baseline, torn>>
      BY <1>0, <1>5 DEF ReadNewPage, FindsAreNew
  <2>2. \/ /\ found' = found \cup {find} /\ emitted' = emitted \cup {DataIdentity[u]}
           /\ blank' = blank \ {u}
        \/ /\ UNCHANGED <<found, emitted>>
           /\ blank' = blank \cup {u} \/ (blank' = blank \ {u} /\ DataIdentity[u] \in emitted)
      BY <1>5 DEF ReadNewPage
  <2>3. FindsAreNew'
      BY <1>0, <2>1, <2>2 DEF FindsAreNew
  <2>4. EmittedAreKept'
    <3>1. ASSUME NEW v \in urls \ (DOMAIN rows \cup unread' \cup blank')
          PROVE  DataIdentity[v] \in emitted'
        BY <1>0, <2>1, <2>2, <3>1 DEF EmittedAreKept
    <3>2. ASSUME NEW i \in emitted'
          PROVE  i \in orphaned \/ \E c \in candidates \cup found' : c.identity = i
      <4>1. CASE i \in emitted
          BY <1>0, <2>2, <4>1 DEF EmittedAreKept
      <4>2. CASE i \notin emitted
        <5>1. i = find.identity /\ find \in found'
            BY <2>2, <3>2, <4>2
        <5>. QED  BY <5>1
      <4>. QED  BY <4>1, <4>2
    <3>. QED  BY <2>1, <3>1, <3>2 DEF EmittedAreKept
  <2>5. NewModelsAreNew'
    <3>1. ASSUME NEW d \in candidates, find.type = "new_model", d.identity = find.identity,
                 d.page \notin torn
          PROVE  Home[d.page] = Home[find.page]
      <4>1. d.page \in DOMAIN rows /\ rows[d.page] = DataIdentity[u]
          BY <1>0, <3>1 DEF NewModelsAreNew
      <4>2. TypeOfFind(u) = "new_model"
          BY <3>1
      <4>3. Home[d.page] = Home[u]
          BY <4>1, <4>2 DEF TypeOfFind
      <4>. QED  BY <4>3
    <3>. QED  BY <1>0, <2>1, <2>2, <3>1 DEF NewModelsAreNew
  <2>6. EveryLaunchReported' /\ NewModelsOfOneRegion'
      BY <1>0, <2>1, <2>2 DEF EveryLaunchReported, NewModelsOfOneRegion
  <2>. QED  BY <2>3, <2>4, <2>5, <2>6 DEF SitemapInv
<1>6. CASE SaveRegion
  <2>1. /\ DOMAIN rows' = DOMAIN rows \cup urls
        /\ \A u \in DOMAIN rows : rows'[u] = rows[u]
        /\ \A c \in found : rows'[c.page] = c.identity /\ c.page \in urls
    <3>1. /\ rows' = RowsAfter(urls, found)
          /\ \A c \in found : /\ c.page \in urls /\ c.page \notin DOMAIN rows
                              /\ c.identity = DataIdentity[c.page]
        BY <1>0, <1>6 DEF SaveRegion, FindsAreNew
    <3>2. /\ DOMAIN rows' = DOMAIN rows \cup urls
          /\ \A u \in DOMAIN rows : rows'[u] = rows[u]
          /\ \A c \in found : c.page \in urls => rows'[c.page] = c.identity
        BY <3>1, RowsKept, Zenon
    <3>. QED  BY <3>1, <3>2, Zenon
  <2>2. /\ candidates' = candidates \cup found /\ unread = {}
        /\ urls' = {} /\ unread' = {} /\ found' = {}
        /\ UNCHANGED <<emitted, blank, orphaned, baseline, torn>>
      BY <1>6, HandsEmpty DEF SaveRegion
  <2>3. FindsAreNew' /\ EmittedAreKept'
      BY <1>0, <2>2 DEF FindsAreNew, EmittedAreKept
  <2>4. NewModelsAreNew'
      BY <1>0, <2>1, <2>2 DEF NewModelsAreNew
  <2>5. EveryLaunchReported'
      BY <1>0, <2>1, <2>2 DEF EmittedAreKept, EveryLaunchReported
  <2>6. NewModelsOfOneRegion'
      BY <1>0, <2>2 DEF FindsAreNew, NewModelsAreNew, NewModelsOfOneRegion
  <2>. QED  BY <2>3, <2>4, <2>5, <2>6 DEF SitemapInv
<1>7. CASE RegionFails
    BY <1>0, <1>7, HandsEmpty DEF RegionFails, pageVars, SitemapInv, FindsAreNew,
         EmittedAreKept, NewModelsAreNew, EveryLaunchReported, NewModelsOfOneRegion
<1>8. CASE SaveCutShort
  <2>1. PICK us \in SUBSET urls, cs \in SUBSET found, ds \in SUBSET found :
          /\ cs # {} => us = urls
          /\ ds \subseteq cs
          /\ rows' = RowsAfter(us, ds)
          /\ candidates' = candidates \cup cs
          /\ torn' = torn \cup {c.page : c \in {d \in found : d.page \in us}}
          /\ orphaned' = orphaned \cup {c.identity : c \in found \ cs}
      BY <1>8 DEF SaveCutShort
  <2>2. DOMAIN rows' = DOMAIN rows \cup us /\ \A u \in DOMAIN rows : rows'[u] = rows[u]
      BY <1>0, <2>1, RowsKept DEF FindsAreNew
  <2>3. /\ unread = {} /\ urls' = {} /\ unread' = {} /\ found' = {}
        /\ UNCHANGED <<emitted, blank, baseline>>
      BY <1>8, HandsEmpty DEF SaveCutShort
  <2>4. torn \subseteq torn' /\ \A c \in cs : c.page \in torn'
      BY <1>0, <2>1 DEF FindsAreNew
  <2>5. \A i \in emitted : i \in orphaned' \/ \E c \in candidates' : c.identity = i
      BY <1>0, <2>1 DEF EmittedAreKept
  <2>6. FindsAreNew' /\ EmittedAreKept'
      BY <2>3, <2>5 DEF FindsAreNew, EmittedAreKept
  <2>7. NewModelsAreNew'
    <3>1. ASSUME NEW d \in candidates'
          PROVE  d.page \in torn' \/ (d.page \in DOMAIN rows' /\ rows'[d.page] = d.identity)
      <4>1. CASE d \in cs
          BY <2>4, <4>1
      <4>2. CASE d \in candidates
          BY <1>0, <2>2, <2>4, <4>2 DEF NewModelsAreNew
      <4>. QED  BY <2>1, <4>1, <4>2
    <3>. QED  BY <2>3, <3>1 DEF NewModelsAreNew
  <2>8. EveryLaunchReported'
    <3>1. ASSUME NEW u \in DOMAIN rows' \ (baseline' \cup blank' \cup torn')
          PROVE  \/ \E c \in candidates' : c.identity = DataIdentity[u]
                 \/ DataIdentity[u] \in orphaned'
      <4>1. CASE u \in DOMAIN rows
          BY <1>0, <2>1, <2>3, <2>4, <3>1, <4>1 DEF EveryLaunchReported
      <4>2. CASE u \in us \ DOMAIN rows
        <5>1. DataIdentity[u] \in emitted
            BY <1>0, <2>1, <2>3, <3>1, <4>2 DEF EmittedAreKept
        <5>. QED  BY <2>5, <5>1
      <4>. QED  BY <2>2, <4>1, <4>2
    <3>. QED  BY <3>1 DEF EveryLaunchReported
  <2>9. NewModelsOfOneRegion'
    <3>1. ASSUME NEW c \in candidates', NEW d \in candidates',
                 c.type = "new_model", d.type = "new_model", c.identity = d.identity
          PROVE  Home[c.page] = Home[d.page] \/ {c.page, d.page} \cap torn' # {}
      <4>1. CASE c \in cs \/ d \in cs
          BY <2>4, <4>1
      <4>2. CASE c \in candidates /\ d \in candidates
          BY <1>0, <2>4, <3>1, <4>2 DEF NewModelsOfOneRegion
      <4>. QED  BY <2>1, <4>1, <4>2
    <3>. QED  BY <3>1 DEF NewModelsOfOneRegion
  <2>. QED  BY <2>6, <2>7, <2>8, <2>9 DEF SitemapInv
<1>9. CASE StopPolls
    BY <1>0, <1>9 DEF StopPolls, pageVars, regionVars, SitemapInv, FindsAreNew,
         EmittedAreKept, NewModelsAreNew, EveryLaunchReported, NewModelsOfOneRegion
<1>10. CASE UNCHANGED sitemapVars
    BY <1>0, <1>10 DEF sitemapVars, pageVars, pollVars, regionVars, SitemapInv, FindsAreNew,
         EmittedAreKept, NewModelsAreNew, EveryLaunchReported, NewModelsOfOneRegion
<1>. QED  BY <1>1, <1>2, <1>3, <1>4, <1>5, <1>6, <1>7, <1>8, <1>9, <1>10 DEF SitemapNext

\* A page that appears after its region's baseline is stored only with a candidate of
\* its identity somewhere, for any regions, pages and identities, but for the cases
\* that the property names (experimental/lenovo_sitemap_delta.py, asus_sitemap_delta.py).
THEOREM LaunchesAreReported == SitemapSpec => []EveryLaunchReported
BY InitSitemap, NextSitemap, PTL DEF SitemapSpec, SitemapInv

\* One identity is a new model in one region only.
THEOREM NewModelsAreUnique == SitemapSpec => []NewModelsOfOneRegion
BY InitSitemap, NextSitemap, PTL DEF SitemapSpec, SitemapInv

-----------------------------------------------------------------------------
(* The engines and the ledger.                                             *)

Rows == [status : {"running", "ok", "failed"},
         health : {"none", "ok", "degraded", "failed"}, discovered : Nat]

CollectorTypeOK ==
  /\ engine \in Engines /\ site \in Seq(Products) /\ moves \in 0..MaxMoves
  /\ hidden \subseteq Products /\ (hidden # {} => engine.sitemap)
  /\ ledger \in Seq(Rows)
  /\ known \subseteq Products /\ loud \subseteq Products /\ arrived \subseteq Products
  /\ pc \in {"idle", "discover", "mapped", "drain"}
  /\ queue \in Seq(Nat \ {0}) /\ visited \in SUBSET (Nat \ {0}) /\ refs \in Seq(Products)
  /\ quiet \in BOOLEAN /\ hiccup \in BOOLEAN /\ partial \in BOOLEAN

\* The ledger: a verdict and a status go together, and a run has a row.
LedgerKept ==
  /\ \A i \in DOMAIN ledger :
       /\ ledger[i].status = "ok" <=> ledger[i].health \in {"ok", "degraded"}
       /\ ledger[i].health = "failed" => ledger[i].status = "failed"
  /\ pc # "idle" => ledger # <<>>
  /\ InDiscovery => ledger[Len(ledger)].status = "running"

\* The limit on sitemaps covers those that wait.
WithinLimit ==
  IsFiniteSet(visited) /\ Len(queue) + Cardinality(visited) <= MaxSitemaps

\* An engine that may stop at a page has none before it on its queue.
ReadInOrder ==
  engine.last # "none" =>
    Ascending(queue) /\ (ToSet(queue) \cup visited) \cap DOMAIN Links = {}

PagesRead == UNION {ToSet(Page(k)) : k \in visited \ DOMAIN Links}

\* While nothing has gone wrong: what the pages read have shown is what was
\* found, once each; what an index names has been read or waits; and so does
\* every page to start from, unless it is empty.
CleanSoFar ==
  pc = "discover" /\ ~hiccup =>
    /\ IsInjective(refs) /\ ToSet(refs) = PagesRead
    /\ \A k \in visited \cap DOMAIN Links : ToSet(Links[k]) \subseteq visited \cup ToSet(queue)
    /\ \A k \in ToSet(engine.start) :
         \/ k \in visited \cup ToSet(queue)
         \/ k \notin DOMAIN Links /\ Page(k) = <<>>

\* Once the sitemaps have been read as well, all that is offered was found.
CleanWithSitemaps ==
  pc = "mapped" /\ ~hiccup => IsInjective(refs) /\ ToSet(refs) = Offered

\* A run that has not drained its outbox may still lose its status.
SettledRuns == IF pc = "drain" THEN Completed \ {Len(ledger)} ELSE Completed

\* The site offers nothing but what is known or has arrived since the first
\* completed run began, once there is one that went well; before it all is quiet.
NewsKept ==
  BaselineQuiet =>
    /\ InDiscovery => (quiet <=> Completed = {})
    /\ SettledRuns = {} => loud = {}
    /\ Completed # {} /\ ~partial => Offered \subseteq known \cup arrived
    /\ InDiscovery /\ Completed # {} /\ ~partial => ToSet(refs) \subseteq known \cup arrived

\* A page shows the products of its places in the list.
Places(k) == {i \in DOMAIN site : (k - 1) * PerPage < i /\ i <= k * PerPage}

LEMMA PageFacts ==
  ASSUME site \in Seq(Products), NEW k \in Nat \ {0}
  PROVE  /\ Page(k) \in Seq(Products)
         /\ ToSet(Page(k)) = {site[i] : i \in Places(k)}
         /\ Page(k) = <<>> <=> Len(site) <= (k - 1) * PerPage
         /\ Len(Page(k)) < PerPage => Len(site) < k * PerPage
         /\ IsInjective(site) => IsInjective(Page(k))
<1>1. PICK lo \in Nat : lo = (k - 1) * PerPage /\ k * PerPage = lo + PerPage
    BY SiteAssumption, Multiples
<1>2. Page(k) = Piece(site, lo, PerPage)
    BY <1>1, Zenon DEF Page, Piece
<1>3. Places(k) = PieceOf(site, lo, PerPage)
    BY <1>1 DEF Places, PieceOf
<1>4. lo \in Nat /\ PerPage \in Nat \ {0}
    BY <1>1, SiteAssumption
<1>. QED  BY <1>1, <1>2, <1>3, <1>4, Slice

\* Behind a page that is not full there is nothing, and a full one shows what
\* no other does.
LEMMA NothingBehind ==
  ASSUME site \in Seq(Products), NEW j \in Nat \ {0}, NEW k \in Nat \ {0}, j < k,
         Page(j) = <<>> \/ Len(Page(j)) < PerPage
  PROVE  Page(k) = <<>>
<1>. DEFINE a == (j - 1) * PerPage
            b == j * PerPage
            c == (k - 1) * PerPage
<1>1. a \in Nat /\ b \in Nat /\ c \in Nat /\ b = a + PerPage /\ b <= c /\ PerPage \in Nat
    BY SiteAssumption, Multiples, MultiplesGrow
<1>2. /\ Page(j) = <<>> => Len(site) <= a
      /\ Len(Page(j)) < PerPage => Len(site) < b
      /\ Page(k) = <<>> <=> Len(site) <= c
    BY PageFacts
<1>3. Len(site) \in Nat
    BY LenProperties
<1>. HIDE DEF a, b, c
<1>. QED  BY <1>1, <1>2, <1>3

LEMMA PagesApart ==
  ASSUME site \in Seq(Products), IsInjective(site),
         NEW j \in Nat \ {0}, NEW k \in Nat \ {0}, j # k
  PROVE  ToSet(Page(j)) \cap ToSet(Page(k)) = {}
<1>1. ASSUME NEW m \in Nat \ {0}, NEW n \in Nat \ {0}, m < n,
             NEW i \in Places(m), NEW h \in Places(n)
      PROVE  site[i] # site[h]
  <2>. DEFINE b == m * PerPage
              c == (n - 1) * PerPage
  <2>1. b \in Nat /\ c \in Nat /\ b <= c
      BY <1>1, SiteAssumption, Multiples, MultiplesGrow
  <2>2. i \in DOMAIN site /\ h \in DOMAIN site /\ i <= b /\ c < h
      BY DEF Places
  <2>3. i \in Nat /\ h \in Nat
      BY <2>2, LenProperties
  <2>. HIDE DEF b, c
  <2>4. i # h
      BY <2>1, <2>2, <2>3
  <2>. QED  BY <2>2, <2>4 DEF IsInjective
<1>2. ToSet(Page(j)) = {site[i] : i \in Places(j)} /\ ToSet(Page(k)) = {site[i] : i \in Places(k)}
    BY PageFacts
<1>3. j < k \/ k < j
    OBVIOUS
<1>. QED  BY <1>1, <1>2, <1>3

LEMMA PagesCover ==
  ASSUME site \in Seq(Products), IsInjective(site), NEW p \in ToSet(site)
  PROVE  \E k \in PageNumbers : p \in ToSet(Page(k))
<1>1. Len(site) \in Nat /\ DOMAIN site = 1..Len(site)
    BY LenProperties
<1>2. Len(site) <= Cardinality(Products) /\ Cardinality(Products) \in Nat
  <2>1. ToSet(site) \subseteq Products
      BY <1>1, LenProperties DEF ToSet
  <2>2. Cardinality(ToSet(site)) <= Cardinality(Products)
      BY <2>1, SiteAssumption, FS_Subset
  <2>. QED  BY <2>2, ListsMeasured, SiteAssumption, FS_CardinalityType
<1>3. PICK i \in 1..Len(site) : p = site[i]
    BY <1>1 DEF ToSet
<1>4. PICK k \in 1..i : (k - 1) * PerPage < i /\ i <= k * PerPage
  <2>1. i \in Nat \ {0} /\ PerPage \in Nat \ {0}
      BY <1>1, SiteAssumption
  <2>. QED  BY <2>1, MultiplesReach
<1>5. k \in Nat \ {0} /\ i \in Places(k)
    BY <1>1, <1>4 DEF Places
<1>6. p \in ToSet(Page(k))
  <2>1. ToSet(Page(k)) = {site[m] : m \in Places(k)}
      BY <1>5, PageFacts
  <2>. QED  BY <2>1, <1>3, <1>5
<1>7. k \in PageNumbers
  <2>1. (k - 1) * PerPage \in Nat
      BY <1>5, SiteAssumption, Multiples
  <2>. QED  BY <2>1, <1>1, <1>2, <1>4, <1>5 DEF PageNumbers
<1>. QED  BY <1>6, <1>7

CollectorTyped == CollectorTypeOK /\ LedgerKept /\ WithinLimit

LEMMA PreviousTyped == CollectorTypeOK => Previous \subseteq Nat
<1>1. ASSUME CollectorTypeOK, NEW i \in DOMAIN ledger PROVE ledger[i].discovered \in Nat
  <2>1. ledger[i] \in Rows
      BY <1>1, LenProperties DEF CollectorTypeOK
  <2>. QED  BY <2>1 DEF Rows
<1>. QED  BY <1>1 DEF Previous, Newest, Completed

LEMMA HealthTyped ==
  ASSUME CollectorTypeOK, NEW n \in Nat
  PROVE  Health(n) \in {"ok", "degraded", "failed"}
<1>1. \A m \in Previous : m \in Nat /\ MinPct * m \in Nat
    BY PreviousTyped, ThresholdAssumption
<1>2. 100 * n \in Nat /\ (n = 0 \/ n > 0)
    OBVIOUS
<1>3. \/ \E m \in Previous : 100 * n < MinPct * m
      \/ \A m \in Previous : 100 * n >= MinPct * m
    BY <1>1, <1>2
<1>. QED  BY <1>2, <1>3 DEF Health

LEMMA StatusTyped ==
  ASSUME NEW h \in {"ok", "degraded", "failed"}
  PROVE  /\ StatusOf(h) \in {"ok", "failed"}
         /\ StatusOf(h) = "ok" <=> h \in {"ok", "degraded"}
BY DEF StatusOf

\* A run that ends writes the last row, and only that one.
LEMMA Closing ==
  ASSUME CollectorTypeOK, ledger # <<>>, NEW row \in Rows
  PROVE  LET l == [ledger EXCEPT ![Len(ledger)] = row]
         IN  /\ l \in Seq(Rows) /\ Len(l) = Len(ledger) /\ DOMAIN l = DOMAIN ledger
             /\ Len(ledger) \in DOMAIN ledger /\ l[Len(ledger)] = row
             /\ \A i \in DOMAIN ledger : i # Len(ledger) => l[i] = ledger[i]
<1>1. ledger \in Seq(Rows) /\ Len(ledger) \in Nat \ {0} /\ DOMAIN ledger = 1..Len(ledger)
    BY EmptySeq, LenProperties DEF CollectorTypeOK
<1>2. Len(ledger) \in 1..Len(ledger)
    BY <1>1
<1>. QED  BY <1>1, <1>2, ExceptSeq

LEMMA ClosingKeeps ==
  ASSUME CollectorTyped, ledger # <<>>, NEW st, NEW h, NEW n \in Nat, Close(st, h, n),
         st \in {"ok", "failed"}, h \in {"none", "ok", "degraded", "failed"},
         st = "ok" <=> h \in {"ok", "degraded"}
  PROVE  /\ ledger' \in Seq(Rows) /\ ledger' # <<>>
         /\ \A i \in DOMAIN ledger' :
              /\ ledger'[i].status = "ok" <=> ledger'[i].health \in {"ok", "degraded"}
              /\ ledger'[i].health = "failed" => ledger'[i].status = "failed"
<1>. DEFINE row == [status |-> st, health |-> h, discovered |-> n]
<1>1. row \in Rows
    BY DEF Rows
<1>2. ledger' = [ledger EXCEPT ![Len(ledger)] = row]
    BY DEF Close
<1>3. row.status = st /\ row.health = h
    OBVIOUS
<1>. HIDE DEF row
<1>4. /\ ledger' \in Seq(Rows) /\ Len(ledger') = Len(ledger) /\ DOMAIN ledger' = DOMAIN ledger
      /\ Len(ledger) \in DOMAIN ledger /\ ledger'[Len(ledger)] = row
      /\ \A i \in DOMAIN ledger : i # Len(ledger) => ledger'[i] = ledger[i]
    BY <1>1, <1>2, Closing DEF CollectorTyped
<1>5. ledger' # <<>>
    BY <1>4
<1>. QED  BY <1>3, <1>4, <1>5 DEF CollectorTyped, LedgerKept

LEMMA CollectorInitTyped == CollectorInit => CollectorTyped
<1>. SUFFICES ASSUME CollectorInit PROVE CollectorTyped
    OBVIOUS
<1>1. /\ site \in Seq(Products) /\ engine \in Engines
      /\ hidden \subseteq Products /\ (hidden # {} => engine.sitemap)
    BY SiteAssumption DEF CollectorInit
<1>2. <<>> \in Seq(Rows) /\ <<>> \in Seq(Nat \ {0}) /\ <<>> \in Seq(Products) /\ Len(<<>>) = 0
    BY EmptySeq
<1>3. IsFiniteSet({}) /\ Cardinality({}) = 0
    BY FS_EmptySet
<1>4. MaxMoves \in Nat /\ MaxSitemaps \in Nat
    BY BoundsAssumption
<1>5. CollectorTypeOK
  <2>1. site \in Seq(Products) /\ engine \in Engines /\ moves \in 0..MaxMoves
      BY <1>1, <1>4 DEF CollectorInit
  <2>2. ledger \in Seq(Rows) /\ queue \in Seq(Nat \ {0}) /\ refs \in Seq(Products)
      BY <1>2 DEF CollectorInit
  <2>. QED  BY <1>1, <2>1, <2>2 DEF CollectorInit, CollectorTypeOK
<1>6. LedgerKept
    BY DEF CollectorInit, LedgerKept, InDiscovery
<1>7. WithinLimit
    BY <1>2, <1>3, <1>4 DEF CollectorInit, WithinLimit
<1>. QED  BY <1>5, <1>6, <1>7 DEF CollectorTyped

\* One page or index more has been visited, and it is off the queue.
LEMMA OneVisited ==
  ASSUME CollectorTyped, Discovering, Head(queue) \notin visited
  PROVE  /\ Head(queue) \in Nat \ {0} /\ Tail(queue) \in Seq(Nat \ {0})
         /\ visited \cup {Head(queue)} \in SUBSET (Nat \ {0})
         /\ IsFiniteSet(visited \cup {Head(queue)})
         /\ Cardinality(visited \cup {Head(queue)}) \in Nat
         /\ Len(Tail(queue)) + Cardinality(visited \cup {Head(queue)}) <= MaxSitemaps
         /\ Len(<<>>) + Cardinality(visited \cup {Head(queue)}) <= MaxSitemaps
<1>1. /\ Head(queue) \in Nat \ {0} /\ Tail(queue) \in Seq(Nat \ {0})
      /\ Len(queue) \in Nat \ {0} /\ Len(Tail(queue)) = Len(queue) - 1
  <2>1. queue \in Seq(Nat \ {0}) /\ queue # <<>>
      BY DEF CollectorTyped, CollectorTypeOK, Discovering
  <2>. QED  BY <2>1, HeadAndTail, EmptySeq
<1>2. /\ IsFiniteSet(visited) /\ Cardinality(visited) \in Nat
      /\ IsFiniteSet(visited \cup {Head(queue)})
      /\ Cardinality(visited \cup {Head(queue)}) = Cardinality(visited) + 1
    BY FS_CardinalityType, FS_AddElement DEF CollectorTyped, WithinLimit
<1>3. Len(queue) + Cardinality(visited) <= MaxSitemaps /\ Len(<<>>) = 0 /\ MaxSitemaps \in Nat
    BY BoundsAssumption DEF CollectorTyped, WithinLimit
<1>4. visited \cup {Head(queue)} \in SUBSET (Nat \ {0})
    BY <1>1 DEF CollectorTyped, CollectorTypeOK
<1>5. ASSUME NEW l \in Nat \ {0}, NEW c \in Nat, l + c <= MaxSitemaps
      PROVE  (l - 1) + (c + 1) <= MaxSitemaps /\ 0 + (c + 1) <= MaxSitemaps /\ c + 1 \in Nat
    BY <1>3, <1>5
<1>. QED  BY <1>1, <1>2, <1>3, <1>4, <1>5

LEMMA LeavingTyped ==
  ASSUME NEW where, Leave(where)
  PROVE  /\ pc' = where /\ queue' \in Seq(Nat \ {0}) /\ refs' \in Seq(Products)
         /\ visited' \in SUBSET (Nat \ {0}) /\ quiet' \in BOOLEAN /\ hiccup' \in BOOLEAN
         /\ WithinLimit'
<1>1. <<>> \in Seq(Nat \ {0}) /\ <<>> \in Seq(Products) /\ Len(<<>>) = 0
    BY EmptySeq
<1>2. IsFiniteSet({}) /\ Cardinality({}) = 0 /\ MaxSitemaps \in Nat
    BY FS_EmptySet, BoundsAssumption
<1>3. queue' = <<>> /\ visited' = {} /\ refs' = <<>>
    BY DEF Leave
<1>4. WithinLimit'
    BY <1>1, <1>2, <1>3 DEF WithinLimit
<1>. QED  BY <1>1, <1>3, <1>4 DEF Leave

LEMMA FoundTyped ==
  ASSUME CollectorTyped, NEW sheet \in Seq(Products)
  PROVE  /\ Found(sheet) \in Seq(Products)
         /\ ToSet(Found(sheet)) = ToSet(refs) \cup ToSet(sheet)
         /\ IsInjective(refs) /\ IsInjective(sheet) /\ ToSet(refs) \cap ToSet(sheet) = {}
              => IsInjective(Found(sheet))
<1>1. refs \in Seq(Products)
    BY DEF CollectorTyped, CollectorTypeOK
<1>2. CASE engine.dedup
  <2>1. Found(sheet) = Deduped(refs, sheet)
      BY <1>2, Zenon DEF Found, Deduped
  <2>. QED  BY <1>1, <2>1, Dropping
<1>3. CASE ~engine.dedup
  <2>1. Found(sheet) = refs \o sheet
      BY <1>3, Zenon DEF Found
  <2>. QED  BY <1>1, <2>1, Joined
<1>. QED  BY <1>2, <1>3

\* What the limit leaves is some of what was found, and all of it unless it is as
\* much as the limit allows.
LEMMA KeptTyped ==
  ASSUME CollectorTyped
  PROVE  /\ Kept \in Seq(Products) /\ Len(Kept) \in Nat
         /\ ToSet(Kept) \subseteq ToSet(refs) /\ (Kept = <<>> <=> refs = <<>>)
         /\ IsInjective(refs) => IsInjective(Kept)
         /\ Kept = refs \/ Len(Kept) = engine.limit
<1>1. refs \in Seq(Products) /\ Len(refs) \in Nat
    BY LenProperties DEF CollectorTyped, CollectorTypeOK
<1>2. PICK n \in Nat \ {0} : n = engine.limit
    BY EngineAssumption DEF CollectorTyped, CollectorTypeOK
<1>3. CASE Len(refs) <= n
  <2>1. Kept = refs
      BY <1>2, <1>3 DEF Kept
  <2>. QED  BY <1>1, <2>1
<1>4. CASE ~(Len(refs) <= n)
  <2>1. Kept = Piece(refs, 0, n)
      BY <1>1, <1>2, <1>4 DEF Kept, Piece
  <2>2. /\ Piece(refs, 0, n) \in Seq(Products)
        /\ ToSet(Piece(refs, 0, n)) = {refs[i] : i \in PieceOf(refs, 0, n)}
        /\ Piece(refs, 0, n) = <<>> <=> Len(refs) <= 0
        /\ IsInjective(refs) => IsInjective(Piece(refs, 0, n))
      BY <1>1, <1>2, Slice
  <2>3. ToSet(Kept) \subseteq ToSet(refs)
      BY <2>1, <2>2 DEF PieceOf, ToSet
  <2>4. Len(Kept) = n
    <3>1. Kept = SubSeq(refs, 1, n) /\ n \in 1..Len(refs)
        BY <1>1, <1>2, <1>4 DEF Kept
    <3>. QED  BY <1>1, <1>2, <3>1
  <2>5. Kept # <<>> /\ refs # <<>>
      BY <1>1, <1>2, <1>4, <2>1, <2>2, EmptySeq
  <2>. QED  BY <1>2, <2>1, <2>2, <2>3, <2>4, <2>5
<1>. QED  BY <1>3, <1>4

\* A finite set can be listed, each of its elements once.
LEMMA SetsAreListed ==
  ASSUME NEW S, NEW T \in SUBSET S, IsFiniteSet(T)
  PROVE  SetToSeq(T) \in Seq(S) /\ ToSet(SetToSeq(T)) = T /\ IsInjective(SetToSeq(T))
<1>1. Cardinality(T) \in Nat /\ ExistsBijection(1..Cardinality(T), T)
    BY FS_CardinalityType
<1>. DEFINE n == Cardinality(T)
<1>2. PICK g \in [1..n -> T] : \A i, j \in 1..n : g[i] = g[j] => i = j
    BY <1>1 DEF ExistsBijection, Bijection, Injection, Surjection, IsInjective
<1>3. SetToSeq(T) \in [1..n -> T] /\ IsInjective(SetToSeq(T))
  <2>1. IsInjective(g)
      BY <1>2 DEF IsInjective
  <2>2. \E h \in [1..n -> T] : IsInjective(h)
      BY <2>1
  <2>3. SetToSeq(T) = CHOOSE h \in [1..n -> T] : IsInjective(h)
      BY DEF SetToSeq
  <2>. HIDE DEF n
  <2>. QED  BY <2>2, <2>3
<1>4. PICK s : s = SetToSeq(T)
    OBVIOUS
<1>. HIDE DEF n
<1>5. s \in Seq(T) /\ s \in Seq(S) /\ Len(s) = n
  <2>1. n \in Nat
      BY <1>1 DEF n
  <2>. QED  BY <1>3, <1>4, <2>1
<1>6. ToSet(s) \in SUBSET T /\ Cardinality(ToSet(s)) = Cardinality(T)
  <2>1. ToSet(s) \in SUBSET T
      BY <1>5, LenProperties DEF ToSet
  <2>. QED  BY <1>3, <1>4, <1>5, <2>1, ListsMeasured DEF n
<1>7. ToSet(s) = T
    BY <1>6, FS_Subset
<1>. QED  BY <1>3, <1>4, <1>5, <1>7

\* What the sitemaps add.
LEMMA SitemapsAdd ==
  ASSUME CollectorTyped, NEW more \in SUBSET Offered
  PROVE  LET all == refs \o SetToSeq(more \ ToSet(refs))
         IN  /\ all \in Seq(Products) /\ ToSet(all) = ToSet(refs) \cup more
             /\ IsInjective(refs) => IsInjective(all)
<1>. DEFINE rest == more \ ToSet(refs)
<1>1. refs \in Seq(Products) /\ Offered \subseteq Products
  <2>1. site \in Seq(Products) /\ hidden \subseteq Products /\ refs \in Seq(Products)
      BY DEF CollectorTyped, CollectorTypeOK
  <2>2. ToSet(site) \subseteq Products
      BY <2>1, LenProperties DEF ToSet
  <2>. QED  BY <2>1, <2>2 DEF Offered
<1>2. rest \in SUBSET Products /\ IsFiniteSet(rest)
  <2>1. rest \in SUBSET Products
      BY <1>1
  <2>. QED  BY <2>1, SiteAssumption, FS_Subset
<1>3. rest \cap ToSet(refs) = {} /\ ToSet(refs) \cup rest = ToSet(refs) \cup more
    OBVIOUS
<1>. HIDE DEF rest
<1>4. /\ SetToSeq(rest) \in Seq(Products) /\ ToSet(SetToSeq(rest)) = rest
      /\ IsInjective(SetToSeq(rest))
    BY <1>2, SetsAreListed
<1>5. PICK t : t = SetToSeq(rest)
    OBVIOUS
<1>6. /\ refs \o t \in Seq(Products) /\ ToSet(refs \o t) = ToSet(refs) \cup rest
      /\ IsInjective(refs) => IsInjective(refs \o t)
    BY <1>1, <1>3, <1>4, <1>5, Joined
<1>. QED  BY <1>3, <1>5, <1>6 DEF rest

LEMMA QueuedTyped ==
  ASSUME CollectorTyped, Discovering, Head(queue) \in DOMAIN Links \ visited
  PROVE  LET k == Head(queue)
             seen == visited \cup {k}
             q == Queued(Links[k], seen)
         IN  /\ q \in Seq(Nat \ {0}) /\ ToSet(Tail(queue)) \subseteq ToSet(q)
             /\ Len(q) + Cardinality(seen) <= MaxSitemaps
<1>. DEFINE k == Head(queue)
            seen == visited \cup {k}
<1>1. /\ Tail(queue) \in Seq(Nat \ {0}) /\ Cardinality(seen) \in Nat
      /\ Len(Tail(queue)) + Cardinality(seen) <= MaxSitemaps
    BY OneVisited
<1>2. Links[k] \in Seq(Nat \ {0}) /\ MaxSitemaps \in Nat
    BY LinksAssumption, BoundsAssumption
<1>3. Queued(Links[k], seen)
        = QueuedUpTo(MaxSitemaps, Cardinality(seen), seen, Tail(queue), Links[k])
    BY Zenon DEF Queued, QueuedUpTo
<1>. HIDE DEF k, seen
<1>4. /\ Queued(Links[k], seen) \in Seq(Nat \ {0})
      /\ ToSet(Tail(queue)) \subseteq ToSet(Queued(Links[k], seen))
      /\ Len(Queued(Links[k], seen)) + Cardinality(seen) <= MaxSitemaps
  <2>1. PICK q, l, c, was : q = Tail(queue) /\ l = Links[k] /\ c = Cardinality(seen) /\ was = seen
      OBVIOUS
  <2>2. /\ q \in Seq(Nat \ {0}) /\ l \in Seq(Nat \ {0}) /\ c \in Nat /\ MaxSitemaps \in Nat
        /\ Room(q, c, MaxSitemaps)
      BY <1>1, <1>2, <2>1 DEF Room
  <2>3. /\ QueuedUpTo(MaxSitemaps, c, was, q, l) \in Seq(Nat \ {0})
        /\ ToSet(q) \subseteq ToSet(QueuedUpTo(MaxSitemaps, c, was, q, l))
        /\ Room(QueuedUpTo(MaxSitemaps, c, was, q, l), c, MaxSitemaps)
      BY <2>2, Queueing, Zenon
  <2>4. Queued(Links[k], seen) = QueuedUpTo(MaxSitemaps, c, was, q, l)
      BY <1>3, <2>1, Zenon
  <2>. QED  BY <2>1, <2>3, <2>4, Zenon DEF Room
<1>. QED  BY <1>4 DEF k, seen

LEMMA RestTyped ==
  ASSUME CollectorTyped, Discovering, Head(queue) \notin visited, NEW sheet
  PROVE  /\ Rest(sheet) = Tail(queue) \/ Rest(sheet) = <<>>
         /\ Rest(sheet) \in Seq(Nat \ {0})
         /\ Len(Rest(sheet)) + Cardinality(visited \cup {Head(queue)}) <= MaxSitemaps
<1>1. Rest(sheet) = Tail(queue) \/ Rest(sheet) = <<>>
    BY DEF Rest
<1>2. <<>> \in Seq(Nat \ {0})
    BY EmptySeq
<1>. QED  BY <1>1, <1>2, OneVisited

LEMMA CollectorNextTyped ==
  CollectorTyped /\ [CollectorNext]_collectorVars => CollectorTyped'
<1>. SUFFICES ASSUME CollectorTyped, [CollectorNext]_collectorVars PROVE CollectorTyped'
    OBVIOUS
<1>. USE DEF CollectorTyped
<1>1. CASE SiteMoves
  <2>1. site' \in Seq(Products) /\ hidden' \subseteq Products /\ (hidden' # {} => engine.sitemap)
    <3>1. ToSet(site) \subseteq Products /\ hidden \subseteq Products
        BY LenProperties DEF CollectorTypeOK, ToSet
    <3>2. hidden' \subseteq Products /\ (hidden' # {} => engine.sitemap)
        BY <1>1, <3>1 DEF SiteMoves, Offered
    <3>3. CASE \E p \in Products \ ToSet(site) : site' = <<p>> \o site
        BY <3>2, <3>3, OneMore DEF CollectorTypeOK
    <3>4. CASE \E i \in DOMAIN site : site' = RemoveAt(site, i)
        BY <3>2, <3>4, Removing DEF CollectorTypeOK
    <3>5. CASE site' = <<>>
        BY <3>2, <3>5, EmptySeq DEF CollectorTypeOK
    <3>6. CASE UNCHANGED site
        BY <3>2, <3>6 DEF CollectorTypeOK
    <3>. QED  BY <1>1, <3>3, <3>4, <3>5, <3>6 DEF SiteMoves
  <2>arrived. arrived' \subseteq Products
    <3>1. arrived' = arrived \cup (Offered' \ Offered)
        BY <1>1 DEF SiteMoves
    <3>2. Offered' \subseteq Products
        BY <2>1, LenProperties DEF Offered, ToSet
    <3>. QED  BY <3>1, <3>2 DEF CollectorTypeOK
  <2>2. moves' \in 0..MaxMoves
      BY <1>1, BoundsAssumption DEF SiteMoves, CollectorTypeOK
  <2>3. hiccup' \in BOOLEAN /\ UNCHANGED <<engine, ledger, known, loud, pc, queue, visited, refs,
                                          quiet, partial>>
      BY <1>1 DEF SiteMoves, runVars
  <2>4. CollectorTypeOK'
      BY <2>1, <2>arrived, <2>2, <2>3 DEF CollectorTypeOK
  <2>. QED  BY <2>3, <2>4 DEF LedgerKept, InDiscovery, WithinLimit
<1>2. CASE StartRun
  <2>. DEFINE row == [status |-> "running", health |-> "none", discovered |-> 0]
  <2>1. /\ ledger' = Append(ledger, row) /\ row \in Rows /\ ledger \in Seq(Rows)
        /\ row.status = "running" /\ row.health = "none"
      BY <1>2 DEF StartRun, Rows, CollectorTypeOK
  <2>. HIDE DEF row
  <2>2. /\ ledger' \in Seq(Rows) /\ Len(ledger') = Len(ledger) + 1 /\ Len(ledger) \in Nat
        /\ DOMAIN ledger = 1..Len(ledger) /\ DOMAIN ledger' = 1..(Len(ledger) + 1)
        /\ \A i \in 1..Len(ledger) : ledger'[i] = ledger[i]
        /\ ledger'[Len(ledger) + 1] = row
      BY <2>1, LenProperties
  <2>3. ledger' # <<>>
      BY <2>2, EmptySeq
  <2>4. engine.start \in Seq(Nat \ {0}) /\ Len(engine.start) <= MaxSitemaps
      BY EngineAssumption DEF CollectorTypeOK
  <2>5. /\ UNCHANGED <<engine, site, hidden, moves, known, loud, partial>>
        /\ pc' = "discover" /\ queue' = engine.start /\ visited' = {} /\ refs' = <<>>
        /\ hiccup' = FALSE /\ quiet' \in BOOLEAN /\ arrived' \in {{}, arrived}
      BY <1>2 DEF StartRun, siteVars
  <2>6. CollectorTypeOK'
    <3>1. <<>> \in Seq(Products)
        BY EmptySeq
    <3>. QED  BY <2>2, <2>4, <2>5, <3>1 DEF CollectorTypeOK
  <2>7. LedgerKept'
      BY <2>1, <2>2, <2>3, <2>5 DEF LedgerKept, InDiscovery
  <2>8. WithinLimit'
    <3>1. IsFiniteSet({}) /\ Cardinality({}) = 0 /\ Len(engine.start) \in Nat
        BY <2>4, FS_EmptySet, LenProperties
    <3>. QED  BY <2>4, <2>5, <3>1 DEF WithinLimit
  <2>. QED  BY <2>6, <2>7, <2>8
<1>3. CASE SkipVisited
  <2>1. /\ queue' = Tail(queue) /\ queue' \in Seq(Nat \ {0}) /\ Len(queue) \in Nat
        /\ Len(queue') = Len(queue) - 1
        /\ UNCHANGED <<engine, site, hidden, moves, ledger, known, loud, pc, visited, refs, quiet,
                       hiccup, partial, arrived>>
    <3>1. queue # <<>> /\ queue \in Seq(Nat \ {0})
        BY <1>3 DEF SkipVisited, Discovering, CollectorTypeOK
    <3>2. queue' = Tail(queue)
        BY <1>3 DEF SkipVisited
    <3>. QED  BY <1>3, <3>1, <3>2, HeadAndTail DEF SkipVisited, siteVars
  <2>2. Cardinality(visited) \in Nat /\ MaxSitemaps \in Nat
      BY FS_CardinalityType, BoundsAssumption DEF WithinLimit
  <2>3. CollectorTypeOK' /\ LedgerKept'
      BY <2>1 DEF CollectorTypeOK, LedgerKept, InDiscovery
  <2>4. WithinLimit'
      BY <2>1, <2>2 DEF WithinLimit
  <2>. QED  BY <2>3, <2>4
<1>4. CASE ReadIndex
  <2>1. /\ Discovering /\ Head(queue) \in DOMAIN Links \ visited
        /\ visited' = visited \cup {Head(queue)}
        /\ queue' = Queued(Links[Head(queue)], visited \cup {Head(queue)})
        /\ hiccup' \in BOOLEAN
        /\ UNCHANGED <<engine, site, hidden, moves, ledger, known, loud, pc, refs, quiet, partial,
                       arrived>>
      BY <1>4 DEF ReadIndex, siteVars
  <2>2. /\ queue' \in Seq(Nat \ {0})
        /\ Len(queue') + Cardinality(visited') <= MaxSitemaps
      BY <2>1, QueuedTyped
  <2>3. visited' \in SUBSET (Nat \ {0}) /\ IsFiniteSet(visited')
      BY <2>1, OneVisited
  <2>. QED  BY <2>1, <2>2, <2>3 DEF CollectorTypeOK, LedgerKept, InDiscovery, WithinLimit
<1>5. CASE ReadPage
  <2>1. /\ Discovering /\ Head(queue) \notin visited
        /\ visited' = visited \cup {Head(queue)}
        /\ refs' = Found(Page(Head(queue))) /\ queue' = Rest(Page(Head(queue)))
        /\ UNCHANGED <<engine, site, hidden, moves, ledger, known, loud, pc, quiet, hiccup, partial,
                       arrived>>
      BY <1>5 DEF ReadPage, siteVars
  <2>2. Page(Head(queue)) \in Seq(Products)
      BY <2>1, OneVisited, PageFacts DEF CollectorTypeOK
  <2>3. refs' \in Seq(Products)
      BY <2>1, <2>2, FoundTyped
  <2>4. /\ queue' \in Seq(Nat \ {0})
        /\ Len(queue') + Cardinality(visited') <= MaxSitemaps
      BY <2>1, RestTyped
  <2>5. visited' \in SUBSET (Nat \ {0}) /\ IsFiniteSet(visited')
      BY <2>1, OneVisited
  <2>. QED  BY <2>1, <2>3, <2>4, <2>5 DEF CollectorTypeOK, LedgerKept, InDiscovery, WithinLimit
<1>6. CASE PageFails
  <2>1. /\ Discovering /\ Head(queue) \notin visited
        /\ visited' = visited \cup {Head(queue)} /\ queue' \in {<<>>, Tail(queue)}
        /\ hiccup' = TRUE
        /\ UNCHANGED <<engine, site, hidden, moves, ledger, known, loud, pc, refs, quiet, partial,
                       arrived>>
      BY <1>6 DEF PageFails, siteVars
  <2>2. <<>> \in Seq(Nat \ {0})
      BY EmptySeq
  <2>3. /\ queue' \in Seq(Nat \ {0})
        /\ Len(queue') + Cardinality(visited') <= MaxSitemaps
        /\ visited' \in SUBSET (Nat \ {0}) /\ IsFiniteSet(visited')
      BY <2>1, <2>2, OneVisited
  <2>. QED  BY <2>1, <2>3 DEF CollectorTypeOK, LedgerKept, InDiscovery, WithinLimit
<1>7. CASE RunRaises
  <2>1. /\ ledger # <<>> /\ Close("failed", "none", 0) /\ Leave("idle")
        /\ UNCHANGED <<engine, site, hidden, moves, known, loud, partial, arrived>>
      BY <1>7 DEF RunRaises, Discovering, LedgerKept, siteVars
  <2>2. /\ ledger' \in Seq(Rows)
        /\ \A i \in DOMAIN ledger' :
             /\ ledger'[i].status = "ok" <=> ledger'[i].health \in {"ok", "degraded"}
             /\ ledger'[i].health = "failed" => ledger'[i].status = "failed"
      BY <2>1, ClosingKeeps
  <2>3. CollectorTypeOK' /\ LedgerKept' /\ WithinLimit'
      BY <2>1, <2>2, LeavingTyped DEF CollectorTypeOK, LedgerKept, InDiscovery
  <2>. QED  BY <2>3
<1>8. ASSUME ledger # <<>>, NEW trouble \in BOOLEAN, Finish(trouble)
      PROVE  /\ ledger' \in Seq(Rows) /\ ledger' # <<>> /\ partial' \in BOOLEAN
             /\ \A i \in DOMAIN ledger' :
                  /\ ledger'[i].status = "ok" <=> ledger'[i].health \in {"ok", "degraded"}
                  /\ ledger'[i].health = "failed" => ledger'[i].status = "failed"
  <2>. DEFINE h == Health(Len(Kept))
  <2>1. Len(Kept) \in Nat
      BY KeptTyped
  <2>2. h \in {"ok", "degraded", "failed"}
      BY <2>1, HealthTyped
  <2>3. Close(StatusOf(h), h, Len(Kept)) /\ partial' \in {trouble, partial}
      BY <1>8 DEF Finish
  <2>. HIDE DEF h
  <2>4. StatusOf(h) \in {"ok", "failed"} /\ (StatusOf(h) = "ok" <=> h \in {"ok", "degraded"})
      BY <2>2, StatusTyped
  <2>. QED  BY <1>8, <2>1, <2>2, <2>3, <2>4, ClosingKeeps DEF CollectorTypeOK
<1>9. CASE GateStops
  <2>1. /\ ledger # <<>> /\ Finish(hiccup) /\ hiccup \in BOOLEAN /\ Leave("drain")
        /\ UNCHANGED <<engine, site, hidden, moves, known, loud, arrived>>
      BY <1>9 DEF GateStops, Discovered, LedgerKept, CollectorTypeOK, siteVars
  <2>2. CollectorTypeOK' /\ LedgerKept' /\ WithinLimit'
      BY <1>8, <2>1, LeavingTyped DEF CollectorTypeOK, LedgerKept, InDiscovery
  <2>. QED  BY <2>2
<1>10. ASSUME NEW done \in SUBSET ToSet(Kept), Store(done)
       PROVE  known' \subseteq Products /\ loud' \subseteq Products
  <2>1. ToSet(Kept) \subseteq Products
      BY KeptTyped, LenProperties DEF ToSet
  <2>. QED  BY <1>10, <2>1 DEF Store, CollectorTypeOK
<1>11. CASE ProcessProducts
  <2>1. PICK done \in SUBSET ToSet(Kept) : Store(done) /\ Finish(hiccup \/ done # ToSet(refs))
      BY <1>11 DEF ProcessProducts
  <2>2. /\ ledger # <<>> /\ (hiccup \/ done # ToSet(refs)) \in BOOLEAN /\ Leave("drain")
        /\ UNCHANGED <<engine, site, hidden, moves, arrived>>
      BY <1>11 DEF ProcessProducts, Discovered, LedgerKept, CollectorTypeOK, siteVars
  <2>3. known' \subseteq Products /\ loud' \subseteq Products
      BY <1>10, <2>1
  <2>4. /\ ledger' \in Seq(Rows) /\ ledger' # <<>> /\ partial' \in BOOLEAN
        /\ \A i \in DOMAIN ledger' :
             /\ ledger'[i].status = "ok" <=> ledger'[i].health \in {"ok", "degraded"}
             /\ ledger'[i].health = "failed" => ledger'[i].status = "failed"
      BY <1>8, <2>1, <2>2, Zenon
  <2>5. CollectorTypeOK' /\ LedgerKept' /\ WithinLimit'
      BY <2>2, <2>3, <2>4, LeavingTyped DEF CollectorTypeOK, LedgerKept, InDiscovery
  <2>. QED  BY <2>5
<1>12. CASE Drained
  <2>1. /\ Leave("idle")
        /\ UNCHANGED <<engine, site, hidden, moves, ledger, known, loud, partial, arrived>>
      BY <1>12 DEF Drained, siteVars
  <2>. QED  BY <2>1, LeavingTyped DEF CollectorTypeOK, LedgerKept, InDiscovery
<1>13. CASE Die
  <2>1. /\ Leave("idle")
        /\ UNCHANGED <<engine, site, hidden, moves, ledger, partial, arrived>>
      BY <1>13 DEF Die, siteVars
  <2>2. known' \subseteq Products /\ loud' \subseteq Products
    <3>1. CASE \E done \in SUBSET ToSet(Kept) : Store(done)
        BY <3>1, <1>10
    <3>2. CASE UNCHANGED <<known, loud>>
        BY <3>2 DEF CollectorTypeOK
    <3>. QED  BY <1>13, <3>1, <3>2 DEF Die
  <2>. QED  BY <2>1, <2>2, LeavingTyped DEF CollectorTypeOK, LedgerKept, InDiscovery
<1>15. CASE ReadSitemaps
  <2>1. /\ pc = "discover" /\ pc' = "mapped" /\ hiccup' \in BOOLEAN
        /\ UNCHANGED <<engine, site, hidden, moves, ledger, known, loud, queue, visited, quiet,
                       partial, arrived>>
      BY <1>15 DEF ReadSitemaps, siteVars
  <2>2. refs' \in Seq(Products)
    <3>1. PICK read \in SUBSET Offered : refs' = refs \o SetToSeq(read \ ToSet(refs))
        BY <1>15 DEF ReadSitemaps
    <3>. QED  BY <3>1, SitemapsAdd
  <2>. QED  BY <2>1, <2>2 DEF CollectorTypeOK, LedgerKept, InDiscovery, WithinLimit
<1>14. CASE UNCHANGED collectorVars
    BY <1>14 DEF collectorVars, siteVars, runVars, CollectorTypeOK, LedgerKept, InDiscovery,
                     WithinLimit
<1>. QED  BY <1>1, <1>2, <1>3, <1>4, <1>5, <1>6, <1>7, <1>9, <1>11, <1>12, <1>13, <1>14, <1>15
          DEF CollectorNext, Run

\* Every variable of the collectors stays in its set.
THEOREM CollectorTypeCorrect == CollectorSpec => []CollectorTypeOK
<1>1. CollectorTyped => CollectorTypeOK
    BY DEF CollectorTyped
<1>. QED  BY <1>1, CollectorInitTyped, CollectorNextTyped, PTL DEF CollectorSpec

LEMMA LedgerAgrees == CollectorTyped => ReadersAgree
<1>. SUFFICES ASSUME CollectorTyped PROVE ReadersAgree
    OBVIOUS
<1>1. DOMAIN ledger = 1..Len(ledger) /\ Len(ledger) \in Nat
    BY LenProperties DEF CollectorTyped, CollectorTypeOK
<1>2. \A i \in DOMAIN ledger :
        /\ ledger[i].health \in {"none", "ok", "degraded", "failed"}
        /\ ledger[i].status = "ok" <=> ledger[i].health \in {"ok", "degraded"}
        /\ ledger[i].health = "failed" => ledger[i].status = "failed"
  <2>1. \A i \in DOMAIN ledger : ledger[i] \in Rows
      BY LenProperties DEF CollectorTyped, CollectorTypeOK
  <2>. QED  BY <2>1 DEF CollectorTyped, LedgerKept, Rows
<1>. DEFINE judged == {i \in Recent : ledger[i].health # "none"}
<1>3. judged \subseteq DOMAIN ledger
    BY DEF Recent
<1>4. ASSUME NEW i \in judged, \A k \in judged : k <= i, ledger[i].health # "failed"
      PROVE  ledger[i] \in Newest(Completed)
  <2>1. i \in Completed
      BY <1>2, <1>3, <1>4 DEF Completed
  <2>2. ASSUME NEW k \in Completed PROVE k <= i
    <3>1. k \in DOMAIN ledger /\ ledger[k].health # "none"
        BY <1>2 DEF Completed
    <3>2. CASE k \in Recent
        BY <3>1, <3>2, <1>4
    <3>3. CASE k \notin Recent
      <4>1. ~(k + Window > Len(ledger)) /\ i + Window > Len(ledger) /\ i \in DOMAIN ledger
          BY <3>1, <3>3 DEF Recent
      <4>. QED  BY <3>1, <4>1, <1>1, BoundsAssumption
    <3>. QED  BY <3>2, <3>3
  <2>. QED  BY <2>1, <2>2 DEF Newest
<1>5. ASSUME NEW r \in BoardHealth
      PROVE  IF r.health = "failed" THEN r.status = "failed" ELSE r \in Newest(Completed)
  <2>1. PICK i \in judged : (\A k \in judged : k <= i) /\ r = ledger[i]
      BY <1>5 DEF BoardHealth, Newest
  <2>2. r.health = "failed" => r.status = "failed"
      BY <2>1, <1>2, <1>3
  <2>. HIDE DEF judged
  <2>3. r.health # "failed" => r \in Newest(Completed)
      BY <2>1, <1>4
  <2>. QED  BY <2>2, <2>3
<1>6. ASSUME MetricsHealth # {} PROVE MetricsHealth = {r.health : r \in BoardHealth}
  <2>1. PICK i \in DOMAIN ledger : (\A k \in DOMAIN ledger : k <= i) /\ ledger[i].health # "none"
      BY <1>6 DEF MetricsHealth, Newest
  <2>2. i = Len(ledger) /\ i + Window > Len(ledger)
    <3>1. i \in 1..Len(ledger) /\ Len(ledger) \in DOMAIN ledger
        BY <1>1, <2>1
    <3>2. i = Len(ledger)
        BY <1>1, <2>1, <3>1
    <3>. QED  BY <1>1, <3>2, BoundsAssumption
  <2>3. i \in judged /\ \A k \in judged : k <= i
      BY <2>1, <2>2, <1>3 DEF Recent
  <2>4. ASSUME NEW j \in judged, \A k \in judged : k <= j PROVE j = i
    <3>1. i <= j /\ j <= i
        BY <2>3, <2>4
    <3>2. i \in Nat /\ j \in Nat
        BY <1>1, <1>3
    <3>. QED  BY <3>1, <3>2
  <2>. HIDE DEF judged
  <2>5. Newest(judged) = {ledger[i]}
      BY <2>3, <2>4 DEF Newest
  <2>6. BoardHealth = Newest(judged)
      BY DEF BoardHealth, judged
  <2>7. \A j \in DOMAIN ledger : (\A k \in DOMAIN ledger : k <= j) => j = i
    <3>1. \A j \in DOMAIN ledger : j <= i /\ (i <= j => j = i)
        BY <2>1, <1>1
    <3>. QED  BY <3>1, <2>1
  <2>8. Newest(DOMAIN ledger) = {ledger[i]}
      BY <2>1, <2>7 DEF Newest
  <2>. QED  BY <2>1, <2>5, <2>6, <2>8 DEF MetricsHealth
<1>. QED  BY <1>5, <1>6 DEF ReadersAgree

\* For any engine and any thresholds, the board, the metrics and the gate read
\* the ledger alike: whatever order runs ended, raised or died in, the row shown
\* as healthy is the one that the next catalogue is compared with.
THEOREM LedgerReadAlike == CollectorSpec => []ReadersAgree
BY CollectorInitTyped, CollectorNextTyped, LedgerAgrees, PTL DEF CollectorSpec

-----------------------------------------------------------------------------
LEMMA HeadWaits ==
  ASSUME CollectorTyped, Discovering
  PROVE  /\ ToSet(queue) = {Head(queue)} \cup ToSet(Tail(queue)) /\ queue # <<>>
         /\ queue \in Seq(Nat \ {0}) /\ Head(queue) \in Nat \ {0}
<1>1. queue \in Seq(Nat \ {0}) /\ queue # <<>>
    BY DEF CollectorTyped, CollectorTypeOK, Discovering
<1>. QED  BY <1>1, HeadAndTail

LEMMA InitInOrder == CollectorInit => ReadInOrder /\ IsInjective(site)
BY NothingAscends, SiteAssumption DEF CollectorInit, ReadInOrder

LEMMA NextInOrder ==
  CollectorTyped /\ ReadInOrder /\ [CollectorNext]_collectorVars => ReadInOrder'
<1>. SUFFICES ASSUME CollectorTyped, ReadInOrder, [CollectorNext]_collectorVars,
                     engine'.last # "none"
              PROVE  Ascending(queue') /\ (ToSet(queue') \cup visited') \cap DOMAIN Links = {}
    BY DEF ReadInOrder
<1>1. engine' = engine
    BY DEF CollectorNext, Run, SiteMoves, StartRun, SkipVisited, ReadIndex, ReadPage, PageFails,
           ReadSitemaps, RunRaises, GateStops, ProcessProducts, Drained, Die, collectorVars
<1>2. engine.last # "none" /\ Ascending(queue)
      /\ (ToSet(queue) \cup visited) \cap DOMAIN Links = {}
    BY <1>1 DEF ReadInOrder
<1>3. CASE UNCHANGED <<queue, visited>>
    BY <1>2, <1>3
<1>4. CASE queue' = <<>> /\ visited' = {}
    BY <1>4, NothingAscends
<1>5. CASE StartRun
  <2>1. Ascending(engine.start) /\ ToSet(engine.start) \cap DOMAIN Links = {}
      BY <1>2, EngineAssumption DEF CollectorTyped, CollectorTypeOK, Ascending
  <2>. QED  BY <1>5, <2>1 DEF StartRun
<1>6. CASE Discovering /\ queue' \in {<<>>, Tail(queue)} /\ visited' \subseteq visited \cup {Head(queue)}
  <2>1. Ascending(queue')
      BY <1>2, <1>6, HeadWaits, TailAscends, NothingAscends
  <2>2. ToSet(queue') \subseteq ToSet(queue) /\ Head(queue) \in ToSet(queue)
      BY <1>6, HeadWaits, NothingAscends
  <2>. QED  BY <1>2, <1>6, <2>1, <2>2
<1>7. CASE ReadIndex
  <2>1. Head(queue) \in ToSet(queue) \cap DOMAIN Links
      BY <1>7, HeadWaits DEF ReadIndex
  <2>. QED  BY <1>2, <2>1
<1>8. SkipVisited \/ ReadPage \/ PageFails =>
        Discovering /\ queue' \in {<<>>, Tail(queue)} /\ visited' \subseteq visited \cup {Head(queue)}
    BY DEF SkipVisited, ReadPage, PageFails, Rest
<1>9. RunRaises \/ GateStops \/ ProcessProducts \/ Drained \/ Die => queue' = <<>> /\ visited' = {}
    BY DEF RunRaises, GateStops, ProcessProducts, Drained, Die, Leave
<1>10. SiteMoves \/ ReadSitemaps \/ UNCHANGED collectorVars => UNCHANGED <<queue, visited>>
    BY DEF SiteMoves, ReadSitemaps, collectorVars, runVars
<1>. QED  BY <1>3, <1>4, <1>5, <1>6, <1>7, <1>8, <1>9, <1>10 DEF CollectorNext, Run

\* The site lists nothing twice, and a page of it shows nothing else.
LEMMA NextSite ==
  CollectorTyped /\ IsInjective(site) /\ [CollectorNext]_collectorVars =>
    /\ IsInjective(site')
    /\ SiteMoves \/ site' = site
<1>. SUFFICES ASSUME CollectorTyped, IsInjective(site), [CollectorNext]_collectorVars
              PROVE  IsInjective(site') /\ (SiteMoves \/ site' = site)
    OBVIOUS
<1>1. SiteMoves \/ site' = site
    BY DEF CollectorNext, Run, StartRun, SkipVisited, ReadIndex, ReadPage, PageFails,
           ReadSitemaps, RunRaises, GateStops, ProcessProducts, Drained, Die, collectorVars,
           siteVars
<1>2. ASSUME SiteMoves PROVE IsInjective(site')
  <2>1. site \in Seq(Products)
      BY DEF CollectorTyped, CollectorTypeOK
  <2>2. CASE \E p \in Products \ ToSet(site) : site' = <<p>> \o site
      BY <2>1, <2>2, OneMore
  <2>3. CASE \E i \in DOMAIN site : site' = RemoveAt(site, i)
      BY <2>1, <2>3, Removing
  <2>4. CASE site' = <<>>
      BY <2>4, NothingAscends
  <2>5. CASE site' = site
      BY <2>5
  <2>. QED  BY <1>2, <2>2, <2>3, <2>4, <2>5 DEF SiteMoves
<1>. QED  BY <1>1, <1>2

LEMMA PagesShowTheSite ==
  ASSUME CollectorTyped, NEW k \in Nat \ {0}
  PROVE  Page(k) \in Seq(Products) /\ ToSet(Page(k)) \subseteq ToSet(site)
<1>1. /\ site \in Seq(Products) /\ Page(k) \in Seq(Products)
      /\ ToSet(Page(k)) = {site[i] : i \in Places(k)}
    BY PageFacts DEF CollectorTyped, CollectorTypeOK
<1>. QED  BY <1>1 DEF Places, ToSet

LEMMA InitClean == CollectorInit => CleanSoFar /\ CleanWithSitemaps
BY DEF CollectorInit, CleanSoFar, CleanWithSitemaps

LEMMA ReadingStaysClean ==
  ASSUME CollectorTyped, IsInjective(site), ReadInOrder, CleanSoFar, ReadPage, ~hiccup
  PROVE  CleanSoFar'
<1>. DEFINE k == Head(queue)
            sheet == Page(k)
<1>1. /\ Discovering /\ k \in Nat \ {0} /\ k \notin DOMAIN Links /\ k \notin visited
      /\ visited' = visited \cup {k} /\ refs' = Found(sheet) /\ queue' = Rest(sheet)
      /\ UNCHANGED <<engine, site, pc, hiccup>> /\ pc = "discover"
    BY HeadWaits DEF ReadPage, Discovering, siteVars
<1>2. /\ IsInjective(refs) /\ ToSet(refs) = PagesRead
      /\ \A j \in visited \cap DOMAIN Links : ToSet(Links[j]) \subseteq visited \cup ToSet(queue)
      /\ \A j \in ToSet(engine.start) :
           \/ j \in visited \cup ToSet(queue)
           \/ j \notin DOMAIN Links /\ Page(j) = <<>>
    BY <1>1 DEF CleanSoFar
<1>3. /\ sheet \in Seq(Products) /\ IsInjective(sheet)
      /\ site \in Seq(Products) /\ visited \in SUBSET (Nat \ {0})
    BY <1>1, PageFacts DEF CollectorTyped, CollectorTypeOK
<1>4. ToSet(queue) = {k} \cup ToSet(Tail(queue)) /\ queue # <<>> /\ queue \in Seq(Nat \ {0})
    BY <1>1, HeadWaits
<1>5. \A j : Page(j)' = Page(j)
    BY <1>1 DEF Page
<1>. HIDE DEF k, sheet
<1>6. IsInjective(refs') /\ ToSet(refs') = PagesRead'
  <2>1. ToSet(refs) \cap ToSet(sheet) = {}
    <3>1. ASSUME NEW j \in visited PROVE ToSet(Page(j)) \cap ToSet(sheet) = {}
      <4>1. j \in Nat \ {0} /\ j # k
          BY <1>1, <1>3
      <4>. QED  BY <4>1, <1>1, <1>3, PagesApart DEF sheet
    <3>. QED  BY <1>2, <3>1 DEF PagesRead
  <2>2. IsInjective(refs') /\ ToSet(refs') = ToSet(refs) \cup ToSet(sheet)
      BY <1>1, <1>2, <1>3, <2>1, FoundTyped
  <2>3. PagesRead' = UNION {ToSet(Page(j)) : j \in visited' \ DOMAIN Links}
      BY <1>5 DEF PagesRead
  <2>4. PagesRead' = PagesRead \cup ToSet(sheet)
      BY <1>1, <2>3 DEF PagesRead, sheet
  <2>. QED  BY <1>2, <2>2, <2>4
<1>7. CASE queue' = Tail(queue)
  <2>1. visited' \cup ToSet(queue') = visited \cup ToSet(queue)
      BY <1>1, <1>4, <1>7
  <2>2. visited' \cap DOMAIN Links = visited \cap DOMAIN Links
      BY <1>1
  <2>. QED  BY <1>1, <1>2, <1>5, <1>6, <2>1, <2>2 DEF CleanSoFar
<1>8. CASE queue' # Tail(queue)
  <2>1. /\ engine.last # "none" /\ queue' = <<>>
        /\ sheet = <<>> \/ Len(sheet) < PerPage
      BY <1>1, <1>8 DEF Rest
  <2>2. Ascending(queue) /\ (ToSet(queue) \cup visited) \cap DOMAIN Links = {}
      BY <2>1 DEF ReadInOrder
  <2>3. ASSUME NEW j \in ToSet(Tail(queue)) PROVE j \notin DOMAIN Links /\ Page(j) = <<>>
    <3>1. k < j /\ j \in Nat \ {0}
      <4>1. Tail(queue) \in Seq(Nat \ {0}) /\ \A i \in ToSet(Tail(queue)) : k < i
          BY <1>4, <2>2, HeadAndTail, TailAscends DEF k
      <4>2. ToSet(Tail(queue)) \subseteq Nat \ {0}
          BY <4>1, LenProperties DEF ToSet
      <4>. QED  BY <4>1, <4>2
    <3>. QED  BY <3>1, <1>1, <1>3, <1>4, <2>1, <2>2, NothingBehind DEF sheet
  <2>4. visited' \cap DOMAIN Links = {}
      BY <1>1, <2>2
  <2>5. \A j \in ToSet(engine.start) :
          \/ j \in visited' \cup ToSet(queue')
          \/ j \notin DOMAIN Links /\ Page(j) = <<>>
      BY <1>1, <1>2, <1>4, <2>3
  <2>. QED  BY <1>1, <1>5, <1>6, <2>4, <2>5 DEF CleanSoFar
<1>. QED  BY <1>7, <1>8

LEMMA NextClean ==
  CollectorTyped /\ IsInjective(site) /\ ReadInOrder /\ CleanSoFar /\ [CollectorNext]_collectorVars
    => CleanSoFar'
<1>. SUFFICES ASSUME CollectorTyped, IsInjective(site), ReadInOrder, CleanSoFar,
                     [CollectorNext]_collectorVars, pc' = "discover", ~hiccup'
              PROVE  CleanSoFar'
    BY DEF CleanSoFar
<1>1. CASE StartRun
  <2>1. /\ refs' = <<>> /\ visited' = {} /\ queue' = engine'.start
      BY <1>1 DEF StartRun
  <2>2. PagesRead' = {}
      BY <2>1 DEF PagesRead
  <2>. QED  BY <2>1, <2>2, NothingAscends DEF CleanSoFar
<1>2. CASE SkipVisited
  <2>1. /\ Discovering /\ Head(queue) \in visited /\ queue' = Tail(queue) /\ pc = "discover"
        /\ UNCHANGED <<engine, site, visited, refs, hiccup>>
      BY <1>2 DEF SkipVisited, Discovering, siteVars
  <2>2. visited' \cup ToSet(queue') = visited \cup ToSet(queue)
      BY <2>1, HeadWaits
  <2>3. (\A j : Page(j)' = Page(j)) /\ PagesRead' = PagesRead
      BY <2>1 DEF PagesRead, Page
  <2>. QED  BY <2>1, <2>2, <2>3 DEF CleanSoFar
<1>3. CASE ReadIndex
  <2>. DEFINE k == Head(queue)
  <2>1. /\ Discovering /\ k \in DOMAIN Links \ visited /\ pc = "discover" /\ ~hiccup
        /\ visited' = visited \cup {k} /\ queue' = Queued(Links[k], visited \cup {k})
        /\ ToSet(Links[k]) \subseteq visited' \cup ToSet(queue')
        /\ UNCHANGED <<engine, site, refs>>
      BY <1>3 DEF ReadIndex, Discovering, siteVars
  <2>2. ToSet(Tail(queue)) \subseteq ToSet(queue') /\ ToSet(queue) = {k} \cup ToSet(Tail(queue))
      BY <2>1, HeadWaits, QueuedTyped
  <2>3. visited \cup ToSet(queue) \subseteq visited' \cup ToSet(queue')
      BY <2>1, <2>2
  <2>4. visited' \ DOMAIN Links = visited \ DOMAIN Links
      BY <2>1
  <2>5. (\A j : Page(j)' = Page(j)) /\ PagesRead' = PagesRead
      BY <2>1, <2>4 DEF PagesRead, Page
  <2>6. \A j \in visited' \cap DOMAIN Links : ToSet(Links[j]) \subseteq visited' \cup ToSet(queue')
      BY <2>1, <2>3 DEF CleanSoFar
  <2>. HIDE DEF k
  <2>. QED  BY <2>1, <2>3, <2>5, <2>6 DEF CleanSoFar
<1>4. CASE ReadPage
    BY <1>4, ReadingStaysClean DEF ReadPage
<1>5. CASE UNCHANGED collectorVars
  <2>1. UNCHANGED <<engine, site, visited, refs, hiccup, queue, pc>>
      BY <1>5 DEF collectorVars, siteVars, runVars
  <2>2. (\A j : Page(j)' = Page(j)) /\ PagesRead' = PagesRead
      BY <2>1 DEF PagesRead, Page
  <2>. QED  BY <2>1, <2>2 DEF CleanSoFar
<1>6. ~(SiteMoves \/ PageFails)
    BY DEF SiteMoves, PageFails, runVars, InDiscovery
<1>7. ~(ReadSitemaps \/ RunRaises \/ GateStops \/ ProcessProducts \/ Drained \/ Die)
    BY DEF ReadSitemaps, RunRaises, GateStops, ProcessProducts, Drained, Die, Leave
<1>. QED  BY <1>1, <1>2, <1>3, <1>4, <1>5, <1>6, <1>7 DEF CollectorNext, Run

\* Every page of the site has been read, or is known to be empty.
LEMMA PagesAreExact ==
  ASSUME CollectorTyped, IsInjective(site), CleanSoFar, pc = "discover", ~Discovering, ~hiccup
  PROVE  IsInjective(refs) /\ ToSet(refs) = ToSet(site)
<1>. DEFINE Empty == {k \in Nat \ {0} : k \notin DOMAIN Links /\ Page(k) = <<>>}
            S == (visited \cup Empty) \cap Nodes(engine)
<1>1. /\ IsInjective(refs) /\ ToSet(refs) = PagesRead
      /\ \A k \in visited \cap DOMAIN Links : ToSet(Links[k]) \subseteq visited \cup ToSet(queue)
      /\ \A k \in ToSet(engine.start) :
           \/ k \in visited \cup ToSet(queue)
           \/ k \notin DOMAIN Links /\ Page(k) = <<>>
    BY DEF CleanSoFar
<1>2. /\ site \in Seq(Products) /\ refs \in Seq(Products) /\ queue \in Seq(Nat \ {0})
      /\ visited \in SUBSET (Nat \ {0}) /\ engine \in Engines
    BY DEF CollectorTyped, CollectorTypeOK
<1>3. queue = <<>>
  <2>1. SUFFICES ASSUME queue # <<>> PROVE FALSE
      OBVIOUS
  <2>2. Len(queue) \in Nat \ {0}
      BY <1>2, <2>1, EmptySeq
  <2>3. Cardinality(visited) \in Nat /\ Len(queue) + Cardinality(visited) <= MaxSitemaps
      BY FS_CardinalityType DEF CollectorTyped, WithinLimit
  <2>4. ~(Cardinality(visited) < MaxSitemaps) /\ MaxSitemaps \in Nat
      BY <2>1, BoundsAssumption DEF Discovering
  <2>. QED  BY <2>2, <2>3, <2>4
<1>4. ToSet(queue) = {}
    BY <1>3, NothingAscends
<1>5. ToSet(engine.start) \subseteq S
  <2>1. engine.start \in Seq(Nat \ {0})
      BY <1>2, EngineAssumption
  <2>2. ToSet(engine.start) \subseteq Nat \ {0}
      BY <2>1, LenProperties DEF ToSet
  <2>. QED  BY <1>1, <1>4, <2>2 DEF Nodes
<1>6. FollowsLinks(S)
  <2>1. SUFFICES ASSUME NEW k \in S \cap DOMAIN Links PROVE ToSet(Links[k]) \subseteq S
      BY DEF FollowsLinks
  <2>2. k \in visited
      OBVIOUS
  <2>3. ToSet(Links[k]) \subseteq Nodes(engine)
      BY DEF Nodes
  <2>. QED  BY <1>1, <1>4, <2>2, <2>3
<1>7. PageNumbers \subseteq S
  <2>1. S \in SUBSET Nodes(engine)
      OBVIOUS
  <2>. HIDE DEF S
  <2>. QED  BY <1>2, <1>5, <1>6, <2>1, EngineAssumption
<1>8. ASSUME NEW p \in ToSet(site) PROVE p \in ToSet(refs)
  <2>1. PICK k \in PageNumbers : p \in ToSet(Page(k))
      BY <1>2, PagesCover
  <2>2. Page(k) # <<>>
      BY <2>1, NothingAscends
  <2>3. k \in visited \ DOMAIN Links
      BY <1>7, <2>2, LinksAssumption
  <2>. QED  BY <1>1, <2>1, <2>3 DEF PagesRead
<1>9. ASSUME NEW p \in ToSet(refs) PROVE p \in ToSet(site)
  <2>1. PICK k \in visited \ DOMAIN Links : p \in ToSet(Page(k))
      BY <1>1 DEF PagesRead
  <2>2. ToSet(Page(k)) \subseteq ToSet(site)
      BY <1>2, <2>1, PagesShowTheSite
  <2>. QED  BY <2>1, <2>2
<1>. QED  BY <1>1, <1>8, <1>9

LEMMA NextMapped ==
  CollectorTyped /\ IsInjective(site) /\ CleanSoFar /\ CleanWithSitemaps
    /\ [CollectorNext]_collectorVars
  => CleanWithSitemaps'
<1>. SUFFICES ASSUME CollectorTyped, IsInjective(site), CleanSoFar, CleanWithSitemaps,
                     [CollectorNext]_collectorVars, pc' = "mapped", ~hiccup'
              PROVE  IsInjective(refs') /\ ToSet(refs') = Offered'
    BY DEF CleanWithSitemaps
<1>1. CASE ReadSitemaps
  <2>1. PICK read \in SUBSET Offered : /\ refs' = refs \o SetToSeq(read \ ToSet(refs))
                                      /\ hiccup' = (hiccup \/ read # Offered)
      BY <1>1 DEF ReadSitemaps
  <2>2. ~hiccup /\ read = Offered /\ Offered' = Offered
      BY <1>1, <2>1 DEF ReadSitemaps, Offered, siteVars
  <2>3. IsInjective(refs) /\ ToSet(refs) = ToSet(site)
      BY <1>1, <2>2, PagesAreExact DEF ReadSitemaps
  <2>4. ToSet(refs) \cup Offered = Offered
      BY <2>3 DEF Offered
  <2>5. ToSet(refs') = ToSet(refs) \cup Offered /\ IsInjective(refs')
      BY <2>1, <2>2, <2>3, SitemapsAdd
  <2>. QED  BY <2>2, <2>4, <2>5
<1>2. CASE UNCHANGED collectorVars
  <2>1. UNCHANGED <<site, hidden, refs, pc, hiccup>>
      BY <1>2 DEF collectorVars, siteVars, runVars
  <2>. QED  BY <2>1 DEF CleanWithSitemaps, Offered
<1>3. ~(SiteMoves \/ StartRun)
    BY DEF SiteMoves, StartRun, runVars, InDiscovery
<1>4. ~(SkipVisited \/ ReadIndex \/ ReadPage \/ PageFails)
    BY DEF SkipVisited, ReadIndex, ReadPage, PageFails, Discovering
<1>5. ~(RunRaises \/ GateStops \/ ProcessProducts \/ Drained \/ Die)
    BY DEF RunRaises, GateStops, ProcessProducts, Drained, Die, Leave
<1>. QED  BY <1>1, <1>2, <1>3, <1>4, <1>5 DEF CollectorNext, Run

\* A discovery that went well has found all that the site offers to its engine.
LEMMA CleanIsExact ==
  ASSUME CollectorTyped, IsInjective(site), CleanSoFar, CleanWithSitemaps, Discovered, ~hiccup
  PROVE  IsInjective(refs) /\ ToSet(refs) = Offered
<1>1. CASE pc = "mapped"
    BY <1>1 DEF CleanWithSitemaps
<1>2. CASE pc = "discover" /\ ~Discovering /\ ~engine.sitemap
  <2>1. hidden = {}
      BY <1>2 DEF CollectorTyped, CollectorTypeOK
  <2>. QED  BY <1>2, <2>1, PagesAreExact DEF Offered
<1>. QED  BY <1>1, <1>2 DEF Discovered

ReadingInv ==
  /\ CollectorTyped /\ IsInjective(site) /\ ReadInOrder
  /\ CleanSoFar /\ CleanWithSitemaps

LEMMA ReadingInvariant ==
  /\ CollectorInit => ReadingInv
  /\ ReadingInv /\ [CollectorNext]_collectorVars => ReadingInv'
<1>1. CollectorInit => ReadingInv
    BY CollectorInitTyped, InitInOrder, InitClean DEF ReadingInv
<1>2. ReadingInv /\ [CollectorNext]_collectorVars => ReadingInv'
    BY CollectorNextTyped, NextSite, NextInOrder, NextClean, NextMapped DEF ReadingInv
<1>. QED  BY <1>1, <1>2

\* Every engine returns every product of a site of any size exactly once, hidden
\* ones included, or as many different ones as its limit allows, when no page and
\* no sitemap fails and the site holds still: pages of any size, indexes that name
\* each other, whichever page says that it is the last, and any limit.
THEOREM CleanDiscovery == CollectorSpec => []CleanDiscoveryIsExact
<1>1. ASSUME ReadingInv, Discovered, ~hiccup
      PROVE  /\ IsInjective(Kept) /\ ToSet(Kept) \subseteq Offered
             /\ ToSet(Kept) = Offered \/ Len(Kept) = engine.limit
  <2>1. IsInjective(refs) /\ ToSet(refs) = Offered
      BY <1>1, CleanIsExact DEF ReadingInv
  <2>. QED  BY <1>1, <2>1, KeptTyped DEF ReadingInv
<1>2. ReadingInv => CleanDiscoveryIsExact
    BY <1>1 DEF CleanDiscoveryIsExact
<1>. QED  BY <1>2, ReadingInvariant, PTL DEF CollectorSpec

-----------------------------------------------------------------------------
\* The row of a run counts as completed when it is closed as ok, and only then.
LEMMA ClosingCounts ==
  ASSUME CollectorTyped, pc # "idle", NEW st \in {"ok", "failed"}, NEW h, NEW n, Close(st, h, n),
         h \in {"none", "ok", "degraded", "failed"}, n \in Nat
  PROVE  /\ Len(ledger') = Len(ledger)
         /\ st = "ok" => Completed' = Completed \cup {Len(ledger)}
         /\ st = "failed" => Completed' = Completed \ {Len(ledger)}
<1>. DEFINE row == [status |-> st, health |-> h, discovered |-> n]
<1>1. row \in Rows /\ row.status = st /\ ledger' = [ledger EXCEPT ![Len(ledger)] = row]
    BY DEF Rows, Close
<1>2. ledger # <<>>
    BY DEF CollectorTyped, LedgerKept
<1>. HIDE DEF row
<1>3. /\ Len(ledger') = Len(ledger) /\ DOMAIN ledger' = DOMAIN ledger
      /\ Len(ledger) \in DOMAIN ledger /\ ledger'[Len(ledger)] = row
      /\ \A i \in DOMAIN ledger : i # Len(ledger) => ledger'[i] = ledger[i]
    BY <1>1, <1>2, Closing DEF CollectorTyped
<1>4. Completed' = {i \in DOMAIN ledger' : ledger'[i].status = "ok"}
    BY DEF Completed
<1>. QED  BY <1>1, <1>3, <1>4 DEF Completed

LEMMA RunningIsNotCompleted ==
  CollectorTyped /\ InDiscovery => Len(ledger) \notin Completed /\ SettledRuns = Completed
BY DEF CollectorTyped, LedgerKept, InDiscovery, Completed, SettledRuns

\* What is stored has been found, and is announced by a run that is not quiet.
LEMMA StoringNews ==
  ASSUME BaselineQuiet, NewsKept, LoudIsNews, InDiscovery, SettledRuns = Completed,
         NEW done \in SUBSET ToSet(Kept), Store(done), ToSet(Kept) \subseteq ToSet(refs)
  PROVE  /\ known \subseteq known' /\ done \subseteq known'
         /\ Completed = {} => loud' = {}
         /\ Completed # {} => loud' \subseteq arrived \/ partial
BY DEF NewsKept, LoudIsNews, Store

CollectorInv == ReadingInv /\ NewsKept /\ LoudIsNews

LEMMA InitNews == CollectorInit => NewsKept /\ LoudIsNews
BY DEF CollectorInit, NewsKept, LoudIsNews, InDiscovery, SettledRuns, Completed

\* The first completed run, and those after it.
LEMMA FinishingNews ==
  ASSUME CollectorInv, Discovered, NEW trouble \in BOOLEAN, Finish(trouble), pc' = "drain",
         hiccup => trouble
  PROVE  /\ SettledRuns' = Completed
         /\ \/ Completed' = Completed /\ partial' = partial
            \/ /\ Health(Len(Kept)) # "failed" /\ Completed' # {}
               /\ partial' = IF Completed = {} THEN trouble ELSE partial
         /\ Completed = {} /\ Completed' # {} /\ ~partial' => ToSet(refs) = Offered /\ ~trouble
<1>. DEFINE h == Health(Len(Kept))
<1>1. CollectorTyped /\ InDiscovery /\ pc # "idle" /\ Len(ledger) \notin Completed
    BY RunningIsNotCompleted DEF CollectorInv, ReadingInv, Discovered, InDiscovery
<1>2. Len(Kept) \in Nat /\ h \in {"ok", "degraded", "failed"}
    BY <1>1, KeptTyped, HealthTyped DEF CollectorTyped
<1>3. /\ Close(StatusOf(h), h, Len(Kept))
      /\ partial' = IF StatusOf(h) = "ok" /\ Completed = {} THEN trouble ELSE partial
    BY DEF Finish
<1>4. StatusOf(h) = IF h = "failed" THEN "failed" ELSE "ok"
    BY DEF StatusOf
<1>5. StatusOf(h) \in {"ok", "failed"}
    BY <1>4
<1>6. ~hiccup => ToSet(refs) = Offered
    BY CleanIsExact DEF CollectorInv, ReadingInv
<1>. HIDE DEF h
<1>7. /\ Len(ledger') = Len(ledger)
      /\ StatusOf(h) = "ok" => Completed' = Completed \cup {Len(ledger)}
      /\ StatusOf(h) = "failed" => Completed' = Completed \ {Len(ledger)}
    BY <1>1, <1>2, <1>3, <1>5, ClosingCounts
<1>8. SettledRuns' = Completed' \ {Len(ledger)}
    BY <1>7 DEF SettledRuns
<1>. QED  BY <1>1, <1>3, <1>4, <1>5, <1>6, <1>7, <1>8 DEF h

LEMMA NextNews ==
  CollectorInv /\ [CollectorNext]_collectorVars => NewsKept' /\ LoudIsNews'
<1>. SUFFICES ASSUME CollectorInv, [CollectorNext]_collectorVars, BaselineQuiet
              PROVE  NewsKept' /\ LoudIsNews'
    BY DEF NewsKept, LoudIsNews
<1>1. CollectorTyped /\ NewsKept /\ LoudIsNews
    BY DEF CollectorInv, ReadingInv
<1>2. InDiscovery => Len(ledger) \notin Completed /\ SettledRuns = Completed
    BY <1>1, RunningIsNotCompleted
<1>3. UNCHANGED ledger => Completed' = Completed
    BY DEF Completed
<1>4. UNCHANGED <<ledger, pc>> => SettledRuns' = SettledRuns
    BY <1>3 DEF SettledRuns
<1>. USE DEF InDiscovery
<1>5. CASE SiteMoves
  <2>1. Offered' \ Offered \subseteq arrived' /\ arrived \subseteq arrived'
      BY <1>5 DEF SiteMoves
  <2>2. UNCHANGED <<ledger, known, loud, pc, refs, quiet, partial>>
      BY <1>5 DEF SiteMoves, runVars
  <2>. QED  BY <1>1, <1>3, <1>4, <2>1, <2>2 DEF NewsKept, LoudIsNews
<1>6. CASE StartRun
  <2>1. /\ pc = "idle" /\ pc' = "discover" /\ refs' = <<>> /\ (quiet' <=> Completed = {})
        /\ arrived' = IF Completed = {} THEN {} ELSE arrived
        /\ Offered' = Offered /\ UNCHANGED <<known, loud, partial>>
      BY <1>6 DEF StartRun, siteVars, Offered
  <2>2. Completed' = Completed
    <3>. DEFINE row == [status |-> "running", health |-> "none", discovered |-> 0]
    <3>1. ledger \in Seq(Rows) /\ row \in Rows /\ ledger' = Append(ledger, row)
          /\ row.status = "running"
        BY <1>1, <1>6 DEF StartRun, CollectorTyped, CollectorTypeOK, Rows
    <3>. HIDE DEF row
    <3>2. /\ Len(ledger) \in Nat
          /\ DOMAIN ledger = 1..Len(ledger) /\ DOMAIN ledger' = 1..(Len(ledger) + 1)
          /\ \A i \in 1..Len(ledger) : ledger'[i] = ledger[i]
          /\ ledger'[Len(ledger) + 1] = row
        BY <3>1, LenProperties
    <3>3. \A i \in 1..(Len(ledger) + 1) : i \in 1..Len(ledger) \/ i = Len(ledger) + 1
        BY <3>2
    <3>4. \A i \in 1..Len(ledger) : i \in 1..(Len(ledger) + 1)
        BY <3>2
    <3>5. Completed' = {i \in DOMAIN ledger' : ledger'[i].status = "ok"}
        BY DEF Completed
    <3>. QED  BY <3>1, <3>2, <3>3, <3>4, <3>5 DEF Completed
  <2>3. SettledRuns = Completed /\ SettledRuns' = Completed'
      BY <2>1 DEF SettledRuns
  <2>. QED  BY <1>1, <2>1, <2>2, <2>3, NothingAscends DEF NewsKept, LoudIsNews
<1>7. CASE SkipVisited \/ ReadIndex \/ PageFails \/ UNCHANGED collectorVars
  <2>1. Offered' = Offered /\ UNCHANGED <<ledger, known, loud, pc, refs, quiet, partial, arrived>>
      BY <1>7 DEF SkipVisited, ReadIndex, PageFails, collectorVars, siteVars, runVars, Offered
  <2>. QED  BY <1>1, <1>3, <1>4, <2>1 DEF NewsKept, LoudIsNews
<1>8. CASE ReadPage
  <2>1. /\ Discovering /\ pc = "discover" /\ refs' = Found(Page(Head(queue)))
        /\ Offered' = Offered /\ UNCHANGED <<ledger, known, loud, pc, quiet, partial, arrived>>
      BY <1>8 DEF ReadPage, Discovering, siteVars, Offered
  <2>2. ToSet(refs') \subseteq ToSet(refs) \cup Offered
    <3>1. /\ Page(Head(queue)) \in Seq(Products)
          /\ ToSet(Page(Head(queue))) \subseteq Offered
        BY <1>1, <2>1, HeadWaits, PagesShowTheSite DEF Offered
    <3>2. ToSet(refs') = ToSet(refs) \cup ToSet(Page(Head(queue)))
        BY <1>1, <2>1, <3>1, FoundTyped
    <3>. QED  BY <3>1, <3>2
  <2>. QED  BY <1>1, <1>3, <1>4, <2>1, <2>2 DEF NewsKept, LoudIsNews
<1>9. CASE ReadSitemaps
  <2>1. PICK more \in SUBSET Offered : refs' = refs \o SetToSeq(more \ ToSet(refs))
      BY <1>9 DEF ReadSitemaps
  <2>2. /\ pc = "discover" /\ pc' = "mapped" /\ Offered' = Offered
        /\ UNCHANGED <<ledger, known, loud, quiet, partial, arrived>>
      BY <1>9 DEF ReadSitemaps, siteVars, Offered
  <2>3. ToSet(refs') = ToSet(refs) \cup more
      BY <1>1, <2>1, SitemapsAdd
  <2>4. SettledRuns' = SettledRuns
      BY <1>3, <2>2 DEF SettledRuns
  <2>. QED  BY <1>1, <1>3, <2>1, <2>2, <2>3, <2>4 DEF NewsKept, LoudIsNews
<1>10. CASE RunRaises
  <2>1. /\ pc \in {"discover", "drain"} /\ Close("failed", "none", 0) /\ pc' = "idle"
        /\ Offered' = Offered /\ UNCHANGED <<known, loud, partial, arrived>>
      BY <1>10 DEF RunRaises, Discovering, Leave, siteVars, Offered
  <2>2. Completed' = Completed \ {Len(ledger)}
      BY <1>1, <2>1, ClosingCounts
  <2>3. SettledRuns' = Completed' /\ SettledRuns = Completed'
      BY <1>2, <2>1, <2>2 DEF SettledRuns
  <2>. QED  BY <1>1, <2>1, <2>2, <2>3 DEF NewsKept, LoudIsNews
<1>11. CASE GateStops
  <2>1. /\ Discovered /\ InDiscovery /\ Finish(hiccup) /\ hiccup \in BOOLEAN /\ pc' = "drain"
        /\ Kept = <<>> \/ Health(Len(Kept)) = "failed"
        /\ Offered' = Offered /\ UNCHANGED <<known, loud, arrived>>
      BY <1>1, <1>11 DEF GateStops, Discovered, Leave, siteVars, Offered, CollectorTyped, CollectorTypeOK
  <2>2. /\ SettledRuns' = Completed
        /\ \/ Completed' = Completed /\ partial' = partial
           \/ /\ Health(Len(Kept)) # "failed" /\ Completed' # {}
              /\ partial' = IF Completed = {} THEN hiccup ELSE partial
        /\ Completed = {} /\ Completed' # {} /\ ~partial' => ToSet(refs) = Offered /\ ~hiccup
      BY <2>1, FinishingNews
  <2>3. Completed = {} => loud = {}
      BY <1>1, <1>2, <2>1 DEF NewsKept
  <2>4. Completed' # {} /\ ~partial' => Offered \subseteq known \cup arrived
    <3>1. CASE Completed = {}
        BY <1>1, <2>1, <2>2, <3>1, KeptTyped, NothingAscends
    <3>2. CASE Completed # {}
        BY <1>1, <2>2, <3>2 DEF NewsKept
    <3>. QED  BY <3>1, <3>2
  <2>. QED  BY <1>1, <2>1, <2>2, <2>3, <2>4 DEF NewsKept, LoudIsNews
<1>12. CASE ProcessProducts
  <2>1. PICK done \in SUBSET ToSet(Kept) : Store(done) /\ Finish(hiccup \/ done # ToSet(refs))
      BY <1>12 DEF ProcessProducts
  <2>2. PICK trouble \in BOOLEAN : trouble <=> (hiccup \/ done # ToSet(refs))
      OBVIOUS
  <2>3. /\ Discovered /\ InDiscovery /\ pc' = "drain"
        /\ Offered' = Offered /\ UNCHANGED arrived /\ hiccup \in BOOLEAN
      BY <1>1, <1>12 DEF ProcessProducts, Discovered, Leave, siteVars, Offered, CollectorTyped,
                         CollectorTypeOK
  <2>4. Finish(trouble)
    <3>1. (hiccup \/ done # ToSet(refs)) = trouble
        BY <2>2, <2>3
    <3>. QED  BY <2>1, <3>1
  <2>5. /\ SettledRuns' = Completed
        /\ \/ Completed' = Completed /\ partial' = partial
           \/ /\ Health(Len(Kept)) # "failed" /\ Completed' # {}
              /\ partial' = IF Completed = {} THEN trouble ELSE partial
        /\ Completed = {} /\ Completed' # {} /\ ~partial' => ToSet(refs) = Offered /\ ~trouble
      BY <2>2, <2>3, <2>4, FinishingNews
  <2>6. /\ known \subseteq known' /\ done \subseteq known'
        /\ Completed = {} => loud' = {}
        /\ Completed # {} => loud' \subseteq arrived \/ partial
      BY <1>1, <1>2, <2>1, <2>3, KeptTyped, StoringNews
  <2>7. Completed' # {} /\ ~partial' => Offered \subseteq known' \cup arrived
    <3>1. CASE Completed = {}
        BY <2>2, <2>5, <2>6, <3>1
    <3>2. CASE Completed # {}
        BY <1>1, <2>5, <2>6, <3>2 DEF NewsKept
    <3>. QED  BY <3>1, <3>2
  <2>8. loud' \subseteq arrived \/ partial'
    <3>1. Completed # {} => partial' = partial
        BY <2>5
    <3>. QED  BY <2>6, <3>1
  <2>. QED  BY <2>3, <2>5, <2>6, <2>7, <2>8 DEF NewsKept, LoudIsNews
<1>13. CASE Drained
  <2>1. pc' = "idle" /\ Offered' = Offered /\ UNCHANGED <<ledger, known, loud, partial, arrived>>
      BY <1>13 DEF Drained, Leave, siteVars, Offered
  <2>2. SettledRuns' = Completed' /\ Completed' = Completed /\ (Completed = {} => SettledRuns = {})
      BY <1>3, <2>1 DEF SettledRuns
  <2>. QED  BY <1>1, <2>1, <2>2 DEF NewsKept, LoudIsNews
<1>14. CASE Die
  <2>1. pc' = "idle" /\ Offered' = Offered /\ UNCHANGED <<ledger, partial, arrived>>
      BY <1>14 DEF Die, Leave, siteVars, Offered
  <2>2. SettledRuns' = Completed' /\ Completed' = Completed /\ (Completed = {} => SettledRuns = {})
      BY <1>3, <2>1 DEF SettledRuns
  <2>3. CASE UNCHANGED <<known, loud>>
      BY <1>1, <2>1, <2>2, <2>3 DEF NewsKept, LoudIsNews
  <2>4. CASE Discovered /\ \E done \in SUBSET ToSet(Kept) : Store(done)
    <3>1. PICK done \in SUBSET ToSet(Kept) : Store(done)
        BY <2>4
    <3>2. /\ known \subseteq known' /\ (Completed = {} => loud' = {})
          /\ Completed # {} => loud' \subseteq arrived \/ partial
        BY <1>1, <1>2, <2>4, <3>1, KeptTyped, StoringNews DEF Discovered
    <3>. QED  BY <1>1, <2>1, <2>2, <3>2 DEF NewsKept, LoudIsNews
  <2>. QED  BY <1>14, <2>3, <2>4 DEF Die
<1>. QED  BY <1>5, <1>6, <1>7, <1>8, <1>9, <1>10, <1>11, <1>12, <1>13, <1>14 DEF CollectorNext, Run

\* However runs fail, die and repeat, on a site of any size that changes at any
\* time: with quiet baselines only what has come since the first completed run
\* began is announced as new, unless that run had a page, a sitemap or a product
\* that failed, found more than its limit, or saw the site move.
THEOREM NewsIsNews == CollectorSpec => []LoudIsNews
<1>1. CollectorInit => CollectorInv
    BY InitNews, ReadingInvariant DEF CollectorInv
<1>2. CollectorInv /\ [CollectorNext]_collectorVars => CollectorInv'
    BY NextNews, ReadingInvariant DEF CollectorInv
<1>3. CollectorInv => LoudIsNews
    BY DEF CollectorInv
<1>. QED  BY <1>1, <1>2, <1>3, PTL DEF CollectorSpec

=============================================================================
