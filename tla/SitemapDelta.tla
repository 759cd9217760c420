---------------------------- MODULE SitemapDelta ----------------------------
(***************************************************************************)
(* The isolated collectors of regional sitemaps, Lenovo's and ASUS's,      *)
(* which have the same run (experimental/).  The first good poll of a      *)
(* region is its baseline; later ones make a candidate of each page that   *)
(* they have not seen before.                                              *)
(*                                                                         *)
(* A page is a URL of one region.  Its URL gives it a provisional identity *)
(* and, once it is filled with product data, its data give it another.     *)
(* Pages are listed, withdrawn and filled while a run reads them.          *)
(***************************************************************************)
EXTENDS Naturals, Sequences, FiniteSets

CONSTANTS
  Order,        \* the regions, in the order they are polled
  Pages, Home,  \* Home[u]: the region of page u
  UrlIdentity, DataIdentity,  \* what the URL and the data of a page say
  MinimumPct,   \* of the previous count: fewer pages fail the poll
  MaxWorld      \* bound: changes of the site

VARIABLES
  listed, filled,  \* the sites: pages in the sitemaps, pages with data
  counts,     \* per region, the count of the last good poll, if any
  rows,       \* the stored pages with their identity
  candidates, \* the stored candidates
  poll,       \* position of the region being polled, 0 between runs
  stage,      \* "sitemap" or "pages"
  urls, unread, found,  \* of this region: its sitemap, pages to read, finds
  emitted,    \* identities this run has made a candidate of
  \* Ghosts.
  baseline,   \* pages that a baseline has stored
  blank,      \* pages that had no data when they were read
  torn,       \* pages of finds that a save cut short has stored
  orphaned,   \* identities whose candidate was lost with its poll
  world

pageVars == <<listed, filled, world>>
pollVars == <<poll, stage, urls, unread, found, emitted>>
regionVars == <<counts, rows, candidates, blank, orphaned>>
sitemapVars == <<pageVars, pollVars, regionVars, baseline, torn>>

ASSUME MinimumAssumption == MinimumPct \in 1..100

SitemapInit ==
  /\ listed \in SUBSET Pages /\ filled \in SUBSET Pages
  /\ counts = [r \in {} |-> 0] /\ rows = [u \in {} |-> UrlIdentity[u]]
  /\ candidates = {} /\ poll = 0 /\ stage = "sitemap"
  /\ urls = {} /\ unread = {} /\ found = {} /\ emitted = {}
  /\ baseline = {} /\ blank = {} /\ torn = {} /\ orphaned = {} /\ world = 0

\* A page is published, withdrawn or filled.
SiteChanges ==
  /\ world < MaxWorld
  /\ world' = world + 1
  /\ \E u \in Pages :
       \/ listed' = listed \cup {u} /\ u \notin listed /\ UNCHANGED filled
       \/ listed' = listed \ {u} /\ u \in listed /\ UNCHANGED filled
       \/ filled' = filled \cup {u} /\ u \notin filled /\ UNCHANGED listed
  /\ UNCHANGED <<pollVars, regionVars, baseline, torn>>
-----------------------------------------------------------------------------
(* A poll of each region.                                                    *)

StartPolls ==
  /\ poll = 0
  /\ poll' = 1 /\ stage' = "sitemap" /\ emitted' = {}
  /\ UNCHANGED <<pageVars, urls, unread, found, regionVars, baseline,
                 torn>>

\* Also what a failure and a success have in common.
NextRegion ==
  /\ poll' = IF poll < Len(Order) THEN poll + 1 ELSE 0
  /\ stage' = "sitemap"
  /\ urls' = {} /\ unread' = {} /\ found' = {}

Unsafe(n, previous) == n = 0 \/ \E m \in previous : 100 * n < MinimumPct * m

\* The sitemap of the region being polled.
Sitemap == {u \in listed : Home[u] = Order[poll]}
CountOf(r) == {counts[q] : q \in {r} \cap DOMAIN counts}

\* Mutant of RowsAfter: a row keeps the identity of its URL.
RowsByUrl(pages, cs) ==
  [u \in DOMAIN rows \cup pages |->
     IF u \in DOMAIN rows THEN rows[u] ELSE UrlIdentity[u]]

\* A stored page keeps the identity it has; a new one gets the candidate's, or
\* the one of its URL.
RowsAfter(pages, cs) ==
  [u \in DOMAIN rows \cup pages |->
     IF \E c \in cs : c.page = u THEN (CHOOSE c \in cs : c.page = u).identity
     ELSE IF u \in DOMAIN rows THEN rows[u] ELSE UrlIdentity[u]]

Counted(r, n) == [q \in DOMAIN counts \cup {r} |-> IF q = r THEN n ELSE counts[q]]

Baseline ==
  /\ poll > 0 /\ stage = "sitemap"
  /\ CountOf(Order[poll]) = {} /\ Sitemap # {}
  /\ rows' = RowsAfter(Sitemap, {})
  /\ counts' = Counted(Order[poll], Cardinality(Sitemap))
  /\ baseline' = baseline \cup Sitemap
  /\ NextRegion
  /\ UNCHANGED <<pageVars, emitted, candidates, blank, orphaned, torn>>

ReadSitemap ==
  /\ poll > 0 /\ stage = "sitemap"
  /\ CountOf(Order[poll]) # {}
  /\ ~Unsafe(Cardinality(Sitemap), CountOf(Order[poll]))
  /\ urls' = Sitemap /\ unread' = Sitemap \ DOMAIN rows
  /\ stage' = "pages"
  /\ UNCHANGED <<pageVars, poll, found, emitted, regionVars, baseline,
                 torn>>

\* An identity that another region has is an appearance, not a new model.
TypeOfFind(u) ==
  IF \E v \in DOMAIN rows : rows[v] = DataIdentity[u] /\ Home[v] # Home[u]
  THEN "regional_page_appearance" ELSE "new_model"

\* A page without data makes no candidate, nor does one whose identity this
\* run has seen.
ReadNewPage(u) ==
  /\ u \in unread
  /\ unread' = unread \ {u}
  /\ IF u \in filled /\ DataIdentity[u] \notin emitted
     THEN /\ found' = found \cup {[page |-> u, identity |-> DataIdentity[u],
                                   type |-> TypeOfFind(u)]}
          /\ emitted' = emitted \cup {DataIdentity[u]}
     ELSE UNCHANGED <<found, emitted>>
  /\ blank' = IF u \in filled THEN blank \ {u} ELSE blank \cup {u}
  /\ UNCHANGED <<pageVars, poll, stage, urls, counts, rows, candidates,
                 orphaned, baseline, torn>>

SaveRegion ==
  /\ stage = "pages" /\ unread = {}
  /\ rows' = RowsAfter(urls, found)
  /\ candidates' = candidates \cup found
  /\ counts' = Counted(Order[poll], Cardinality(urls))
  /\ NextRegion
  /\ UNCHANGED <<pageVars, emitted, blank, orphaned, baseline, torn>>

\* Mutant of RegionFails: a failed poll moves the baseline.
RegionFailsButKnows ==
  /\ poll > 0
  /\ rows' = RowsAfter(urls, {})
  /\ orphaned' = orphaned \cup {c.identity : c \in found}
  /\ NextRegion
  /\ UNCHANGED <<pageVars, emitted, counts, candidates, blank, baseline, torn>>

\* Any failure of a region is recorded, and the next one is polled.
RegionFails ==
  /\ poll > 0
  /\ orphaned' = orphaned \cup {c.identity : c \in found}
  /\ NextRegion
  /\ UNCHANGED <<pageVars, emitted, counts, rows, candidates, blank, baseline,
                 torn>>

\* A save that raises half-way leaves rows in the open transaction, which the
\* record of the failure commits: first pages, then candidates.
SaveCutShort ==
  /\ stage = "pages" /\ unread = {}
  /\ \E us \in SUBSET urls, cs \in SUBSET found, ds \in SUBSET found :
       /\ cs # {} => us = urls
       /\ ds \subseteq cs
       /\ rows' = RowsAfter(us, ds)
       /\ candidates' = candidates \cup cs
       /\ torn' = torn \cup {c.page : c \in {d \in found : d.page \in us}}
       /\ orphaned' = orphaned \cup {c.identity : c \in found \ cs}
  /\ NextRegion
  /\ UNCHANGED <<pageVars, emitted, counts, blank, baseline>>

\* The process dies, or the failure cannot be recorded.
StopPolls ==
  /\ poll > 0
  /\ poll' = 0 /\ stage' = "sitemap"
  /\ urls' = {} /\ unread' = {} /\ found' = {} /\ emitted' = {}
  /\ UNCHANGED <<pageVars, regionVars, baseline, torn>>
-----------------------------------------------------------------------------
SitemapNext ==
  \/ SiteChanges
  \/ StartPolls \/ Baseline \/ ReadSitemap \/ SaveRegion \/ RegionFails
  \/ SaveCutShort \/ StopPolls
  \/ \E u \in unread : ReadNewPage(u)

SitemapSpec == SitemapInit /\ [][SitemapNext]_sitemapVars
-----------------------------------------------------------------------------
\* A page that has appeared since its region's baseline, and had its data when
\* it was read, is known to the store only with its launch: some region has a
\* candidate of its identity.  Left out are what a save that was cut short has
\* stored, and the mirror of a find that was lost with the poll of its region.
EveryLaunchReported ==
  \A u \in DOMAIN rows \ (baseline \cup blank \cup torn) :
    \/ \E c \in candidates : c.identity = DataIdentity[u]
    \/ DataIdentity[u] \in orphaned

\* One identity is a new model in one region only, whichever regions show it,
\* in one run or in several, and whatever polls fail in between.
NewModelsOfOneRegion ==
  \A c, d \in candidates :
    c.type = "new_model" /\ d.type = "new_model" /\ c.identity = d.identity
      => Home[c.page] = Home[d.page] \/ {c.page, d.page} \cap torn # {}
=============================================================================
