----------------------------- MODULE MCFetching -----------------------------
(* What is fetched: the plan of a crawl, the HTTP cache, the catalogue      *)
(* engines with the run ledger, the two kinds of delta collectors, and the  *)
(* run over the product database.                                           *)
(* They share no state; a behaviour is one of either, and the others stay   *)
(* at an initial state.                                                     *)
EXTENDS Collectors, HttpCache, SitemapDelta, BeelinkDelta, Roster, ProductDatabase, TLC

CONSTANTS p1, p2, p3, p4, v1, v2, v3, r1, r2, u1, u2, u3, u4,
          i1, i2, i3, i4, k1, m1, m2, g1, d1, d2, o1, o2, s1, s2, s3,
          x1, x2, n1, n2, h1, h2

VARIABLE part

\* shopify with its two strategies, woocommerce, dell, category_jsonld, and
\* sitemap_jsonld, with a limit that the site may come to exceed
Engine(start, onError, last, dedup, sitemap, limit) ==
  [start |-> start, onError |-> onError, last |-> last, dedup |-> dedup,
   sitemap |-> sitemap, limit |-> limit]
EnginesMC == {
  Engine(<<1, 2, 3>>, "raise", "empty", TRUE, TRUE, 4),
  Engine(<<1, 2, 3>>, "stop", "short", FALSE, FALSE, 4),
  Engine(<<1, 2, 3>>, "raise", "none", TRUE, FALSE, 4),
  Engine(<<1, 2, 3>>, "skip", "none", TRUE, FALSE, 4),
  Engine(<<8>>, "skip", "none", TRUE, FALSE, 3)}
\* two sitemap indexes that name each other, and three pages
LinksMC == 8 :> <<1, 2, 9>> @@ 9 :> <<8, 2, 3>>
SitesMC == {<<p1, p2, p3>>}

\* two regions of two pages; one page of each shows the same product, and one
\* page's URL has the identity of another
OrderMC == <<r1, r2>>
HomeMC == u1 :> r1 @@ u2 :> r1 @@ u3 :> r2 @@ u4 :> r2
UrlIdentityMC == u1 :> i1 @@ u2 :> i2 @@ u3 :> i3 @@ u4 :> i2
DataIdentityMC == u1 :> i1 @@ u2 :> k1 @@ u3 :> i3 @@ u4 :> k1

\* two descriptors; a source may be disabled, or long-running
MakerOfMC == d1 :> o1 @@ d2 :> o2
LaterMC == d1 :> {d2} @@ d2 :> {}
Source(s, routine, enabled) == [id |-> s, routine |-> routine, enabled |-> enabled]
DescriptorsMC == {
  {Source(s1, TRUE, TRUE), Source(s2, FALSE, TRUE)},
  {Source(s1, TRUE, FALSE), Source(s2, TRUE, TRUE)},
  {Source(s3, TRUE, TRUE)},
  {Source(s2, TRUE, TRUE)}}

\* the names are alike: any may be the first
Entry1 == [name |-> n1, withdrawn |-> FALSE, new |-> TRUE]

PartsInit ==
  /\ part \in {"cache", "engines", "sitemaps", "catalogue", "roster", "psref"}
  /\ part = "cache" \/ page = v1
  /\ part = "engines" \/ engine = CHOOSE e \in EnginesMC : TRUE
  /\ part = "sitemaps" \/ (listed = {} /\ filled = {})
  /\ part = "catalogue" \/ shelf = <<>>
  /\ part = "roster" \/ disk = [f \in Files |-> {Source(s3, TRUE, TRUE)}]
  /\ tree = [r \in Records |-> Entry1]
  /\ HttpInit /\ CollectorInit /\ SitemapInit /\ BeelinkInit /\ RosterInit
  /\ DatabaseInit

PartsNext ==
  /\ UNCHANGED part
  /\ \/ /\ part = "cache" /\ HttpNext
        /\ UNCHANGED <<collectorVars, sitemapVars, beelinkVars, rosterVars, databaseVars>>
     \/ /\ part = "engines" /\ CollectorNext
        /\ UNCHANGED <<httpVars, sitemapVars, beelinkVars, rosterVars, databaseVars>>
     \/ /\ part = "sitemaps" /\ SitemapNext
        /\ UNCHANGED <<httpVars, collectorVars, beelinkVars, rosterVars, databaseVars>>
     \/ /\ part = "catalogue" /\ BeelinkNext
        /\ UNCHANGED <<httpVars, collectorVars, sitemapVars, rosterVars, databaseVars>>
     \/ /\ part = "roster" /\ RosterNext
        /\ UNCHANGED <<httpVars, collectorVars, sitemapVars, beelinkVars, databaseVars>>
     \/ /\ part = "psref" /\ DatabaseNext
        /\ UNCHANGED <<httpVars, collectorVars, sitemapVars, beelinkVars, rosterVars>>

PartsSpec ==
  PartsInit
  /\ [][PartsNext]_<<part, httpVars, collectorVars, sitemapVars, beelinkVars, rosterVars,
                    databaseVars>>
=============================================================================
