--------------------------- MODULE MCCrawlPipeline --------------------------
(* Instances of CrawlPipeline for TLC. *)
EXTENDS CrawlPipeline, TLC

CONSTANTS s1, s2, p1, p2, c1, c2, m1, m2, i1, i2

\* one listing, or two listings of one source
OneListing == p1 :> s1
OneSource  == p1 :> s1 @@ p2 :> s1

\* what the listings resolve to
Alone       == p1 :> 1
Unrelated   == p1 :> 1 @@ p2 :> 2
SameProduct == p1 :> 1 @@ p2 :> 1

Page(c, m, i) == [chip |-> c, spec |-> m, image |-> i]

\* a page with one version, for runs about the outbox
PagesOne   == {Page(c2, m1, i1)}
\* a page whose processor and images change together
PagesChip  == {Page(c1, m1, i1), Page(c2, m1, i2)}
\* a spec that comes and goes
PagesFlap  == {Page(c1, m1, i1), Page(c1, m2, i1)}

NoMute == {{}}
MuteNew == {{}, {"new_product"}}

\* Bound of the runs whose pages change many times: distinct transitions.
FewChanges == Cardinality(changes) <= 3
=============================================================================
