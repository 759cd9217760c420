--------------------------- MODULE MCCrawlService ---------------------------
(* Instances of CrawlService for TLC. *)
EXTENDS CrawlService, TLC

Symmetry == Permutations(Runs) \cup Permutations(Dashboards)

=============================================================================
