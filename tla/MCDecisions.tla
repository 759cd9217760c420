---------------------------- MODULE MCDecisions -----------------------------
(* What people decide and are told: the reviews of alerts and suggested      *)
(* rules, the reports made of them, and the inbox of research leads.  A      *)
(* behaviour is about one of the three; what it leaves alone stays at an     *)
(* initial state.                                                            *)
EXTENDS Reports, Discovery, TLC

CONSTANTS g1, a1, a2, a3, l1, v1, v2

VARIABLE desk

\* three alerts of one type, which only the duplicate detector reads
GroupOfMC == [a \in Alerts |-> g1]
EvidenceMC == [a \in Alerts |-> {}]
TypeOfMC == g1 :> "other"

\* two collectors, two types, two buckets
CollectorOfMC == a1 :> "shop" @@ a2 :> "shop" @@ a3 :> "site"
BucketOfMC == a1 :> "0.80-1.00" @@ a2 :> "unknown" @@ a3 :> "unknown"
KindOfMC == a1 :> "price" @@ a2 :> "new_product" @@ a3 :> "price"

\* a1 is the oldest
SeenAtMC == a1 :> 1 @@ a2 :> 2 @@ a3 :> 3

\* room for every row of a list, or for one
Wide == [s \in Lists |-> 4]
LimitsMC == {Wide, [s \in Lists |-> 1]}

\* a hit, and noise that cites a reason
VerdictsMC == {[outcome |-> "HIT", reasons |-> {}],
               [outcome |-> "NOISE", reasons |-> {"DUPLICATE_ALERT"}]}

\* one lead, exported with two texts
ExportsMC == {l1 :> v1, l1 :> v2}

Alike ==
  Permutations(Threads) \cup Permutations(Analyses) \cup Permutations(Commands)

DesksInit ==
  /\ desk \in {"alerts", "leads", "reports"}
  /\ Init /\ DiscoveryInit /\ ReportInit
  /\ window = {a1, a3}
  /\ first = {a2}
  /\ kind = "detail" \/ subject = a1
  /\ limit = Wide \/ (desk = "reports" /\ kind \in {"metrics", "board"} /\ Cardinality(filed) >= 2)
  /\ desk = "reports" \/ (kind = "board" /\ filed = {})
DesksNext ==
  /\ UNCHANGED desk
  /\ \/ desk = "alerts" /\ Next /\ UNCHANGED <<discoveryVars, reportVars>>
     \/ desk = "leads" /\ DiscoveryNext /\ UNCHANGED <<vars, reportVars>>
     \/ desk = "reports" /\ ReportNext /\ UNCHANGED <<vars, discoveryVars>>
DesksSpec == DesksInit /\ [][DesksNext]_<<desk, vars, discoveryVars, reportVars>>
=============================================================================
