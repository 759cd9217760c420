------------------------------ MODULE Feedback ------------------------------
(***************************************************************************)
(* Reviews of alerts and the rules suggested from them.                    *)
(*                                                                         *)
(* A review is written by the thread of a dashboard request, with a        *)
(* connection of its own: it reads the present review, then opens the      *)
(* transaction that replaces it and appends to the history.  An analysis   *)
(* reads all reviews at once and then stores its candidates one by one, a  *)
(* read and a commit each.                                                 *)
(***************************************************************************)
EXTENDS Naturals, Sequences, FiniteSets

CONSTANTS
  Alerts,      \* change_events
  Groups,      \* pairs of a collector and an alert type
  GroupOf,     \* GroupOf[a]: collector and type of alert a
  Evidence,    \* Evidence[a]: what its old and new values and its meta show
  TypeOf,      \* TypeOf[g]: what the detectors make of the type of g
  Threads,     \* dashboard request threads
  Analyses,    \* processes running `feedback analyze`
  Outcomes,    \* outcomes reviewers give
  Cited,       \* reason codes reviewers give
  MinSamples, MinNoise, \* thresholds; MinNoise percent
  MaxReviews,  \* bound: reviews ever begun
  None         \* no review, no suggestion

Codes == {"TEMPORARY_404", "DUPLICATE_ALERT", "CDN_URL_CHURN", "ROUTINE_IMAGE_CHANGE",
          "MARKETING_ASSET_REFRESH", "UNCHANGED_DOCUMENT", "DOCUMENT_METADATA_ONLY",
          "MINOR_PRICE_FLUCTUATION"}

Detectors == {"temporary_404", "duplicate_alerts", "image_cdn_churn",
              "unchanged_document", "minor_price"}

ASSUME FeedbackAssumption ==
  /\ IsFiniteSet(Alerts)
  /\ GroupOf \in [Alerts -> Groups]
  /\ Evidence \in [Alerts -> SUBSET {"query_only", "same_hash", "minor"}]
  /\ TypeOf \in [Groups -> {"missing", "images", "price", "other"}]
  /\ Outcomes \subseteq {"HIT", "INTERESTING", "NOISE", "BUG"}
  /\ Cited \subseteq Codes
  /\ MinSamples \in Nat \ {0} /\ MinNoise \in 0..100 /\ MaxReviews \in Nat

Reviews == [outcome : Outcomes, reasons : SUBSET Cited]
ASSUME NoneAssumption == None \notin Reviews

VARIABLES
  review,   \* review[a]: its row of alert_reviews, None while it is NEW
  history,  \* history[a]: its rows of alert_review_history
  begun,    \* reviews begun so far
  request,  \* request[t]: the review thread t is writing, None when idle
  rules,    \* rows of rule_suggestions, by fingerprint
  todo,     \* todo[x]: candidates analysis x has not stored yet
  seen,     \* seen[x]: the candidate in hand and the row found for it
  decision  \* the operator's: a suggestion, the status read, the new one

vars == <<review, history, begun, request, rules, todo, seen, decision>>

Current == Reviews \cup {None}
Entries == [previous : Current, new : Reviews]
Requests == [alert : Alerts, existing : Current, new : Reviews]

Statuses == {"PROPOSED", "ACCEPTED", "REJECTED", "IMPLEMENTED", "REVERTED"}
Fingerprints == [detector : Detectors, group : Groups, code : Codes]
Rows == [status : Statuses, support : Nat, noise : Nat]
Candidates == [print : Fingerprints, support : Nat, noise : Nat]

---------------------------------------------------------------------------
(* The detectors. *)

Churn == {"CDN_URL_CHURN", "ROUTINE_IMAGE_CHANGE", "MARKETING_ASSET_REFRESH"}

Reviewed(g) == {a \in Alerts : GroupOf[a] = g /\ review[a] # None}
Noise(A) == {a \in A : review[a].outcome = "NOISE"}
Citing(A, C) == {a \in A : review[a].reasons \cap C # {}}

\* Those of A that cite c, or all of A when none does.
Preferring(A, c) == IF Citing(A, {c}) = {} THEN A ELSE Citing(A, {c})

\* The reviewed alerts of group g that detector d looks at.
Focus(d, g) ==
  LET R == Reviewed(g) IN
  CASE d = "temporary_404" ->
         IF TypeOf[g] = "missing" THEN Preferring(R, "TEMPORARY_404") ELSE {}
    [] d = "duplicate_alerts" ->
         Preferring(Noise(R) \cup Citing(R, {"DUPLICATE_ALERT"}), "DUPLICATE_ALERT")
    [] d = "image_cdn_churn" ->
         IF TypeOf[g] = "images"
         THEN Citing(R, Churn) \cup {a \in R : "query_only" \in Evidence[a]} ELSE {}
    [] d = "unchanged_document" ->
         {a \in Citing(R, {"UNCHANGED_DOCUMENT", "DOCUMENT_METADATA_ONLY"}) :
            "same_hash" \in Evidence[a]}
    [] d = "minor_price" ->
         IF TypeOf[g] = "price" THEN {a \in R : "minor" \in Evidence[a]} ELSE {}

\* The reason code of the suggested rule; an image rule takes the first code
\* of the taxonomy that any of its alerts cites.
CodeOf(d, A) ==
  CASE d = "temporary_404" -> "TEMPORARY_404"
    [] d = "duplicate_alerts" -> "DUPLICATE_ALERT"
    [] d = "image_cdn_churn" ->
         IF Citing(A, {"CDN_URL_CHURN"}) # {} \/ Citing(A, Churn) = {} THEN "CDN_URL_CHURN"
         ELSE IF Citing(A, {"ROUTINE_IMAGE_CHANGE"}) # {} THEN "ROUTINE_IMAGE_CHANGE"
         ELSE "MARKETING_ASSET_REFRESH"
    [] d = "unchanged_document" -> "UNCHANGED_DOCUMENT"
    [] d = "minor_price" -> "MINOR_PRICE_FLUCTUATION"

Emitted(d, g) ==
  LET A == Focus(d, g) IN
  /\ Cardinality(A) >= MinSamples
  /\ 100 * Cardinality(Noise(A)) >= MinNoise * Cardinality(A)

CandidateOf(d, g) ==
  [print |-> [detector |-> d, group |-> g, code |-> CodeOf(d, Focus(d, g))],
   support |-> Cardinality(Focus(d, g)),
   noise |-> Cardinality(Noise(Focus(d, g)))]

\* analyze_reviews: one read of all reviews.
Analysed ==
  UNION {{CandidateOf(d, g) : g \in {h \in Groups : Emitted(d, h)}} : d \in Detectors}

\* Mutant of Matched: a rule takes the alerts that cite its reason code.
MatchedByCode(f) ==
  {a \in Alerts : GroupOf[a] = f.group /\ review[a] # None /\ f.code \in review[a].reasons}

\* The alerts a suggested rule would take away, reviewed or not, as
\* simulate_rule has it: the reason code plays no part.
Matched(f) ==
  {a \in Alerts :
     /\ GroupOf[a] = f.group
     /\ CASE f.detector = "temporary_404" -> TypeOf[f.group] = "missing"
          [] f.detector = "duplicate_alerts" -> TRUE
          [] f.detector = "image_cdn_churn" -> TypeOf[f.group] = "images"
          [] f.detector = "unchanged_document" -> "same_hash" \in Evidence[a]
          [] f.detector = "minor_price" -> TypeOf[f.group] = "price" /\ "minor" \in Evidence[a]}

\* reviewed_matched of a simulation.
Sample(f) == {a \in Matched(f) : review[a] # None}

---------------------------------------------------------------------------
Init ==
  /\ review = [a \in Alerts |-> None]
  /\ history = [a \in Alerts |-> <<>>]
  /\ begun = 0
  /\ request = [t \in Threads |-> None]
  /\ rules = <<>>
  /\ todo = [x \in Analyses |-> {}]
  /\ seen = [x \in Analyses |-> None]
  /\ decision = None

suggesting == <<rules, todo, seen, decision>>
reviewing == <<review, history, begun, request>>

\* upsert_review up to its SELECT of the present review.
BeginReview(t, a, r) ==
  /\ request[t] = None /\ begun < MaxReviews
  /\ begun' = begun + 1
  /\ request' = [request EXCEPT ![t] = [alert |-> a, existing |-> review[a], new |-> r]]
  /\ UNCHANGED <<review, history, suggesting>>

\* The review and its history entry, in one transaction.  The entry's
\* previous outcome and reasons are those read before.
Save(q) ==
  /\ review' = [review EXCEPT ![q.alert] = q.new]
  /\ history' = [history EXCEPT ![q.alert] = Append(@, [previous |-> q.existing, new |-> q.new])]

\* Mutant of Conflicts: alert_id is not UNIQUE, or the row is replaced.
NeverConflicts(q) == FALSE

\* A first review of an alert that got one in the meantime breaks
\* UNIQUE(alert_id): the request ends with an internal error.
Conflicts(q) == q.existing = None /\ review[q.alert] # None

WriteReview(t) ==
  /\ request[t] # None
  /\ IF Conflicts(request[t]) THEN UNCHANGED <<review, history>> ELSE Save(request[t])
  /\ request' = [request EXCEPT ![t] = None]
  /\ UNCHANGED <<begun, suggesting>>

\* Validation fails, the database stays locked, or the dashboard dies.
DropReview(t) ==
  /\ request[t] # None
  /\ request' = [request EXCEPT ![t] = None]
  /\ UNCHANGED <<review, history, begun, suggesting>>

---------------------------------------------------------------------------
Idle(x) == todo[x] = {} /\ seen[x] = None

Analyse(x) ==
  /\ Idle(x) /\ Analysed # {}
  /\ todo' = [todo EXCEPT ![x] = Analysed]
  /\ UNCHANGED <<reviewing, rules, seen, decision>>

\* persist_candidates looks the fingerprint of its next candidate up.
LookUp(x, c) ==
  /\ seen[x] = None /\ c \in todo[x]
  /\ todo' = [todo EXCEPT ![x] = @ \ {c}]
  /\ seen' = [seen EXCEPT ![x] =
       [candidate |-> c,
        found |-> IF c.print \in DOMAIN rules THEN rules[c.print].status ELSE "absent"]]
  /\ UNCHANGED <<reviewing, rules, decision>>

\* rules with row r for fingerprint f.
With(f, r) == [g \in DOMAIN rules \cup {f} |-> IF g = f THEN r ELSE rules[g]]

RowOf(c, s) == [status |-> s, support |-> c.support, noise |-> c.noise]

\* A new fingerprint is proposed; when another analysis was faster, the
\* UNIQUE index ends this one.
InsertSuggestion(x) ==
  LET c == seen[x].candidate IN
  /\ seen[x] # None /\ seen[x].found = "absent"
  /\ IF c.print \in DOMAIN rules
     THEN rules' = rules /\ todo' = [todo EXCEPT ![x] = {}]
     ELSE rules' = With(c.print, RowOf(c, "PROPOSED")) /\ UNCHANGED todo
  /\ seen' = [seen EXCEPT ![x] = None]
  /\ UNCHANGED <<reviewing, decision>>

Closed == {"REJECTED", "REVERTED"}

\* Mutant of RefreshSuggestion: a rule that is found again is proposed again.
ReviveSuggestion(x) ==
  LET c == seen[x].candidate IN
  /\ seen[x] # None /\ seen[x].found \in Statuses
  /\ rules' = With(c.print, RowOf(c, "PROPOSED"))
  /\ seen' = [seen EXCEPT ![x] = None]
  /\ UNCHANGED <<reviewing, todo, decision>>

\* A known one gets the new evidence and keeps its status; a closed one is
\* left alone.
RefreshSuggestion(x) ==
  LET c == seen[x].candidate IN
  /\ seen[x] # None /\ seen[x].found \in Statuses
  /\ rules' = IF seen[x].found \in Closed THEN rules
              ELSE With(c.print, RowOf(c, rules[c.print].status))
  /\ seen' = [seen EXCEPT ![x] = None]
  /\ UNCHANGED <<reviewing, todo, decision>>

\* The analysis is killed, or its database stays locked.
StopAnalysis(x) ==
  /\ ~Idle(x)
  /\ todo' = [todo EXCEPT ![x] = {}]
  /\ seen' = [seen EXCEPT ![x] = None]
  /\ UNCHANGED <<reviewing, rules, decision>>

\* LEGAL_STATUS_TRANSITIONS.
Legal(s) ==
  CASE s = "PROPOSED" -> {"ACCEPTED", "REJECTED"}
    [] s = "ACCEPTED" -> {"IMPLEMENTED", "REJECTED"}
    [] s = "IMPLEMENTED" -> {"REVERTED"}
    [] s = "REVERTED" -> {"ACCEPTED"}
    [] s = "REJECTED" -> {}

\* update_rule_suggestion_status: the row is read and the transition checked,
Decide(f, s) ==
  /\ decision = None /\ f \in DOMAIN rules /\ s \in Legal(rules[f].status)
  /\ decision' = [print |-> f, status |-> s]
  /\ UNCHANGED <<reviewing, rules, todo, seen>>

\* then written.
Record ==
  /\ decision # None
  /\ rules' = [rules EXCEPT ![decision.print].status = decision.status]
  /\ decision' = None
  /\ UNCHANGED <<reviewing, todo, seen>>

Next ==
  \/ \E t \in Threads, a \in Alerts, r \in Reviews : BeginReview(t, a, r)
  \/ \E t \in Threads : WriteReview(t) \/ DropReview(t)
  \/ \E x \in Analyses : \/ Analyse(x) \/ InsertSuggestion(x) \/ RefreshSuggestion(x)
                         \/ StopAnalysis(x) \/ \E c \in todo[x] : LookUp(x, c)
  \/ \E f \in DOMAIN rules, s \in Statuses : Decide(f, s)
  \/ Record

Spec == Init /\ [][Next]_vars

---------------------------------------------------------------------------
(* Properties. *)

\* Type correctness.
TypeOK ==
  /\ review \in [Alerts -> Current]
  /\ history \in [Alerts -> Seq(Entries)]
  /\ begun \in 0..MaxReviews
  /\ request \in [Threads -> Requests \cup {None}]
  /\ DOMAIN rules \subseteq Fingerprints
  /\ \A f \in DOMAIN rules : rules[f] \in Rows
  /\ todo \in [Analyses -> SUBSET Candidates]
  /\ seen \in [Analyses -> [candidate : Candidates, found : Statuses \cup {"absent"}] \cup {None}]
  /\ decision \in [print : DOMAIN rules, status : Statuses] \cup {None}

\* The present review of an alert is the last entry of its history, and an
\* alert is NEW exactly when it has no history, however requests interleave.
CurrentIsLastEntry ==
  \A a \in Alerts :
    review[a] = IF history[a] = <<>> THEN None ELSE history[a][Len(history[a])].new

\* Only the first entry of a history comes from nowhere; every other names as
\* previous a review that the alert really had before: not always the one just
\* before it, for two requests may have read the same review.
PreviousWasCurrent ==
  \A a \in Alerts : \A i \in 1..Len(history[a]) :
    IF i = 1 THEN history[a][i].previous = None
    ELSE \E j \in 1..(i - 1) : history[a][i].previous = history[a][j].new

\* No analysis opens a rejected suggestion again, and only the operator
\* takes a reverted one back: a decision is never overwritten.
DecisionsStand ==
  [][\A f \in DOMAIN rules :
       /\ f \in DOMAIN rules'
       /\ rules'[f].status # rules[f].status => decision = [print |-> f, status |-> rules'[f].status]
       /\ rules[f].status = "REJECTED" => rules'[f].status = "REJECTED"]_vars

\* What a suggestion claims to rest on is never more than a simulation of it
\* finds: no suggestion of an analysis is ever short of samples, whatever
\* reviews are revised afterwards and however old its evidence is.
SampleNeverShrinks ==
  \A f \in DOMAIN rules :
    MinSamples <= rules[f].support /\ rules[f].support <= Cardinality(Sample(f))
=============================================================================
