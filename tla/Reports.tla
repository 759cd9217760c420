------------------------------- MODULE Reports -------------------------------
(***************************************************************************)
(* What is reported of alerts and their reviews: the metrics with their    *)
(* breakdowns, the daily figures, the front page of the dashboard and the  *)
(* page of one alert.                                                      *)
(*                                                                         *)
(* A report is a series of SELECTs on a connection that opens no           *)
(* transaction: each sees what is committed when it runs, and crawls and   *)
(* reviewers commit between two of them.  Baseline alerts, those of a      *)
(* source's first crawl, are left out of every figure but their own.       *)
(***************************************************************************)
EXTENDS Integers, Feedback, Functions

CONSTANTS
  CollectorOf, KindOf,  \* of every alert: its collector and its change type
  BucketOf,             \* of every alert: how sure the latest snapshot is
  SeenAt,               \* of every alert: when it was detected
  Verdicts,             \* reviews that are given
  Limits,               \* how many rows each of Lists may return
  MaxCommits            \* bound: alerts and reviews committed during a report

\* The statements with a LIMIT.  The request names the one of the breakdown it asks
\* for, 50 by default, and up to 20 that of the waiting lists; the others are fixed:
\* 100 collectors, 100 alert types, 50 reasons, 300 cards.
Lists == {"confidence", "collector", "alert_type", "reason_code", "most_unreviewed",
          "oldest_unreviewed", "cards"}

ASSUME ReportAssumption ==
  /\ Verdicts \subseteq Reviews /\ MaxCommits \in Nat
  /\ SeenAt \in [Alerts -> Int] /\ Limits \subseteq [Lists -> Nat]

VARIABLES
  filed,    \* alerts whose change_events row is committed
  first,    \* those of them that are baseline
  window,   \* alerts between `start` and `end`
  verdict,  \* verdict[a]: its row of alert_reviews, None without one
  past,     \* past[a]: its rows of alert_review_history
  kind,     \* the report in the making: "metrics", "signal", "board" or "detail"
  subject,  \* the alert that a detail is of
  limit,    \* limit[s]: how many rows the list s may return
  figures,  \* what its statements have returned, by statement
  commits   \* alerts and reviews committed since it was begun

alertVars == <<filed, first, window, verdict, past>>
reportVars == <<alertVars, kind, subject, limit, figures, commits>>

Asked == IF kind = "metrics" THEN filed \cap window ELSE filed
Counted == Asked \ first
Judged(A) == {a \in A : verdict[a] # None}
Tally(A) == [o \in Outcomes |-> Cardinality({a \in Judged(A) : verdict[a].outcome = o})]

Row(k, A) == [key |-> k, total |-> Cardinality(A), reviewed |-> Cardinality(Judged(A)),
              outcomes |-> Tally(A)]

\* Mutant of Breakdown: the reviews are joined, not left-joined.
BreakdownOfReviewed(keyOf) ==
  {Row(k, {a \in Judged(Counted) : keyOf[a] = k}) : k \in {keyOf[a] : a \in Judged(Counted)}}

\* A row for every key that some counted alert has.
Breakdown(keyOf) ==
  {Row(k, {a \in Counted : keyOf[a] = k}) : k \in {keyOf[a] : a \in Counted}}

NoReason == "(none)"

\* A review counts once under every reason it cites.
Reasons(a) == IF verdict[a].reasons = {} THEN {NoReason} ELSE verdict[a].reasons
BreakdownOfReasons ==
  LET citing(c) == {a \in Judged(Counted) : c \in Reasons(a)}
  IN  {Row(c, citing(c)) : c \in UNION {Reasons(a) : a \in Judged(Counted)}}

Waiting == Counted \ Judged(Counted)
WaitingByCollector ==
  {[key |-> k, unreviewed |-> Cardinality({a \in Waiting : CollectorOf[a] = k})] :
     k \in {CollectorOf[a] : a \in Waiting}}

ByCollector == Breakdown(CollectorOf)
ByConfidence == Breakdown(BucketOf)
ChangeTypes == {KindOf[a] : a \in Counted}
BaselineAlerts == filed \cap first

\* The alerts, each with its review.
Cards ==
  {[alert |-> a, outcome |-> IF verdict[a] = None THEN "UNREVIEWED" ELSE verdict[a].outcome] :
     a \in Counted}

OfType(t) == {a \in filed : KindOf[a] = t}

\* The statements of each report in their order.
MetricsStatements ==
  <<"total", "reviewed", "outcomes", "confidence", "collector", "alert_type", "reason_code",
    "most_unreviewed", "oldest_unreviewed">>

BoardStatements ==
  <<"cards", "change_types", "events", "baseline_events", "unreviewed_events",
    "total", "reviewed", "outcomes">>

\* The figures per day need a first and a last event ...
SignalStatements ==
  <<"total", "reviewed", "outcomes", "all_events", "span">> \o
  IF "span" \in DOMAIN figures /\ figures["span"] = {} THEN <<>>
  ELSE <<"new_products", "changed_products">>

\* ... and a detail needs its alert.
DetailStatements ==
  <<"event">> \o
  IF "event" \in DOMAIN figures /\ ~figures["event"] THEN <<>>
  ELSE <<"review", "history">>

Statements ==
  CASE kind = "metrics" -> MetricsStatements
    [] kind = "board" -> BoardStatements
    [] kind = "signal" -> SignalStatements
    [] kind = "detail" -> DetailStatements

\* What a statement selects.
Answer(s) ==
  CASE s \in {"total", "events"} -> Cardinality(Counted)
    [] s = "reviewed" -> Cardinality(Judged(Counted))
    [] s = "outcomes" -> Tally(Counted)
    [] s = "confidence" -> ByConfidence
    [] s = "collector" -> ByCollector
    [] s = "alert_type" -> Breakdown(KindOf)
    [] s = "reason_code" -> BreakdownOfReasons
    [] s = "most_unreviewed" -> WaitingByCollector
    [] s = "oldest_unreviewed" -> Waiting
    [] s = "cards" -> Cards
    [] s = "change_types" -> ChangeTypes
    [] s = "baseline_events" -> Cardinality(BaselineAlerts)
    [] s = "unreviewed_events" -> Cardinality(Waiting)
    [] s = "all_events" -> Cardinality(filed)
    [] s = "span" -> filed
    [] s = "new_products" -> Cardinality(OfType("new_product"))
    [] s = "changed_products" ->
         Cardinality(filed \ (OfType("new_product") \cup OfType("product_removed")))
    [] s = "event" -> subject \in filed
    [] s = "review" -> verdict[subject]
    [] s = "history" -> past[subject]

\* ORDER BY: the largest groups first, the newest cards, the oldest waiting.
Rank(s) ==
  CASE s \in {"confidence", "collector", "alert_type", "reason_code"} ->
         [r \in Answer(s) |-> r.total]
    [] s = "most_unreviewed" -> [r \in Answer(s) |-> r.unreviewed]
    [] s = "oldest_unreviewed" -> [a \in Answer(s) |-> -SeenAt[a]]
    [] s = "cards" -> [c \in Answer(s) |-> SeenAt[c.alert]]

\* LIMIT n: rows of the highest rank, any of those that tie.
Cut(rows, n, rank) ==
  {S \in SUBSET rows :
     /\ Cardinality(S) = IF Cardinality(rows) <= n THEN Cardinality(rows) ELSE n
     /\ \A r \in S, q \in rows \ S : rank[r] >= rank[q]}

\* What it may return.
Returned(s) == IF s \in Lists THEN Cut(Answer(s), limit[s], Rank(s)) ELSE {Answer(s)}

-----------------------------------------------------------------------------
\* A report may be asked for at any time.
ReportInit ==
  /\ filed \in SUBSET Alerts /\ first \in SUBSET Alerts /\ window \in SUBSET Alerts
  /\ verdict \in [Alerts -> Verdicts \cup {None}]
  /\ \A a \in Alerts \ filed : verdict[a] = None
  /\ past = [a \in Alerts |-> IF verdict[a] = None THEN <<>> ELSE <<verdict[a]>>]
  /\ kind \in {"metrics", "signal", "board", "detail"} /\ subject \in Alerts
  /\ limit \in Limits
  /\ figures = <<>> /\ commits = 0

Ask ==
  /\ Cardinality(DOMAIN figures) < Len(Statements)
  /\ LET s == Statements[Cardinality(DOMAIN figures) + 1]
     IN  \E answer \in Returned(s) :
           figures' = [t \in DOMAIN figures \cup {s} |->
                         IF t = s THEN answer ELSE figures[t]]
  /\ UNCHANGED <<alertVars, kind, subject, limit, commits>>

Commit == commits < MaxCommits /\ commits' = commits + 1

\* A crawl commits an alert.
File(a) ==
  /\ Commit /\ a \notin filed
  /\ filed' = filed \cup {a}
  /\ UNCHANGED <<first, window, verdict, past, kind, subject, limit, figures>>

\* A reviewer commits a review of an alert that exists, with its entry of the
\* history; Feedback has the steps.
Judge(a, r) ==
  /\ Commit /\ a \in filed
  /\ verdict' = [verdict EXCEPT ![a] = r]
  /\ past' = [past EXCEPT ![a] = Append(@, r)]
  /\ UNCHANGED <<filed, first, window, kind, subject, limit, figures>>

ReportNext ==
  \/ Ask
  \/ \E a \in Alerts : File(a) \/ \E r \in Verdicts : Judge(a, r)

ReportSpec == ReportInit /\ [][ReportNext]_reportVars
-----------------------------------------------------------------------------
(* Properties. *)

Known(s) == s \in DOMAIN figures
Before(s, t) ==
  \E i, j \in DOMAIN Statements : i < j /\ Statements[i] = s /\ Statements[j] = t

TotalsOf(rows) == SumFunction([r \in rows |-> r.total])
ReviewedOf(rows) == SumFunction([r \in rows |-> r.reviewed])
SumOf(tally) == SumFunction(tally)

\* How many alerts, reviews and waiting alerts a statement's answer amounts to.
AlertsIn(s) ==
  CASE s \in {"total", "events"} -> figures[s]
    [] s \in {"confidence", "collector", "alert_type"} -> TotalsOf(figures[s])
    [] s = "cards" -> Cardinality(figures[s])
Counting == {"total", "events", "confidence", "collector", "alert_type", "cards"}

ReviewsIn(s) ==
  CASE s = "reviewed" -> figures[s]
    [] s = "outcomes" -> SumOf(figures[s])
    [] s \in {"confidence", "collector", "alert_type"} -> ReviewedOf(figures[s])
    [] s = "cards" -> Cardinality({c \in figures[s] : c.outcome # "UNREVIEWED"})
Judging == {"reviewed", "outcomes", "confidence", "collector", "alert_type", "cards"}

WaitingIn(s) ==
  CASE s = "unreviewed_events" -> figures[s]
    [] s = "oldest_unreviewed" -> Cardinality(figures[s])
    [] s = "most_unreviewed" -> SumFunction([r \in figures[s] |-> r.unreviewed])
Pending == {"unreviewed_events", "oldest_unreviewed", "most_unreviewed"}

\* A list that is shorter than its limit holds everything there is.
Whole(s) == s \in Lists => Cardinality(figures[s]) < limit[s]

\* A report taken while nothing is committed adds up, whatever figures it is
\* looked at by: every alert is counted once by every statement, every review
\* under one outcome, and what is not reviewed waits.  A list that has reached
\* its limit may fall short of the others, and never exceeds them.
QuietReportAddsUp ==
  commits = 0 =>
    /\ \A s, t \in Counting \cap DOMAIN figures : Whole(t) => AlertsIn(s) <= AlertsIn(t)
    /\ \A s, t \in Judging \cap DOMAIN figures : Whole(t) => ReviewsIn(s) <= ReviewsIn(t)
    /\ \A s \in Counting, t \in Judging, u \in Pending :
         Known(s) /\ Known(t) /\ Known(u) =>
           /\ Whole(s) => ReviewsIn(t) + WaitingIn(u) <= AlertsIn(s)
           /\ Whole(t) /\ Whole(u) => AlertsIn(s) <= ReviewsIn(t) + WaitingIn(u)
    /\ Known("changed_products") =>
         figures["all_events"] = figures["new_products"] + figures["changed_products"]
                                   + Cardinality(OfType("product_removed"))

\* One that is overtaken by crawls and reviewers errs on one side only: what
\* is asked later has seen no fewer alerts and no fewer reviews, unless its list is
\* full; the filter of change types knows the type of every card, and a row of a
\* breakdown, asked in one statement, still adds up.
LateFiguresOnlyGrow ==
  /\ \A s, t \in Counting \cap DOMAIN figures :
       Before(s, t) /\ Whole(t) => AlertsIn(s) <= AlertsIn(t)
  /\ \A s, t \in Judging \cap DOMAIN figures :
       Before(s, t) /\ Whole(t) => ReviewsIn(s) <= ReviewsIn(t)
  /\ Known("reason_code") /\ Whole("reason_code") =>
       ReviewedOf(figures["reason_code"]) >= ReviewsIn("alert_type")
  /\ Known("all_events") => figures["total"] <= figures["all_events"]
  /\ Known("change_types") => \A c \in figures["cards"] : KindOf[c.alert] \in figures["change_types"]
  /\ \A s \in {"confidence", "collector", "alert_type"} \cap DOMAIN figures : \A r \in figures[s] :
       SumOf(r.outcomes) = r.reviewed /\ r.reviewed <= r.total

\* The page of an alert shows a review that is in the history below it, the last one
\* unless a reviewer was faster; it shows a history and no review only then.
DetailIsInHistory ==
  Known("history") =>
    LET shown == figures["review"]
        entries == figures["history"]
    IN  /\ shown = None \/ \E i \in DOMAIN entries : entries[i] = shown
        /\ commits = 0 => IF shown = None THEN entries = <<>> ELSE shown = entries[Len(entries)]

\* The figures of one report are of one state, or of states one after another.
FiguresAddUp == QuietReportAddsUp /\ LateFiguresOnlyGrow /\ DetailIsInHistory
=============================================================================
