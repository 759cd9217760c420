--------------------------- MODULE DecisionsProofs ---------------------------
(***************************************************************************)
(* Proofs about Feedback, Reports and Discovery: for any alerts, detectors *)
(* and reviewers, any report of them, and any commands, leads and payloads.*)
(***************************************************************************)
EXTENDS Reports, Discovery, InductionLemmas

---------------------------------------------------------------------------
(* Detectors. *)

LEMMA FocusFinite ==
  ASSUME NEW d \in Detectors, NEW g \in Groups
  PROVE  /\ Focus(d, g) \subseteq Alerts
         /\ Cardinality(Focus(d, g)) \in Nat /\ Cardinality(Noise(Focus(d, g))) \in Nat
<1>1. Reviewed(g) \subseteq Alerts
    BY DEF Reviewed
<1>2. Focus(d, g) \subseteq Reviewed(g)
    BY DEF Focus, Preferring, Citing, Noise, Detectors
<1>3. Noise(Focus(d, g)) \subseteq Alerts
    BY <1>1, <1>2 DEF Noise
<1>. QED  BY <1>1, <1>2, <1>3, FeedbackAssumption, FS_Subset, FS_CardinalityType

LEMMA CandidateTyped ==
  ASSUME NEW d \in Detectors, NEW g \in Groups
  PROVE  CandidateOf(d, g) \in Candidates
<1>1. CodeOf(d, Focus(d, g)) \in Codes
    BY DEF CodeOf, Codes, Detectors
<1>2. [detector |-> d, group |-> g, code |-> CodeOf(d, Focus(d, g))] \in Fingerprints
    BY <1>1 DEF Fingerprints
<1>. QED  BY <1>2, FocusFinite DEF CandidateOf, Candidates

\* A simulation looks at every alert the detector looked at.
LEMMA FocusIsSampled ==
  ASSUME NEW g \in Groups, NEW f \in Fingerprints, f.group = g
  PROVE  Focus(f.detector, g) \subseteq Sample(f)
<1>1. Reviewed(g) = {a \in Alerts : GroupOf[a] = g /\ review[a] # None}
    BY DEF Reviewed
<1>2. CASE f.detector = "temporary_404"
    BY <1>1, <1>2 DEF Focus, Sample, Matched, Preferring, Citing
<1>3. CASE f.detector = "duplicate_alerts"
    BY <1>1, <1>3 DEF Focus, Sample, Matched, Preferring, Citing, Noise
<1>4. CASE f.detector = "image_cdn_churn"
    BY <1>1, <1>4 DEF Focus, Sample, Matched, Citing
<1>5. CASE f.detector = "unchanged_document"
    BY <1>1, <1>5 DEF Focus, Sample, Matched, Citing
<1>6. CASE f.detector = "minor_price"
    BY <1>1, <1>6 DEF Focus, Sample, Matched
<1>7. f.detector \in Detectors
    BY DEF Fingerprints
<1>. QED  BY <1>2, <1>3, <1>4, <1>5, <1>6, <1>7 DEF Detectors

---------------------------------------------------------------------------
(* Types. *)

LEMMA InitTyped == Init => TypeOK
<1>. SUFFICES ASSUME Init PROVE TypeOK
    OBVIOUS
<1>1. DOMAIN rules = {}
    BY DEF Init
<1>2. history \in [Alerts -> Seq(Entries)]
    BY DEF Init
<1>3. review \in [Alerts -> Current] /\ request \in [Threads -> Requests \cup {None}]
    BY DEF Init, Current
<1>. QED  BY <1>1, <1>2, <1>3, FeedbackAssumption DEF Init, TypeOK

LEMMA SaveTyped ==
  ASSUME TypeOK, NEW q \in Requests, Save(q)
  PROVE  review' \in [Alerts -> Current] /\ history' \in [Alerts -> Seq(Entries)]
<1>1. q.alert \in Alerts /\ q.new \in Reviews /\ q.existing \in Current
    BY DEF Requests
<1>2. [previous |-> q.existing, new |-> q.new] \in Entries
    BY <1>1 DEF Entries
<1>3. Append(history[q.alert], [previous |-> q.existing, new |-> q.new]) \in Seq(Entries)
    BY <1>1, <1>2 DEF TypeOK
<1>. QED  BY <1>1, <1>3 DEF Save, TypeOK, Current

LEMMA RowTyped ==
  ASSUME NEW c \in Candidates, NEW s \in Statuses
  PROVE  RowOf(c, s) \in Rows /\ c.print \in Fingerprints
BY DEF RowOf, Rows, Candidates

\* A rule is added or replaced, and the others stay.
LEMMA WithTyped ==
  ASSUME TypeOK, NEW f \in Fingerprints, NEW r \in Rows, rules' = With(f, r)
  PROVE  /\ DOMAIN rules' = DOMAIN rules \cup {f} /\ rules'[f] = r
         /\ \A g \in DOMAIN rules : g # f => rules'[g] = rules[g]
         /\ DOMAIN rules' \subseteq Fingerprints
         /\ \A g \in DOMAIN rules' : rules'[g] \in Rows
BY DEF With, TypeOK

\* A suggestion an analysis has found is there for ever, so it is when the
\* analysis refreshes it.
FoundStays ==
  \A x \in Analyses :
    seen[x] # None /\ seen[x].found \in Statuses => seen[x].candidate.print \in DOMAIN rules

Typed == TypeOK /\ FoundStays

\* No step loses a rule, and only the operator changes the status of one.
RulesKept ==
  /\ DOMAIN rules \subseteq DOMAIN rules' /\ DOMAIN rules' \subseteq Fingerprints
  /\ \A f \in DOMAIN rules' : rules'[f] \in Rows
  /\ \A f \in DOMAIN rules :
       rules'[f].status # rules[f].status =>
         decision # None /\ decision = [print |-> f, status |-> rules'[f].status]

LEMMA RulesStep == Typed /\ [Next]_vars => RulesKept
<1>. SUFFICES ASSUME Typed, [Next]_vars PROVE RulesKept
    OBVIOUS
<1>1. CASE rules' = rules
    BY <1>1 DEF RulesKept, Typed, TypeOK
<1>2. ASSUME NEW x \in Analyses, InsertSuggestion(x), rules' # rules PROVE RulesKept
  <2>. DEFINE c == seen[x].candidate
  <2>1. c \in Candidates /\ c.print \notin DOMAIN rules /\ rules' = With(c.print, RowOf(c, "PROPOSED"))
      BY <1>2 DEF InsertSuggestion, Typed, TypeOK
  <2>2. "PROPOSED" \in Statuses
      BY DEF Statuses
  <2>. HIDE DEF c
  <2>. QED  BY <2>1, <2>2, RowTyped, WithTyped DEF RulesKept, Typed
<1>3. ASSUME NEW x \in Analyses, RefreshSuggestion(x), rules' # rules PROVE RulesKept
  <2>. DEFINE c == seen[x].candidate
  <2>1. c \in Candidates /\ c.print \in DOMAIN rules
      BY <1>3 DEF RefreshSuggestion, Typed, TypeOK, FoundStays
  <2>2. rules' = With(c.print, RowOf(c, rules[c.print].status))
      BY <1>3 DEF RefreshSuggestion
  <2>3. rules[c.print].status \in Statuses
      BY <2>1 DEF Typed, TypeOK, Rows
  <2>4. RowOf(c, rules[c.print].status).status = rules[c.print].status
      BY DEF RowOf
  <2>. HIDE DEF c
  <2>. QED  BY <2>1, <2>2, <2>3, <2>4, RowTyped, WithTyped DEF RulesKept, Typed
<1>4. CASE Record
  <2>1. decision # None /\ decision \in [print : DOMAIN rules, status : Statuses]
      BY <1>4 DEF Record, Typed, TypeOK
  <2>2. rules' = [rules EXCEPT ![decision.print].status = decision.status]
      BY <1>4 DEF Record
  <2>3. DOMAIN rules' = DOMAIN rules
      BY <2>2
  <2>4. \A f \in DOMAIN rules : f # decision.print => rules'[f] = rules[f]
      BY <2>2
  <2>5. rules'[decision.print] = [rules[decision.print] EXCEPT !.status = decision.status]
      BY <2>1, <2>2
  <2>6. rules'[decision.print] \in Rows /\ rules'[decision.print].status = decision.status
      BY <2>1, <2>5 DEF Typed, TypeOK, Rows
  <2>7. decision = [print |-> decision.print, status |-> rules'[decision.print].status]
      BY <2>1, <2>6
  <2>8. \A f \in DOMAIN rules' : rules'[f] \in Rows
      BY <2>3, <2>4, <2>6 DEF Typed, TypeOK
  <2>. QED  BY <2>1, <2>3, <2>4, <2>7, <2>8 DEF RulesKept, Typed, TypeOK
<1>. QED
  BY <1>1, <1>2, <1>3, <1>4
  DEF Next, vars, BeginReview, WriteReview, DropReview, Analyse, LookUp, StopAnalysis, Decide,
      suggesting, reviewing

\* What becomes of what an analysis has in hand.
SeenTypes == [candidate : Candidates, found : Statuses \cup {"absent"}]

LEMMA NextTyped == Typed /\ [Next]_vars => Typed'
<1>. SUFFICES ASSUME Typed, [Next]_vars PROVE TypeOK' /\ FoundStays'
    BY DEF Typed
<1>. USE FeedbackAssumption
<1>0. RulesKept
    BY RulesStep
<1>1. ASSUME NEW t \in Threads, NEW a \in Alerts, NEW r \in Reviews, BeginReview(t, a, r)
      PROVE  TypeOK' /\ FoundStays'
  <2>1. [alert |-> a, existing |-> review[a], new |-> r] \in Requests
      BY DEF Typed, TypeOK, Requests
  <2>2. begun' \in 0..MaxReviews
      BY <1>1 DEF BeginReview, Typed, TypeOK
  <2>. QED  BY <1>1, <2>1, <2>2 DEF BeginReview, Typed, TypeOK, FoundStays, suggesting
<1>2. ASSUME NEW t \in Threads, WriteReview(t) PROVE TypeOK' /\ FoundStays'
  <2>1. request[t] \in Requests
      BY <1>2 DEF WriteReview, Typed, TypeOK
  <2>2. review' \in [Alerts -> Current] /\ history' \in [Alerts -> Seq(Entries)]
    <3>1. CASE Conflicts(request[t])
        BY <1>2, <3>1 DEF WriteReview, Typed, TypeOK
    <3>2. CASE ~Conflicts(request[t])
        BY <1>2, <3>2, <2>1, SaveTyped DEF WriteReview, Typed
    <3>. QED  BY <3>1, <3>2
  <2>. QED  BY <1>2, <2>2 DEF WriteReview, Typed, TypeOK, FoundStays, suggesting
<1>3. ASSUME NEW t \in Threads, DropReview(t) PROVE TypeOK' /\ FoundStays'
    BY <1>3 DEF DropReview, Typed, TypeOK, FoundStays, suggesting
<1>4. ASSUME NEW x \in Analyses, Analyse(x) PROVE TypeOK' /\ FoundStays'
  <2>1. Analysed \subseteq Candidates
      BY CandidateTyped DEF Analysed
  <2>. QED  BY <1>4, <2>1 DEF Analyse, Typed, TypeOK, FoundStays, reviewing
<1>5. ASSUME NEW x \in Analyses, NEW c \in todo[x], LookUp(x, c) PROVE TypeOK' /\ FoundStays'
  <2>1. c \in Candidates
      BY DEF Typed, TypeOK
  <2>2. c.print \in DOMAIN rules => rules[c.print].status \in Statuses
      BY DEF Typed, TypeOK, Rows
  <2>. DEFINE new == [candidate |-> c,
                      found |-> IF c.print \in DOMAIN rules THEN rules[c.print].status
                                ELSE "absent"]
  <2>3. new \in SeenTypes
      BY <2>1, <2>2 DEF SeenTypes
  <2>4. new.found \in Statuses => new.candidate.print \in DOMAIN rules
      BY DEF Statuses
  <2>5. /\ seen' = [seen EXCEPT ![x] = new] /\ todo' = [todo EXCEPT ![x] = @ \ {c}]
        /\ UNCHANGED <<review, history, begun, request, rules, decision>>
      BY <1>5 DEF LookUp, reviewing
  <2>. HIDE DEF new
  <2>6. seen' \in [Analyses -> SeenTypes \cup {None}]
      BY <2>3, <2>5 DEF Typed, TypeOK, SeenTypes
  <2>7. TypeOK'
      BY <2>5, <2>6 DEF Typed, TypeOK, SeenTypes
  <2>8. FoundStays'
      BY <2>4, <2>5 DEF Typed, TypeOK, FoundStays
  <2>. QED  BY <2>7, <2>8
<1>6. ASSUME NEW x \in Analyses, InsertSuggestion(x) \/ RefreshSuggestion(x) \/ StopAnalysis(x)
      PROVE  TypeOK' /\ FoundStays'
  <2>1. /\ seen' = [seen EXCEPT ![x] = None]
        /\ todo' = todo \/ todo' = [todo EXCEPT ![x] = {}]
        /\ UNCHANGED <<review, history, begun, request, decision>>
      BY <1>6 DEF InsertSuggestion, RefreshSuggestion, StopAnalysis, reviewing
  <2>2. TypeOK'
      BY <1>0, <2>1 DEF RulesKept, Typed, TypeOK
  <2>3. FoundStays'
      BY <1>0, <2>1 DEF RulesKept, Typed, TypeOK, FoundStays
  <2>. QED  BY <2>2, <2>3
<1>7. ASSUME NEW f \in DOMAIN rules, NEW s \in Statuses, Decide(f, s) PROVE TypeOK' /\ FoundStays'
    BY <1>7 DEF Decide, Typed, TypeOK, FoundStays, reviewing
<1>8. CASE Record
    BY <1>0, <1>8 DEF Record, RulesKept, Typed, TypeOK, FoundStays, reviewing
<1>9. CASE UNCHANGED vars
    BY <1>9 DEF vars, Typed, TypeOK, FoundStays
<1>. QED  BY <1>1, <1>2, <1>3, <1>4, <1>5, <1>6, <1>7, <1>8, <1>9 DEF Next

\* Type correctness (TypeOK), for every set of alerts, reviewers and analyses.
THEOREM TypeCorrect == Spec => []TypeOK
<1>1. Init => Typed
    BY InitTyped DEF Init, Typed, FoundStays
<1>. QED  BY <1>1, NextTyped, PTL DEF Spec, Typed

LEMMA AlwaysTyped == Spec => []Typed
<1>1. Init => Typed
    BY InitTyped DEF Init, Typed, FoundStays
<1>. QED  BY <1>1, NextTyped, PTL DEF Spec

\* The operator's choice stays legal until it is written.
DecisionLegal ==
  decision # None => decision.status \in Legal(rules[decision.print].status)

LEMMA NextLegal == Typed /\ DecisionLegal /\ [Next]_vars => DecisionLegal'
<1>. SUFFICES ASSUME Typed, DecisionLegal, [Next]_vars, decision' # None
              PROVE  decision'.status \in Legal(rules'[decision'.print].status)
    BY DEF DecisionLegal
<1>0. RulesKept
    BY RulesStep
<1>1. ASSUME NEW f \in DOMAIN rules, NEW s \in Statuses, Decide(f, s)
      PROVE  decision'.status \in Legal(rules'[decision'.print].status)
    BY <1>1 DEF Decide
<1>2. CASE Record
    BY <1>2 DEF Record
<1>3. CASE decision' = decision /\ ~Record
  <2>1. decision.print \in DOMAIN rules
      BY <1>3 DEF Typed, TypeOK
  <2>2. rules'[decision.print].status = rules[decision.print].status
    <3>1. CASE UNCHANGED rules
        BY <3>1
    <3>2. ASSUME NEW x \in Analyses, InsertSuggestion(x), rules' # rules
          PROVE  rules'[decision.print] = rules[decision.print]
      <4>1. /\ seen[x].candidate.print \notin DOMAIN rules
            /\ rules' = With(seen[x].candidate.print, RowOf(seen[x].candidate, "PROPOSED"))
          BY <3>2 DEF InsertSuggestion
      <4>. QED  BY <4>1, <2>1 DEF With
    <3>3. ASSUME NEW x \in Analyses, RefreshSuggestion(x), rules' # rules
          PROVE  rules'[decision.print].status = rules[decision.print].status
      <4>1. rules' = With(seen[x].candidate.print,
                          RowOf(seen[x].candidate, rules[seen[x].candidate.print].status))
          BY <3>3 DEF RefreshSuggestion
      <4>. QED  BY <4>1, <2>1 DEF With, RowOf
    <3>. QED
      BY <3>1, <3>2, <3>3, <1>3
      DEF Next, vars, BeginReview, WriteReview, DropReview, Analyse, LookUp, StopAnalysis, Decide,
          suggesting, reviewing
  <2>. QED  BY <1>3, <2>2 DEF DecisionLegal
<1>. QED
  BY <1>1, <1>2, <1>3
  DEF Next, vars, BeginReview, WriteReview, DropReview, Analyse, LookUp, InsertSuggestion,
      RefreshSuggestion, StopAnalysis, suggesting, reviewing

\* No analysis opens a closed suggestion again and no decision is overwritten
\* (DecisionsStand): LEGAL_STATUS_TRANSITIONS is checked against a status that
\* only the operator changes.
THEOREM DecisionsHold == Spec => DecisionsStand
<1>1. Init => Typed /\ DecisionLegal
    BY InitTyped DEF Init, Typed, FoundStays, DecisionLegal
<1>. DEFINE Kept == \A f \in DOMAIN rules :
       /\ f \in DOMAIN rules'
       /\ rules'[f].status # rules[f].status => decision = [print |-> f, status |-> rules'[f].status]
       /\ rules[f].status = "REJECTED" => rules'[f].status = "REJECTED"
<1>2. Typed /\ DecisionLegal /\ [Next]_vars => Kept
  <2>. SUFFICES ASSUME Typed, DecisionLegal, [Next]_vars, NEW f \in DOMAIN rules
                PROVE  /\ f \in DOMAIN rules'
                       /\ rules'[f].status # rules[f].status =>
                            decision = [print |-> f, status |-> rules'[f].status]
                       /\ rules[f].status = "REJECTED" => rules'[f].status = "REJECTED"
      OBVIOUS
  <2>1. RulesKept
      BY RulesStep
  <2>2. ASSUME rules[f].status = "REJECTED", rules'[f].status # "REJECTED" PROVE FALSE
    <3>1. decision # None /\ decision = [print |-> f, status |-> rules'[f].status]
        BY <2>1, <2>2 DEF RulesKept
    <3>. QED  BY <2>2, <3>1 DEF DecisionLegal, Legal
  <2>. QED  BY <2>1, <2>2 DEF RulesKept
<1>. QED  BY <1>1, <1>2, NextTyped, NextLegal, PTL DEF Spec, DecisionsStand

---------------------------------------------------------------------------
(* Reviews. *)

\* A request that read a review read one of the history.
ReadFromHistory ==
  \A t \in Threads :
    request[t] # None /\ request[t].existing # None =>
      \E j \in 1..Len(history[request[t].alert]) :
        request[t].existing = history[request[t].alert][j].new

Chained == CurrentIsLastEntry /\ PreviousWasCurrent /\ ReadFromHistory

\* What Save does to the histories.
LEMMA SaveAppends ==
  ASSUME TypeOK, NEW q \in Requests, Save(q)
  PROVE  /\ \A a \in Alerts : a # q.alert => history'[a] = history[a] /\ review'[a] = review[a]
         /\ history[q.alert] \in Seq(Entries) /\ Len(history[q.alert]) \in Nat
         /\ Len(history'[q.alert]) = Len(history[q.alert]) + 1
         /\ \A i \in 1..Len(history[q.alert]) : history'[q.alert][i] = history[q.alert][i]
         /\ history'[q.alert][Len(history[q.alert]) + 1] = [previous |-> q.existing, new |-> q.new]
         /\ history'[q.alert] # <<>>
         /\ review'[q.alert] = q.new
<1>. DEFINE n == [previous |-> q.existing, new |-> q.new]
<1>1. q.alert \in Alerts /\ n \in Entries
    BY DEF Requests, Entries
<1>. HIDE DEF n
<1>2. history' = [history EXCEPT ![q.alert] = Append(@, n)] /\ review' = [review EXCEPT ![q.alert] = q.new]
    BY DEF Save, n
<1>3. history[q.alert] \in Seq(Entries) /\ history'[q.alert] = Append(history[q.alert], n)
    BY <1>1, <1>2 DEF TypeOK
<1>4. \A a \in Alerts : a # q.alert => history'[a] = history[a] /\ review'[a] = review[a]
    BY <1>2 DEF TypeOK
<1>5. review'[q.alert] = q.new
    BY <1>1, <1>2 DEF TypeOK
<1>6. /\ Len(history[q.alert]) \in Nat
      /\ Len(Append(history[q.alert], n)) = Len(history[q.alert]) + 1
      /\ \A i \in 1..Len(history[q.alert]) : Append(history[q.alert], n)[i] = history[q.alert][i]
      /\ Append(history[q.alert], n)[Len(history[q.alert]) + 1] = n
    BY <1>1, <1>3, LenProperties, AppendProperties
<1>7. history'[q.alert] # <<>>
    BY <1>1, <1>3, AppendProperties
<1>. QED  BY <1>3, <1>4, <1>5, <1>6, <1>7, Zenon DEF n

LEMMA SaveChained ==
  ASSUME Typed, Chained, NEW t \in Threads, request[t] # None, ~Conflicts(request[t]),
         Save(request[t]), request' = [request EXCEPT ![t] = None]
  PROVE  Chained'
<1>. DEFINE q == request[t]
            h == history[q.alert]
<1>1. q \in Requests /\ q.alert \in Alerts
    BY DEF Typed, TypeOK, Requests
<1>2. /\ \A a \in Alerts : a # q.alert => history'[a] = history[a] /\ review'[a] = review[a]
      /\ h \in Seq(Entries) /\ Len(h) \in Nat
      /\ Len(history'[q.alert]) = Len(h) + 1
      /\ \A i \in 1..Len(h) : history'[q.alert][i] = h[i]
      /\ history'[q.alert][Len(h) + 1] = [previous |-> q.existing, new |-> q.new]
      /\ history'[q.alert] # <<>>
      /\ review'[q.alert] = q.new
  <2>1. TypeOK /\ Save(q)
      BY DEF Typed
  <2>. QED  BY <1>1, <2>1, SaveAppends, Zenon
<1>3. q.existing = None => h = <<>>
  <2>1. ASSUME h # <<>> PROVE review[q.alert] # None
    <3>1. Len(h) \in 1..Len(h)
        BY <1>2, <2>1
    <3>2. h[Len(h)] \in Entries
        BY <1>2, <3>1
    <3>. QED  BY <1>1, <2>1, <3>2, NoneAssumption DEF Chained, CurrentIsLastEntry, Entries
  <2>. QED  BY <2>1 DEF Conflicts
<1>4. q.existing # None => \E j \in 1..Len(h) : q.existing = h[j].new
    BY DEF Chained, ReadFromHistory
<1>. HIDE DEF h
<1>5. CurrentIsLastEntry'
  <2>. SUFFICES ASSUME NEW a \in Alerts
                PROVE  review'[a] = IF history'[a] = <<>> THEN None
                                    ELSE history'[a][Len(history'[a])].new
      BY DEF CurrentIsLastEntry
  <2>1. CASE a = q.alert
      BY <1>2, <2>1
  <2>2. CASE a # q.alert
      BY <1>2, <2>2 DEF Chained, CurrentIsLastEntry
  <2>. QED  BY <2>1, <2>2
<1>6. PreviousWasCurrent'
  <2>. SUFFICES ASSUME NEW a \in Alerts, NEW i \in 1..Len(history'[a])
                PROVE  IF i = 1 THEN history'[a][i].previous = None
                       ELSE \E j \in 1..(i - 1) : history'[a][i].previous = history'[a][j].new
      BY DEF PreviousWasCurrent
  <2>1. CASE a # q.alert
    <3>1. history'[a] = history[a]
        BY <1>2, <2>1
    <3>. QED  BY <3>1 DEF Chained, PreviousWasCurrent
  <2>2. CASE a = q.alert /\ i # Len(h) + 1
    <3>1. i \in 1..Len(h)
        BY <1>2, <2>2
    <3>2. IF i = 1 THEN h[i].previous = None ELSE \E j \in 1..(i - 1) : h[i].previous = h[j].new
        BY <1>1, <3>1 DEF Chained, PreviousWasCurrent, h
    <3>3. \A j \in 1..(i - 1) : history'[a][j] = h[j]
        BY <1>2, <2>2, <3>1
    <3>4. history'[a][i] = h[i]
        BY <1>2, <2>2, <3>1
    <3>. QED  BY <3>2, <3>3, <3>4
  <2>3. CASE a = q.alert /\ i = Len(h) + 1
    <3>1. history'[a][i].previous = q.existing
        BY <1>2, <2>3
    <3>2. CASE q.existing = None
        BY <1>2, <1>3, <2>3, <3>1, <3>2
    <3>3. CASE q.existing # None
      <4>1. PICK j \in 1..Len(h) : q.existing = h[j].new
          BY <1>4, <3>3
      <4>2. i # 1 /\ j \in 1..(i - 1) /\ history'[a][j] = h[j]
          BY <1>2, <2>3, <4>1
      <4>. QED  BY <3>1, <4>1, <4>2
    <3>. QED  BY <3>2, <3>3
  <2>. QED  BY <2>1, <2>2, <2>3
<1>7. ReadFromHistory'
  <2>. SUFFICES ASSUME NEW u \in Threads, request'[u] # None, request'[u].existing # None
                PROVE  \E j \in 1..Len(history'[request'[u].alert]) :
                         request'[u].existing = history'[request'[u].alert][j].new
      BY DEF ReadFromHistory
  <2>1. u # t /\ request'[u] = request[u] /\ request[u] \in Requests
      BY DEF Typed, TypeOK
  <2>2. PICK j \in 1..Len(history[request[u].alert]) :
               request[u].existing = history[request[u].alert][j].new
      BY <2>1 DEF Chained, ReadFromHistory
  <2>3. CASE request[u].alert = q.alert
    <3>1. j \in 1..Len(history'[q.alert]) /\ history'[q.alert][j] = h[j]
        BY <1>2, <2>2, <2>3 DEF h
    <3>. QED  BY <2>1, <2>2, <2>3, <3>1 DEF h
  <2>4. CASE request[u].alert # q.alert
      BY <1>2, <2>1, <2>2, <2>4 DEF Requests
  <2>. QED  BY <2>3, <2>4
<1>. QED  BY <1>5, <1>6, <1>7 DEF Chained

LEMMA NextChained == Typed /\ Chained /\ [Next]_vars => Chained'
<1>. SUFFICES ASSUME Typed, Chained, [Next]_vars PROVE Chained'
    OBVIOUS
<1>1. ASSUME NEW t \in Threads, NEW a \in Alerts, NEW r \in Reviews, BeginReview(t, a, r)
      PROVE  Chained'
  <2>1. CurrentIsLastEntry' /\ PreviousWasCurrent'
      BY <1>1 DEF BeginReview, Chained, CurrentIsLastEntry, PreviousWasCurrent
  <2>2. review[a] # None => \E j \in 1..Len(history[a]) : review[a] = history[a][j].new
    <3>1. history[a] \in Seq(Entries)
        BY DEF Typed, TypeOK
    <3>2. history[a] # <<>> => Len(history[a]) \in 1..Len(history[a])
        BY <3>1
    <3>. QED  BY <3>2 DEF Chained, CurrentIsLastEntry
  <2>3. ReadFromHistory'
      BY <1>1, <2>2 DEF BeginReview, Chained, ReadFromHistory, Typed, TypeOK
  <2>. QED  BY <2>1, <2>3 DEF Chained
<1>2. ASSUME NEW t \in Threads, WriteReview(t) PROVE Chained'
  <2>1. request[t] # None /\ request' = [request EXCEPT ![t] = None]
      BY <1>2 DEF WriteReview
  <2>2. CASE Conflicts(request[t])
    <3>1. UNCHANGED <<review, history>>
        BY <1>2, <2>2 DEF WriteReview
    <3>. QED
      BY <2>1, <3>1 DEF Chained, CurrentIsLastEntry, PreviousWasCurrent, ReadFromHistory, Typed, TypeOK
  <2>3. CASE ~Conflicts(request[t])
      BY <1>2, <2>1, <2>3, SaveChained DEF WriteReview
  <2>. QED  BY <2>2, <2>3
<1>3. ASSUME NEW t \in Threads, DropReview(t) PROVE Chained'
    BY <1>3 DEF DropReview, Chained, CurrentIsLastEntry, PreviousWasCurrent, ReadFromHistory, Typed, TypeOK
<1>4. CASE UNCHANGED <<review, history, request>>
    BY <1>4 DEF Chained, CurrentIsLastEntry, PreviousWasCurrent, ReadFromHistory
<1>. QED
  BY <1>1, <1>2, <1>3, <1>4
  DEF Next, vars, Analyse, LookUp, InsertSuggestion, RefreshSuggestion, StopAnalysis, Decide,
      Record, reviewing

LEMMA InitChained == Init => Chained
<1>. SUFFICES ASSUME Init PROVE Chained
    OBVIOUS
<1>1. \A a \in Alerts : review[a] = None /\ history[a] = <<>>
    BY DEF Init
<1>2. \A t \in Threads : request[t] = None
    BY DEF Init
<1>. QED  BY <1>1, <1>2 DEF Chained, CurrentIsLastEntry, PreviousWasCurrent, ReadFromHistory

\* The present review of an alert is the last entry of its history
\* (CurrentIsLastEntry): upsert_review writes both in one transaction, and
\* UNIQUE(alert_id) refuses a second first review.
THEOREM LatestIsReview == Spec => []CurrentIsLastEntry
<1>1. Chained => CurrentIsLastEntry
    BY DEF Chained
<1>. QED  BY <1>1, AlwaysTyped, InitChained, NextChained, PTL DEF Spec

\* An entry's previous review is one the alert had before, and only the first
\* has none (PreviousWasCurrent), however many requests read and write at once.
THEOREM HistoryIsRooted == Spec => []PreviousWasCurrent
<1>1. Chained => PreviousWasCurrent
    BY DEF Chained
<1>. QED  BY <1>1, AlwaysTyped, InitChained, NextChained, PTL DEF Spec

---------------------------------------------------------------------------
(* Samples. *)

\* How many reviewed alerts a simulation of each rule finds.
Samples == [f \in Fingerprints |-> Cardinality(Sample(f))]

Rests(f, n) == MinSamples <= n /\ n <= Samples[f]

\* Whatever is stored, to be stored or in hand has its samples.
Supported ==
  /\ \A f \in DOMAIN rules : Rests(f, rules[f].support)
  /\ \A x \in Analyses :
       /\ \A c \in todo[x] : Rests(c.print, c.support)
       /\ seen[x] # None => Rests(seen[x].candidate.print, seen[x].candidate.support)

\* No alert becomes NEW again, so no sample shrinks.
LEMMA SamplesGrow ==
  ASSUME Typed, [Next]_vars
  PROVE  \A f \in Fingerprints :
           Samples[f] \in Nat /\ Samples'[f] \in Nat /\ Samples[f] <= Samples'[f]
<1>1. \A a \in Alerts : review[a] # None => review'[a] # None
  <2>1. ASSUME NEW t \in Threads, WriteReview(t)
        PROVE  \A a \in Alerts : review[a] # None => review'[a] # None
    <3>1. request[t].new # None
        BY <2>1, NoneAssumption DEF WriteReview, Typed, TypeOK, Requests
    <3>. QED  BY <2>1, <3>1 DEF WriteReview, Save, Typed, TypeOK
  <2>2. CASE UNCHANGED review
      BY <2>2
  <2>. QED
    BY <2>1, <2>2
    DEF Next, vars, BeginReview, DropReview, Analyse, LookUp, InsertSuggestion, RefreshSuggestion,
        StopAnalysis, Decide, Record, reviewing
<1>2. ASSUME NEW f \in Fingerprints
      PROVE  /\ Cardinality(Sample(f)) \in Nat /\ Cardinality(Sample(f)') \in Nat
             /\ Cardinality(Sample(f)) <= Cardinality(Sample(f)')
  <2>1. Sample(f) \subseteq Sample(f)' /\ Sample(f)' \subseteq Alerts
      BY <1>1 DEF Sample, Matched
  <2>2. IsFiniteSet(Sample(f)')
      BY <2>1, FeedbackAssumption, FS_Subset
  <2>. QED  BY <2>1, <2>2, FS_Subset, FS_CardinalityType
<1>. QED  BY <1>2 DEF Samples

\* A candidate has as many alerts behind it as its rule asks of them.
LEMMA CandidateRests ==
  ASSUME NEW d \in Detectors, NEW g \in Groups, Emitted(d, g)
  PROVE  Rests(CandidateOf(d, g).print, CandidateOf(d, g).support)
<1>1. PICK f \in Fingerprints : f = CandidateOf(d, g).print /\ f.detector = d /\ f.group = g
    BY CandidateTyped DEF CandidateOf, Candidates
<1>2. Focus(d, g) \subseteq Sample(f)
    BY <1>1, FocusIsSampled
<1>3. Sample(f) \subseteq Alerts
    BY DEF Sample, Matched
<1>4. Cardinality(Focus(d, g)) <= Cardinality(Sample(f))
    BY <1>2, <1>3, FeedbackAssumption, FS_Subset
<1>5. CandidateOf(d, g).support = Cardinality(Focus(d, g))
    BY DEF CandidateOf
<1>. QED  BY <1>1, <1>4, <1>5 DEF Rests, Samples, Emitted

LEMMA NextSupported == Typed /\ Supported /\ [Next]_vars => Supported'
<1>. SUFFICES ASSUME Typed, Supported, [Next]_vars PROVE Supported'
    OBVIOUS
<1>1. \A f \in Fingerprints :
        Samples[f] \in Nat /\ Samples'[f] \in Nat /\ Samples[f] <= Samples'[f]
    BY SamplesGrow
<1>2. \A f \in Fingerprints, n \in Nat :
        Rests(f, n) => MinSamples <= n /\ n <= Samples'[f]
    BY <1>1 DEF Rests
<1>3. /\ \A x \in Analyses : \A c \in todo[x] :
           c.print \in Fingerprints /\ c.support \in Nat
      /\ \A x \in Analyses : seen[x] # None =>
           seen[x].candidate.print \in Fingerprints /\ seen[x].candidate.support \in Nat
      /\ \A f \in DOMAIN rules : f \in Fingerprints /\ rules[f].support \in Nat
    BY DEF Typed, TypeOK, Candidates, Rows
<1>. DEFINE RestsNext(f, n) == MinSamples <= n /\ n <= Samples'[f]
<1>4. \A f \in DOMAIN rules' : RestsNext(f, rules'[f].support)
  <2>1. \A f \in DOMAIN rules : RestsNext(f, rules[f].support)
      BY <1>2, <1>3 DEF Supported
  <2>2. ASSUME NEW x \in Analyses, InsertSuggestion(x) \/ RefreshSuggestion(x), rules' # rules
        PROVE  \A f \in DOMAIN rules' : RestsNext(f, rules'[f].support)
    <3>1. RestsNext(seen[x].candidate.print, seen[x].candidate.support)
        BY <1>2, <1>3, <2>2 DEF Supported, InsertSuggestion, RefreshSuggestion
    <3>2. PICK s : rules' = With(seen[x].candidate.print, RowOf(seen[x].candidate, s))
        BY <2>2 DEF InsertSuggestion, RefreshSuggestion
    <3>3. RowOf(seen[x].candidate, s).support = seen[x].candidate.support
        BY DEF RowOf
    <3>. QED  BY <2>1, <3>1, <3>2, <3>3 DEF With
  <2>3. CASE Record
    <3>1. decision \in [print : DOMAIN rules, status : Statuses]
        BY <2>3 DEF Record, Typed, TypeOK
    <3>2. rules[decision.print] \in Rows
        BY <3>1 DEF Typed, TypeOK
    <3>3. /\ DOMAIN rules' = DOMAIN rules
          /\ \A f \in DOMAIN rules : f # decision.print => rules'[f] = rules[f]
          /\ rules'[decision.print] = [rules[decision.print] EXCEPT !.status = decision.status]
        BY <2>3, <3>1 DEF Record
    <3>4. rules'[decision.print].support = rules[decision.print].support
        BY <3>2, <3>3 DEF Rows
    <3>. QED  BY <2>1, <3>1, <3>3, <3>4
  <2>4. CASE rules' = rules
      BY <2>1, <2>4
  <2>. QED
    BY <2>2, <2>3, <2>4
    DEF Next, vars, BeginReview, WriteReview, DropReview, Analyse, LookUp, StopAnalysis, Decide,
        suggesting, reviewing
<1>5. ASSUME NEW x \in Analyses
      PROVE  /\ \A c \in todo'[x] : RestsNext(c.print, c.support)
             /\ seen'[x] # None => RestsNext(seen'[x].candidate.print, seen'[x].candidate.support)
  <2>1. /\ \A c \in todo[x] : RestsNext(c.print, c.support)
        /\ seen[x] # None => RestsNext(seen[x].candidate.print, seen[x].candidate.support)
      BY <1>2, <1>3 DEF Supported
  <2>2. ASSUME Analyse(x) PROVE \A c \in todo'[x] : RestsNext(c.print, c.support)
    <3>1. todo'[x] = Analysed
        BY <2>2 DEF Analyse, Typed, TypeOK
    <3>. SUFFICES ASSUME NEW d \in Detectors, NEW g \in Groups, Emitted(d, g)
                  PROVE  RestsNext(CandidateOf(d, g).print, CandidateOf(d, g).support)
        BY <3>1 DEF Analysed
    <3>2. CandidateOf(d, g) \in Candidates
        BY CandidateTyped
    <3>3. CandidateOf(d, g).print \in Fingerprints /\ CandidateOf(d, g).support \in Nat
        BY <3>2 DEF Candidates
    <3>. QED  BY <1>2, <3>3, CandidateRests
  <2>3. ASSUME NEW c \in todo[x], LookUp(x, c)
        PROVE  seen'[x].candidate = c /\ todo'[x] \subseteq todo[x]
      BY <2>3 DEF LookUp, Typed, TypeOK
  <2>4. CASE todo'[x] \subseteq todo[x] /\ (seen'[x] = seen[x] \/ seen'[x] = None)
      BY <2>1, <2>4
  <2>5. CASE Analyse(x)
      BY <2>1, <2>2, <2>5 DEF Analyse
  <2>6. ASSUME NEW c \in todo[x], LookUp(x, c)
        PROVE  /\ \A e \in todo'[x] : RestsNext(e.print, e.support)
               /\ RestsNext(seen'[x].candidate.print, seen'[x].candidate.support)
    <3>1. seen'[x].candidate = c /\ todo'[x] \subseteq todo[x]
        BY <2>3, <2>6
    <3>. QED  BY <2>1, <3>1
  <2>7. ASSUME NEW y \in Analyses, y # x,
               \/ Analyse(y) \/ InsertSuggestion(y) \/ RefreshSuggestion(y) \/ StopAnalysis(y)
               \/ \E c \in todo[y] : LookUp(y, c)
        PROVE  todo'[x] = todo[x] /\ seen'[x] = seen[x]
      BY <2>7 DEF Analyse, InsertSuggestion, RefreshSuggestion, StopAnalysis, LookUp, Typed, TypeOK
  <2>8. ASSUME InsertSuggestion(x) \/ RefreshSuggestion(x) \/ StopAnalysis(x)
        PROVE  todo'[x] \subseteq todo[x] /\ seen'[x] = None
      BY <2>8 DEF InsertSuggestion, RefreshSuggestion, StopAnalysis, Typed, TypeOK
  <2>9. CASE UNCHANGED <<todo, seen>>
      BY <2>4, <2>9
  <2>. QED
    BY <2>4, <2>5, <2>6, <2>7, <2>8, <2>9
    DEF Next, vars, BeginReview, WriteReview, DropReview, Decide, Record, suggesting, reviewing
<1>. QED  BY <1>4, <1>5 DEF Supported, Rests

LEMMA InitSupported == Init => Supported
<1>. SUFFICES ASSUME Init PROVE Supported
    OBVIOUS
<1>1. DOMAIN rules = {}
    BY DEF Init
<1>2. \A x \in Analyses : todo[x] = {} /\ seen[x] = None
    BY DEF Init
<1>. QED  BY <1>1, <1>2 DEF Supported

\* No stored suggestion rests on fewer reviewed alerts than it claims, nor on
\* fewer than MinSamples (SampleNeverShrinks), for every detector and whatever
\* reviews are revised after the analysis read them.
THEOREM SamplesStay == Spec => []SampleNeverShrinks
<1>1. Typed /\ Supported => SampleNeverShrinks
    BY DEF Typed, TypeOK, Supported, Rests, Samples, SampleNeverShrinks
<1>. QED  BY <1>1, AlwaysTyped, InitSupported, NextSupported, PTL DEF Spec
-----------------------------------------------------------------------------
(* Reports: what one statement returns.                                     *)

ReportTypeOK ==
  /\ filed \subseteq Alerts /\ first \subseteq Alerts /\ window \subseteq Alerts
  /\ verdict \in [Alerts -> Verdicts \cup {None}]
  /\ past \in [Alerts -> Seq(Verdicts)]
  /\ kind \in {"metrics", "signal", "board", "detail"} /\ subject \in Alerts
  /\ limit \in [Lists -> Nat] /\ commits \in Nat

LEMMA CountedTyped ==
  ASSUME ReportTypeOK
  PROVE  /\ Counted \in SUBSET Alerts /\ Judged(Counted) \in SUBSET Alerts
         /\ Waiting \in SUBSET Alerts
         /\ IsFiniteSet(Counted) /\ IsFiniteSet(Judged(Counted)) /\ IsFiniteSet(Waiting)
         /\ Cardinality(Counted) \in Nat /\ Cardinality(Judged(Counted)) \in Nat
         /\ Cardinality(Waiting) \in Nat
<1>1. /\ Counted \in SUBSET Alerts /\ Judged(Counted) \in SUBSET Alerts
      /\ Waiting \in SUBSET Alerts
    BY DEF ReportTypeOK, Counted, Asked, Judged, Waiting
<1>. QED  BY <1>1, FeedbackAssumption, FS_Subset, FS_CardinalityType

LEMMA VerdictTyped ==
  ASSUME ReportTypeOK, NEW a \in Alerts, verdict[a] # None
  PROVE  /\ verdict[a] \in Verdicts
         /\ verdict[a].outcome \in Outcomes /\ verdict[a].outcome # "UNREVIEWED"
         /\ verdict[a].reasons \in SUBSET Cited
<1>1. verdict[a] \in Verdicts
    BY DEF ReportTypeOK
<1>2. verdict[a] \in Reviews
    BY <1>1, ReportAssumption
<1>3. verdict[a].outcome \in Outcomes /\ verdict[a].reasons \in SUBSET Cited
    BY <1>2 DEF Reviews
<1>4. "UNREVIEWED" \notin Outcomes
    BY FeedbackAssumption
<1>. QED  BY <1>1, <1>3, <1>4

LEMMA CodesFinite == IsFiniteSet(Outcomes) /\ IsFiniteSet(Cited \cup {NoReason})
<1>1. IsFiniteSet({"HIT", "INTERESTING", "NOISE", "BUG"})
  <2>1. IsFiniteSet({"HIT"} \cup {"INTERESTING"} \cup {"NOISE"} \cup {"BUG"})
      BY FS_Singleton, FS_Union
  <2>. QED  BY <2>1
<1>2. IsFiniteSet(Codes \cup {NoReason})
  <2>1. IsFiniteSet(Codes)
    <3>1. IsFiniteSet({"TEMPORARY_404"} \cup {"DUPLICATE_ALERT"} \cup {"CDN_URL_CHURN"})
        BY FS_Singleton, FS_Union
    <3>2. IsFiniteSet({"ROUTINE_IMAGE_CHANGE"} \cup {"MARKETING_ASSET_REFRESH"})
        BY FS_Singleton, FS_Union
    <3>3. IsFiniteSet({"UNCHANGED_DOCUMENT"} \cup {"DOCUMENT_METADATA_ONLY"}
                        \cup {"MINOR_PRICE_FLUCTUATION"})
        BY FS_Singleton, FS_Union
    <3>4. Codes = ({"TEMPORARY_404"} \cup {"DUPLICATE_ALERT"} \cup {"CDN_URL_CHURN"})
                    \cup ({"ROUTINE_IMAGE_CHANGE"} \cup {"MARKETING_ASSET_REFRESH"})
                    \cup ({"UNCHANGED_DOCUMENT"} \cup {"DOCUMENT_METADATA_ONLY"}
                             \cup {"MINOR_PRICE_FLUCTUATION"})
        BY DEF Codes
    <3>. QED  BY <3>1, <3>2, <3>3, <3>4, FS_Union
  <2>. QED  BY <2>1, FS_AddElement
<1>3. Outcomes \in SUBSET {"HIT", "INTERESTING", "NOISE", "BUG"}
    BY FeedbackAssumption
<1>4. Cited \cup {NoReason} \in SUBSET (Codes \cup {NoReason})
    BY FeedbackAssumption
<1>. QED  BY <1>1, <1>2, <1>3, <1>4, FS_Subset

\* Every review has one outcome.
LEMMA TallyAdds ==
  ASSUME ReportTypeOK, NEW A \in SUBSET Alerts
  PROVE  SumOf(Tally(A)) = Cardinality(Judged(A)) /\ Cardinality(Judged(A)) \in Nat
<1>. DEFINE C == [o \in Outcomes |-> {a \in Judged(A) : verdict[a].outcome = o}]
<1>1. Judged(A) \in SUBSET Alerts /\ \A a \in Judged(A) : verdict[a] # None
    BY DEF Judged
<1>2. IsFiniteSet(Judged(A)) /\ Cardinality(Judged(A)) \in Nat
    BY <1>1, FeedbackAssumption, FS_Subset, FS_CardinalityType
<1>3. DOMAIN Tally(A) = Outcomes
      /\ \A o \in Outcomes : C[o] \in SUBSET Judged(A) /\ Tally(A)[o] = Cardinality(C[o])
    BY DEF Tally
<1>4. UNION {C[o] : o \in Outcomes} = Judged(A)
    BY <1>1, VerdictTyped
<1>5. Apart(C, Outcomes)
    BY DEF Apart
<1>6. SumFunctionOnSet(Tally(A), Outcomes) = Cardinality(Judged(A))
  <2>1. IsFiniteSet(Outcomes) /\ IsFiniteSet(Judged(A))
      BY <1>2, CodesFinite
  <2>2. Sizes(Tally(A), C, Outcomes, Judged(A))
      BY <1>3 DEF Sizes
  <2>. HIDE DEF C
  <2>. QED  BY <1>4, <1>5, <2>1, <2>2, SumOfParts
<1>. QED  BY <1>2, <1>3, <1>4, <1>6 DEF SumOf, SumFunction

\* A row of a breakdown is about some of the alerts.
LEMMA RowAdds ==
  ASSUME ReportTypeOK, NEW A \in SUBSET Alerts, NEW k
  PROVE  /\ Row(k, A).key = k /\ Row(k, A).total = Cardinality(A)
         /\ Row(k, A).reviewed = Cardinality(Judged(A))
         /\ SumOf(Row(k, A).outcomes) = Row(k, A).reviewed
         /\ Row(k, A).reviewed <= Row(k, A).total
<1>1. IsFiniteSet(A) /\ Judged(A) \in SUBSET A
    BY FeedbackAssumption, FS_Subset DEF Judged
<1>2. Cardinality(Judged(A)) <= Cardinality(A)
    BY <1>1, FS_Subset
<1>. QED  BY <1>2, TallyAdds DEF Row

\* Parts of A that have nothing in common amount to no more than A, and to A when
\* they are all there.
LEMMA SumOfSome ==
  ASSUME NEW R, IsFiniteSet(R), NEW A, IsFiniteSet(A), NEW C, Apart(C, R),
         UNION {C[r] : r \in R} = A, NEW S \in SUBSET R, NEW f, Sizes(f, C, S, A)
  PROVE  /\ SumFunctionOnSet(f, S) \in Nat
         /\ SumFunctionOnSet(f, S) <= Cardinality(A)
         /\ S = R => SumFunctionOnSet(f, S) = Cardinality(A)
<1>1. IsFiniteSet(S) /\ Apart(C, S)
    BY FS_Subset DEF Apart
<1>2. /\ SumFunctionOnSet(f, S) \in Nat
      /\ Cardinality(UNION {C[r] : r \in S}) = SumFunctionOnSet(f, S)
    BY <1>1, SumOfSizes
<1>3. UNION {C[r] : r \in S} \in SUBSET A
    OBVIOUS
<1>4. Cardinality(UNION {C[r] : r \in S}) <= Cardinality(A)
    BY <1>3, FS_Subset
<1>. QED  BY <1>2, <1>4

\* Every counted alert is in one row of a breakdown.
LEMMA BreakdownAdds ==
  ASSUME ReportTypeOK, NEW keyOf
  PROVE  /\ IsFiniteSet(Breakdown(keyOf))
         /\ \A S \in SUBSET Breakdown(keyOf) :
              /\ TotalsOf(S) \in Nat /\ TotalsOf(S) <= Cardinality(Counted)
              /\ ReviewedOf(S) \in Nat /\ ReviewedOf(S) <= Cardinality(Judged(Counted))
              /\ S = Breakdown(keyOf) => /\ TotalsOf(S) = Cardinality(Counted)
                                         /\ ReviewedOf(S) = Cardinality(Judged(Counted))
         /\ \A r \in Breakdown(keyOf) : SumOf(r.outcomes) = r.reviewed /\ r.reviewed <= r.total
<1>. DEFINE Of(k) == {a \in Counted : keyOf[a] = k}
            keys == {keyOf[a] : a \in Counted}
            rows == Breakdown(keyOf)
            C == [r \in rows |-> Of(r.key)]
            D == [r \in rows |-> Judged(Of(r.key))]
<1>1. rows = {Row(k, Of(k)) : k \in keys}
    BY DEF Breakdown
<1>2. \A k : Of(k) \in SUBSET Alerts
    BY CountedTyped
<1>3. ASSUME NEW r \in rows
      PROVE  /\ r = Row(r.key, Of(r.key)) /\ r.key \in keys
             /\ r.total = Cardinality(C[r]) /\ r.reviewed = Cardinality(D[r])
             /\ C[r] \in SUBSET Counted /\ D[r] \in SUBSET Judged(Counted)
             /\ SumOf(r.outcomes) = r.reviewed /\ r.reviewed <= r.total
  <2>1. PICK k \in keys : r = Row(k, Of(k))
      BY <1>1
  <2>2. r.key = k
      BY <2>1 DEF Row
  <2>3. Of(k) \in SUBSET Counted /\ Judged(Of(k)) \in SUBSET Judged(Counted)
      BY DEF Judged
  <2>4. /\ r.total = Cardinality(Of(k)) /\ r.reviewed = Cardinality(Judged(Of(k)))
        /\ SumOf(r.outcomes) = r.reviewed /\ r.reviewed <= r.total
    <3>. HIDE DEF Of
    <3>. QED  BY <1>2, <2>1, RowAdds
  <2>5. C[r] = Of(k) /\ D[r] = Judged(Of(k))
      BY <2>2
  <2>. HIDE DEF C, D, Of, keys, rows
  <2>. QED  BY <2>1, <2>2, <2>3, <2>4, <2>5
<1>4. IsFiniteSet(rows)
  <2>1. IsFiniteSet(keys)
    <3>. DEFINE g == [a \in Counted |-> keyOf[a]]
    <3>1. IsFiniteSet({g[a] : a \in Counted})
        BY CountedTyped, Values
    <3>2. {g[a] : a \in Counted} = keys
        OBVIOUS
    <3>. QED  BY <3>1, <3>2
  <2>. DEFINE g == [k \in keys |-> Row(k, Of(k))]
  <2>2. IsFiniteSet({g[k] : k \in keys})
    <3>. HIDE DEF keys
    <3>. QED  BY <2>1, Values
  <2>3. {g[k] : k \in keys} = rows
      BY <1>1
  <2>. QED  BY <2>2, <2>3
<1>5. \A r, q \in rows : r # q => C[r] \cap C[q] = {} /\ D[r] \cap D[q] = {}
  <2>1. ASSUME NEW r \in rows, NEW q \in rows, NEW a, a \in C[r], a \in C[q] PROVE r = q
    <3>1. keyOf[a] = r.key /\ keyOf[a] = q.key
        BY <2>1
    <3>2. r = Row(r.key, Of(r.key)) /\ q = Row(q.key, Of(q.key))
        BY <1>3
    <3>. QED  BY <3>1, <3>2
  <2>2. \A r \in rows : D[r] \subseteq C[r]
      BY DEF Judged
  <2>. HIDE DEF C, D, rows
  <2>. QED  BY <2>1, <2>2
<1>6. UNION {C[r] : r \in rows} = Counted /\ UNION {D[r] : r \in rows} = Judged(Counted)
  <2>1. ASSUME NEW a \in Counted PROVE \E r \in rows : r.key = keyOf[a]
    <3>1. Row(keyOf[a], Of(keyOf[a])) \in rows
        BY <1>1
    <3>. QED  BY <3>1 DEF Row
  <2>2. \A a \in Counted : \E r \in rows : a \in C[r] /\ (a \in Judged(Counted) => a \in D[r])
      BY <2>1 DEF Judged
  <2>3. Judged(Counted) \subseteq Counted
      BY DEF Judged
  <2>4. \A r \in rows : C[r] \subseteq Counted /\ D[r] \subseteq Judged(Counted)
      BY <1>3
  <2>. HIDE DEF C, D, rows
  <2>. QED  BY <2>2, <2>3, <2>4
<1>7. ASSUME NEW S \in SUBSET rows
      PROVE  /\ TotalsOf(S) \in Nat /\ TotalsOf(S) <= Cardinality(Counted)
             /\ ReviewedOf(S) \in Nat /\ ReviewedOf(S) <= Cardinality(Judged(Counted))
             /\ S = rows => /\ TotalsOf(S) = Cardinality(Counted)
                            /\ ReviewedOf(S) = Cardinality(Judged(Counted))
  <2>. DEFINE total == [r \in S |-> r.total]
              reviewed == [r \in S |-> r.reviewed]
  <2>1. Sizes(total, C, S, Counted)
      BY <1>3 DEF Sizes
  <2>2. Sizes(reviewed, D, S, Judged(Counted))
      BY <1>3 DEF Sizes
  <2>3. Apart(C, rows) /\ Apart(D, rows)
      BY <1>5 DEF Apart
  <2>4. TotalsOf(S) = SumFunctionOnSet(total, S)
      BY DEF TotalsOf, SumFunction
  <2>5. ReviewedOf(S) = SumFunctionOnSet(reviewed, S)
      BY DEF ReviewedOf, SumFunction
  <2>6. IsFiniteSet(Counted) /\ IsFiniteSet(Judged(Counted))
      BY CountedTyped
  <2>. HIDE DEF rows, total, reviewed, C, D
  <2>7. /\ SumFunctionOnSet(total, S) \in Nat
        /\ SumFunctionOnSet(total, S) <= Cardinality(Counted)
        /\ S = rows => SumFunctionOnSet(total, S) = Cardinality(Counted)
      BY <1>4, <1>6, <2>1, <2>3, <2>6, SumOfSome
  <2>8. /\ SumFunctionOnSet(reviewed, S) \in Nat
        /\ SumFunctionOnSet(reviewed, S) <= Cardinality(Judged(Counted))
        /\ S = rows => SumFunctionOnSet(reviewed, S) = Cardinality(Judged(Counted))
      BY <1>4, <1>6, <2>2, <2>3, <2>6, SumOfSome
  <2>. QED  BY <2>4, <2>5, <2>7, <2>8
<1>. QED  BY <1>3, <1>4, <1>7

\* Every review is counted under some reason.
LEMMA ReasonsCover ==
  ASSUME ReportTypeOK
  PROVE  /\ IsFiniteSet(BreakdownOfReasons)
         /\ Cardinality(Judged(Counted)) <= ReviewedOf(BreakdownOfReasons)
         /\ ReviewedOf(BreakdownOfReasons) \in Nat
<1>. DEFINE citing(c) == {a \in Judged(Counted) : c \in Reasons(a)}
            cited == UNION {Reasons(a) : a \in Judged(Counted)}
            rows == BreakdownOfReasons
            reviewed == [r \in rows |-> r.reviewed]
            C == [r \in rows |-> Judged(citing(r.key))]
<1>1. rows = {Row(c, citing(c)) : c \in cited}
    BY DEF BreakdownOfReasons
<1>2. \A c : citing(c) \in SUBSET Alerts /\ citing(c) \in SUBSET Judged(Counted)
    BY CountedTyped
<1>3. \A a \in Judged(Counted) : a \in Alerts /\ verdict[a] # None
    BY CountedTyped DEF Judged
<1>4. ASSUME NEW r \in rows
      PROVE  C[r] \in SUBSET Judged(Counted) /\ reviewed[r] = Cardinality(C[r])
  <2>1. PICK c \in cited : r = Row(c, citing(c))
      BY <1>1
  <2>2. r.key = c /\ r.reviewed = Cardinality(Judged(citing(c)))
    <3>. HIDE DEF citing
    <3>. QED  BY <1>2, <2>1, RowAdds
  <2>3. Judged(citing(c)) \subseteq citing(c)
      BY DEF Judged
  <2>. QED  BY <2>2, <2>3
<1>5. IsFiniteSet(rows)
  <2>1. cited \in SUBSET (Cited \cup {NoReason})
      BY <1>3, VerdictTyped DEF Reasons
  <2>2. IsFiniteSet(cited)
    <3>. HIDE DEF cited
    <3>. QED  BY <2>1, CodesFinite, FS_Subset
  <2>. DEFINE g == [c \in cited |-> Row(c, citing(c))]
  <2>3. IsFiniteSet({g[c] : c \in cited})
    <3>. HIDE DEF cited
    <3>. QED  BY <2>2, Values
  <2>4. {g[c] : c \in cited} = rows
    <3>. HIDE DEF cited
    <3>. QED  BY <1>1
  <2>. QED  BY <2>3, <2>4
<1>6. ASSUME NEW a \in Judged(Counted) PROVE \E r \in rows : a \in C[r]
  <2>1. PICK c \in Reasons(a) : TRUE
    <3>1. Reasons(a) # {}
        BY DEF Reasons
    <3>. QED  BY <3>1
  <2>2. c \in cited /\ Row(c, citing(c)) \in rows
    <3>1. c \in cited
        OBVIOUS
    <3>. HIDE DEF cited, citing
    <3>. QED  BY <1>1, <3>1
  <2>3. Row(c, citing(c)).key = c
      BY DEF Row
  <2>4. a \in Judged(citing(c))
      BY <1>3 DEF Judged
  <2>. HIDE DEF citing, rows, cited
  <2>. QED  BY <2>2, <2>3, <2>4
<1>7. UNION {C[r] : r \in rows} = Judged(Counted)
  <2>. HIDE DEF C, rows
  <2>. QED  BY <1>4, <1>6
<1>8. Sizes(reviewed, C, rows, Judged(Counted))
  <2>. HIDE DEF C, rows, reviewed
  <2>. QED  BY <1>4 DEF Sizes
<1>9. /\ Cardinality(UNION {C[r] : r \in rows}) <= SumFunctionOnSet(reviewed, rows)
      /\ SumFunctionOnSet(reviewed, rows) \in Nat
  <2>1. IsFiniteSet(Judged(Counted))
      BY CountedTyped
  <2>. HIDE DEF C, rows, reviewed
  <2>. QED  BY <1>5, <1>8, <2>1, SumOfSizes
<1>10. ReviewedOf(rows) = SumFunctionOnSet(reviewed, rows)
    BY DEF ReviewedOf, SumFunction
<1>. QED  BY <1>5, <1>7, <1>9, <1>10

\* Every waiting alert is counted for its collector.
LEMMA WaitingAdds ==
  ASSUME ReportTypeOK
  PROVE  /\ IsFiniteSet(WaitingByCollector)
         /\ \A S \in SUBSET WaitingByCollector :
              LET sum == SumFunction([r \in S |-> r.unreviewed])
              IN  /\ sum \in Nat /\ sum <= Cardinality(Waiting)
                  /\ S = WaitingByCollector => sum = Cardinality(Waiting)
<1>. DEFINE Of(k) == {a \in Waiting : CollectorOf[a] = k}
            row(k) == [key |-> k, unreviewed |-> Cardinality(Of(k))]
            keys == {CollectorOf[a] : a \in Waiting}
            rows == WaitingByCollector
            C == [r \in rows |-> Of(r.key)]
<1>1. rows = {row(k) : k \in keys}
    BY DEF WaitingByCollector
<1>2. IsFiniteSet(Waiting)
    BY CountedTyped
<1>3. ASSUME NEW r \in rows
      PROVE  /\ r = row(r.key) /\ C[r] \in SUBSET Waiting /\ r.unreviewed = Cardinality(C[r])
  <2>1. PICK k \in keys : r = row(k)
      BY <1>1
  <2>. QED  BY <2>1
<1>4. IsFiniteSet(rows)
  <2>1. IsFiniteSet(keys)
    <3>. DEFINE g == [a \in Waiting |-> CollectorOf[a]]
    <3>1. IsFiniteSet({g[a] : a \in Waiting})
        BY <1>2, Values
    <3>2. {g[a] : a \in Waiting} = keys
        OBVIOUS
    <3>. QED  BY <3>1, <3>2
  <2>. DEFINE g == [k \in keys |-> row(k)]
  <2>2. IsFiniteSet({g[k] : k \in keys})
    <3>. HIDE DEF keys, row
    <3>. QED  BY <2>1, Values
  <2>3. {g[k] : k \in keys} = rows
    <3>. HIDE DEF keys
    <3>. QED  BY <1>1
  <2>. QED  BY <2>2, <2>3
<1>5. Apart(C, rows)
  <2>1. ASSUME NEW r \in rows, NEW q \in rows, NEW a, a \in C[r], a \in C[q] PROVE r = q
    <3>1. CollectorOf[a] = r.key /\ CollectorOf[a] = q.key
        BY <2>1
    <3>2. r = row(r.key) /\ q = row(q.key)
        BY <1>3
    <3>. QED  BY <3>1, <3>2
  <2>. HIDE DEF C, rows
  <2>. QED  BY <2>1 DEF Apart
<1>6. UNION {C[r] : r \in rows} = Waiting
  <2>1. ASSUME NEW a \in Waiting PROVE \E r \in rows : a \in C[r]
    <3>1. row(CollectorOf[a]) \in rows /\ row(CollectorOf[a]).key = CollectorOf[a]
        BY <1>1
    <3>. QED  BY <3>1
  <2>2. \A r \in rows : C[r] \subseteq Waiting
      BY <1>3
  <2>. HIDE DEF C, rows
  <2>. QED  BY <2>1, <2>2
<1>7. ASSUME NEW S \in SUBSET rows
      PROVE  LET sum == SumFunction([r \in S |-> r.unreviewed])
             IN  /\ sum \in Nat /\ sum <= Cardinality(Waiting)
                 /\ S = rows => sum = Cardinality(Waiting)
  <2>. DEFINE f == [r \in S |-> r.unreviewed]
  <2>1. Sizes(f, C, S, Waiting)
      BY <1>3 DEF Sizes
  <2>2. SumFunction(f) = SumFunctionOnSet(f, S)
      BY DEF SumFunction
  <2>. HIDE DEF C, rows
  <2>3. /\ SumFunctionOnSet(f, S) \in Nat /\ SumFunctionOnSet(f, S) <= Cardinality(Waiting)
        /\ S = rows => SumFunctionOnSet(f, S) = Cardinality(Waiting)
    <3>. HIDE DEF f
    <3>. QED  BY <1>2, <1>4, <1>5, <1>6, <2>1, SumOfSome
  <2>. QED  BY <2>2, <2>3
<1>. QED  BY <1>4, <1>7

\* Every counted alert has one card.
LEMMA CardsAdd ==
  ASSUME ReportTypeOK
  PROVE  /\ IsFiniteSet(Cards) /\ Cardinality(Cards) = Cardinality(Counted)
         /\ Cardinality({c \in Cards : c.outcome # "UNREVIEWED"}) = Cardinality(Judged(Counted))
         /\ \A S \in SUBSET Cards :
              LET some == {c \in S : c.outcome # "UNREVIEWED"}
              IN  /\ Cardinality(S) \in Nat /\ Cardinality(S) <= Cardinality(Counted)
                  /\ Cardinality(some) \in Nat
                  /\ Cardinality(some) <= Cardinality(Judged(Counted))
         /\ \A c \in Cards : c.alert \in Counted
<1>. DEFINE card == [a \in Counted |->
                       [alert |-> a,
                        outcome |-> IF verdict[a] = None THEN "UNREVIEWED" ELSE verdict[a].outcome]]
<1>1. Cards = {card[a] : a \in Counted} /\ \A c \in Cards : c.alert \in Counted
    BY DEF Cards
<1>2. \A a, b \in Counted : card[a] = card[b] => a = b
  <2>1. \A a \in Counted : card[a].alert = a
      OBVIOUS
  <2>. HIDE DEF card
  <2>. QED  BY <2>1
<1>3. {c \in Cards : c.outcome # "UNREVIEWED"} = {card[a] : a \in Judged(Counted)}
  <2>1. \A a \in Counted : card[a].outcome # "UNREVIEWED" <=> a \in Judged(Counted)
      BY CountedTyped, VerdictTyped DEF Judged
  <2>2. Judged(Counted) \subseteq Counted
      BY DEF Judged
  <2>. HIDE DEF card
  <2>. QED  BY <1>1, <2>1, <2>2
<1>4. Judged(Counted) \subseteq Counted /\ DOMAIN card = Counted
    BY DEF Judged
<1>5. /\ IsFiniteSet({card[a] : a \in Counted})
      /\ Cardinality({card[a] : a \in Counted}) = Cardinality(Counted)
  <2>. HIDE DEF card
  <2>. QED  BY <1>2, <1>4, CountedTyped, Values
<1>6. Cardinality({card[a] : a \in Judged(Counted)}) = Cardinality(Judged(Counted))
  <2>1. \A a, b \in Judged(Counted) : card[a] = card[b] => a = b
      BY <1>2, <1>4
  <2>. HIDE DEF card
  <2>. QED  BY <2>1, <1>4, CountedTyped, Values
<1>7. ASSUME NEW S \in SUBSET Cards
      PROVE  LET some == {c \in S : c.outcome # "UNREVIEWED"}
             IN  /\ Cardinality(S) \in Nat /\ Cardinality(S) <= Cardinality(Counted)
                 /\ Cardinality(some) \in Nat
                 /\ Cardinality(some) <= Cardinality(Judged(Counted))
  <2>. DEFINE all == {c \in Cards : c.outcome # "UNREVIEWED"}
              some == {c \in S : c.outcome # "UNREVIEWED"}
  <2>1. IsFiniteSet(Cards) /\ all \in SUBSET Cards /\ some \in SUBSET all
      BY <1>1, <1>5
  <2>2. Cardinality(all) = Cardinality(Judged(Counted))
      BY <1>3, <1>6
  <2>3. /\ IsFiniteSet(all) /\ IsFiniteSet(S)
        /\ Cardinality(S) <= Cardinality(Cards)
    <3>. HIDE DEF all
    <3>. QED  BY <2>1, FS_Subset
  <2>4. IsFiniteSet(some) /\ Cardinality(some) <= Cardinality(all)
    <3>. HIDE DEF all, some
    <3>. QED  BY <2>1, <2>3, FS_Subset
  <2>5. Cardinality(S) \in Nat /\ Cardinality(some) \in Nat
      BY <2>3, <2>4, FS_CardinalityType
  <2>. QED  BY <1>1, <1>5, <2>2, <2>3, <2>4, <2>5
<1>. QED  BY <1>1, <1>3, <1>5, <1>6, <1>7

\* What a statement returns is some of what it selects, and all of it unless it
\* has reached its limit.
LEMMA ReturnedIsSome ==
  ASSUME ReportTypeOK, NEW s, NEW v \in Returned(s)
  PROVE  /\ s \notin Lists => v = Answer(s)
         /\ s \in Lists => v \in SUBSET Answer(s)
         /\ s \in Lists /\ Cardinality(v) < limit[s] => v = Answer(s)
<1>1. CASE s \notin Lists
    BY <1>1 DEF Returned
<1>2. CASE s \in Lists
  <2>1. v \in Cut(Answer(s), limit[s], Rank(s))
      BY <1>2 DEF Returned
  <2>2. /\ v \in SUBSET Answer(s)
        /\ Cardinality(v) = IF Cardinality(Answer(s)) <= limit[s] THEN Cardinality(Answer(s))
                            ELSE limit[s]
      BY <2>1 DEF Cut
  <2>3. IsFiniteSet(Answer(s))
    <3>1. /\ Answer("confidence") = Breakdown(BucketOf)
          /\ Answer("collector") = Breakdown(CollectorOf) /\ Answer("alert_type") = Breakdown(KindOf)
          /\ Answer("reason_code") = BreakdownOfReasons
          /\ Answer("most_unreviewed") = WaitingByCollector
          /\ Answer("oldest_unreviewed") = Waiting /\ Answer("cards") = Cards
        BY DEF Answer, ByConfidence, ByCollector
    <3>2. IsFiniteSet(Answer("confidence")) /\ IsFiniteSet(Answer("collector"))
          /\ IsFiniteSet(Answer("alert_type"))
        BY <3>1, BreakdownAdds
    <3>3. IsFiniteSet(Answer("reason_code")) /\ IsFiniteSet(Answer("most_unreviewed"))
          /\ IsFiniteSet(Answer("oldest_unreviewed")) /\ IsFiniteSet(Answer("cards"))
        BY <3>1, ReasonsCover, WaitingAdds, CountedTyped, CardsAdd
    <3>. QED  BY <1>2, <3>2, <3>3 DEF Lists
  <2>4. limit[s] \in Nat
      BY <1>2 DEF ReportTypeOK
  <2>5. Cardinality(v) < limit[s] => Cardinality(Answer(s)) = Cardinality(v)
    <3>1. CASE Cardinality(Answer(s)) <= limit[s]
        BY <2>2, <3>1
    <3>2. CASE ~(Cardinality(Answer(s)) <= limit[s])
        BY <2>2, <2>4, <3>2
    <3>. QED  BY <3>1, <3>2
  <2>6. Cardinality(v) < limit[s] => v = Answer(s)
      BY <2>2, <2>3, <2>5, FS_Subset
  <2>. QED  BY <1>2, <2>2, <2>6
<1>. QED  BY <1>1, <1>2
-----------------------------------------------------------------------------
(* Reports: the order of the statements.                                    *)

\* The statements of a report when none is left out.
AllStatements ==
  CASE kind = "metrics" -> MetricsStatements
    [] kind = "board" -> BoardStatements
    [] kind = "signal" -> <<"total", "reviewed", "outcomes", "all_events", "span",
                            "new_products", "changed_products">>
    [] kind = "detail" -> <<"event", "review", "history">>

Done == Cardinality(DOMAIN figures)

AskedInOrder ==
  /\ IsFiniteSet(DOMAIN figures) /\ Done \in 0..Len(AllStatements)
  /\ DOMAIN figures = {AllStatements[i] : i \in 1..Done}

LEMMA StatementsDiffer ==
  ASSUME ReportTypeOK
  PROVE  /\ Len(AllStatements) \in Nat
         /\ \A i, j \in 1..Len(AllStatements) : AllStatements[i] = AllStatements[j] => i = j
<1>1. CASE kind = "metrics"
  <2>1. AllStatements = MetricsStatements
      BY <1>1 DEF AllStatements
  <2>. QED  BY <2>1 DEF MetricsStatements
<1>2. CASE kind = "board"
  <2>1. AllStatements = BoardStatements
      BY <1>2 DEF AllStatements
  <2>. QED  BY <2>1 DEF BoardStatements
<1>3. CASE kind = "signal"
    BY <1>3 DEF AllStatements
<1>4. CASE kind = "detail"
    BY <1>4 DEF AllStatements
<1>. QED  BY <1>1, <1>2, <1>3, <1>4 DEF ReportTypeOK

LEMMA StatementsBegin ==
  ASSUME ReportTypeOK
  PROVE  /\ Len(Statements) \in Nat /\ DOMAIN Statements = 1..Len(Statements)
         /\ Len(Statements) <= Len(AllStatements)
         /\ \A i \in 1..Len(Statements) : Statements[i] = AllStatements[i]
<1>1. CASE kind = "metrics"
    BY <1>1 DEF Statements, AllStatements, MetricsStatements
<1>2. CASE kind = "board"
    BY <1>2 DEF Statements, AllStatements, BoardStatements
<1>3. CASE kind = "signal"
    BY <1>3 DEF Statements, AllStatements, SignalStatements
<1>4. CASE kind = "detail"
    BY <1>4 DEF Statements, AllStatements, DetailStatements
<1>. QED  BY <1>1, <1>2, <1>3, <1>4 DEF ReportTypeOK

\* What a later statement is compared with has been asked before it.
LEMMA KnownBefore ==
  ASSUME ReportTypeOK, AskedInOrder
  PROVE  /\ Known("reason_code") => Known("alert_type")
         /\ Known("all_events") => Known("total")
         /\ Known("change_types") => Known("cards")
         /\ Known("history") => Known("review")
         /\ Known("changed_products") => Known("new_products") /\ Known("all_events")
<1>1. CASE kind = "metrics"
    BY <1>1 DEF AskedInOrder, AllStatements, MetricsStatements, Known
<1>2. CASE kind = "board"
    BY <1>2 DEF AskedInOrder, AllStatements, BoardStatements, Known
<1>3. CASE kind = "signal"
    BY <1>3 DEF AskedInOrder, AllStatements, Known
<1>4. CASE kind = "detail"
    BY <1>4 DEF AskedInOrder, AllStatements, Known
<1>. QED  BY <1>1, <1>2, <1>3, <1>4 DEF ReportTypeOK

\* What a step that asks does.
LEMMA AskSteps ==
  ASSUME ReportTypeOK, AskedInOrder, Ask
  PROVE  /\ Done + 1 \in 1..Len(AllStatements) /\ AllStatements' = AllStatements
         /\ AllStatements[Done + 1] \notin DOMAIN figures
         /\ DOMAIN figures' = DOMAIN figures \cup {AllStatements[Done + 1]}
         /\ figures'[AllStatements[Done + 1]] \in Returned(AllStatements[Done + 1])
         /\ \A t \in DOMAIN figures : figures'[t] = figures[t]
         /\ AskedInOrder' /\ Done' = Done + 1
         /\ UNCHANGED <<filed, first, window, verdict, past, kind, subject, limit, commits>>
<1>. DEFINE s == AllStatements[Done + 1]
<1>1. UNCHANGED <<filed, first, window, verdict, past, kind, subject, limit, commits>>
    BY DEF Ask, alertVars
<1>2. AllStatements' = AllStatements
    BY <1>1 DEF AllStatements
<1>3. Done + 1 \in 1..Len(AllStatements) /\ Done + 1 \in 1..Len(Statements) /\ Done \in Nat
    BY StatementsBegin, StatementsDiffer DEF Ask, Done, AskedInOrder
<1>4. Statements[Done + 1] = s
    BY <1>3, StatementsBegin
<1>5. PICK v \in Returned(s) :
        figures' = [t \in DOMAIN figures \cup {s} |-> IF t = s THEN v ELSE figures[t]]
    BY <1>4 DEF Ask, Done
<1>6. s \notin DOMAIN figures
  <2>1. \A i \in 1..Done : AllStatements[i] # s
      BY <1>3, StatementsDiffer
  <2>. QED  BY <2>1 DEF AskedInOrder
<1>7. /\ DOMAIN figures' = DOMAIN figures \cup {s} /\ figures'[s] \in Returned(s)
      /\ \A t \in DOMAIN figures : figures'[t] = figures[t]
    BY <1>5, <1>6
<1>8. IsFiniteSet(DOMAIN figures') /\ Done' = Done + 1
  <2>1. DOMAIN figures' = DOMAIN figures \cup {s}
      BY <1>7
  <2>2. IsFiniteSet(DOMAIN figures)
      BY DEF AskedInOrder
  <2>. HIDE DEF s
  <2>. QED  BY <1>6, <2>1, <2>2, FS_AddElement DEF Done
<1>9. DOMAIN figures' = {AllStatements[i] : i \in 1..(Done + 1)}
  <2>1. 1..(Done + 1) = 1..Done \cup {Done + 1}
      BY <1>3
  <2>. QED  BY <1>7, <2>1 DEF AskedInOrder
<1>10. AskedInOrder'
  <2>1. Done' \in 0..Len(AllStatements')
      BY <1>2, <1>3, <1>8, StatementsDiffer
  <2>2. DOMAIN figures' = {AllStatements'[i] : i \in 1..Done'}
      BY <1>2, <1>8, <1>9
  <2>. QED  BY <1>8, <2>1, <2>2 DEF AskedInOrder
<1>. QED  BY <1>1, <1>2, <1>3, <1>6, <1>7, <1>8, <1>10
-----------------------------------------------------------------------------
(* Reports: what its figures amount to.                                     *)

\* Of a statement that returned v: its alerts, its reviews.
AlertsOfAnswer(s, v) ==
  CASE s \in {"total", "events"} -> v
    [] s \in {"confidence", "collector", "alert_type"} -> TotalsOf(v)
    [] s = "cards" -> Cardinality(v)

ReviewsOfAnswer(s, v) ==
  CASE s = "reviewed" -> v
    [] s = "outcomes" -> SumOf(v)
    [] s \in {"confidence", "collector", "alert_type"} -> ReviewedOf(v)
    [] s = "cards" -> Cardinality({c \in v : c.outcome # "UNREVIEWED"})

LEMMA AmountsOf ==
  /\ \A s \in Counting : AlertsIn(s) = AlertsOfAnswer(s, figures[s])
  /\ \A s \in Judging : ReviewsIn(s) = ReviewsOfAnswer(s, figures[s])
BY DEF AlertsIn, ReviewsIn, AlertsOfAnswer, ReviewsOfAnswer, Counting, Judging

\* Every statement that counts alerts counts each of them at most once, whatever it
\* groups them by, and once when it returns all that it selects; every one that
\* counts reviews does so with each review.
LEMMA AnswersAdd ==
  ASSUME ReportTypeOK
  PROVE  /\ \A s \in Counting : \A v \in Returned(s) :
              /\ AlertsOfAnswer(s, v) \in Nat /\ AlertsOfAnswer(s, v) <= Cardinality(Counted)
              /\ v = Answer(s) => AlertsOfAnswer(s, v) = Cardinality(Counted)
         /\ \A s \in Judging : \A v \in Returned(s) :
              /\ ReviewsOfAnswer(s, v) \in Nat
              /\ ReviewsOfAnswer(s, v) <= Cardinality(Judged(Counted))
              /\ v = Answer(s) => ReviewsOfAnswer(s, v) = Cardinality(Judged(Counted))
<1>1. /\ Answer("total") = Cardinality(Counted) /\ Answer("events") = Cardinality(Counted)
      /\ Answer("reviewed") = Cardinality(Judged(Counted))
      /\ Answer("outcomes") = Tally(Counted)
      /\ Answer("confidence") = Breakdown(BucketOf) /\ Answer("collector") = Breakdown(CollectorOf)
      /\ Answer("alert_type") = Breakdown(KindOf) /\ Answer("cards") = Cards
    BY DEF Answer, ByConfidence, ByCollector
<1>2. ASSUME NEW s \in {"confidence", "collector", "alert_type"}, NEW v \in Returned(s)
      PROVE  /\ TotalsOf(v) \in Nat /\ TotalsOf(v) <= Cardinality(Counted)
             /\ v = Answer(s) => TotalsOf(v) = Cardinality(Counted)
             /\ ReviewedOf(v) \in Nat /\ ReviewedOf(v) <= Cardinality(Judged(Counted))
             /\ v = Answer(s) => ReviewedOf(v) = Cardinality(Judged(Counted))
  <2>1. v \in SUBSET Answer(s)
      BY ReturnedIsSome DEF Lists
  <2>2. PICK keyOf : Answer(s) = Breakdown(keyOf)
      BY <1>1
  <2>. QED  BY <2>1, <2>2, BreakdownAdds
<1>3. SumOf(Tally(Counted)) = Cardinality(Judged(Counted))
    BY CountedTyped, TallyAdds
<1>4. Cardinality(Counted) \in Nat /\ Cardinality(Judged(Counted)) \in Nat
    BY CountedTyped
<1>5. ASSUME NEW v \in Returned("cards")
      PROVE  LET some == {c \in v : c.outcome # "UNREVIEWED"}
             IN  /\ Cardinality(v) \in Nat /\ Cardinality(v) <= Cardinality(Counted)
                 /\ v = Answer("cards") => Cardinality(v) = Cardinality(Counted)
                 /\ Cardinality(some) \in Nat /\ Cardinality(some) <= Cardinality(Judged(Counted))
                 /\ v = Answer("cards") => Cardinality(some) = Cardinality(Judged(Counted))
  <2>1. v \in SUBSET Cards
      BY <1>1, ReturnedIsSome DEF Lists
  <2>. QED  BY <1>1, <2>1, CardsAdd
<1>6. \A s \in {"total", "events", "reviewed", "outcomes"} : \A v \in Returned(s) : v = Answer(s)
    BY ReturnedIsSome DEF Lists
<1>7. ASSUME NEW s \in Counting, NEW v \in Returned(s)
      PROVE  /\ AlertsOfAnswer(s, v) \in Nat /\ AlertsOfAnswer(s, v) <= Cardinality(Counted)
             /\ v = Answer(s) => AlertsOfAnswer(s, v) = Cardinality(Counted)
  <2>1. CASE s \in {"total", "events"}
    <3>1. v = Cardinality(Counted) /\ AlertsOfAnswer(s, v) = v
        BY <1>1, <1>6, <2>1 DEF AlertsOfAnswer
    <3>. QED  BY <1>4, <3>1
  <2>2. CASE s \in {"confidence", "collector", "alert_type"}
    <3>1. AlertsOfAnswer(s, v) = TotalsOf(v)
        BY <2>2 DEF AlertsOfAnswer
    <3>. QED  BY <1>2, <2>2, <3>1
  <2>3. CASE s = "cards"
    <3>1. AlertsOfAnswer(s, v) = Cardinality(v)
        BY <2>3 DEF AlertsOfAnswer
    <3>. QED  BY <1>5, <2>3, <3>1
  <2>. QED  BY <2>1, <2>2, <2>3 DEF Counting
<1>8. ASSUME NEW s \in Judging, NEW v \in Returned(s)
      PROVE  /\ ReviewsOfAnswer(s, v) \in Nat
             /\ ReviewsOfAnswer(s, v) <= Cardinality(Judged(Counted))
             /\ v = Answer(s) => ReviewsOfAnswer(s, v) = Cardinality(Judged(Counted))
  <2>1. CASE s \in {"reviewed", "outcomes"}
    <3>1. v = Answer(s)
        BY <1>6, <2>1
    <3>2. ReviewsOfAnswer(s, v) = Cardinality(Judged(Counted))
        BY <1>1, <1>3, <2>1, <3>1 DEF ReviewsOfAnswer
    <3>. QED  BY <1>4, <3>2
  <2>2. CASE s \in {"confidence", "collector", "alert_type"}
    <3>1. ReviewsOfAnswer(s, v) = ReviewedOf(v)
        BY <2>2 DEF ReviewsOfAnswer
    <3>. QED  BY <1>2, <2>2, <3>1
  <2>3. CASE s = "cards"
    <3>1. ReviewsOfAnswer(s, v) = Cardinality({c \in v : c.outcome # "UNREVIEWED"})
        BY <2>3 DEF ReviewsOfAnswer
    <3>. QED  BY <1>5, <2>3, <3>1
  <2>. QED  BY <2>1, <2>2, <2>3 DEF Judging
<1>. QED  BY <1>7, <1>8

Earlier(s, t) ==
  \E i, j \in 1..Len(AllStatements) : i < j /\ AllStatements[i] = s /\ AllStatements[j] = t

\* No figure is ahead of the database, nor of a figure asked later, unless that is
\* of a list that has reached its limit.
AlertsInOrder ==
  /\ \A s \in Counting \cap DOMAIN figures :
       AlertsIn(s) \in Nat /\ AlertsIn(s) <= Cardinality(Counted)
  /\ \A s, t \in Counting \cap DOMAIN figures : Earlier(s, t) /\ Whole(t) => AlertsIn(s) <= AlertsIn(t)

ReviewsInOrder ==
  /\ \A s \in Judging \cap DOMAIN figures :
       ReviewsIn(s) \in Nat /\ ReviewsIn(s) <= Cardinality(Judged(Counted))
  /\ \A s, t \in Judging \cap DOMAIN figures : Earlier(s, t) /\ Whole(t) => ReviewsIn(s) <= ReviewsIn(t)

\* A report that nothing has overtaken is of the present state.
QuietIsPresent == commits = 0 => \A s \in DOMAIN figures : figures[s] \in Returned(s)

RowsAdd ==
  \A s \in {"confidence", "collector", "alert_type"} \cap DOMAIN figures : \A r \in figures[s] :
    SumOf(r.outcomes) = r.reviewed /\ r.reviewed <= r.total

CardsAreKnown ==
  /\ Known("cards") => \A c \in figures["cards"] : c.alert \in Counted
  /\ Known("change_types") =>
       \A c \in figures["cards"] : KindOf[c.alert] \in figures["change_types"]

TotalsAreKnown ==
  /\ Known("all_events") => figures["total"] <= figures["all_events"]
  /\ Known("reason_code") /\ Whole("reason_code") =>
       ReviewsIn("alert_type") <= ReviewedOf(figures["reason_code"])

\* The history of an alert ends with its review, and so holds any review that
\* was ever shown.
VerdictIsLast ==
  \A a \in Alerts : IF verdict[a] = None THEN past[a] = <<>>
                    ELSE Len(past[a]) > 0 /\ past[a][Len(past[a])] = verdict[a]

ShownIsPast ==
  /\ Known("review") => \/ figures["review"] = None
                        \/ \E i \in DOMAIN past[subject] : past[subject][i] = figures["review"]
  /\ Known("history") =>
       \/ figures["review"] = None
       \/ \E i \in DOMAIN figures["history"] : figures["history"][i] = figures["review"]

ReportInv ==
  /\ ReportTypeOK /\ AskedInOrder /\ AlertsInOrder /\ ReviewsInOrder /\ QuietIsPresent
  /\ RowsAdd /\ CardsAreKnown /\ TotalsAreKnown /\ VerdictIsLast /\ ShownIsPast
-----------------------------------------------------------------------------
LEMMA ReportInitInv == ReportInit => ReportInv
<1>. SUFFICES ASSUME ReportInit PROVE ReportInv
    OBVIOUS
<1>1. DOMAIN figures = {}
    BY DEF ReportInit
<1>2. ReportTypeOK
  <2>1. past \in [Alerts -> Seq(Verdicts)]
      BY DEF ReportInit
  <2>. QED  BY <2>1, ReportAssumption DEF ReportInit, ReportTypeOK
<1>3. AskedInOrder
  <2>1. IsFiniteSet(DOMAIN figures) /\ Done = 0
      BY <1>1, FS_EmptySet DEF Done
  <2>. QED  BY <1>1, <1>2, <2>1, StatementsDiffer DEF AskedInOrder
<1>5. AlertsInOrder /\ ReviewsInOrder
    BY <1>1 DEF AlertsInOrder, ReviewsInOrder
<1>6. VerdictIsLast
    BY DEF ReportInit, VerdictIsLast
<1>. QED  BY <1>1, <1>2, <1>3, <1>5, <1>6
          DEF ReportInv, QuietIsPresent, RowsAdd, CardsAreKnown, TotalsAreKnown, ShownIsPast, Known

\* A commit leaves the figures alone and takes nothing away.
LEMMA CommitKeeps ==
  ASSUME ReportInv, NEW a \in Alerts, File(a) \/ \E r \in Verdicts : Judge(a, r)
  PROVE  /\ UNCHANGED <<figures, kind, subject, limit>> /\ ReportTypeOK' /\ commits' # 0
         /\ Counted \subseteq Counted' /\ Judged(Counted) \subseteq Judged(Counted)'
         /\ VerdictIsLast'
         /\ \A b \in Alerts : /\ Len(past[b]) <= Len(past'[b])
                              /\ \A i \in 1..Len(past[b]) : past'[b][i] = past[b][i]
<1>1. CASE File(a)
    BY <1>1 DEF ReportInv, ReportTypeOK, File, Commit, Counted, Asked, Judged, VerdictIsLast
<1>2. ASSUME NEW r \in Verdicts, Judge(a, r)
      PROVE  /\ UNCHANGED <<figures, kind, subject, limit>> /\ ReportTypeOK' /\ commits' # 0
             /\ Counted \subseteq Counted' /\ Judged(Counted) \subseteq Judged(Counted)'
             /\ VerdictIsLast'
             /\ \A b \in Alerts : /\ Len(past[b]) <= Len(past'[b])
                                  /\ \A i \in 1..Len(past[b]) : past'[b][i] = past[b][i]
  <2>1. UNCHANGED <<filed, first, window, kind, subject, limit, figures>> /\ commits' = commits + 1
      BY <1>2 DEF Judge, Commit
  <2>2. r # None
      BY NoneAssumption, ReportAssumption
  <2>3. /\ verdict'[a] = r /\ past'[a] = Append(past[a], r)
        /\ \A b \in Alerts : b # a => verdict'[b] = verdict[b] /\ past'[b] = past[b]
        /\ verdict' \in [Alerts -> Verdicts \cup {None}] /\ past' \in [Alerts -> Seq(Verdicts)]
      BY <1>2 DEF Judge, ReportInv, ReportTypeOK
  <2>4. \A b \in Alerts : past[b] \in Seq(Verdicts)
      BY DEF ReportInv, ReportTypeOK
  <2>5. ReportTypeOK' /\ commits' # 0
      BY <2>1, <2>3 DEF ReportInv, ReportTypeOK
  <2>6. Counted' = Counted /\ Judged(Counted) \subseteq Judged(Counted)'
    <3>1. Counted' = Counted
        BY <2>1 DEF Counted, Asked
    <3>2. \A b \in Counted : verdict[b] # None => verdict'[b] # None
        BY <2>2, <2>3 DEF ReportInv, ReportTypeOK, Counted, Asked
    <3>. QED  BY <3>1, <3>2 DEF Judged
  <2>7. /\ Len(past'[a]) = Len(past[a]) + 1 /\ past'[a][Len(past'[a])] = r
        /\ \A i \in 1..Len(past[a]) : past'[a][i] = past[a][i]
      BY <2>3, <2>4
  <2>8. VerdictIsLast'
    <3>1. ASSUME NEW b \in Alerts
          PROVE  IF verdict'[b] = None THEN past'[b] = <<>>
                 ELSE Len(past'[b]) > 0 /\ past'[b][Len(past'[b])] = verdict'[b]
      <4>1. CASE b = a
          BY <2>2, <2>3, <2>4, <2>7, <4>1
      <4>2. CASE b # a
          BY <2>3, <4>2 DEF ReportInv, VerdictIsLast
      <4>. QED  BY <4>1, <4>2
    <3>. QED  BY <3>1 DEF VerdictIsLast
  <2>9. \A b \in Alerts : /\ Len(past[b]) <= Len(past'[b])
                          /\ \A i \in 1..Len(past[b]) : past'[b][i] = past[b][i]
    <3>1. \A b \in Alerts : Len(past[b]) \in Nat
        BY <2>4
    <3>2. Len(past[a]) <= Len(past'[a])
        BY <2>7, <3>1
    <3>3. \A b \in Alerts : b # a => past'[b] = past[b]
        BY <2>3
    <3>4. \A b \in Alerts : Len(past[b]) <= Len(past[b])
        BY <3>1
    <3>. QED  BY <2>7, <3>2, <3>3, <3>4, Zenon
  <2>. QED  BY <2>1, <2>5, <2>6, <2>8, <2>9
<1>. QED  BY <1>1, <1>2

LEMMA CommitInv ==
  ASSUME ReportInv, NEW a \in Alerts, File(a) \/ \E r \in Verdicts : Judge(a, r)
  PROVE  ReportInv'
<1>1. /\ UNCHANGED <<figures, kind, subject, limit>> /\ ReportTypeOK' /\ commits' # 0
      /\ Counted \subseteq Counted' /\ Judged(Counted) \subseteq Judged(Counted)'
      /\ VerdictIsLast'
      /\ \A b \in Alerts : /\ Len(past[b]) <= Len(past'[b])
                           /\ \A i \in 1..Len(past[b]) : past'[b][i] = past[b][i]
    BY CommitKeeps
<1>2. AllStatements' = AllStatements /\ Done' = Done
    BY <1>1 DEF AllStatements, Done
<1>3. AskedInOrder'
    BY <1>1, <1>2 DEF ReportInv, AskedInOrder
<1>4. /\ Cardinality(Counted) \in Nat /\ Cardinality(Counted)' \in Nat
      /\ Cardinality(Judged(Counted)) \in Nat /\ Cardinality(Judged(Counted))' \in Nat
      /\ Cardinality(Counted) <= Cardinality(Counted)'
      /\ Cardinality(Judged(Counted)) <= Cardinality(Judged(Counted))'
  <2>1. /\ IsFiniteSet(Counted)' /\ IsFiniteSet(Judged(Counted))'
        /\ Cardinality(Counted)' \in Nat /\ Cardinality(Judged(Counted))' \in Nat
    <3>1. Counted' \in SUBSET Alerts /\ Judged(Counted)' \in SUBSET Alerts
        BY <1>1 DEF ReportTypeOK, Counted, Asked, Judged
    <3>. QED  BY <3>1, FeedbackAssumption, FS_Subset, FS_CardinalityType
  <2>2. Cardinality(Counted) \in Nat /\ Cardinality(Judged(Counted)) \in Nat
      BY CountedTyped DEF ReportInv
  <2>3. /\ Cardinality(Counted) <= Cardinality(Counted')
        /\ Cardinality(Judged(Counted)) <= Cardinality(Judged(Counted)')
      BY <1>1, <2>1, FS_Subset
  <2>. QED  BY <2>1, <2>2, <2>3
<1>5. /\ \A s \in Counting : AlertsIn(s)' = AlertsIn(s)
      /\ \A s \in Judging : ReviewsIn(s)' = ReviewsIn(s)
    BY <1>1 DEF AlertsIn, ReviewsIn
<1>earlier. \A s, t : Earlier(s, t)' = Earlier(s, t)
    BY <1>2 DEF Earlier
<1>whole. \A s : Whole(s)' = Whole(s)
    BY <1>1 DEF Whole
<1>6. AlertsInOrder'
    BY <1>1, <1>2, <1>4, <1>5, <1>earlier, <1>whole DEF ReportInv, AlertsInOrder
<1>7. ReviewsInOrder'
    BY <1>1, <1>2, <1>4, <1>5, <1>earlier, <1>whole DEF ReportInv, ReviewsInOrder
<1>8. QuietIsPresent' /\ RowsAdd' /\ CardsAreKnown' /\ TotalsAreKnown'
    BY <1>1, <1>5, <1>whole
    DEF ReportInv, QuietIsPresent, RowsAdd, CardsAreKnown, TotalsAreKnown, Known, Judging
<1>9. ShownIsPast'
  <2>1. subject \in Alerts /\ past[subject] \in Seq(Verdicts) /\ past'[subject] \in Seq(Verdicts)
      BY <1>1 DEF ReportInv, ReportTypeOK
  <2>2. /\ \A i \in DOMAIN past[subject] : /\ i \in DOMAIN past'[subject]
                                           /\ past'[subject][i] = past[subject][i]
    <3>1. /\ DOMAIN past[subject] = 1..Len(past[subject]) /\ Len(past[subject]) \in Nat
          /\ DOMAIN past'[subject] = 1..Len(past'[subject]) /\ Len(past'[subject]) \in Nat
        BY <2>1
    <3>. QED  BY <1>1, <2>1, <3>1
  <2>. QED  BY <1>1, <2>2 DEF ReportInv, ShownIsPast, Known
<1>. QED  BY <1>1, <1>3, <1>6, <1>7, <1>8, <1>9 DEF ReportInv

LEMMA AskInv == ASSUME ReportInv, Ask PROVE ReportInv'
<1>. PICK s : s = AllStatements[Done + 1]
    OBVIOUS
<1>1. /\ Done + 1 \in 1..Len(AllStatements) /\ AllStatements' = AllStatements
      /\ s \notin DOMAIN figures /\ DOMAIN figures' = DOMAIN figures \cup {s}
      /\ figures'[s] \in Returned(s) /\ \A t \in DOMAIN figures : figures'[t] = figures[t]
      /\ AskedInOrder' /\ Done' = Done + 1
      /\ UNCHANGED <<filed, first, window, verdict, past, kind, subject, limit, commits>>
    BY AskSteps DEF ReportInv
<1>2. ReportTypeOK' /\ VerdictIsLast'
    BY <1>1 DEF ReportInv, ReportTypeOK, VerdictIsLast
<1>3. Done \in Nat /\ \A i \in 1..Done : AllStatements[i] \in DOMAIN figures
    BY DEF ReportInv, AskedInOrder
<1>4. Counted' = Counted /\ Judged(Counted)' = Judged(Counted)
    BY <1>1 DEF Counted, Asked, Judged
<1>5. Cardinality(Counted) \in Nat /\ Cardinality(Judged(Counted)) \in Nat
    BY CountedTyped DEF ReportInv
<1>. \A u, v : Earlier(u, v)' = Earlier(u, v)
    BY <1>1 DEF Earlier
<1>order. \A u \in DOMAIN figures' : ~Earlier(s, u)
  <2>1. /\ \A i, j \in 1..Len(AllStatements) : AllStatements[i] = AllStatements[j] => i = j
        /\ Len(AllStatements) \in Nat
      BY StatementsDiffer DEF ReportInv
  <2>2. \A u \in DOMAIN figures' : \E k \in 1..(Done + 1) : u = AllStatements[k]
      BY <1>1, <1>3 DEF ReportInv, AskedInOrder
  <2>. QED  BY <1>1, <1>3, <2>1, <2>2 DEF Earlier
<1>some. /\ s \notin Lists => figures'[s] = Answer(s)
         /\ s \in Lists => figures'[s] \in SUBSET Answer(s)
         /\ Whole(s)' => figures'[s] = Answer(s)
    BY <1>1, ReturnedIsSome DEF ReportInv, Whole
<1>whole. \A t \in DOMAIN figures : Whole(t)' = Whole(t)
    BY <1>1 DEF Whole
<1>6. AlertsInOrder'
  <2>1. \A t \in Counting \cap DOMAIN figures : AlertsIn(t)' = AlertsIn(t)
      BY <1>1 DEF AlertsIn, Counting
  <2>2. s \in Counting => /\ AlertsIn(s)' \in Nat /\ AlertsIn(s)' <= Cardinality(Counted)
                          /\ Whole(s)' => AlertsIn(s)' = Cardinality(Counted)
    <3>1. s \in Counting => AlertsIn(s)' = AlertsOfAnswer(s, figures'[s])
        BY DEF AlertsIn, AlertsOfAnswer, Counting
    <3>. QED  BY <1>1, <1>some, <3>1, AnswersAdd DEF ReportInv
  <2>3. ASSUME NEW t \in Counting \cap DOMAIN figures'
        PROVE  AlertsIn(t)' \in Nat /\ AlertsIn(t)' <= Cardinality(Counted')
    <3>1. CASE t = s
        BY <1>4, <1>5, <2>2, <3>1
    <3>2. CASE t # s
        BY <1>1, <1>4, <2>1, <3>2 DEF ReportInv, AlertsInOrder
    <3>. QED  BY <3>1, <3>2
  <2>4. ASSUME NEW u \in Counting \cap DOMAIN figures', NEW v \in Counting \cap DOMAIN figures',
               Earlier(u, v), Whole(v)'
        PROVE  AlertsIn(u)' <= AlertsIn(v)'
    <3>1. u # s /\ u \in DOMAIN figures
        BY <1>1, <1>order, <2>4
    <3>2. /\ AlertsIn(u)' = AlertsIn(u) /\ AlertsIn(u) \in Nat
          /\ AlertsIn(u) <= Cardinality(Counted)
        BY <2>1, <3>1 DEF ReportInv, AlertsInOrder
    <3>3. CASE v = s
        BY <1>5, <2>2, <2>4, <3>2, <3>3
    <3>4. CASE v # s
        BY <1>1, <1>whole, <2>1, <2>4, <3>1, <3>2, <3>4 DEF ReportInv, AlertsInOrder
    <3>. QED  BY <3>3, <3>4
  <2>. QED  BY <2>3, <2>4 DEF AlertsInOrder
<1>7. ReviewsInOrder' /\ \A t \in Judging \cap DOMAIN figures : ReviewsIn(t)' = ReviewsIn(t)
  <2>1. \A t \in Judging \cap DOMAIN figures : ReviewsIn(t)' = ReviewsIn(t)
      BY <1>1 DEF ReviewsIn, Judging
  <2>2. s \in Judging => /\ ReviewsIn(s)' \in Nat
                         /\ ReviewsIn(s)' <= Cardinality(Judged(Counted))
                         /\ Whole(s)' => ReviewsIn(s)' = Cardinality(Judged(Counted))
    <3>1. s \in Judging => ReviewsIn(s)' = ReviewsOfAnswer(s, figures'[s])
        BY DEF ReviewsIn, ReviewsOfAnswer, Judging
    <3>. QED  BY <1>1, <1>some, <3>1, AnswersAdd DEF ReportInv
  <2>3. ASSUME NEW t \in Judging \cap DOMAIN figures'
        PROVE  ReviewsIn(t)' \in Nat /\ ReviewsIn(t)' <= Cardinality(Judged(Counted)')
    <3>1. CASE t = s
        BY <1>4, <1>5, <2>2, <3>1
    <3>2. CASE t # s
        BY <1>1, <1>4, <2>1, <3>2 DEF ReportInv, ReviewsInOrder
    <3>. QED  BY <3>1, <3>2
  <2>4. ASSUME NEW u \in Judging \cap DOMAIN figures', NEW v \in Judging \cap DOMAIN figures',
               Earlier(u, v), Whole(v)'
        PROVE  ReviewsIn(u)' <= ReviewsIn(v)'
    <3>1. u # s /\ u \in DOMAIN figures
        BY <1>1, <1>order, <2>4
    <3>2. /\ ReviewsIn(u)' = ReviewsIn(u) /\ ReviewsIn(u) \in Nat
          /\ ReviewsIn(u) <= Cardinality(Judged(Counted))
        BY <2>1, <3>1 DEF ReportInv, ReviewsInOrder
    <3>3. CASE v = s
        BY <1>5, <2>2, <2>4, <3>2, <3>3
    <3>4. CASE v # s
        BY <1>1, <1>whole, <2>1, <2>4, <3>1, <3>2, <3>4 DEF ReportInv, ReviewsInOrder
    <3>. QED  BY <3>3, <3>4
  <2>. QED  BY <2>1, <2>3, <2>4 DEF ReviewsInOrder
<1>8. QuietIsPresent'
  <2>1. \A t : Answer(t)' = Answer(t)
    <3>1. Breakdown(KindOf)' = Breakdown(KindOf) /\ Tally(Counted)' = Tally(Counted)
        BY <1>1, <1>4 DEF Breakdown, Row, Tally, Judged
    <3>2. ByConfidence' = ByConfidence /\ ByCollector' = ByCollector
        BY <1>1, <1>4 DEF ByConfidence, ByCollector, Breakdown, Row, Tally, Judged
    <3>3. BreakdownOfReasons' = BreakdownOfReasons
        BY <1>1, <1>4 DEF BreakdownOfReasons, Row, Tally, Judged, Reasons
    <3>4. Waiting' = Waiting
        BY <1>4 DEF Waiting
    <3>5. WaitingByCollector' = WaitingByCollector
        BY <3>4 DEF WaitingByCollector
    <3>6. Cards' = Cards /\ ChangeTypes' = ChangeTypes /\ BaselineAlerts' = BaselineAlerts
        BY <1>1, <1>4 DEF Cards, ChangeTypes, BaselineAlerts
    <3>7. \A t : OfType(t)' = OfType(t)
        BY <1>1 DEF OfType
    <3>. QED  BY <1>1, <1>4, <3>1, <3>2, <3>3, <3>4, <3>5, <3>6, <3>7 DEF Answer
  <2>2. \A t : Returned(t)' = Returned(t)
    <3>. TAKE t
    <3>1. Answer(t)' = Answer(t) /\ limit' = limit
        BY <1>1, <2>1
    <3>2. Rank(t)' = Rank(t)
        BY <3>1 DEF Rank
    <3>. QED  BY <3>1, <3>2 DEF Returned
  <2>. QED  BY <1>1, <2>2 DEF ReportInv, QuietIsPresent
<1>9. RowsAdd'
  <2>1. s \in {"confidence", "collector", "alert_type"} =>
          \A r \in figures'[s] : SumOf(r.outcomes) = r.reviewed /\ r.reviewed <= r.total
    <3>1. s \in {"confidence", "collector", "alert_type"} =>
            Answer(s) \in {Breakdown(BucketOf), Breakdown(CollectorOf), Breakdown(KindOf)}
        BY DEF Answer, ByConfidence, ByCollector
    <3>2. s \in {"confidence", "collector", "alert_type"} => figures'[s] \in SUBSET Answer(s)
        BY <1>some DEF Lists
    <3>. QED  BY <3>1, <3>2, BreakdownAdds DEF ReportInv
  <2>. QED  BY <1>1, <2>1 DEF ReportInv, RowsAdd
<1>10. CardsAreKnown'
  <2>1. s = "cards" => \A c \in figures'[s] : c.alert \in Counted
    <3>1. Answer("cards") = Cards
        BY DEF Answer
    <3>2. s = "cards" => figures'[s] \in SUBSET Answer(s)
        BY <1>some DEF Lists
    <3>. QED  BY <3>1, <3>2, CardsAdd DEF ReportInv
  <2>2. s = "change_types" => figures'[s] = {KindOf[a] : a \in Counted}
      BY <1>some DEF Answer, ChangeTypes, Lists
  <2>3. Known("change_types") => Known("cards")
      BY KnownBefore DEF ReportInv
  <2>4. Known("change_types")' => Known("cards")'
    <3>1. (ReportTypeOK /\ AskedInOrder => (Known("change_types") => Known("cards")))'
        BY KnownBefore, PTL
    <3>. QED  BY <1>1, <1>2, <3>1
  <2>5. Known("cards")' => \A c \in figures'["cards"] : c.alert \in Counted'
      BY <1>1, <1>4, <2>1 DEF ReportInv, CardsAreKnown, Known
  <2>6. Known("change_types")' =>
          \A c \in figures'["cards"] : KindOf[c.alert] \in figures'["change_types"]
    <3>1. CASE s = "change_types"
        BY <1>1, <1>4, <2>2, <2>4, <2>5, <3>1 DEF Known
    <3>2. CASE s # "change_types"
        BY <1>1, <2>3, <3>2 DEF ReportInv, CardsAreKnown, Known
    <3>. QED  BY <3>1, <3>2
  <2>. QED  BY <2>5, <2>6 DEF CardsAreKnown
<1>11. TotalsAreKnown'
  <2>1. ReportTypeOK' /\ AskedInOrder'
      BY <1>1, <1>2
  <2>2. /\ Known("all_events") => Known("total")
        /\ Known("reason_code") => Known("alert_type")
      BY KnownBefore DEF ReportInv
  <2>3. /\ Known("all_events")' => Known("total")'
        /\ Known("reason_code")' => Known("alert_type")'
    <3>1. (ReportTypeOK /\ AskedInOrder
             => /\ Known("all_events") => Known("total")
                /\ Known("reason_code") => Known("alert_type"))'
        BY KnownBefore, PTL
    <3>. QED  BY <2>1, <3>1
  <2>4. Known("all_events")' => figures'["total"] <= figures'["all_events"]
    <3>1. CASE s = "all_events"
      <4>1. Known("total") /\ figures'["total"] = figures["total"]
          BY <1>1, <2>3, <3>1 DEF Known
      <4>2. figures["total"] \in Nat /\ figures["total"] <= Cardinality(Counted)
          BY <4>1 DEF ReportInv, AlertsInOrder, AlertsIn, Counting, Known
      <4>3. figures'["all_events"] = Cardinality(filed)
          BY <1>some, <3>1 DEF Answer, Lists
      <4>4. Cardinality(Counted) <= Cardinality(filed) /\ Cardinality(filed) \in Nat
        <5>1. filed \in SUBSET Alerts /\ Counted \in SUBSET filed
            BY DEF ReportInv, ReportTypeOK, Counted, Asked
        <5>. QED  BY <5>1, FeedbackAssumption, FS_Subset, FS_CardinalityType
      <4>. QED  BY <1>5, <4>1, <4>2, <4>3, <4>4
    <3>2. CASE s # "all_events"
        BY <1>1, <2>2, <3>2 DEF ReportInv, TotalsAreKnown, Known
    <3>. QED  BY <3>1, <3>2
  <2>5. Known("reason_code")' /\ Whole("reason_code")'
          => ReviewsIn("alert_type")' <= ReviewedOf(figures'["reason_code"])
    <3>1. CASE s = "reason_code"
      <4>1. "alert_type" \in Judging \cap DOMAIN figures
          BY <1>1, <2>3, <3>1 DEF Known, Judging
      <4>2. ReviewsIn("alert_type")' = ReviewsIn("alert_type")
          BY <1>7, <4>1
      <4>3. /\ ReviewsIn("alert_type") \in Nat
            /\ ReviewsIn("alert_type") <= Cardinality(Judged(Counted))
          BY <4>1 DEF ReportInv, ReviewsInOrder
      <4>4. Whole("reason_code")' => figures'["reason_code"] = BreakdownOfReasons
          BY <1>some, <3>1 DEF Answer
      <4>5. Cardinality(Judged(Counted)) <= ReviewedOf(BreakdownOfReasons)
          BY ReasonsCover DEF ReportInv
      <4>6. ReviewedOf(BreakdownOfReasons) \in Nat
          BY ReasonsCover DEF ReportInv
      <4>. QED  BY <1>5, <4>2, <4>3, <4>4, <4>5, <4>6
    <3>2. CASE s # "reason_code"
      <4>1. ASSUME Known("reason_code")' PROVE "alert_type" \in Judging \cap DOMAIN figures
          BY <1>1, <2>2, <3>2, <4>1 DEF Known, Judging
      <4>. QED  BY <1>1, <1>7, <1>whole, <3>2, <4>1 DEF ReportInv, TotalsAreKnown, Known
    <3>. QED  BY <3>1, <3>2
  <2>. QED  BY <2>4, <2>5 DEF TotalsAreKnown
<1>12. ShownIsPast'
  <2>1. Known("history") => Known("review")
      BY KnownBefore DEF ReportInv
  <2>2. Known("history")' => Known("review")'
    <3>1. (ReportTypeOK /\ AskedInOrder => (Known("history") => Known("review")))'
        BY KnownBefore, PTL
    <3>. QED  BY <1>1, <1>2, <3>1
  <2>3. /\ s = "review" => figures'[s] = verdict[subject]
        /\ s = "history" => figures'[s] = past[subject]
      BY <1>some DEF Answer, Lists
  <2>4. verdict[subject] = None \/ \E i \in DOMAIN past[subject] : past[subject][i] = verdict[subject]
    <3>1. subject \in Alerts /\ past[subject] \in Seq(Verdicts)
        BY DEF ReportInv, ReportTypeOK
    <3>2. verdict[subject] # None =>
            Len(past[subject]) > 0 /\ past[subject][Len(past[subject])] = verdict[subject]
        BY <3>1 DEF ReportInv, VerdictIsLast
    <3>3. Len(past[subject]) > 0 => Len(past[subject]) \in DOMAIN past[subject]
        BY <3>1
    <3>. QED  BY <3>2, <3>3
  <2>5. Known("review")' => \/ figures'["review"] = None
                            \/ \E i \in DOMAIN past'[subject'] :
                                 past'[subject'][i] = figures'["review"]
    <3>1. CASE s = "review"
        BY <1>1, <2>3, <2>4, <3>1
    <3>2. CASE s # "review"
        BY <1>1, <3>2 DEF ReportInv, ShownIsPast, Known
    <3>. QED  BY <3>1, <3>2
  <2>6. Known("history")' =>
          \/ figures'["review"] = None
          \/ \E i \in DOMAIN figures'["history"] : figures'["history"][i] = figures'["review"]
    <3>1. CASE s = "history"
      <4>1. figures'["history"] = past'[subject']
          BY <1>1, <2>3, <3>1
      <4>. QED  BY <2>2, <2>5, <4>1
    <3>2. CASE s # "history"
        BY <1>1, <2>1, <3>2 DEF ReportInv, ShownIsPast, Known
    <3>. QED  BY <3>1, <3>2
  <2>. QED  BY <2>5, <2>6 DEF ShownIsPast
<1>. QED  BY <1>1, <1>2, <1>6, <1>7, <1>8, <1>9, <1>10, <1>11, <1>12 DEF ReportInv

LEMMA ReportNextInv == ReportInv /\ [ReportNext]_reportVars => ReportInv'
<1>. SUFFICES ASSUME ReportInv, [ReportNext]_reportVars PROVE ReportInv'
    OBVIOUS
<1>1. CASE Ask
    BY <1>1, AskInv
<1>2. ASSUME NEW a \in Alerts, File(a) \/ \E r \in Verdicts : Judge(a, r) PROVE ReportInv'
    BY <1>2, CommitInv
<1>3. CASE UNCHANGED reportVars
  <2>1. UNCHANGED <<filed, first, window, verdict, past, kind, subject, limit, figures, commits>>
      BY <1>3 DEF reportVars, alertVars
  <2>2. /\ Counted' = Counted /\ Judged(Counted)' = Judged(Counted)
        /\ AllStatements' = AllStatements /\ Done' = Done
      BY <2>1 DEF Counted, Asked, Judged, AllStatements, Done
  <2>3. /\ \A s \in Counting : AlertsIn(s)' = AlertsIn(s)
        /\ \A s \in Judging : ReviewsIn(s)' = ReviewsIn(s)
        /\ \A s, t : Earlier(s, t)' = Earlier(s, t)
        /\ \A s : Whole(s)' = Whole(s)
      BY <2>1, <2>2 DEF AlertsIn, ReviewsIn, Earlier, Whole
  <2>4. \A t : Answer(t)' = Answer(t)
      BY <2>1, <2>2 DEF Answer, ByConfidence, ByCollector, Breakdown, Row, Tally, Judged,
         BreakdownOfReasons, Reasons, WaitingByCollector, Waiting, Cards, ChangeTypes,
         BaselineAlerts, OfType
  <2>returned. \A t : Returned(t)' = Returned(t)
    <3>. TAKE t
    <3>1. Answer(t)' = Answer(t) /\ limit' = limit
        BY <2>1, <2>4
    <3>2. Rank(t)' = Rank(t)
        BY <3>1 DEF Rank
    <3>. QED  BY <3>1, <3>2 DEF Returned
  <2>5. AlertsInOrder' /\ ReviewsInOrder' /\ AskedInOrder'
      BY <2>1, <2>2, <2>3 DEF ReportInv, AlertsInOrder, ReviewsInOrder, AskedInOrder
  <2>6. TotalsAreKnown'
      BY <2>1, <2>3 DEF ReportInv, TotalsAreKnown, Known, Judging
  <2>. QED
      BY <2>1, <2>2, <2>returned, <2>5, <2>6
      DEF ReportInv, ReportTypeOK, QuietIsPresent, RowsAdd, CardsAreKnown, VerdictIsLast,
          ShownIsPast, Known
<1>. QED  BY <1>1, <1>2, <1>3 DEF ReportNext

LEMMA ReportKeepsInv == ReportSpec => []ReportInv
BY ReportInitInv, ReportNextInv, PTL DEF ReportSpec

\* The types of a report, and of the database that it reads.
THEOREM ReportTypeCorrect == ReportSpec => []ReportTypeOK
<1>1. ReportInv => ReportTypeOK
    BY DEF ReportInv
<1>. QED  BY <1>1, ReportKeepsInv, PTL

LEMMA QuietAddsUp == ReportInv => QuietReportAddsUp
<1>. SUFFICES ASSUME ReportInv, commits = 0 PROVE QuietReportAddsUp
    BY DEF QuietReportAddsUp
<1>1. /\ \A s \in DOMAIN figures : figures[s] \in Returned(s)
      /\ \A s \in DOMAIN figures : Whole(s) => figures[s] = Answer(s)
  <2>1. \A s \in DOMAIN figures : figures[s] \in Returned(s)
      BY DEF ReportInv, QuietIsPresent
  <2>. QED  BY <2>1, ReturnedIsSome DEF ReportInv, Whole
<1>2. \A s \in Counting \cap DOMAIN figures :
        /\ AlertsIn(s) \in Nat /\ AlertsIn(s) <= Cardinality(Counted)
        /\ Whole(s) => AlertsIn(s) = Cardinality(Counted)
    BY <1>1, AmountsOf, AnswersAdd DEF ReportInv
<1>3. \A s \in Judging \cap DOMAIN figures :
        /\ ReviewsIn(s) \in Nat /\ ReviewsIn(s) <= Cardinality(Judged(Counted))
        /\ Whole(s) => ReviewsIn(s) = Cardinality(Judged(Counted))
    BY <1>1, AmountsOf, AnswersAdd DEF ReportInv
<1>4. ASSUME NEW s \in Pending, Known(s)
      PROVE  /\ WaitingIn(s) \in Nat /\ WaitingIn(s) <= Cardinality(Waiting)
             /\ Whole(s) => WaitingIn(s) = Cardinality(Waiting)
  <2>1. figures[s] \in Returned(s) /\ (Whole(s) => figures[s] = Answer(s))
      BY <1>1, <1>4 DEF Known
  <2>2. s \in Lists => figures[s] \in SUBSET Answer(s)
      BY <2>1, ReturnedIsSome DEF ReportInv
  <2>3. IsFiniteSet(Waiting) /\ Cardinality(Waiting) \in Nat
      BY CountedTyped DEF ReportInv
  <2>4. CASE s = "unreviewed_events"
    <3>1. Whole(s)
        BY <2>4 DEF Whole, Lists
    <3>. QED  BY <2>1, <2>3, <2>4, <3>1 DEF Answer, WaitingIn
  <2>5. CASE s = "oldest_unreviewed"
    <3>1. Answer(s) = Waiting /\ WaitingIn(s) = Cardinality(figures[s])
        BY <2>5 DEF Answer, WaitingIn
    <3>2. figures[s] \in SUBSET Waiting
        BY <2>2, <2>5, <3>1 DEF Lists
    <3>3. /\ Cardinality(figures[s]) \in Nat
          /\ Cardinality(figures[s]) <= Cardinality(Waiting)
        BY <2>3, <3>2, FS_Subset, FS_CardinalityType
    <3>. QED  BY <2>1, <3>1, <3>3
  <2>6. CASE s = "most_unreviewed"
    <3>1. /\ Answer(s) = WaitingByCollector
          /\ WaitingIn(s) = SumFunction([r \in figures[s] |-> r.unreviewed])
        BY <2>6 DEF Answer, WaitingIn
    <3>2. figures[s] \in SUBSET WaitingByCollector
        BY <2>2, <2>6, <3>1 DEF Lists
    <3>. QED  BY <2>1, <3>1, <3>2, WaitingAdds DEF ReportInv
  <2>. QED  BY <2>4, <2>5, <2>6 DEF Pending
<1>5. /\ Cardinality(Counted) = Cardinality(Judged(Counted)) + Cardinality(Waiting)
      /\ Cardinality(Judged(Counted)) \in Nat /\ Cardinality(Waiting) \in Nat
  <2>1. /\ Cardinality(Counted \ Judged(Counted))
             = Cardinality(Counted) - Cardinality(Counted \cap Judged(Counted))
        /\ Counted \cap Judged(Counted) = Judged(Counted)
      BY CountedTyped, FS_Difference DEF ReportInv, Judged
  <2>2. /\ Cardinality(Counted) \in Nat /\ Cardinality(Judged(Counted)) \in Nat
        /\ Cardinality(Waiting) \in Nat
      BY CountedTyped DEF ReportInv
  <2>. QED  BY <2>1, <2>2 DEF Waiting
<1>6. ASSUME Known("changed_products")
      PROVE  figures["all_events"] = figures["new_products"] + figures["changed_products"]
                                       + Cardinality(OfType("product_removed"))
  <2>. DEFINE N == OfType("new_product")
              R == OfType("product_removed")
  <2>1. Known("new_products") /\ Known("all_events")
      BY <1>6, KnownBefore DEF ReportInv
  <2>2. /\ figures["all_events"] = Cardinality(filed) /\ figures["new_products"] = Cardinality(N)
        /\ figures["changed_products"] = Cardinality(filed \ (N \cup R))
      BY <1>1, <1>6, <2>1 DEF Known, Answer, Whole, Lists
  <2>3. /\ IsFiniteSet(filed) /\ N \in SUBSET filed /\ R \in SUBSET filed /\ N \cap R = {}
      BY FeedbackAssumption, FS_Subset DEF ReportInv, ReportTypeOK, OfType
  <2>. HIDE DEF N, R
  <2>4. IsFiniteSet(N) /\ IsFiniteSet(R) /\ IsFiniteSet(N \cup R)
      BY <2>3, FS_Subset, FS_Union
  <2>5. /\ Cardinality(filed) \in Nat /\ Cardinality(N) \in Nat /\ Cardinality(R) \in Nat
        /\ Cardinality(N \cup R) \in Nat
      BY <2>3, <2>4, FS_CardinalityType
  <2>6. Cardinality(N \cup R) = Cardinality(N) + Cardinality(R)
    <3>1. Cardinality(N \cup R) = Cardinality(N) + Cardinality(R) - Cardinality(N \cap R)
        BY <2>4, FS_Union
    <3>2. Cardinality(N \cap R) = 0
        BY <2>3, FS_EmptySet
    <3>. QED  BY <2>5, <3>1, <3>2
  <2>7. Cardinality(filed \ (N \cup R)) = Cardinality(filed) - Cardinality(N \cup R)
    <3>1. filed \cap (N \cup R) = N \cup R
        BY <2>3
    <3>. QED  BY <2>3, <3>1, FS_Difference
  <2>8. R = OfType("product_removed")
      BY DEF R
  <2>. QED  BY <2>2, <2>5, <2>6, <2>7, <2>8
<1>7. ASSUME NEW s \in Counting, NEW t \in Judging, NEW u \in Pending, Known(s), Known(t), Known(u)
      PROVE  /\ Whole(s) => ReviewsIn(t) + WaitingIn(u) <= AlertsIn(s)
             /\ Whole(t) /\ Whole(u) => AlertsIn(s) <= ReviewsIn(t) + WaitingIn(u)
  <2>. DEFINE n == Cardinality(Judged(Counted))
              m == Cardinality(Waiting)
  <2>1. /\ AlertsIn(s) \in Nat /\ AlertsIn(s) <= n + m
        /\ Whole(s) => AlertsIn(s) = n + m
      BY <1>2, <1>5, <1>7 DEF Known
  <2>2. /\ ReviewsIn(t) \in Nat /\ ReviewsIn(t) <= n
        /\ Whole(t) => ReviewsIn(t) = n
      BY <1>3, <1>7 DEF Known
  <2>3. /\ WaitingIn(u) \in Nat /\ WaitingIn(u) <= m
        /\ Whole(u) => WaitingIn(u) = m
      BY <1>4, <1>7
  <2>4. n \in Nat /\ m \in Nat
      BY <1>5
  <2>. HIDE DEF n, m
  <2>. QED  BY <2>1, <2>2, <2>3, <2>4
<1>8. \A s, t \in Counting \cap DOMAIN figures : Whole(t) => AlertsIn(s) <= AlertsIn(t)
    BY <1>2
<1>9. \A s, t \in Judging \cap DOMAIN figures : Whole(t) => ReviewsIn(s) <= ReviewsIn(t)
    BY <1>3
<1>. QED  BY <1>6, <1>7, <1>8, <1>9 DEF QuietReportAddsUp

LEMMA LateOnlyGrow == ReportInv => LateFiguresOnlyGrow
<1>. SUFFICES ASSUME ReportInv PROVE LateFiguresOnlyGrow
    OBVIOUS
<1>1. ASSUME NEW s, NEW t, Before(s, t) PROVE Earlier(s, t)
  <2>1. PICK i, j \in DOMAIN Statements : i < j /\ Statements[i] = s /\ Statements[j] = t
      BY <1>1 DEF Before
  <2>2. /\ Len(Statements) \in Nat /\ DOMAIN Statements = 1..Len(Statements)
        /\ Len(Statements) <= Len(AllStatements)
        /\ \A k \in 1..Len(Statements) : Statements[k] = AllStatements[k]
      BY StatementsBegin DEF ReportInv
  <2>3. Len(AllStatements) \in Nat
      BY StatementsDiffer DEF ReportInv
  <2>4. i \in 1..Len(AllStatements) /\ j \in 1..Len(AllStatements)
      BY <2>2, <2>3
  <2>. QED  BY <2>1, <2>2, <2>4 DEF Earlier
<1>2. Known("reason_code") /\ Whole("reason_code")
        => ReviewedOf(figures["reason_code"]) >= ReviewsIn("alert_type")
  <2>1. Known("reason_code") /\ Whole("reason_code")
          => ReviewsIn("alert_type") <= ReviewedOf(figures["reason_code"])
      BY DEF ReportInv, TotalsAreKnown
  <2>. QED  BY <2>1
<1>. QED
    BY <1>1, <1>2 DEF ReportInv, AlertsInOrder, ReviewsInOrder, TotalsAreKnown, CardsAreKnown,
       RowsAdd, LateFiguresOnlyGrow

LEMMA ShownInHistory == ReportInv => DetailIsInHistory
<1>. SUFFICES ASSUME ReportInv, Known("history") PROVE DetailIsInHistory
    BY DEF DetailIsInHistory
<1>1. \/ figures["review"] = None
      \/ \E i \in DOMAIN figures["history"] : figures["history"][i] = figures["review"]
    BY DEF ReportInv, ShownIsPast
<1>2. ASSUME commits = 0
      PROVE  IF figures["review"] = None THEN figures["history"] = <<>>
             ELSE figures["review"] = figures["history"][Len(figures["history"])]
  <2>1. Known("review")
      BY KnownBefore DEF ReportInv
  <2>2. figures["review"] = verdict[subject] /\ figures["history"] = past[subject]
      BY <1>2, <2>1 DEF ReportInv, QuietIsPresent, Known, Returned, Answer, Lists
  <2>. QED  BY <2>2 DEF ReportInv, ReportTypeOK, VerdictIsLast
<1>. QED  BY <1>1, <1>2 DEF DetailIsInHistory

\* Whatever is committed between the statements of a report, and whatever the
\* limits of its lists, its figures add up as if it had seen one state, or states
\* one after another (FiguresAddUp): each alert in at most one row of a breakdown,
\* and in one of a breakdown below its limit, each review under one outcome, and
\* no later figure below an earlier one unless its list is full; the page of an
\* alert shows a review that its history holds.
THEOREM FiguresHold == ReportSpec => []FiguresAddUp
<1>1. ReportInv => FiguresAddUp
    BY QuietAddsUp, LateOnlyGrow, ShownInHistory DEF FiguresAddUp
<1>. QED  BY <1>1, ReportKeepsInv, PTL
-----------------------------------------------------------------------------
(* Sequences that grow.                                                    *)

LEMMA PrefixElements ==
  ASSUME NEW S, NEW s \in Seq(S), NEW t \in Seq(S)
  PROVE  IsPrefix(s, t) <=> Len(s) <= Len(t) /\ \A i \in 1..Len(s) : s[i] = t[i]
<1>1. ASSUME Len(s) <= Len(t), \A i \in 1..Len(s) : s[i] = t[i]
      PROVE  SubSeq(s, 1, Len(s)) = SubSeq(t, 1, Len(s))
    BY <1>1
<1>2. ASSUME Len(s) <= Len(t), SubSeq(s, 1, Len(s)) = SubSeq(t, 1, Len(s)),
             NEW i \in 1..Len(s)
      PROVE  s[i] = t[i]
  <2>1. SubSeq(s, 1, Len(s))[i] = s[i] /\ SubSeq(t, 1, Len(s))[i] = t[i]
      BY <1>2
  <2>. QED  BY <1>2, <2>1
<1>. QED  BY <1>1, <1>2 DEF IsPrefix

LEMMA PrefixOfItself ==
  ASSUME NEW S, NEW s \in Seq(S) PROVE IsPrefix(s, s)
BY PrefixElements

LEMMA PrefixOfAppended ==
  ASSUME NEW S, NEW s \in Seq(S), NEW t \in Seq(S), NEW e \in S, IsPrefix(s, t)
  PROVE  IsPrefix(s, Append(t, e))
<1>1. Append(t, e) \in Seq(S) /\ Len(Append(t, e)) = Len(t) + 1
      /\ \A i \in 1..Len(t) : Append(t, e)[i] = t[i]
    OBVIOUS
<1>2. Len(s) \in Nat /\ Len(t) \in Nat /\ Len(s) <= Len(t) /\ \A i \in 1..Len(s) : s[i] = t[i]
    BY PrefixElements
<1>3. Len(s) <= Len(Append(t, e)) /\ \A i \in 1..Len(s) : s[i] = Append(t, e)[i]
    BY <1>1, <1>2
<1>. QED  BY <1>1, <1>3, PrefixElements

LEMMA EmptyPrefix ==
  ASSUME NEW S, NEW s \in Seq(S), Len(s) = 0, NEW t \in Seq(S) PROVE IsPrefix(s, t)
<1>1. Len(s) <= Len(t)
    OBVIOUS
<1>2. \A i \in 1..Len(s) : s[i] = t[i]
    OBVIOUS
<1>. QED  BY <1>1, <1>2, PrefixElements
-----------------------------------------------------------------------------
(* Databases.                                                                *)

AllLabels == Labels \cup {Unreviewed}
LeadReviews == [lead : Leads, label : Labels]

LEMMA DatabaseFields ==
  ASSUME NEW db
  PROVE  db \in Databases <=>
           /\ db = [label |-> db.label, observations |-> db.observations,
                    reviews |-> db.reviews]
           /\ db.label \in UNION {[ls -> AllLabels] : ls \in SUBSET Leads}
           /\ db.observations \in Seq(Observations) /\ db.reviews \in Seq(LeadReviews)
BY DEF Databases, AllLabels, LeadReviews

LEMMA EmptyTyped == EmptyDb \in Databases
<1>1. [l \in {} |-> Unreviewed] \in [{} -> AllLabels]
    OBVIOUS
<1>2. <<>> \in Seq(Observations) /\ <<>> \in Seq(LeadReviews)
    OBVIOUS
<1>. QED  BY <1>1, <1>2 DEF EmptyDb, Databases, AllLabels, LeadReviews

\* Importing an observation keeps what the database has and its types.
LEMMA ObservationKept ==
  ASSUME NEW db \in Databases, NEW i \in Observations, NEW old \in Databases,
         Keeps(db, old)
  PROVE  WithObservation(db, i) \in Databases /\ Keeps(WithObservation(db, i), old)
<1>. DEFINE new ==
       [label |-> [l \in DOMAIN db.label \cup {i.lead} |->
                     IF l \in DOMAIN db.label THEN db.label[l] ELSE Unreviewed],
        observations |-> Append(db.observations, i), reviews |-> db.reviews]
<1>0. db = [label |-> db.label, observations |-> db.observations, reviews |-> db.reviews]
      /\ db.label \in UNION {[ls -> AllLabels] : ls \in SUBSET Leads}
    BY DatabaseFields
<1>1. PICK ls \in SUBSET Leads : db.label \in [ls -> AllLabels]
    BY <1>0
<1>2. db.observations \in Seq(Observations) /\ db.reviews \in Seq(LeadReviews)
      /\ old.observations \in Seq(Observations) /\ old.reviews \in Seq(LeadReviews)
    BY DatabaseFields
<1>3. /\ new.observations = Append(db.observations, i) /\ new.reviews = db.reviews
      /\ new.label = [l \in ls \cup {i.lead} |->
                        IF l \in ls THEN db.label[l] ELSE Unreviewed]
      /\ new = [label |-> new.label, observations |-> new.observations,
                reviews |-> new.reviews]
  <2>1. DOMAIN db.label = ls
      BY <1>1
  <2>. QED  BY <2>1
<1>4. new.label \in [ls \cup {i.lead} -> AllLabels] /\ ls \cup {i.lead} \in SUBSET Leads
    BY <1>1, <1>3 DEF AllLabels, Observations
<1>5. new.observations \in Seq(Observations)
    BY <1>2, <1>3
<1>6. new \in Databases
  <2>1. new.label \in UNION {[ks -> AllLabels] : ks \in SUBSET Leads}
      BY <1>4
  <2>. QED  BY <1>2, <1>3, <1>5, <2>1, DatabaseFields
<1>7. Keeps(new, old)
    BY <1>1, <1>2, <1>3, <1>4, PrefixOfAppended DEF Keeps
<1>. QED  BY <1>6, <1>7 DEF WithObservation

\* So does filing a review.
LEMMA ReviewKept ==
  ASSUME NEW db \in Databases, NEW l \in Leads, NEW label \in Labels,
         NEW old \in Databases, Keeps(db, old)
  PROVE  WithReview(db, l, label) \in Databases /\ Keeps(WithReview(db, l, label), old)
<1>. DEFINE new == WithReview(db, l, label)
            r == [lead |-> l, label |-> label]
<1>0. db = [label |-> db.label, observations |-> db.observations, reviews |-> db.reviews]
      /\ db.label \in UNION {[ls -> AllLabels] : ls \in SUBSET Leads}
    BY DatabaseFields
<1>1. PICK ls \in SUBSET Leads : db.label \in [ls -> AllLabels]
    BY <1>0
<1>2. db.observations \in Seq(Observations) /\ db.reviews \in Seq(LeadReviews)
      /\ old.observations \in Seq(Observations) /\ old.reviews \in Seq(LeadReviews)
    BY DatabaseFields
<1>3. /\ new.observations = db.observations /\ new.reviews = Append(db.reviews, r)
      /\ new.label = [k \in ls |-> IF k = l THEN label ELSE db.label[k]]
      /\ new = [label |-> new.label, observations |-> new.observations,
                reviews |-> new.reviews]
  <2>1. DOMAIN db.label = ls
      BY <1>1
  <2>. QED  BY <2>1 DEF WithReview
<1>4. new.label \in [ls -> AllLabels] /\ r \in LeadReviews
    BY <1>1, <1>3 DEF AllLabels, LeadReviews
<1>5. new.reviews \in Seq(LeadReviews)
    BY <1>2, <1>3, <1>4
<1>6. new \in Databases
  <2>1. new.label \in UNION {[ks -> AllLabels] : ks \in SUBSET Leads}
      BY <1>4
  <2>. QED  BY <1>2, <1>3, <1>5, <2>1, DatabaseFields
<1>7. Keeps(new, old)
    BY <1>1, <1>2, <1>3, <1>4, PrefixOfAppended DEF Keeps
<1>. QED  BY <1>6, <1>7

LEMMA KeepsItself == ASSUME NEW db \in Databases PROVE Keeps(db, db)
<1>1. db.observations \in Seq(Observations) /\ db.reviews \in Seq(LeadReviews)
    BY DatabaseFields
<1>. QED  BY <1>1, PrefixOfItself DEF Keeps

LEMMA KeepsNothing == ASSUME NEW db \in Databases PROVE Keeps(db, EmptyDb)
<1>1. db.observations \in Seq(Observations) /\ db.reviews \in Seq(LeadReviews)
    BY DatabaseFields
<1>2. DOMAIN EmptyDb.label = {} /\ Len(EmptyDb.observations) = 0 /\ Len(EmptyDb.reviews) = 0
    BY DEF EmptyDb
<1>3. EmptyDb.observations \in Seq(Observations) /\ EmptyDb.reviews \in Seq(LeadReviews)
    BY EmptyTyped, DatabaseFields
<1>. QED  BY <1>1, <1>2, <1>3, EmptyPrefix DEF Keeps
-----------------------------------------------------------------------------
(* Types.                                                                    *)

\* A command that builds a generation has its kind of job, and drafts are records.
JobFits ==
  \A c \in Commands :
    /\ step[c] \in {"import", "write"} => job[c].kind = "import"
    /\ step[c] = "review" => job[c].kind = "review"
    /\ step[c] = "copy" => job[c].kind \in {"import", "review"}
    /\ draft[c] = [db |-> draft[c].db, export |-> draft[c].export]

InboxTyped == DiscoveryTypeOK /\ JobFits

LEMMA JobFields ==
  ASSUME NEW j \in Jobs
  PROVE  /\ j.kind = "import" => /\ j = [kind |-> "import", copying |-> j.copying,
                                         todo |-> j.todo]
                                 /\ j.copying \subseteq Payloads
                                 /\ j.todo \subseteq Observations
         /\ j.kind = "review" => j.lead \in Leads /\ j.label \in Labels
BY DEF Jobs, NoJob

Imports == [kind : {"import"}, copying : SUBSET Payloads, todo : SUBSET Observations]

LEMMA ImportTyped ==
  ASSUME NEW j \in Jobs, j.kind = "import",
         NEW C \in SUBSET Payloads, NEW O \in SUBSET Observations
  PROVE  /\ [j EXCEPT !.copying = C] \in Imports
         /\ [j EXCEPT !.todo = O] \in Imports
<1>1. j \in Imports
    BY DEF Jobs, NoJob, Imports
<1>. QED  BY <1>1 DEF Imports

LEMMA ImportsAreJobs == \A j \in Imports : j \in Jobs /\ j.kind = "import"
BY DEF Jobs, Imports

LEMMA InitInboxTyped == DiscoveryInit => InboxTyped
<1>. SUFFICES ASSUME DiscoveryInit PROVE InboxTyped
    OBVIOUS
<1>1. Inbox \in Databases /\ \A c \in Commands : draft[c].db \in Databases
    BY EmptyTyped DEF DiscoveryInit, NoGeneration, Inbox
<1>2. NoJob \in Jobs
    BY DEF Jobs
<1>3. published \in 0..MaxPublished
    BY DiscoveryAssumption DEF DiscoveryInit
<1>. QED  BY <1>1, <1>2, <1>3
          DEF DiscoveryInit, InboxTyped, DiscoveryTypeOK, JobFits, NoGeneration

\* What a command that ends leaves behind.
LEMMA ForgetTyped ==
  ASSUME InboxTyped, NEW c \in Commands, Forget(c)
  PROVE  /\ job' \in [Commands -> Jobs] /\ DOMAIN draft' = Commands
         /\ \A d \in Commands : draft'[d].db \in Databases
         /\ step' \in [Commands -> {"idle", "configure", "child", "copy", "import", "write",
                                    "review", "export", "replace", "published"}]
         /\ behind' \subseteq Commands /\ JobFits'
<1>1. NoJob \in Jobs /\ NoGeneration.db \in Databases
    BY EmptyTyped DEF Jobs, NoGeneration
<1>2. NoGeneration = [db |-> NoGeneration.db, export |-> NoGeneration.export]
    BY DEF NoGeneration
<1>3. /\ step' = [step EXCEPT ![c] = "idle"] /\ job' = [job EXCEPT ![c] = NoJob]
      /\ draft' = [draft EXCEPT ![c] = NoGeneration] /\ behind' = behind \ {c}
    BY DEF Forget, Goto
<1>. QED  BY <1>1, <1>2, <1>3 DEF InboxTyped, DiscoveryTypeOK, JobFits

\* The jobs that an export gives.
LEMMA PrepareTyped ==
  ASSUME InboxTyped, NEW c \in Commands, Prepare(c)
  PROVE  job' \in [Commands -> Jobs] /\ job'[c].kind = "import"
         /\ \A d \in Commands \ {c} : job'[d] = job[d]
<1>1. PICK x \in Exports, missing \in SUBSET Payloads :
        job' = [job EXCEPT ![c] =
                  [kind |-> "import", copying |-> {},
                   todo |-> {[lead |-> l, payload |-> x[l],
                              owned |-> x[l] \notin missing] : l \in DOMAIN x}]]
    BY DEF Prepare
<1>2. PICK ls \in SUBSET Leads : x \in [ls -> Payloads]
    BY DiscoveryAssumption
<1>3. ASSUME NEW l \in DOMAIN x
      PROVE  [lead |-> l, payload |-> x[l], owned |-> x[l] \notin missing] \in Observations
  <2>1. l \in Leads /\ x[l] \in Payloads
      BY <1>2
  <2>2. (x[l] \notin missing) \in BOOLEAN
      OBVIOUS
  <2>. QED  BY <2>1, <2>2 DEF Observations
<1>4. [kind |-> "import", copying |-> {},
       todo |-> {[lead |-> l, payload |-> x[l],
                  owned |-> x[l] \notin missing] : l \in DOMAIN x}] \in Jobs
    BY <1>3 DEF Jobs
<1>. QED  BY <1>1, <1>4 DEF InboxTyped, DiscoveryTypeOK

LEMMA NextInboxTyped == InboxTyped /\ [DiscoveryNext]_discoveryVars => InboxTyped'
<1>. SUFFICES ASSUME InboxTyped, [DiscoveryNext]_discoveryVars PROVE InboxTyped'
    OBVIOUS
<1>. USE DEF InboxTyped, DiscoveryTypeOK, JobFits
<1>1. ASSUME NEW c \in Commands, Command(c) PROVE InboxTyped'
  <2>1. CASE Configure(c)
      BY <2>1 DEF Configure, Goto, ghosts, Inbox
  <2>2. CASE SaveSettings(c)
      BY <2>2 DEF SaveSettings, Goto, ghosts, Inbox
  <2>3. CASE Switch(c)
      BY <2>3 DEF Switch, ghosts, Inbox
  <2>4. CASE BeginImport(c)
    <3>1. /\ job' \in [Commands -> Jobs] /\ job'[c].kind = "import"
          /\ \A d \in Commands \ {c} : job'[d] = job[d]
        BY <2>4, PrepareTyped DEF BeginImport
    <3>2. step' = [step EXCEPT ![c] = "copy"]
        BY <2>4 DEF BeginImport, Prepare, Goto
    <3>. QED  BY <2>4, <3>1, <3>2 DEF BeginImport, ghosts, Inbox
  <2>5. CASE BeginRefresh(c)
      BY <2>5 DEF BeginRefresh, Goto, ghosts, Inbox
  <2>6. CASE ChildCompletes(c)
    <3>1. /\ job' \in [Commands -> Jobs] /\ job'[c].kind = "import"
          /\ \A d \in Commands \ {c} : job'[d] = job[d]
        BY <2>6, PrepareTyped DEF ChildCompletes
    <3>2. step' = [step EXCEPT ![c] = "copy"]
        BY <2>6 DEF ChildCompletes, Prepare, Goto
    <3>. QED  BY <2>6, <3>1, <3>2 DEF ChildCompletes, ghosts, Inbox
  <2>7. CASE BeginLabel(c)
    <3>1. PICK l \in DOMAIN Inbox.label, label \in Labels :
            job' = [job EXCEPT ![c] = [kind |-> "review", lead |-> l, label |-> label]]
        BY <2>7 DEF BeginLabel
    <3>2. l \in Leads
        BY DatabaseFields
    <3>3. [kind |-> "review", lead |-> l, label |-> label] \in Jobs
        BY <3>2 DEF Jobs
    <3>. QED  BY <2>7, <3>1, <3>3 DEF BeginLabel, Goto, ghosts, Inbox
  <2>8. CASE CopyCurrent(c)
    <3>1. draft' = [draft EXCEPT ![c] = [db |-> Inbox, export |-> <<>>]]
        BY <2>8 DEF CopyCurrent
    <3>. QED  BY <2>8, <3>1 DEF CopyCurrent, Goto, Inbox
  <2>9. CASE CreateCopy(c)
    <3>1. PICK i \in job[c].todo : job' = [job EXCEPT ![c].copying = {i.payload}]
                                   /\ evidence' = [evidence EXCEPT ![i.payload] = "partial"]
        BY <2>9 DEF CreateCopy
    <3>2. job[c].kind = "import" /\ job[c] \in Jobs
        BY <2>9 DEF CreateCopy
    <3>3. i \in Observations
        BY <3>2, JobFields
    <3>4. [job[c] EXCEPT !.copying = {i.payload}] \in Imports
        BY <3>2, <3>3, JobFields, ImportTyped DEF Observations
    <3>5. job' \in [Commands -> Jobs] /\ job'[c].kind = "import"
          /\ \A d \in Commands \ {c} : job'[d] = job[d]
        BY <3>1, <3>4, ImportsAreJobs
    <3>6. /\ step' = [step EXCEPT ![c] = "write"]
          /\ UNCHANGED <<settings, current, publisher, draft>>
          /\ UNCHANGED <<behind, overtaken, torn, published>>
        BY <2>9 DEF CreateCopy, Goto, ghosts
    <3>7. evidence' \in [Payloads -> {"absent", "partial", "whole"}]
        BY <3>1
    <3>. QED  BY <3>5, <3>6, <3>7 DEF Inbox
  <2>10. CASE WriteCopy(c)
    <3>1. job[c].kind = "import" /\ job[c] \in Jobs
        BY <2>10 DEF WriteCopy
    <3>2. [job[c] EXCEPT !.copying = {}] \in Imports
        BY <3>1, JobFields, ImportTyped
    <3>3. job' \in [Commands -> Jobs] /\ job'[c].kind = "import"
          /\ \A d \in Commands \ {c} : job'[d] = job[d]
        BY <2>10, <3>2, ImportsAreJobs DEF WriteCopy
    <3>. QED  BY <2>10, <3>3 DEF WriteCopy, Goto, ghosts, Inbox
  <2>11. CASE StoreObservation(c)
    <3>1. PICK i \in job[c].todo :
            /\ draft' = [draft EXCEPT ![c].db = WithObservation(@, i)]
            /\ job' = [job EXCEPT ![c].todo = @ \ {i}]
        BY <2>11 DEF StoreObservation
    <3>2. job[c].kind = "import" /\ job[c] \in Jobs
        BY <2>11 DEF StoreObservation
    <3>3. [job[c] EXCEPT !.todo = job[c].todo \ {i}] \in Imports /\ i \in Observations
        BY <3>2, JobFields, ImportTyped
    <3>4. job' \in [Commands -> Jobs] /\ job'[c].kind = "import"
          /\ \A d \in Commands \ {c} : job'[d] = job[d]
        BY <3>1, <3>3, ImportsAreJobs
    <3>5. WithObservation(draft[c].db, i) \in Databases
        BY <3>3, ObservationKept, KeepsItself
    <3>6. /\ DOMAIN draft' = Commands
          /\ \A d \in Commands : draft'[d].db \in Databases
               /\ draft'[d] = [db |-> draft'[d].db, export |-> draft'[d].export]
        BY <3>1, <3>5
    <3>. QED  BY <2>11, <3>4, <3>6 DEF StoreObservation, ghosts, Inbox
  <2>12. CASE StoreReview(c)
    <3>1. draft' = [draft EXCEPT ![c].db = WithReview(@, job[c].lead, job[c].label)]
        BY <2>12 DEF StoreReview
    <3>2. job[c].kind = "review" /\ job[c] \in Jobs
        BY <2>12 DEF StoreReview
    <3>3. job[c].lead \in Leads /\ job[c].label \in Labels
        BY <3>2, JobFields
    <3>4. WithReview(draft[c].db, job[c].lead, job[c].label) \in Databases
        BY <3>3, ReviewKept, KeepsItself
    <3>5. /\ DOMAIN draft' = Commands
          /\ \A d \in Commands : draft'[d].db \in Databases
               /\ draft'[d] = [db |-> draft'[d].db, export |-> draft'[d].export]
        BY <3>1, <3>4
    <3>. QED  BY <2>12, <3>5 DEF StoreReview, Goto, ghosts, Inbox
  <2>13. CASE Export(c)
    <3>1. draft' = [draft EXCEPT ![c].export = ExportRows(draft[c].db)]
        BY <2>13 DEF Export
    <3>2. /\ DOMAIN draft' = Commands
          /\ \A d \in Commands : draft'[d].db \in Databases
               /\ draft'[d] = [db |-> draft'[d].db, export |-> draft'[d].export]
        BY <3>1
    <3>. QED  BY <2>13, <3>2 DEF Export, Goto, ghosts, Inbox
  <2>14. CASE Replace(c)
    <3>1. published' \in 0..MaxPublished
        BY <2>14, DiscoveryAssumption DEF Replace
    <3>2. Inbox' \in Databases
        BY <2>14 DEF Replace, Inbox
    <3>. QED  BY <2>14, <3>1, <3>2 DEF Replace, Goto
  <2>15. CASE Return(c)
      BY <2>15, ForgetTyped DEF Return, Inbox
  <2>16. CASE Stop(c)
      BY <2>16, ForgetTyped DEF Stop, Inbox
  <2>17. CASE InterruptLate(c)
    <3>1. \/ current' = NoGeneration /\ torn' = TRUE
          \/ UNCHANGED <<current, torn>>
        BY <2>17 DEF InterruptLate
    <3>2. Inbox' \in Databases
      <4>1. NoGeneration.db \in Databases
          BY EmptyTyped DEF NoGeneration
      <4>. QED  BY <3>1, <4>1 DEF Inbox
    <3>3. torn' \in BOOLEAN
        BY <3>1
    <3>. QED  BY <2>17, <3>2, <3>3, ForgetTyped DEF InterruptLate
  <2>. QED  BY <1>1, <2>1, <2>2, <2>3, <2>4, <2>5, <2>6, <2>7, <2>8, <2>9, <2>10, <2>11,
               <2>12, <2>13, <2>14, <2>15, <2>16, <2>17 DEF Command
<1>2. CASE UNCHANGED discoveryVars
    BY <1>2 DEF discoveryVars, Inbox
<1>. QED  BY <1>1, <1>2 DEF DiscoveryNext

\* Every reachable state of the inbox, its evidence and its commands has its types
\* (DiscoveryStore, discovery.py).
THEOREM InboxTypeCorrect == DiscoverySpec => []DiscoveryTypeOK
<1>1. InboxTyped => DiscoveryTypeOK
    BY DEF InboxTyped
<1>. QED  BY InitInboxTyped, NextInboxTyped, <1>1, PTL DEF DiscoverySpec
-----------------------------------------------------------------------------
(* Nothing is forgotten.                                                     *)

Building == {"import", "write", "review", "export", "replace"}

\* A draft that was copied since the last publication keeps all that is published.
DraftsKeep ==
  \A c \in Commands \ behind : step[c] \in Building => Keeps(draft[c].db, Inbox)

LEMMA InitKeep == DiscoveryInit => DraftsKeep
BY DEF DiscoveryInit, DraftsKeep, Building

LEMMA NextKeep == InboxTyped /\ DraftsKeep /\ [DiscoveryNext]_discoveryVars => DraftsKeep'
<1>. SUFFICES ASSUME InboxTyped, DraftsKeep, [DiscoveryNext]_discoveryVars PROVE DraftsKeep'
    OBVIOUS
<1>. USE DEF InboxTyped, DiscoveryTypeOK, JobFits, DraftsKeep, Building
<1>1. ASSUME NEW c \in Commands, Command(c) PROVE DraftsKeep'
  <2>1. CASE Configure(c) \/ SaveSettings(c) \/ Switch(c) \/ BeginRefresh(c)
      BY <2>1 DEF Configure, SaveSettings, Switch, BeginRefresh, Goto, ghosts, Inbox
  <2>2. CASE BeginImport(c) \/ ChildCompletes(c)
      BY <2>2 DEF BeginImport, ChildCompletes, Prepare, Goto, ghosts, Inbox
  <2>3. CASE BeginLabel(c)
      BY <2>3 DEF BeginLabel, Goto, ghosts, Inbox
  <2>4. CASE CopyCurrent(c)
    <3>1. draft' = [draft EXCEPT ![c] = [db |-> Inbox, export |-> <<>>]]
          /\ step' = [step EXCEPT ![c] = job[c].kind] /\ behind' = behind \ {c}
          /\ current' = current
        BY <2>4 DEF CopyCurrent, Goto
    <3>2. Keeps(draft'[c].db, Inbox')
        BY <3>1, KeepsItself DEF Inbox
    <3>. QED  BY <3>1, <3>2 DEF Inbox
  <2>5. CASE CreateCopy(c) \/ WriteCopy(c) \/ Export(c)
      BY <2>5 DEF CreateCopy, WriteCopy, Export, Goto, ghosts, Inbox
  <2>6. CASE StoreObservation(c)
    <3>1. PICK i \in job[c].todo : draft' = [draft EXCEPT ![c].db = WithObservation(@, i)]
        BY <2>6 DEF StoreObservation
    <3>2. i \in Observations
        BY <2>6, JobFields DEF StoreObservation
    <3>3. c \notin behind => Keeps(WithObservation(draft[c].db, i), Inbox)
        BY <2>6, <3>2, ObservationKept DEF StoreObservation
    <3>4. draft'[c].db = WithObservation(draft[c].db, i)
          /\ \A d \in Commands \ {c} : draft'[d] = draft[d]
        BY <3>1
    <3>. QED  BY <2>6, <3>3, <3>4 DEF StoreObservation, ghosts, Inbox
  <2>7. CASE StoreReview(c)
    <3>1. draft' = [draft EXCEPT ![c].db = WithReview(@, job[c].lead, job[c].label)]
        BY <2>7 DEF StoreReview
    <3>2. job[c].lead \in Leads /\ job[c].label \in Labels
        BY <2>7, JobFields DEF StoreReview
    <3>3. c \notin behind
            => Keeps(WithReview(draft[c].db, job[c].lead, job[c].label), Inbox)
        BY <2>7, <3>2, ReviewKept DEF StoreReview
    <3>4. draft'[c].db = WithReview(draft[c].db, job[c].lead, job[c].label)
          /\ \A d \in Commands \ {c} : draft'[d] = draft[d]
        BY <3>1
    <3>. QED  BY <2>7, <3>3, <3>4 DEF StoreReview, Goto, ghosts, Inbox
  <2>8. CASE Replace(c)
      BY <2>8 DEF Replace, Goto
  <2>9. CASE Return(c) \/ Stop(c)
      BY <2>9 DEF Return, Stop, Forget, Goto, Inbox
  <2>10. CASE InterruptLate(c)
    <3>1. CASE current' = NoGeneration
      <4>1. Inbox' = EmptyDb
          BY <3>1 DEF Inbox, NoGeneration
      <4>2. \A d \in Commands : Keeps(draft[d].db, Inbox')
          BY <4>1, KeepsNothing
      <4>. QED  BY <2>10, <4>2 DEF InterruptLate, Forget, Goto
    <3>2. CASE current' = current
        BY <2>10, <3>2 DEF InterruptLate, Forget, Goto, Inbox
    <3>. QED  BY <2>10, <3>1, <3>2 DEF InterruptLate
  <2>. QED  BY <1>1, <2>1, <2>2, <2>3, <2>4, <2>5, <2>6, <2>7, <2>8, <2>9, <2>10
            DEF Command
<1>2. CASE UNCHANGED discoveryVars
    BY <1>2 DEF discoveryVars, Inbox
<1>. QED  BY <1>1, <1>2 DEF DiscoveryNext

\* Only a replacement by a command that was overtaken, or a late interrupt, takes
\* anything away.
LEMMA StepsKeep ==
  ASSUME InboxTyped, DraftsKeep, DiscoveryNext
  PROVE  \/ Keeps(Inbox', Inbox)
         \/ overtaken' /\ \E c \in behind : step[c] = "replace" /\ step'[c] = "published"
         \/ torn'
<1>1. PICK c \in Commands : Command(c)
    BY DEF DiscoveryNext
<1>2. Inbox \in Databases /\ DOMAIN step = Commands
    BY DEF InboxTyped, DiscoveryTypeOK
<1>3. CASE current' = current
    BY <1>2, <1>3, KeepsItself DEF Inbox
<1>4. CASE Replace(c)
  <2>1. CASE c \in behind
      BY <1>2, <1>4, <2>1 DEF Replace, Goto
  <2>2. CASE c \notin behind
      BY <1>4, <2>2 DEF Replace, DraftsKeep, Building, Inbox
  <2>. QED  BY <2>1, <2>2
<1>5. CASE InterruptLate(c)
    BY <1>3, <1>5 DEF InterruptLate
<1>. QED  BY <1>1, <1>3, <1>4, <1>5
          DEF Command, Configure, SaveSettings, Switch, BeginImport, BeginRefresh,
              ChildCompletes, BeginLabel, CopyCurrent, CreateCopy, WriteCopy,
              StoreObservation, StoreReview, Export, Return, Stop

\* What is published is never lost by any number of commands that overlap, raise or
\* die, but for the two exceptions that the property names (_publish, discovery.py).
THEOREM NothingIsForgotten == DiscoverySpec => NothingForgotten
<1>1. InboxTyped /\ DraftsKeep /\ [DiscoveryNext]_discoveryVars
      => [\/ Keeps(Inbox', Inbox)
          \/ \E c \in behind : step[c] = "replace" /\ step'[c] = "published"
          \/ torn']_discoveryVars
    BY StepsKeep
<1>. QED  BY InitInboxTyped, NextInboxTyped, InitKeep, NextKeep, <1>1, PTL
          DEF DiscoverySpec, NothingForgotten
-----------------------------------------------------------------------------
(* Evidence.                                                                 *)

LEMMA CopiedGrows ==
  ASSUME NEW db \in Databases, NEW old \in Databases, Keeps(db, old)
  PROVE  Copied(old) \subseteq Copied(db)
<1>1. db.observations \in Seq(Observations) /\ old.observations \in Seq(Observations)
    BY DatabaseFields
<1>2. /\ Len(old.observations) <= Len(db.observations)
      /\ \A i \in 1..Len(old.observations) : old.observations[i] = db.observations[i]
    BY <1>1, PrefixElements DEF Keeps
<1>3. ToSet(old.observations) \subseteq ToSet(db.observations)
    BY <1>1, <1>2 DEF ToSet
<1>. QED  BY <1>3 DEF Copied

\* A whole copy stays whole.
LEMMA WholeStays ==
  ASSUME InboxTyped, [DiscoveryNext]_discoveryVars, NEW p \in Payloads, evidence[p] = "whole"
  PROVE  evidence'[p] = "whole"
<1>. USE DEF InboxTyped, DiscoveryTypeOK
<1>1. CASE evidence' = evidence
    BY <1>1
<1>2. ASSUME NEW c \in Commands, Command(c), evidence' # evidence
      PROVE  CreateCopy(c) \/ WriteCopy(c)
    BY <1>2 DEF Command, Configure, SaveSettings, Switch, BeginImport, BeginRefresh,
         ChildCompletes, BeginLabel, CopyCurrent, StoreObservation, StoreReview, Export,
         Replace, Return, Stop, InterruptLate
<1>3. ASSUME NEW c \in Commands, CreateCopy(c) PROVE evidence'[p] = "whole"
    BY <1>3 DEF CreateCopy
<1>4. ASSUME NEW c \in Commands, WriteCopy(c) PROVE evidence'[p] = "whole"
    BY <1>4 DEF WriteCopy
<1>. QED  BY <1>1, <1>2, <1>3, <1>4 DEF DiscoveryNext, discoveryVars

\* Evidence that is served once is served ever after, while no command lost
\* another's work (_copy_evidence in discovery.py, discovery_dashboard.py).
THEOREM ServedStays == DiscoverySpec => EvidenceStays
<1>1. InboxTyped /\ InboxTyped' /\ DraftsKeep /\ [DiscoveryNext]_discoveryVars
      => [Alone' => \A p \in Payloads : Served(p) => Served(p)']_discoveryVars
  <2>. SUFFICES ASSUME InboxTyped, InboxTyped', DraftsKeep, DiscoveryNext, Alone',
                       NEW p \in Payloads, Served(p)
                PROVE  Served(p)'
      OBVIOUS
  <2>1. Keeps(Inbox', Inbox)
      BY StepsKeep DEF Alone
  <2>2. Copied(Inbox) \subseteq Copied(Inbox')
      BY <2>1, CopiedGrows DEF InboxTyped, DiscoveryTypeOK
  <2>3. evidence'[p] = "whole"
      BY WholeStays DEF Served
  <2>. QED  BY <2>2, <2>3 DEF Served, Inbox
<1>. QED  BY InitInboxTyped, NextInboxTyped, InitKeep, NextKeep, <1>1, PTL
          DEF DiscoverySpec, EvidenceStays
-----------------------------------------------------------------------------
(* Published generations are whole.                                          *)

\* What a draft claims to own is copied whole, and a draft that is about to be
\* published has been exported.
DraftsAreWhole ==
  \A c \in Commands :
    /\ step[c] \in Building => \A p \in Copied(draft[c].db) : evidence[p] = "whole"
    /\ step[c] = "replace" => draft[c].export = ExportRows(draft[c].db)

\* So is what an inbox without a generation claims: nothing.
InboxIsWhole ==
  /\ \A p \in Copied(Inbox) : evidence[p] = "whole"
  /\ GenerationIsWhole

LEMMA CopiedArePayloads ==
  ASSUME NEW db \in Databases PROVE Copied(db) \subseteq Payloads
<1>1. db.observations \in Seq(Observations)
    BY DatabaseFields
<1>2. ToSet(db.observations) \subseteq Observations
    BY <1>1 DEF ToSet
<1>. QED  BY <1>2 DEF Copied, Observations

LEMMA NothingCopied == Copied(EmptyDb) = {}
<1>1. ToSet(EmptyDb.observations) = {}
    BY DEF ToSet, EmptyDb
<1>. QED  BY <1>1 DEF Copied

\* An observation adds the evidence that it owns, a review none.
LEMMA CopiedByObservation ==
  ASSUME NEW db \in Databases, NEW i \in Observations, NEW p \in Copied(WithObservation(db, i))
  PROVE  p \in Copied(db) \/ (i.owned /\ p = i.payload)
<1>1. db.observations \in Seq(Observations)
    BY DatabaseFields
<1>2. WithObservation(db, i) = db
      \/ WithObservation(db, i).observations = Append(db.observations, i)
    BY DEF WithObservation
<1>3. ToSet(Append(db.observations, i)) \subseteq ToSet(db.observations) \cup {i}
    BY <1>1 DEF ToSet
<1>. QED  BY <1>2, <1>3 DEF Copied

LEMMA CopiedByReview ==
  ASSUME NEW db, NEW l, NEW label PROVE Copied(WithReview(db, l, label)) = Copied(db)
BY DEF Copied, WithReview

LEMMA InitWhole == DiscoveryInit => DraftsAreWhole /\ InboxIsWhole
BY NothingCopied
   DEF DiscoveryInit, DraftsAreWhole, InboxIsWhole, GenerationIsWhole, Building, Inbox,
       NoGeneration

LEMMA NextWhole ==
  InboxTyped /\ DraftsAreWhole /\ InboxIsWhole /\ [DiscoveryNext]_discoveryVars
    => DraftsAreWhole' /\ InboxIsWhole'
<1>. SUFFICES ASSUME InboxTyped, DraftsAreWhole, InboxIsWhole, [DiscoveryNext]_discoveryVars
              PROVE  DraftsAreWhole' /\ InboxIsWhole'
    OBVIOUS
<1>1. \A p \in Payloads : evidence[p] = "whole" => evidence'[p] = "whole"
    BY WholeStays
<1>2. \A c \in Commands : Copied(draft[c].db) \subseteq Payloads
    BY CopiedArePayloads DEF InboxTyped, DiscoveryTypeOK
<1>3. Copied(Inbox) \subseteq Payloads
    BY CopiedArePayloads DEF InboxTyped, DiscoveryTypeOK
<1>4. \A p \in Copied(Inbox) : evidence'[p] = "whole"
    BY <1>1, <1>3 DEF InboxIsWhole
<1>5. ASSUME current' = current PROVE InboxIsWhole'
    BY <1>4, <1>5 DEF InboxIsWhole, GenerationIsWhole, Inbox
<1>6. \A c \in Commands : step[c] \in Building
        => \A p \in Copied(draft[c].db) : evidence'[p] = "whole"
    BY <1>1, <1>2 DEF DraftsAreWhole
<1>7. ASSUME NEW c \in Commands, Command(c) PROVE DraftsAreWhole' /\ InboxIsWhole'
  <2>. USE DEF Building
  <2>1. CASE Configure(c) \/ SaveSettings(c) \/ Switch(c) \/ BeginRefresh(c)
      BY <1>5, <1>6, <2>1 DEF Configure, SaveSettings, Switch, BeginRefresh, Goto,
         DraftsAreWhole, InboxTyped, DiscoveryTypeOK
  <2>2. CASE BeginImport(c) \/ ChildCompletes(c)
      BY <1>5, <1>6, <2>2 DEF BeginImport, ChildCompletes, Prepare, Goto,
         DraftsAreWhole, InboxTyped, DiscoveryTypeOK
  <2>3. CASE BeginLabel(c)
      BY <1>5, <1>6, <2>3 DEF BeginLabel, Goto, DraftsAreWhole, InboxTyped, DiscoveryTypeOK
  <2>4. CASE CopyCurrent(c)
    <3>1. /\ draft' = [draft EXCEPT ![c] = [db |-> Inbox, export |-> <<>>]]
          /\ step' = [step EXCEPT ![c] = job[c].kind]
          /\ current' = current /\ job[c].kind # "replace"
        BY <2>4 DEF CopyCurrent, Goto, InboxTyped, JobFits
    <3>2. draft'[c].db = Inbox /\ \A d \in Commands \ {c} : draft'[d] = draft[d]
        BY <3>1 DEF InboxTyped, DiscoveryTypeOK
    <3>3. step'[c] # "replace" /\ \A d \in Commands \ {c} : step'[d] = step[d]
        BY <3>1 DEF InboxTyped, DiscoveryTypeOK
    <3>. QED  BY <1>4, <1>5, <1>6, <3>1, <3>2, <3>3 DEF DraftsAreWhole
  <2>5. CASE CreateCopy(c) \/ WriteCopy(c)
      BY <1>5, <1>6, <2>5 DEF CreateCopy, WriteCopy, Goto, DraftsAreWhole, InboxTyped,
         DiscoveryTypeOK
  <2>6. CASE StoreObservation(c)
    <3>1. PICK i \in job[c].todo :
            /\ i.owned => evidence[i.payload] = "whole"
            /\ draft' = [draft EXCEPT ![c].db = WithObservation(@, i)]
        BY <2>6 DEF StoreObservation
    <3>2. i \in Observations /\ step[c] = "import" /\ step' = step /\ current' = current
        BY <2>6, JobFields DEF StoreObservation, ghosts, InboxTyped, DiscoveryTypeOK, JobFits
    <3>3. draft'[c].db = WithObservation(draft[c].db, i)
          /\ \A d \in Commands \ {c} : draft'[d] = draft[d]
        BY <3>1 DEF InboxTyped, DiscoveryTypeOK, JobFits
    <3>4. \A p \in Copied(draft'[c].db) : evidence'[p] = "whole"
      <4>1. i.payload \in Payloads
          BY <3>2 DEF Observations
      <4>2. \A p \in Copied(WithObservation(draft[c].db, i)) :
              p \in Copied(draft[c].db) \/ (i.owned /\ p = i.payload)
          BY <3>2, CopiedByObservation DEF InboxTyped, DiscoveryTypeOK
      <4>. QED  BY <1>1, <1>6, <3>1, <3>2, <3>3, <4>1, <4>2
    <3>. QED  BY <1>5, <1>6, <3>2, <3>3, <3>4 DEF DraftsAreWhole
  <2>7. CASE StoreReview(c)
    <3>1. /\ draft' = [draft EXCEPT ![c].db = WithReview(@, job[c].lead, job[c].label)]
          /\ step[c] = "review" /\ step' = [step EXCEPT ![c] = "export"]
          /\ current' = current
        BY <2>7 DEF StoreReview, Goto
    <3>2. draft'[c].db = WithReview(draft[c].db, job[c].lead, job[c].label)
          /\ \A d \in Commands \ {c} : draft'[d] = draft[d]
        BY <3>1 DEF InboxTyped, DiscoveryTypeOK, JobFits
    <3>3. Copied(draft'[c].db) = Copied(draft[c].db)
        BY <3>2, CopiedByReview
    <3>4. step'[c] = "export" /\ \A d \in Commands \ {c} : step'[d] = step[d]
        BY <3>1 DEF InboxTyped, DiscoveryTypeOK
    <3>. QED  BY <1>5, <1>6, <3>1, <3>2, <3>3, <3>4 DEF DraftsAreWhole
  <2>8. CASE Export(c)
    <3>1. /\ draft' = [draft EXCEPT ![c].export = ExportRows(draft[c].db)]
          /\ step[c] \in Building /\ step' = [step EXCEPT ![c] = "replace"]
          /\ current' = current
        BY <2>8 DEF Export, Goto
    <3>2. draft'[c].db = draft[c].db /\ draft'[c].export = ExportRows(draft[c].db)
          /\ \A d \in Commands \ {c} : draft'[d] = draft[d]
        BY <3>1 DEF InboxTyped, DiscoveryTypeOK, JobFits
    <3>3. \A d \in Commands \ {c} : step'[d] = step[d]
        BY <3>1 DEF InboxTyped, DiscoveryTypeOK
    <3>. QED  BY <1>5, <1>6, <3>1, <3>2, <3>3 DEF DraftsAreWhole
  <2>9. CASE Replace(c)
    <3>1. /\ current' = draft[c] /\ step[c] = "replace" /\ draft' = draft
          /\ step' = [step EXCEPT ![c] = "published"]
        BY <2>9 DEF Replace, Goto
    <3>2. InboxIsWhole'
        BY <1>6, <3>1 DEF InboxIsWhole, GenerationIsWhole, DraftsAreWhole, Inbox
    <3>3. DraftsAreWhole'
        BY <1>6, <3>1 DEF DraftsAreWhole, InboxTyped, DiscoveryTypeOK
    <3>. QED  BY <3>2, <3>3
  <2>10. CASE Return(c) \/ Stop(c)
    <3>1. DraftsAreWhole'
        BY <1>6, <2>10 DEF Return, Stop, Forget, Goto, DraftsAreWhole, InboxTyped,
           DiscoveryTypeOK
    <3>. QED  BY <1>5, <2>10, <3>1 DEF Return, Stop
  <2>11. CASE InterruptLate(c)
    <3>1. DraftsAreWhole'
        BY <1>6, <2>11 DEF InterruptLate, Forget, Goto, DraftsAreWhole, InboxTyped,
           DiscoveryTypeOK
    <3>2. CASE current' = NoGeneration
      <4>1. Inbox' = EmptyDb
          BY <3>2 DEF Inbox, NoGeneration
      <4>2. \A p \in Copied(Inbox') : evidence'[p] = "whole"
          BY <4>1, NothingCopied
      <4>3. GenerationIsWhole'
          BY <3>2 DEF GenerationIsWhole, NoGeneration, EmptyDb
      <4>4. InboxIsWhole'
          BY <4>2, <4>3 DEF InboxIsWhole
      <4>. QED  BY <3>1, <4>4
    <3>3. CASE current' = current
        BY <1>5, <3>1, <3>3
    <3>. QED  BY <2>11, <3>2, <3>3 DEF InterruptLate
  <2>. QED  BY <1>7, <2>1, <2>2, <2>3, <2>4, <2>5, <2>6, <2>7, <2>8, <2>9, <2>10, <2>11
            DEF Command
<1>8. CASE UNCHANGED discoveryVars
    BY <1>5, <1>6, <1>8 DEF discoveryVars, DraftsAreWhole
<1>. QED  BY <1>7, <1>8 DEF DiscoveryNext
-----------------------------------------------------------------------------
(* Labels follow reviews.                                                    *)

\* Only known leads are reviewed, and their labels follow.
ReviewsFit(db) ==
  LabelsFit(db) /\ \A i \in DOMAIN db.reviews : db.reviews[i].lead \in DOMAIN db.label

LEMMA ObservationFits ==
  ASSUME NEW db \in Databases, NEW i \in Observations, ReviewsFit(db)
  PROVE  ReviewsFit(WithObservation(db, i))
<1>. DEFINE new ==
       [label |-> [l \in DOMAIN db.label \cup {i.lead} |->
                     IF l \in DOMAIN db.label THEN db.label[l] ELSE Unreviewed],
        observations |-> Append(db.observations, i), reviews |-> db.reviews]
<1>1. ReviewsFit(new)
    BY DEF ReviewsFit, LabelsFit
<1>. QED  BY <1>1 DEF WithObservation

LEMMA ReviewFits ==
  ASSUME NEW db \in Databases, NEW l \in DOMAIN db.label, NEW label \in Labels,
         ReviewsFit(db)
  PROVE  ReviewsFit(WithReview(db, l, label))
<1>. DEFINE new == WithReview(db, l, label)
            r == [lead |-> l, label |-> label]
            n == Len(db.reviews)
<1>1. PICK ls \in SUBSET Leads : db.label \in [ls -> AllLabels]
  <2>1. db.label \in UNION {[ls -> AllLabels] : ls \in SUBSET Leads}
      BY DatabaseFields
  <2>. QED  BY <2>1
<1>2. db.reviews \in Seq(LeadReviews) /\ n \in Nat /\ DOMAIN db.reviews = 1..n
    BY DatabaseFields
<1>3. r \in LeadReviews
    BY <1>1 DEF LeadReviews
<1>4. /\ DOMAIN new.label = DOMAIN db.label /\ new.label[l] = label
      /\ \A k \in DOMAIN db.label : k # l => new.label[k] = db.label[k]
    BY DEF WithReview
<1>5. new.reviews = Append(db.reviews, r)
    BY DEF WithReview
<1>6. /\ DOMAIN new.reviews = 1..(n + 1) /\ new.reviews[n + 1] = r
      /\ \A i \in 1..n : new.reviews[i] = db.reviews[i]
    BY <1>2, <1>3, <1>5
<1>. HIDE DEF new, r, n
<1>7. r.lead = l /\ r.label = label /\ r = [lead |-> l, label |-> label]
    BY DEF r
<1>8. \A i \in DOMAIN new.reviews : new.reviews[i].lead \in DOMAIN new.label
    BY <1>2, <1>4, <1>6, <1>7 DEF ReviewsFit
<1>9. ASSUME NEW k \in DOMAIN new.label
      PROVE  \/ /\ new.label[k] = Unreviewed
                /\ \A i \in DOMAIN new.reviews : new.reviews[i].lead # k
             \/ \E i \in DOMAIN new.reviews :
                  /\ new.reviews[i] = [lead |-> k, label |-> new.label[k]]
                  /\ \A j \in DOMAIN new.reviews : j > i => new.reviews[j].lead # k
  <2>1. CASE k = l
    <3>1. new.reviews[n + 1] = [lead |-> k, label |-> new.label[k]]
        BY <1>4, <1>6, <1>7, <2>1
    <3>2. n + 1 \in DOMAIN new.reviews /\ \A j \in DOMAIN new.reviews : ~(j > n + 1)
        BY <1>2, <1>6
    <3>. QED  BY <3>1, <3>2
  <2>2. CASE k # l
    <3>1. k \in DOMAIN db.label /\ new.label[k] = db.label[k]
        BY <1>4, <2>2
    <3>2. CASE /\ db.label[k] = Unreviewed
               /\ \A i \in DOMAIN db.reviews : db.reviews[i].lead # k
      <4>1. new.label[k] = Unreviewed
          BY <3>1, <3>2
      <4>2. ASSUME NEW i \in DOMAIN new.reviews PROVE new.reviews[i].lead # k
        <5>1. CASE i = n + 1
            BY <1>6, <1>7, <2>2, <5>1
        <5>2. CASE i # n + 1
          <6>1. i \in 1..n
              BY <1>2, <1>6, <5>2
          <6>. QED  BY <1>2, <1>6, <3>2, <6>1
        <5>. QED  BY <5>1, <5>2
      <4>. QED  BY <4>1, <4>2
    <3>3. ASSUME NEW i \in DOMAIN db.reviews,
                 db.reviews[i] = [lead |-> k, label |-> db.label[k]],
                 \A j \in DOMAIN db.reviews : j > i => db.reviews[j].lead # k
          PROVE  /\ i \in DOMAIN new.reviews
                 /\ new.reviews[i] = [lead |-> k, label |-> new.label[k]]
                 /\ \A j \in DOMAIN new.reviews : j > i => new.reviews[j].lead # k
        BY <1>2, <1>6, <1>7, <2>2, <3>1, <3>3
    <3>. QED  BY <3>1, <3>2, <3>3 DEF ReviewsFit, LabelsFit
  <2>. QED  BY <2>1, <2>2
<1>. QED  BY <1>8, <1>9 DEF ReviewsFit, LabelsFit, new

LEMMA EmptyFits == ReviewsFit(EmptyDb)
<1>1. DOMAIN EmptyDb.label = {} /\ DOMAIN EmptyDb.reviews = {}
    BY DEF EmptyDb
<1>. QED  BY <1>1 DEF ReviewsFit, LabelsFit

\* While no work is lost, a review is of a lead that its command's copy has.
ReviewsInHand ==
  Alone =>
    /\ ReviewsFit(Inbox)
    /\ \A c \in Commands :
         /\ step[c] \in Building => ReviewsFit(draft[c].db)
         /\ step[c] = "copy" /\ job[c].kind = "review" => job[c].lead \in DOMAIN Inbox.label
         /\ step[c] = "review" => job[c].lead \in DOMAIN draft[c].db.label

LEMMA InitReviews == DiscoveryInit => ReviewsInHand
BY EmptyFits DEF DiscoveryInit, ReviewsInHand, Building, Inbox, NoGeneration

LEMMA NextReviews ==
  InboxTyped /\ DraftsKeep /\ ReviewsInHand /\ [DiscoveryNext]_discoveryVars => ReviewsInHand'
<1>. SUFFICES ASSUME InboxTyped, DraftsKeep, ReviewsInHand, [DiscoveryNext]_discoveryVars, Alone'
              PROVE  ReviewsInHand'
    BY DEF ReviewsInHand
<1>. USE DEF InboxTyped, DiscoveryTypeOK, JobFits, ReviewsInHand, Building
<1>1. ASSUME NEW c \in Commands, Command(c) PROVE ReviewsInHand'
  <2>1. CASE Configure(c) \/ SaveSettings(c) \/ Switch(c) \/ BeginRefresh(c)
      BY <2>1 DEF Configure, SaveSettings, Switch, BeginRefresh, Goto, ghosts, Inbox, Alone
  <2>2. CASE BeginImport(c) \/ ChildCompletes(c)
    <3>1. job'[c].kind = "import" /\ \A d \in Commands \ {c} : job'[d] = job[d]
        BY <2>2, PrepareTyped DEF BeginImport, ChildCompletes
    <3>. QED  BY <2>2, <3>1 DEF BeginImport, ChildCompletes, Prepare, Goto, ghosts, Inbox,
         Alone
  <2>3. CASE BeginLabel(c)
      BY <2>3 DEF BeginLabel, Goto, ghosts, Inbox, Alone
  <2>4. CASE CopyCurrent(c)
    <3>1. /\ draft' = [draft EXCEPT ![c] = [db |-> Inbox, export |-> <<>>]]
          /\ step[c] = "copy" /\ step' = [step EXCEPT ![c] = job[c].kind]
          /\ UNCHANGED <<current, job, overtaken, torn>>
        BY <2>4 DEF CopyCurrent, Goto
    <3>. QED  BY <3>1 DEF Inbox, Alone
  <2>5. CASE CreateCopy(c) \/ WriteCopy(c) \/ Export(c)
    <3>1. /\ UNCHANGED <<current, overtaken, torn>>
          /\ step[c] \in {"import", "write", "export"}
          /\ step' = [step EXCEPT ![c] = step'[c]] /\ step'[c] \notin {"copy", "review"}
          /\ \A d \in Commands \ {c} : job'[d] = job[d]
          /\ \A d \in Commands : draft'[d].db = draft[d].db
      <4>1. CASE CreateCopy(c)
          BY <4>1 DEF CreateCopy, Goto, ghosts
      <4>2. CASE WriteCopy(c)
          BY <4>2 DEF WriteCopy, Goto, ghosts
      <4>3. CASE Export(c)
          BY <4>3 DEF Export, Goto, ghosts
      <4>. QED  BY <2>5, <4>1, <4>2, <4>3
    <3>. QED  BY <3>1 DEF Inbox, Alone
  <2>6. CASE StoreObservation(c)
    <3>1. PICK i \in job[c].todo : draft' = [draft EXCEPT ![c].db = WithObservation(@, i)]
        BY <2>6 DEF StoreObservation
    <3>2. i \in Observations /\ step[c] = "import" /\ step' = step
          /\ UNCHANGED <<current, overtaken, torn>>
          /\ \A d \in Commands \ {c} : job'[d] = job[d]
        BY <2>6, JobFields DEF StoreObservation, ghosts
    <3>3. draft'[c].db = WithObservation(draft[c].db, i)
          /\ \A d \in Commands \ {c} : draft'[d] = draft[d]
        BY <3>1
    <3>4. ReviewsFit(draft'[c].db)
        BY <3>2, <3>3, ObservationFits DEF Alone
    <3>. QED  BY <3>2, <3>3, <3>4 DEF Inbox, Alone
  <2>7. CASE StoreReview(c)
    <3>1. /\ draft' = [draft EXCEPT ![c].db = WithReview(@, job[c].lead, job[c].label)]
          /\ step[c] = "review" /\ step' = [step EXCEPT ![c] = "export"]
          /\ UNCHANGED <<current, job, overtaken, torn>>
        BY <2>7 DEF StoreReview, Goto, ghosts
    <3>2. job[c].label \in Labels /\ job[c].lead \in DOMAIN draft[c].db.label
        BY <3>1, JobFields DEF Alone
    <3>3. draft'[c].db = WithReview(draft[c].db, job[c].lead, job[c].label)
          /\ \A d \in Commands \ {c} : draft'[d] = draft[d]
        BY <3>1
    <3>4. ReviewsFit(draft'[c].db)
        BY <3>1, <3>2, <3>3, ReviewFits DEF Alone
    <3>. QED  BY <3>1, <3>3, <3>4 DEF Inbox, Alone
  <2>8. CASE Replace(c)
    <3>1. /\ current' = draft[c] /\ step[c] = "replace" /\ UNCHANGED <<draft, job>>
          /\ step' = [step EXCEPT ![c] = "published"] /\ c \notin behind /\ Alone
        BY <2>8 DEF Replace, Goto, Alone
    <3>2. DOMAIN Inbox.label \subseteq DOMAIN Inbox'.label
        BY <3>1 DEF DraftsKeep, Keeps, Inbox
    <3>3. ReviewsFit(Inbox')
        BY <3>1 DEF Inbox
    <3>. QED  BY <3>1, <3>2, <3>3
  <2>9. CASE Return(c) \/ Stop(c)
    <3>1. /\ UNCHANGED <<current, overtaken, torn>>
          /\ step' = [step EXCEPT ![c] = "idle"] /\ job' = [job EXCEPT ![c] = NoJob]
          /\ draft' = [draft EXCEPT ![c] = NoGeneration]
        BY <2>9 DEF Return, Stop, Forget, Goto
    <3>. QED  BY <3>1 DEF Inbox, Alone
  <2>10. CASE InterruptLate(c)
      BY <2>10 DEF InterruptLate, Forget, Goto, Inbox, Alone
  <2>. QED  BY <1>1, <2>1, <2>2, <2>3, <2>4, <2>5, <2>6, <2>7, <2>8, <2>9, <2>10
            DEF Command
<1>2. CASE UNCHANGED discoveryVars
    BY <1>2 DEF discoveryVars, Inbox, Alone
<1>. QED  BY <1>1, <1>2 DEF DiscoveryNext

\* What CURRENT names has an export of its database, whole evidence and, while no
\* command lost another's work, labels that follow its reviews, for any number of
\* commands (DiscoveryStore, discovery.py).
THEOREM PublishedIsComplete == DiscoverySpec => []CurrentIsComplete
<1>1. ReviewsInHand => LabelsFollowReviews
    BY DEF ReviewsInHand, ReviewsFit, LabelsFollowReviews
<1>2. InboxIsWhole => GenerationIsWhole
    BY DEF InboxIsWhole
<1>. QED  BY InitInboxTyped, NextInboxTyped, InitKeep, NextKeep, InitWhole, NextWhole, InitReviews,
             NextReviews, <1>1, <1>2, PTL DEF DiscoverySpec, CurrentIsComplete
=============================================================================
