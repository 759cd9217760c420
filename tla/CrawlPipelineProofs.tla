------------------------ MODULE CrawlPipelineProofs ------------------------
(***************************************************************************)
(* Proofs about CrawlPipeline, for any sources, listings, contents and     *)
(* policies and for every choice of faults.                                *)
(***************************************************************************)
EXTENDS CrawlPipeline, TLAPS

\* What the control state says about the process variables: the part of the
\* typing that is only true at some places of the code.
Located ==
  /\ pc \in {"product", "enqueue", "put"} => src \in Sources
  /\ pc \in {"enqueue", "put"} => change \in Changes
  /\ pc = "put" => entry \in events
  /\ pc = "mark" => mailing \in batch
  /\ pc \notin {"post", "mark"} => batch = {}
  /\ batch \subseteq DOMAIN outbox

Typed == TypeOK /\ Located

\* The dedup keys of a transition are keys.
LEMMA KeysOfTyped == \A t \in Changes : KeysOf(t) \subseteq Keys
<1> SUFFICES ASSUME NEW t \in Changes, NEW k \in Diff(t.listing, t.before, t.after)
             PROVE  Retype(k, t.relation) \in Keys
    BY DEF KeysOf
<1>1. t.listing \in Listings /\ t.after \in Contents
      /\ (t.before \in Contents \/ t.before = NoValue)
    BY DEF Changes
<1>2. k \in Keys
  <2>1. CASE t.before = NoValue
      BY <1>1, <2>1 DEF Diff, Key, Keys
  <2>2. CASE t.before # NoValue
    <3>1. t.before \in [chip : Chips, spec : Specs, image : Images]
          /\ t.after \in [chip : Chips, spec : Specs, image : Images]
        BY <1>1, <2>2, PipelineAssumption
    <3>. QED  BY <1>1, <2>2, <3>1 DEF Diff, When, Key, Keys
  <2>. QED  BY <2>1, <2>2
<1>3. \/ Retype(k, t.relation) = k
      \/ /\ k.type = "new_product"
         /\ Retype(k, t.relation) = [k EXCEPT !.type = "duplicate_listing"]
    BY DEF Retype
<1>. QED  BY <1>2, <1>3 DEF Keys

\* The events of a transition are events.
LEMMA StampedTyped ==
  ASSUME TypeOK, NEW t \in Changes
  PROVE  Stamped(t) \subseteq Events
<1> SUFFICES ASSUME NEW k \in KeysOf(t)
             PROVE  [key |-> k, chip |-> t.after.chip,
                     unseen |-> Unseen(t.after.chip)
                                /\ k.type \in {"new_product", "duplicate_listing",
                                               "component_changed"},
                     baseline |-> BaselineQuiet /\ ~hadOk] \in Events
    BY DEF Stamped
<1>1. k \in Keys
    BY KeysOfTyped
<1>2. t.after.chip \in Chips
    BY PipelineAssumption DEF Changes
<1>3. (BaselineQuiet /\ ~hadOk) \in BOOLEAN
    OBVIOUS
<1>4. (Unseen(t.after.chip)
       /\ k.type \in {"new_product", "duplicate_listing", "component_changed"}) \in BOOLEAN
    OBVIOUS
<1>. QED  BY <1>1, <1>2, <1>3, <1>4 DEF Events

LEMMA InitTyped == Init => Typed
<1> SUFFICES ASSUME Init PROVE Typed
    OBVIOUS
<1>. USE PipelineAssumption DEF Init
<1>1. snaps \in [Listings -> Seq(Contents)] /\ obs \in [Listings -> Contents \cup {NoValue}]
    OBVIOUS
<1>2. DOMAIN outbox \subseteq Keys /\ outbox \in [DOMAIN outbox -> Rows]
    OBVIOUS
<1>3. posts \in [Keys -> 0..2]
    OBVIOUS
<1>4. TypeOK
    BY <1>1, <1>2, <1>3 DEF TypeOK
<1>. QED  BY <1>4 DEF Typed, Located

\* Every step of the crawl keeps the typing.
LEMMA CrawlTyped == ASSUME Typed, Crawl PROVE Typed'
<1>. USE PipelineAssumption DEF Typed, TypeOK, Located, store, process, history
<1>1. CASE StartRun
    BY <1>1 DEF StartRun
<1>2. ASSUME NEW s \in Sources, CrawlSource(s) PROVE Typed'
    BY <1>2 DEF CrawlSource, Visit
<1>3. ASSUME NEW s \in Sources, UnhealthySource(s) PROVE Typed'
    BY <1>3 DEF UnhealthySource, Visit
<1>4. ASSUME NEW s \in Sources, BrokenSource(s) PROVE Typed'
    BY <1>4 DEF BrokenSource, Visit
<1>5. ASSUME NEW p \in Listings, SkipProduct(p) PROVE Typed'
    BY <1>5 DEF SkipProduct
<1>6. ASSUME NEW p \in Listings, UnchangedProduct(p) PROVE Typed'
    BY <1>6 DEF UnchangedProduct, Latest
<1>7. ASSUME NEW p \in Listings, NEW c \in Contents, ChangedProduct(p, c) PROVE Typed'
  <2>1. PICK prior \in Priors(p) :
           LET t == [listing |-> p, before |-> prior.before, after |-> c,
                     relation |-> prior.relation]
           IN change' = t /\ queue' = Stamped(t) /\ changes' = changes \cup {t}
      BY <1>7 DEF ChangedProduct
  <2>2. prior.before \in Contents \cup {NoValue} /\ prior.relation \in Relations
    <3>1. \A q \in Listings : snaps[q] # <<>> => Latest(q) \in Contents
        BY DEF Latest
    <3>. QED  BY <3>1 DEF Priors, Siblings, Relations
  <2>3. change' \in Changes /\ changes' \subseteq Changes
      BY <2>1, <2>2 DEF Changes
  <2>4. queue' \subseteq Events
      BY <2>1, <2>3, StampedTyped
  <2>5. newChip' \in Recognized \cup {NoValue}
      BY <1>7 DEF ChangedProduct, Unseen
  <2>6. snaps' \in [Listings -> Seq(Contents)]
      BY <1>7 DEF ChangedProduct, WithSnapshot
  <2>. QED  BY <1>7, <2>3, <2>4, <2>5, <2>6 DEF ChangedProduct
<1>8. ASSUME NEW e \in queue, RecordEvent(e) PROVE Typed'
    BY <1>8 DEF RecordEvent
<1>9. CASE OutboxPut
  <2>1. entry \in Events
      BY <1>9 DEF OutboxPut
  <2>2. entry.key \in Keys /\ BirthStatus(entry) \in Statuses
      BY <2>1 DEF Events, BirthStatus, Statuses
  <2>3. [status |-> BirthStatus(entry), attempts |-> 0] \in Rows
      BY <2>2 DEF Rows
  <2>. QED  BY <1>9, <2>1, <2>2, <2>3 DEF OutboxPut
<1>10. CASE LearnComponents
    BY <1>10 DEF LearnComponents
<1>11. CASE ProductRaises
    BY <1>11 DEF ProductRaises, CutShort
<1>12. CASE FinishSource
    BY <1>12 DEF FinishSource
<1>13. CASE FinishPlan
    BY <1>13 DEF FinishPlan
<1>. QED
    BY <1>1, <1>2, <1>3, <1>4, <1>5, <1>6, <1>7, <1>8, <1>9, <1>10, <1>11, <1>12, <1>13
       DEF Crawl

\* The rows an outbox_mark leaves behind are rows.
LEMMA MarkTyped ==
  ASSUME TypeOK, NEW k \in Keys, NEW status \in Statuses, Mark(k, status)
  PROVE  /\ DOMAIN outbox' = DOMAIN outbox
         /\ outbox' \in [DOMAIN outbox' -> Rows]
<1>1. \A n \in 0..(MaxAttempts + 1) : Bump(n, MaxAttempts + 1) \in 0..(MaxAttempts + 1)
    BY PipelineAssumption DEF Bump
<1>. QED  BY <1>1 DEF TypeOK, Mark, Rows

\* Every step of a drain keeps the typing.
LEMMA DrainTyped == ASSUME Typed, Drain PROVE Typed'
<1>. USE PipelineAssumption DEF Typed, TypeOK, Located, store, process, history, LeaveDrain
<1>1. CASE DrainUnconfigured
    BY <1>1 DEF DrainUnconfigured
<1>2. CASE DrainStart
    BY <1>2 DEF DrainStart, Pending
<1>3. CASE MarkSent
    BY <1>3, MarkTyped DEF MarkSent, Statuses
<1>4. CASE EndDrain
    BY <1>4 DEF EndDrain
<1>5. CASE DrainRaises
    BY <1>5 DEF DrainRaises, CutShort
<1>6. ASSUME NEW k \in batch, NeutraliseMuted(k) PROVE Typed'
    BY <1>6, MarkTyped DEF NeutraliseMuted, Statuses
<1>7. ASSUME NEW k \in batch, PostAccepted(k) PROVE Typed'
  <2>1. \A n \in 0..2 : Bump(n, 2) \in 0..2
      BY DEF Bump
  <2>2. posts' \in [Keys -> 0..2]
      BY <1>7, <2>1 DEF PostAccepted
  <2>. QED  BY <1>7, <2>2 DEF PostAccepted, Postable
<1>8. ASSUME NEW k \in batch, PostRateLimited(k) PROVE Typed'
    BY <1>8, MarkTyped DEF PostRateLimited, Postable, Statuses
<1>9. ASSUME NEW k \in batch, PostFails(k) PROVE Typed'
  <2>1. \A n \in 0..2 : Bump(n, 2) \in 0..2
      BY DEF Bump
  <2>2. posts' \in [Keys -> 0..2] /\ unacked' \subseteq Keys
      BY <1>9, <2>1 DEF PostFails
  <2>3. /\ outbox' \in [DOMAIN outbox -> Rows]
        /\ DOMAIN outbox' = DOMAIN outbox
      BY <1>9, MarkTyped DEF PostFails, Statuses
  <2>. QED  BY <1>9, <2>2, <2>3 DEF PostFails, Postable
<1>. QED
    BY <1>1, <1>2, <1>3, <1>4, <1>5, <1>6, <1>7, <1>8, <1>9 DEF Drain

\* The environment keeps the typing.
LEMMA EnvironmentTyped ==
  ASSUME Typed, Kill \/ EditPolicy \/ SuppressPending PROVE Typed'
<1>. USE PipelineAssumption DEF Typed, TypeOK, Located, store, process, history
<1>1. CASE Kill
    BY <1>1 DEF Kill, CutShort
<1>2. CASE EditPolicy
    BY <1>2 DEF EditPolicy
<1>3. CASE SuppressPending
  <2>1. \A r \in Rows : [r EXCEPT !.status = "suppressed"] \in Rows
      BY DEF Rows, Statuses
  <2>2. DOMAIN outbox' = DOMAIN outbox /\ outbox' \in [DOMAIN outbox' -> Rows]
      BY <1>3, <2>1 DEF SuppressPending
  <2>. QED  BY <1>3, <2>2 DEF SuppressPending
<1>. QED  BY <1>1, <1>2, <1>3

\* Every reachable state is typed.
LEMMA TypedAlways == Spec => []Typed
<1>1. Typed /\ [Next]_vars => Typed'
  <2> SUFFICES ASSUME Typed, [Next]_vars PROVE Typed'
      OBVIOUS
  <2>1. CASE UNCHANGED vars
      BY <2>1 DEF vars, store, process, history, Typed, TypeOK, Located
  <2>. QED  BY <2>1, CrawlTyped, DrainTyped, EnvironmentTyped DEF Next
<1>. QED  BY InitTyped, <1>1, PTL DEF Spec

\* TypeOK for every instance: what the store, the process and the observer hold
\* is well formed wherever the crawl, a drain or a kill has got to.
THEOREM TypeCorrect == Spec => []TypeOK
<1>. QED  BY TypedAlways, PTL DEF Typed
-----------------------------------------------------------------------------
(* Nothing is deleted: events stay recorded and keys stay in the outbox.   *)

LEMMA MarkDomain ==
  \A k, status : Mark(k, status) => DOMAIN outbox' = DOMAIN outbox
    BY DEF Mark

LEMMA NothingDeleted ==
  ASSUME [Next]_vars PROVE events \subseteq events' /\ DOMAIN outbox \subseteq DOMAIN outbox'
<1>. USE DEF store, process, history
<1>1. CASE UNCHANGED vars
    BY <1>1 DEF vars
<1>2. CASE Crawl
    BY <1>2 DEF Crawl, StartRun, FinishSource, FinishPlan, OutboxPut, LearnComponents,
       ProductRaises, CrawlSource, UnhealthySource, BrokenSource, Visit, SkipProduct,
       UnchangedProduct, ChangedProduct, RecordEvent
<1>3. CASE Drain
    BY <1>3, MarkDomain DEF Drain, DrainUnconfigured, DrainStart, MarkSent, EndDrain,
       DrainRaises, NeutraliseMuted, PostAccepted, PostRateLimited, PostFails
<1>4. CASE Kill \/ EditPolicy \/ SuppressPending
    BY <1>4 DEF Kill, EditPolicy, SuppressPending
<1>. QED  BY <1>1, <1>2, <1>3, <1>4 DEF Next
-----------------------------------------------------------------------------
(* EveryChangeEnqueued.  While a transition is being enqueued each of its  *)
(* keys is in the outbox, in the queue, or between its two commits.        *)

Underway(k) ==
  Enqueued(k) \/ (\E e \in queue : e.key = k) \/ (pc = "put" /\ entry.key = k)

EnqueueInv ==
  /\ EveryChangeEnqueued
  /\ pc \in {"enqueue", "put"} => \A k \in KeysOf(change) : Underway(k)

\* An enqueued key stays enqueued.
LEMMA EnqueuedStays == ASSUME [Next]_vars, NEW k, Enqueued(k) PROVE Enqueued(k)'
<1>. QED  BY NothingDeleted DEF Enqueued

LEMMA EnqueueStep == ASSUME Typed, EnqueueInv, [Next]_vars PROVE EnqueueInv'
<1>. USE DEF EnqueueInv, EveryChangeEnqueued, InFlight, store, process, history
<1>0. \A t \in Changes : (\A k \in KeysOf(t) : Enqueued(k)) => \A k \in KeysOf(t) : Enqueued(k)'
    BY EnqueuedStays
<1>1. CASE /\ changes' = changes /\ cut' = cut /\ pc' \notin {"enqueue", "put"}
           /\ pc \notin {"enqueue", "put"}
    BY <1>1, <1>0 DEF Typed, TypeOK
<1>2. CASE UNCHANGED vars
    BY <1>2 DEF vars, Underway, Enqueued
<1>3. ASSUME NEW p \in Listings, NEW c \in Contents, ChangedProduct(p, c) PROVE EnqueueInv'
  <2>1. PICK t : change' = t /\ queue' = Stamped(t) /\ changes' = changes \cup {t}
      BY <1>3 DEF ChangedProduct
  <2>2. ASSUME NEW k \in KeysOf(t) PROVE \E e \in Stamped(t) : e.key = k
    <3>. DEFINE stamp ==
           [key |-> k, chip |-> t.after.chip,
            unseen |-> Unseen(t.after.chip)
                       /\ k.type \in {"new_product", "duplicate_listing",
                                      "component_changed"},
            baseline |-> BaselineQuiet /\ ~hadOk]
    <3>1. stamp \in Stamped(t)
        BY DEF Stamped
    <3>2. stamp.key = k
        OBVIOUS
    <3>. QED  BY <3>1, <3>2
  <2>3. pc = "product" /\ pc' = "enqueue" /\ cut' = cut
      BY <1>3 DEF ChangedProduct
  <2>. QED  BY <2>1, <2>2, <2>3, <1>0 DEF Underway, Typed, TypeOK
<1>4. ASSUME NEW e \in queue, RecordEvent(e) PROVE EnqueueInv'
  <2>1. /\ pc = "enqueue" /\ pc' = "put" /\ queue' = queue \ {e} /\ entry' = e
        /\ change' = change /\ changes' = changes /\ cut' = cut
      BY <1>4 DEF RecordEvent
  <2>2. \A k \in KeysOf(change) : Underway(k) => Underway(k)'
      BY <2>1, EnqueuedStays DEF Underway
  <2>. QED  BY <2>1, <2>2, <1>0 DEF Typed, TypeOK
<1>5. CASE OutboxPut
  <2>1. /\ pc = "put" /\ pc' = "enqueue" /\ queue' = queue
        /\ change' = change /\ changes' = changes /\ cut' = cut
        /\ entry.key \in DOMAIN outbox' /\ events' = events
      BY <1>5 DEF OutboxPut
  <2>2. \A k : k = entry.key => Enqueued(k)'
      BY <2>1 DEF Enqueued, Typed, Located
  <2>3. \A k \in KeysOf(change) : Underway(k) => Underway(k)'
      BY <2>1, <2>2, EnqueuedStays DEF Underway
  <2>. QED  BY <2>1, <2>3, <1>0 DEF Typed, TypeOK
<1>6. CASE LearnComponents
  <2>1. /\ pc = "enqueue" /\ queue = {} /\ pc' = "product"
        /\ changes' = changes /\ cut' = cut
      BY <1>6 DEF LearnComponents
  <2>2. \A k \in KeysOf(change) : Enqueued(k)
      BY <2>1 DEF Underway
  <2>. QED  BY <2>1, <2>2, <1>0 DEF Typed, TypeOK
<1>7. CASE CutShort /\ changes' = changes /\ pc' \notin {"enqueue", "put"}
  <2>1. pc = "enqueue" /\ queue = {} => \A k \in KeysOf(change) : Enqueued(k)
      BY DEF Underway
  <2>. QED  BY <1>7, <2>1, <1>0 DEF CutShort, Typed, TypeOK
<1>8. CASE EditPolicy \/ SuppressPending
  <2>1. /\ pc' = pc /\ queue' = queue /\ entry' = entry
        /\ change' = change /\ changes' = changes /\ cut' = cut
      BY <1>8 DEF EditPolicy, SuppressPending
  <2>2. \A k \in KeysOf(change) : Underway(k) => Underway(k)'
      BY <2>1, EnqueuedStays DEF Underway
  <2>. QED  BY <2>1, <2>2, <1>0 DEF Typed, TypeOK
<1>9. CASE Crawl
    BY <1>1, <1>3, <1>4, <1>5, <1>6, <1>7, <1>9 DEF Crawl, StartRun, FinishSource,
       FinishPlan, ProductRaises, CrawlSource, UnhealthySource, BrokenSource, Visit,
       SkipProduct, UnchangedProduct
<1>10. CASE Drain
    BY <1>1, <1>7, <1>10 DEF Drain, DrainUnconfigured, DrainStart, MarkSent, EndDrain,
       DrainRaises, NeutraliseMuted, PostAccepted, PostRateLimited, PostFails, Postable,
       LeaveDrain
<1>11. CASE Kill
    BY <1>7, <1>11 DEF Kill
<1>. QED  BY <1>2, <1>8, <1>9, <1>10, <1>11 DEF Next

\* EveryChangeEnqueued for every instance: a committed change loses its alert
\* only to an interruption of its own enqueueing.
THEOREM ChangesAreEnqueued == Spec => []EveryChangeEnqueued
<1>1. Init => EnqueueInv
    BY DEF Init, EnqueueInv, EveryChangeEnqueued
<1>. QED  BY <1>1, EnqueueStep, TypedAlways, PTL DEF Spec, EnqueueInv
-----------------------------------------------------------------------------
(* PostsAreEarned.  A row is born pending only for an event that earns a   *)
(* message, and a drain writes back no row it did not read as pending.     *)

EarnedInv ==
  /\ PostsAreEarned
  /\ \A k \in Pending \cup batch : Earned(k)

\* An event once recorded goes on earning its messages.
LEMMA EarnedStays == ASSUME [Next]_vars, NEW k, Earned(k) PROVE Earned(k)'
<1>. QED  BY NothingDeleted DEF Earned, Severity

LEMMA EarnedStep == ASSUME Typed, EarnedInv, [Next]_vars PROVE EarnedInv'
<1>. USE DEF EarnedInv, PostsAreEarned, Pending, store, process, history
<1>1. \A k : Earned(k) => Earned(k)'
    BY EarnedStays
<1>2. CASE posts' = posts /\ outbox' = outbox /\ (batch' = batch \/ batch' = {})
    BY <1>1, <1>2
<1>3. CASE OutboxPut
  <2>1. /\ pc = "put" /\ posts' = posts /\ batch' = batch /\ events' = events
        /\ \A k \in DOMAIN outbox' :
             \/ k \in DOMAIN outbox /\ outbox'[k] = outbox[k]
             \/ k = entry.key /\ outbox'[k].status = BirthStatus(entry)
      BY <1>3 DEF OutboxPut
  <2>2. entry \in events /\ Severity(entry) \in Nat /\ MinSeverity \in Nat
    <3>1. entry \in events /\ entry \in Events
        BY <2>1 DEF Typed, TypeOK, Located
    <3>2. entry.key.type \in ChangeTypes
        BY <3>1 DEF Events, Keys, ChangeTypes
    <3>. QED  BY <3>1, <3>2, PipelineAssumption DEF Severity, ChangeTypes
  <2>3. BirthStatus(entry) = "pending" => \A k : k = entry.key => Earned(k)
      BY <2>2 DEF BirthStatus, Earned
  <2>. QED  BY <2>1, <2>3, <1>1
<1>4. CASE DrainStart
    BY <1>4, <1>1 DEF DrainStart
<1>5. ASSUME NEW k \in batch, NEW status, Mark(k, status), batch' \subseteq batch,
             \A j \in Keys : posts'[j] > 0 => posts[j] > 0 \/ j \in batch
      PROVE  EarnedInv'
    BY <1>5, <1>1 DEF Mark, Typed, TypeOK
<1>6. ASSUME NEW k \in batch, PostAccepted(k) PROVE EarnedInv'
    BY <1>6, <1>1 DEF PostAccepted, Typed, TypeOK
<1>7. ASSUME NEW k \in batch, PostFails(k) PROVE EarnedInv'
  <2>1. \A j \in Keys : posts'[j] > 0 => posts[j] > 0 \/ j \in batch
      BY <1>7 DEF PostFails, Typed, TypeOK
  <2>. QED  BY <1>7, <2>1, <1>5 DEF PostFails
<1>8. CASE MarkSent
    BY <1>8, <1>5 DEF MarkSent, Typed, Located
<1>9. CASE Crawl
    BY <1>2, <1>3, <1>9 DEF Crawl, StartRun, FinishSource,
       FinishPlan, LearnComponents, ProductRaises, CrawlSource, UnhealthySource,
       BrokenSource, Visit, SkipProduct, UnchangedProduct, ChangedProduct, RecordEvent
<1>10. CASE Drain
    BY <1>2, <1>4, <1>5, <1>6, <1>7, <1>8, <1>10 DEF Drain, DrainUnconfigured, EndDrain,
       DrainRaises, NeutraliseMuted, PostRateLimited, Postable
<1>11. CASE Kill \/ EditPolicy \/ UNCHANGED vars
    BY <1>2, <1>11 DEF Kill, EditPolicy, vars
<1>12. CASE SuppressPending
    BY <1>12, <1>1 DEF SuppressPending
<1>. QED  BY <1>9, <1>10, <1>11, <1>12 DEF Next

\* PostsAreEarned for every instance: no interleaving of drains, retries, policy
\* edits and kills gets a baseline or a low-severity event posted.
THEOREM PostsEarned == Spec => []PostsAreEarned
<1>1. Init => EarnedInv
    BY DEF Init, EarnedInv, PostsAreEarned, Pending
<1>. QED  BY <1>1, EarnedStep, TypedAlways, PTL DEF Spec, EarnedInv
-----------------------------------------------------------------------------
(* DoublePostExplained.  A key Discord has accepted is out of the queue,   *)
(* about to be marked, or its acceptance went unheard.                     *)

Marking(k) == pc = "mark" /\ mailing = k

AckInv ==
  /\ DoublePostExplained
  /\ \A k \in Keys : posts[k] > 0 =>
       k \in unacked \/ Marking(k) \/ (k \in DOMAIN outbox /\ k \notin Pending)
  /\ \A k \in batch : posts[k] > 0 => k \in unacked \/ Marking(k)

LEMMA AckStep == ASSUME Typed, AckInv, [Next]_vars PROVE AckInv'
<1>. USE DEF AckInv, DoublePostExplained, Marking, Pending, store, process, history
<1>1. CASE /\ posts' = posts /\ outbox' = outbox /\ unacked' = unacked
           /\ pc # "mark" /\ pc' # "mark" /\ batch' \in {batch, {}}
    BY <1>1 DEF Typed, TypeOK
<1>2. CASE OutboxPut
    BY <1>2 DEF OutboxPut, Typed, TypeOK
<1>3. CASE DrainStart
    BY <1>3 DEF DrainStart, Typed, TypeOK
<1>4. ASSUME NEW k \in batch, PostAccepted(k) PROVE AckInv'
    BY <1>4 DEF PostAccepted, Postable, Bump, Typed, TypeOK
<1>5. CASE MarkSent
    BY <1>5 DEF MarkSent, Mark, Typed, TypeOK, Located
<1>6. ASSUME NEW k \in batch, NeutraliseMuted(k) PROVE AckInv'
    BY <1>6 DEF NeutraliseMuted, Mark, Typed, TypeOK
<1>7. ASSUME NEW k \in batch, PostRateLimited(k) PROVE AckInv'
    BY <1>7 DEF PostRateLimited, Postable, Mark, Typed, TypeOK
<1>8. ASSUME NEW k \in batch, PostFails(k) PROVE AckInv'
    BY <1>8 DEF PostFails, Postable, Mark, Bump, Typed, TypeOK
<1>9. CASE CutShort /\ posts' = posts /\ outbox' = outbox /\ pc' # "mark"
           /\ batch' \in {batch, {}}
    BY <1>9 DEF CutShort, Typed, TypeOK
<1>10. CASE SuppressPending
    BY <1>10 DEF SuppressPending, Typed, TypeOK
<1>11. CASE EditPolicy \/ UNCHANGED vars
    BY <1>11 DEF EditPolicy, vars
<1>12. CASE Crawl
    BY <1>1, <1>2, <1>9, <1>12 DEF Crawl, StartRun, FinishSource,
       FinishPlan, LearnComponents, ProductRaises, CrawlSource, UnhealthySource,
       BrokenSource, Visit, SkipProduct, UnchangedProduct, ChangedProduct, RecordEvent
<1>13. CASE Drain
    BY <1>1, <1>3, <1>4, <1>5, <1>6, <1>7, <1>8, <1>9, <1>13 DEF Drain,
       DrainUnconfigured, EndDrain, DrainRaises, LeaveDrain
<1>14. CASE Kill
    BY <1>9, <1>14 DEF Kill
<1>. QED  BY <1>10, <1>11, <1>12, <1>13, <1>14 DEF Next

\* DoublePostExplained for every instance: delivery is exactly once except
\* where an acceptance never reached the outbox.
THEOREM DoublePostsAreExplained == Spec => []DoublePostExplained
<1>1. Init => AckInv
    BY DEF Init, AckInv, DoublePostExplained
<1>. QED  BY <1>1, AckStep, TypedAlways, PTL DEF Spec, AckInv
-----------------------------------------------------------------------------
(* SecondSightingIsNoNews.  The processor of a flagged event is in the     *)
(* components table, is the one about to be learnt, or its learning was    *)
(* cut short.                                                              *)

Sightings == {e \in events \cup queue : e.unseen}

NoveltyInv ==
  /\ \A e \in Sightings :
       \/ e.chip \in known \cup unlearned
       \/ pc \in {"enqueue", "put"} /\ newChip = e.chip /\ newChip # NoValue
  /\ \A e, f \in Sightings : e.chip = f.chip /\ e # f => e.chip \in unlearned
  /\ pc \notin {"enqueue", "put"} => queue = {}

\* A transition yields at most one event that can be flagged as unseen.
LEMMA OneFlagged ==
  ASSUME NEW t \in Changes, NEW e \in Stamped(t), NEW f \in Stamped(t), e.unseen, f.unseen
  PROVE  e = f /\ e.chip = t.after.chip /\ Unseen(t.after.chip)
<1>1. PICK j \in KeysOf(t) :
        e = [key |-> j, chip |-> t.after.chip,
             unseen |-> Unseen(t.after.chip)
                        /\ j.type \in {"new_product", "duplicate_listing",
                                       "component_changed"},
             baseline |-> BaselineQuiet /\ ~hadOk]
    BY DEF Stamped
<1>2. PICK k \in KeysOf(t) :
        f = [key |-> k, chip |-> t.after.chip,
             unseen |-> Unseen(t.after.chip)
                        /\ k.type \in {"new_product", "duplicate_listing",
                                       "component_changed"},
             baseline |-> BaselineQuiet /\ ~hadOk]
    BY DEF Stamped
<1>3. /\ j.type \in {"new_product", "duplicate_listing", "component_changed"}
      /\ k.type \in {"new_product", "duplicate_listing", "component_changed"}
      /\ Unseen(t.after.chip)
    BY <1>1, <1>2
<1>4. j = k
  <2>1. PICK a \in Diff(t.listing, t.before, t.after) : j = Retype(a, t.relation)
      BY DEF KeysOf
  <2>2. PICK b \in Diff(t.listing, t.before, t.after) : k = Retype(b, t.relation)
      BY DEF KeysOf
  <2>3. CASE t.before = NoValue
      BY <2>1, <2>2, <2>3 DEF Diff
  <2>4. CASE t.before # NoValue
    <3>1. \A d \in Diff(t.listing, t.before, t.after) :
            /\ d.type \in {"component_changed", "spec_changed", "images_changed"}
            /\ d.type = "component_changed" =>
                 d = Key(t.listing, "component_changed", t.before.chip, t.after.chip)
        BY <2>4 DEF Diff, When, Key
    <3>2. j = a /\ k = b
        BY <2>1, <2>2, <3>1 DEF Retype
    <3>. QED  BY <1>3, <3>1, <3>2
  <2>. QED  BY <2>3, <2>4
<1>. QED  BY <1>1, <1>2, <1>3, <1>4

LEMMA NoveltyStep == ASSUME Typed, NoveltyInv, [Next]_vars PROVE NoveltyInv'
<1>. USE DEF NoveltyInv, Sightings, store, process, history
<1>1. CASE /\ events' = events /\ queue' = queue /\ unlearned' = unlearned
           /\ known \subseteq known' /\ pc \notin {"enqueue", "put"}
           /\ pc' \notin {"enqueue", "put"}
    BY <1>1
<1>2. ASSUME NEW p \in Listings, NEW c \in Contents, ChangedProduct(p, c) PROVE NoveltyInv'
  <2>1. PICK t \in Changes : queue' = Stamped(t) /\ t.after = c
    <3>1. PICK t : change' = t /\ queue' = Stamped(t) /\ t.after = c
        BY <1>2 DEF ChangedProduct
    <3>. QED  BY <3>1, <1>2, CrawlTyped DEF Crawl, Typed, Located, ChangedProduct
  <2>2. /\ pc = "product" /\ pc' = "enqueue" /\ queue = {} /\ events' = events
        /\ known' = known /\ unlearned' = unlearned
        /\ newChip' = IF Unseen(c.chip) THEN c.chip ELSE NoValue
      BY <1>2 DEF ChangedProduct
  <2>3. \A e, f \in queue' : e.unseen /\ f.unseen =>
          e = f /\ e.chip = c.chip /\ Unseen(c.chip)
      BY <2>1, OneFlagged
  <2>4. Unseen(c.chip) => c.chip \notin known /\ c.chip # NoValue
      BY PipelineAssumption DEF Unseen
  <2>. QED  BY <2>2, <2>3, <2>4
<1>3. ASSUME NEW e \in queue, RecordEvent(e) PROVE NoveltyInv'
    BY <1>3 DEF RecordEvent
<1>4. CASE OutboxPut
    BY <1>4 DEF OutboxPut
<1>5. CASE LearnComponents
    BY <1>5 DEF LearnComponents
<1>6. CASE CutShort /\ known' = known /\ events' = events /\ queue' = {}
           /\ pc' \notin {"enqueue", "put"}
    BY <1>6 DEF CutShort
<1>7. CASE EditPolicy \/ SuppressPending \/ UNCHANGED vars
    BY <1>7 DEF EditPolicy, SuppressPending, vars
<1>8. CASE Crawl
    BY <1>1, <1>2, <1>3, <1>4, <1>5, <1>6, <1>8 DEF Crawl, StartRun, FinishSource,
       FinishPlan, ProductRaises, CrawlSource, UnhealthySource,
       BrokenSource, Visit, SkipProduct, UnchangedProduct
<1>9. CASE Drain
    BY <1>1, <1>6, <1>9 DEF Drain, DrainUnconfigured, DrainStart, MarkSent, EndDrain,
       DrainRaises, NeutraliseMuted, PostAccepted, PostRateLimited, PostFails, Postable,
       LeaveDrain
<1>10. CASE Kill
    BY <1>6, <1>10 DEF Kill
<1>. QED  BY <1>7, <1>8, <1>9, <1>10 DEF Next

\* SecondSightingIsNoNews for every instance: one processor makes breaking news
\* once, whichever listings and sources it turns up in.
THEOREM SecondSightings == Spec => []SecondSightingIsNoNews
<1>1. Init => NoveltyInv
    BY DEF Init, NoveltyInv, Sightings
<1>2. NoveltyInv => SecondSightingIsNoNews
    BY DEF NoveltyInv, Sightings, SecondSightingIsNoNews
<1>. QED  BY <1>1, <1>2, NoveltyStep, TypedAlways, PTL DEF Spec
-----------------------------------------------------------------------------
(* TerminalIsFinal: a drain holds rows that were pending when it read them, *)
(* and only an operator can have settled them since.                       *)

SettledInv == \A k \in batch : k \in DOMAIN outbox /\ outbox[k].status \in {"pending", "suppressed"}

LEMMA SettledStep ==
  ASSUME Typed, SettledInv, [Next]_vars
  PROVE  /\ SettledInv'
         /\ \A k \in DOMAIN outbox :
              \/ outbox[k].status = "pending"
              \/ outbox[k].status = "suppressed" /\ k \in batch
              \/ outbox'[k].status = outbox[k].status
<1>. DEFINE Goal ==
              /\ SettledInv'
              /\ \A k \in DOMAIN outbox :
                   \/ outbox[k].status = "pending"
                   \/ outbox[k].status = "suppressed" /\ k \in batch
                   \/ outbox'[k].status = outbox[k].status
<1>. USE DEF SettledInv, Pending, store, process, history
<1>1. CASE outbox' = outbox /\ batch' \in {batch, {}, Pending}
    BY <1>1
<1>2. CASE OutboxPut
    BY <1>2 DEF OutboxPut, Typed, Located
<1>3. ASSUME NEW k \in batch, NEW status, Mark(k, status), batch' \in {batch \ {k}, {}}
      PROVE  Goal
    BY <1>3 DEF Mark
<1>4. CASE MarkSent
    BY <1>3, <1>4 DEF MarkSent, Typed, Located
<1>5. ASSUME NEW k \in batch,
             NeutraliseMuted(k) \/ PostAccepted(k) \/ PostRateLimited(k) \/ PostFails(k)
      PROVE  Goal
    BY <1>1, <1>3, <1>5 DEF NeutraliseMuted, PostAccepted, PostRateLimited, PostFails
<1>6. CASE SuppressPending
    BY <1>6 DEF SuppressPending
<1>7. CASE EditPolicy \/ UNCHANGED vars
    BY <1>1, <1>7 DEF EditPolicy, vars
<1>8. CASE Crawl
    BY <1>1, <1>2, <1>8 DEF Crawl, StartRun, FinishSource,
       FinishPlan, LearnComponents, ProductRaises, CrawlSource, UnhealthySource,
       BrokenSource, Visit, SkipProduct, UnchangedProduct, ChangedProduct, RecordEvent
<1>9. CASE Drain
    BY <1>1, <1>4, <1>5, <1>9 DEF Drain, DrainUnconfigured, DrainStart, EndDrain,
       DrainRaises, LeaveDrain
<1>10. CASE Kill
    BY <1>1, <1>10 DEF Kill
<1>. QED  BY <1>6, <1>7, <1>8, <1>9, <1>10 DEF Next

\* TerminalIsFinal for every instance.
THEOREM TerminalStaysFinal == Spec => TerminalIsFinal
<1>1. Init => SettledInv
    BY DEF Init, SettledInv
<1>. QED  BY <1>1, SettledStep, TypedAlways, PTL DEF Spec, TerminalIsFinal
-----------------------------------------------------------------------------
(* RefinesAlerts, provided that nobody suppresses rows while a drain is    *)
(* under way: a drain then works from rows that are still pending, and     *)
(* each step of the pipeline is a step of Alerts, or none.                 *)

BatchInv ==
  /\ batch \subseteq Pending
  /\ \A k \in Keys : posts[k] > 0 => k \in DOMAIN outbox
  /\ pc = "mark" => posts[mailing] > 0

LEMMA BatchStep ==
  ASSUME "suppress_any" \notin Faults, Typed, BatchInv, [Next]_vars PROVE BatchInv'
<1>. USE DEF BatchInv, Pending, store, process, history
<1>1. CASE /\ posts' = posts /\ outbox' = outbox /\ batch' \in {batch, {}}
           /\ pc' # "mark"
    BY <1>1
<1>2. CASE OutboxPut
    BY <1>2 DEF OutboxPut, Typed, Located
<1>3. CASE DrainStart
    BY <1>3 DEF DrainStart
<1>4. ASSUME NEW k \in batch, PostAccepted(k) PROVE BatchInv'
    BY <1>4 DEF PostAccepted, Bump, Typed, TypeOK
<1>5. CASE MarkSent
    BY <1>5 DEF MarkSent, Mark, Typed, Located
<1>6. ASSUME NEW k \in batch, NeutraliseMuted(k) PROVE BatchInv'
    BY <1>6 DEF NeutraliseMuted, Mark
<1>7. ASSUME NEW k \in batch, PostRateLimited(k) PROVE BatchInv'
    BY <1>7 DEF PostRateLimited, Postable, Mark
<1>8. ASSUME NEW k \in batch, PostFails(k) PROVE BatchInv'
  <2>1. /\ DOMAIN outbox' = DOMAIN outbox /\ k \in DOMAIN outbox
        /\ \A j \in DOMAIN outbox \ {k} : outbox'[j] = outbox[j]
      BY <1>8 DEF PostFails, Mark
  <2>2. batch' = batch \ {k} /\ pc' = "post"
      BY <1>8 DEF PostFails, Postable
  <2>3. \A j \in Keys \ {k} : posts'[j] = posts[j]
      BY <1>8 DEF PostFails, Typed, TypeOK
  <2>. QED  BY <2>1, <2>2, <2>3
<1>9. CASE SuppressPending
    BY <1>9 DEF SuppressPending, Typed, Located
<1>10. CASE EditPolicy \/ UNCHANGED vars
    BY <1>10 DEF EditPolicy, vars
<1>11. CASE Crawl
    BY <1>1, <1>2, <1>11 DEF Crawl, StartRun, FinishSource,
       FinishPlan, LearnComponents, ProductRaises, CrawlSource, UnhealthySource,
       BrokenSource, Visit, SkipProduct, UnchangedProduct, ChangedProduct, RecordEvent
<1>12. CASE Drain
    BY <1>1, <1>3, <1>4, <1>5, <1>6, <1>7, <1>8, <1>12 DEF Drain,
       DrainUnconfigured, EndDrain, DrainRaises, LeaveDrain
<1>13. CASE Kill
    BY <1>1, <1>13 DEF Kill
<1>. QED  BY <1>9, <1>10, <1>11, <1>12, <1>13 DEF Next

LEMMA BatchAlways ==
  ASSUME "suppress_any" \notin Faults PROVE Spec => [](Typed /\ BatchInv)
<1>1. Init => BatchInv
    BY DEF Init, BatchInv
<1>. QED  BY <1>1, BatchStep, TypedAlways, PTL DEF Spec


Alert == [k \in Keys |-> AlertOf(k)]

LEMMA AlertStep ==
  ASSUME "suppress_any" \notin Faults, Typed, BatchInv, Typed', BatchInv', [Next]_vars
  PROVE  Abstract!Next \/ Alert' = Alert
<1>. USE DEF BatchInv, Pending, store, process, history
<1>0. ASSUME NEW j \in Keys, posts'[j] = posts[j],
             j \in DOMAIN outbox' <=> j \in DOMAIN outbox,
             j \in DOMAIN outbox => outbox'[j] = outbox[j]
      PROVE  AlertOf(j)' = AlertOf(j)
  <2>1. CASE j \in DOMAIN outbox
    <3>1. outbox[j].status \in Statuses
        BY <2>1 DEF Typed, TypeOK, Rows
    <3>. QED  BY <1>0, <2>1, <3>1 DEF AlertOf, Statuses
  <2>2. CASE j \notin DOMAIN outbox
      BY <1>0, <2>2 DEF AlertOf
  <2>. QED  BY <2>1, <2>2
<1>1. ASSUME NEW k \in Keys, \A j \in Keys \ {k} : AlertOf(j)' = AlertOf(j),
             \/ AlertOf(k)' = AlertOf(k)
             \/ AlertOf(k) = "none" /\ AlertOf(k)' \in {"queued", "withheld"}
             \/ AlertOf(k) = "queued" /\ AlertOf(k)' \in {"withheld", "announced", "abandoned"}
      PROVE  Abstract!Next \/ Alert' = Alert
    BY <1>1 DEF Alert, Abstract!Next, Abstract!Queue, Abstract!Withhold, Abstract!Announce,
       Abstract!Abandon, Abstract!Become
<1>2. CASE posts' = posts /\ outbox' = outbox
    BY <1>2 DEF Alert, AlertOf
<1>3. CASE OutboxPut
  <2>1. CASE entry.key \in DOMAIN outbox
      BY <1>2, <1>3, <2>1 DEF OutboxPut
  <2>2. CASE entry.key \notin DOMAIN outbox
    <3>1. PICK k \in Keys : k = entry.key
        BY <1>3 DEF OutboxPut, Typed, TypeOK, Located, Events
    <3>2. /\ posts' = posts
          /\ DOMAIN outbox' = DOMAIN outbox \cup {k}
          /\ \A j \in DOMAIN outbox : outbox'[j] = outbox[j]
          /\ outbox'[k].status \in {"pending", "suppressed"}
        BY <1>3, <2>2, <3>1 DEF OutboxPut, BirthStatus
    <3>3. \A j \in Keys \ {k} : AlertOf(j)' = AlertOf(j)
        BY <1>0, <3>2
    <3>4. AlertOf(k) = "none" /\ AlertOf(k)' \in {"queued", "withheld"}
        BY <2>2, <3>1, <3>2 DEF AlertOf, Typed, TypeOK
    <3>. QED  BY <1>1, <3>3, <3>4
  <2>. QED  BY <2>1, <2>2
<1>4. ASSUME NEW k \in batch, PostAccepted(k) PROVE Abstract!Next \/ Alert' = Alert
  <2>1. k \in Keys /\ k \in DOMAIN outbox /\ outbox' = outbox
        /\ outbox[k].status = "pending" /\ posts'[k] > 0
        /\ \A j \in Keys \ {k} : posts'[j] = posts[j]
      BY <1>4 DEF PostAccepted, Bump, Typed, TypeOK
  <2>2. \A j \in Keys \ {k} : AlertOf(j)' = AlertOf(j)
      BY <1>0, <2>1
  <2>3. AlertOf(k)' = "announced" /\ AlertOf(k) \in {"queued", "announced"}
      BY <2>1 DEF AlertOf
  <2>. QED  BY <1>1, <2>1, <2>2, <2>3
<1>5. ASSUME NEW k \in batch, NEW status \in Statuses, Mark(k, status),
             \A j \in Keys : j # k => posts'[j] = posts[j],
             posts[k] > 0 => posts'[k] > 0,
             status = "sent" => posts[k] > 0
      PROVE  Abstract!Next \/ Alert' = Alert
  <2>1. k \in Keys /\ k \in DOMAIN outbox /\ outbox[k].status = "pending"
        /\ DOMAIN outbox' = DOMAIN outbox /\ outbox'[k].status = status
        /\ \A j \in DOMAIN outbox : j # k => outbox'[j] = outbox[j]
    <3>1. k \in Keys /\ k \in DOMAIN outbox /\ outbox[k] \in Rows
        BY DEF Typed, TypeOK
    <3>. QED  BY <1>5, <3>1 DEF Mark, Rows
  <2>2. \A j \in Keys \ {k} : AlertOf(j)' = AlertOf(j)
      BY <1>0, <1>5, <2>1
  <2>3. CASE posts'[k] > 0
    <3>1. AlertOf(k)' = "announced" /\ AlertOf(k) \in {"queued", "announced"}
        BY <2>1, <2>3 DEF AlertOf
    <3>. QED  BY <1>1, <2>1, <2>2, <3>1
  <2>4. CASE ~(posts'[k] > 0)
    <3>1. ~(posts[k] > 0) /\ status \in {"pending", "failed", "suppressed"}
        BY <1>5, <2>4 DEF Statuses
    <3>2. AlertOf(k) = "queued" /\ AlertOf(k)' \in {"queued", "abandoned", "withheld"}
        BY <2>1, <2>4, <3>1 DEF AlertOf
    <3>. QED  BY <1>1, <2>1, <2>2, <3>2
  <2>. QED  BY <2>3, <2>4
<1>6. CASE MarkSent
    BY <1>5, <1>6 DEF MarkSent, Typed, Located, Statuses
<1>7. ASSUME NEW k \in batch, NeutraliseMuted(k) \/ PostRateLimited(k)
      PROVE  Abstract!Next \/ Alert' = Alert
    BY <1>5, <1>7 DEF NeutraliseMuted, PostRateLimited, Statuses
<1>8. ASSUME NEW k \in batch, PostFails(k) PROVE Abstract!Next \/ Alert' = Alert
  <2>1. /\ \A j \in Keys : j # k => posts'[j] = posts[j]
        /\ posts[k] > 0 => posts'[k] > 0
    <3>1. posts' = posts \/ posts' = [posts EXCEPT ![k] = Bump(@, 2)]
        BY <1>8 DEF PostFails
    <3>2. posts[k] > 0 => Bump(posts[k], 2) > 0
      <4>1. k \in Keys /\ posts[k] \in 0..2
          BY DEF Typed, TypeOK
      <4>. QED  BY <4>1 DEF Bump
    <3>. QED  BY <3>1, <3>2 DEF Typed, TypeOK
  <2>2. PICK status \in {"pending", "failed"} : Mark(k, status)
      BY <1>8 DEF PostFails
  <2>. QED  BY <1>5, <2>1, <2>2 DEF Statuses
<1>9. CASE SuppressPending
  <2>1. ASSUME NEW k \in Keys
        PROVE  AlertOf(k)' = IF AlertOf(k) = "queued" THEN "withheld" ELSE AlertOf(k)
    <3>1. posts' = posts /\ DOMAIN outbox' = DOMAIN outbox
          /\ \A j \in DOMAIN outbox :
               outbox'[j] = IF j \in Pending THEN [outbox[j] EXCEPT !.status = "suppressed"]
                            ELSE outbox[j]
        BY <1>9 DEF SuppressPending
    <3>2. CASE k \notin DOMAIN outbox
        BY <3>1, <3>2 DEF AlertOf
    <3>3. CASE k \in DOMAIN outbox
      <4>1. outbox[k] \in Rows
          BY <3>3 DEF Typed, TypeOK
      <4>2. outbox'[k].status =
              IF outbox[k].status = "pending" THEN "suppressed" ELSE outbox[k].status
          BY <3>1, <3>3, <4>1 DEF Rows
      <4>3. outbox[k].status \in Statuses
          BY <4>1 DEF Rows
      <4>. QED  BY <3>1, <3>3, <4>2, <4>3 DEF AlertOf, Statuses
    <3>. QED  BY <3>2, <3>3
  <2>2. Alert' = [k \in Keys |-> IF Alert[k] = "queued" THEN "withheld" ELSE Alert[k]]
      BY <2>1 DEF Alert
  <2>. QED  BY <2>2 DEF Alert, Abstract!Next, Abstract!WithholdQueued
<1>10. CASE EditPolicy \/ UNCHANGED vars \/ Kill
    BY <1>2, <1>10 DEF EditPolicy, vars, Kill
<1>11. CASE Crawl
    BY <1>2, <1>3, <1>11 DEF Crawl, StartRun, FinishSource,
       FinishPlan, LearnComponents, ProductRaises, CrawlSource, UnhealthySource,
       BrokenSource, Visit, SkipProduct, UnchangedProduct, ChangedProduct, RecordEvent
<1>12. CASE Drain
    BY <1>2, <1>4, <1>5, <1>6, <1>7, <1>8, <1>12 DEF Drain, DrainStart,
       DrainUnconfigured, EndDrain, DrainRaises
<1>. QED  BY <1>9, <1>10, <1>11, <1>12 DEF Next

\* RefinesAlerts for every instance in which the operator leaves the outbox
\* alone during a drain: the tables, commits, retries and crashes of the
\* notification side implement one life per alert.
THEOREM AlertsRefined ==
  ASSUME "suppress_any" \notin Faults PROVE Spec => RefinesAlerts
<1>1. Init => Abstract!Init
    BY DEF Init, Abstract!Init, AlertOf
<1>2. Typed /\ BatchInv /\ Typed' /\ BatchInv' /\ [Next]_vars => [Abstract!Next]_Alert
    BY AlertStep
<1>. QED  BY <1>1, <1>2, BatchAlways, PTL DEF Spec, RefinesAlerts, Abstract!Spec, Alert
=============================================================================
