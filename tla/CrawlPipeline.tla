--------------------------- MODULE CrawlPipeline ---------------------------
(***************************************************************************)
(* One crawling process of OEM Radar: run_all over the planned sources,    *)
(* run_source over the products of each, the SQLite store's commits and    *)
(* the Discord outbox with its drain.                                      *)
(*                                                                         *)
(* Every store operation of the program commits on its own, so each one is *)
(* an action here and the process may be killed between any two of them.   *)
(* RunLock keeps a second crawl out; the operator's command line and a     *)
(* configuration edit are the other writers.                               *)
(***************************************************************************)
EXTENDS Naturals, Sequences, FiniteSets

CONSTANTS
  Sources,        \* configured sources, enabled and in scope
  Listings,       \* product keys "<source id>:<handle>"
  SourceOf,       \* SourceOf[p]: the source that lists p
  Identity,       \* Identity[p]: what SKU or model key resolves p to
  Contents,       \* what a product page can say, up to the content hash
  Chips,          \* processors named by pages (canonical slug, or raw string)
  Recognized,     \* those canonicalize() produces a slug for
  SeedChips,      \* slugs of knownhw.SEED_COMPONENTS
  Specs, Images,  \* values of a spec field, and of the image set
  NoValue,        \* Python's None
  MinSeverity,    \* notify.discord.min_severity
  Policies,       \* the suppress_change_types lists an operator may configure
  BaselineQuiet,  \* radar.yaml baseline_quiet
  MaxAttempts,    \* the 5 of DiscordNotifier.drain
  Faults          \* which of AllFaults this instance exercises

AllFaults == {"kill", "raise", "drain_raise", "lost_ack", "rate_limit",
              "reject", "no_webhook", "suppress_idle", "suppress_any"}

ASSUME PipelineAssumption ==
  /\ SourceOf \in [Listings -> Sources]
  /\ Contents \subseteq [chip : Chips, spec : Specs, image : Images]
  /\ Recognized \subseteq Chips
  /\ SeedChips \subseteq Recognized
  /\ NoValue \notin Recognized \cup Contents \cup Sources
  /\ MinSeverity \in 1..5
  /\ BaselineQuiet \in BOOLEAN
  /\ MaxAttempts \in Nat
  /\ Faults \subseteq AllFaults

VARIABLES
  \* the database
  snaps,      \* snaps[p]: snapshot rows of listing p in id order
  known,      \* components table
  events,     \* change_events rows (as a set)
  outbox,     \* notifications rows by dedup_key: [status, attempts]
  completed,  \* sources with a crawler_runs row of status 'ok'
  \* the configuration file
  muted,      \* notify.discord.suppress_change_types
  \* the crawling process; lost when it dies
  pc,         \* where it is
  plan,       \* sources still to visit in this run
  src,        \* source being crawled, NoValue during the final drain
  hadOk,      \* has_completed_run(src) when its crawl began
  todo,       \* discovered products not processed yet
  change,     \* the transition being enqueued: [listing, before, after, relation]
  queue,      \* its events that still have to be enqueued
  entry,      \* the event recorded whose outbox row is not written yet
  newChip,    \* the unseen processor to learn, or NoValue
  batch,      \* rows drain() read and has not handled
  mailing,    \* the row Discord has just accepted
  \* what an observer has seen
  obs,        \* obs[p]: content most recently read from listing p and stored
  changes,    \* transitions whose snapshot was committed
  cut,        \* transitions whose enqueueing was cut short
  unlearned,  \* unseen processors whose learning was cut short
  posts,      \* posts[k]: messages Discord accepted for key k, 0, 1 or 2 (many)
  unacked     \* keys with an accepted message the outbox never heard of

store   == <<snaps, known, events, outbox, completed>>
process == <<pc, plan, src, hadOk, todo, change, queue, entry, newChip, batch, mailing>>
history == <<obs, changes, cut, unlearned, posts, unacked>>
vars    == <<store, muted, process, history>>
-----------------------------------------------------------------------------
(* Changes, events and their severity. *)

ChangeTypes == {"new_product", "duplicate_listing", "component_changed",
                "spec_changed", "images_changed"}

Relations == {"none", "same_listing", "existing_product"}

\* ChangeEvent.dedup_key: no time in it, and no values for an image change.
Key(p, type, old, new) == [listing |-> p, type |-> type, old |-> old, new |-> new]

Keys ==
  [listing : Listings, type : {"new_product", "duplicate_listing", "images_changed"},
   old : {NoValue}, new : {NoValue}]
  \cup [listing : Listings, type : {"component_changed"}, old : Chips, new : Chips]
  \cup [listing : Listings, type : {"spec_changed"}, old : Specs, new : Specs]

Events == [key : Keys, chip : Chips, unseen : BOOLEAN, baseline : BOOLEAN]

Changes == [listing : Listings, before : Contents \cup {NoValue},
            after : Contents, relation : Relations]

When(condition, key) == IF condition THEN {key} ELSE {}

\* diff(before, after, product_key), as the set of dedup keys it yields.  A
\* processor that disappears from the page is no event.
Diff(p, before, after) ==
  IF before = NoValue
  THEN {Key(p, "new_product", NoValue, NoValue)}
  ELSE When(before.chip # after.chip /\ after.chip # NoValue,
            Key(p, "component_changed", before.chip, after.chip))
       \cup When(before.spec # after.spec,
                 Key(p, "spec_changed", before.spec, after.spec))
       \cup When(before.image # after.image,
                 Key(p, "images_changed", NoValue, NoValue))

\* A new product that resolved to an existing one is re-typed.
Retype(key, relation) ==
  IF key.type = "new_product" /\ relation = "existing_product"
  THEN [key EXCEPT !.type = "duplicate_listing"]
  ELSE key

KeysOf(c) == {Retype(k, c.relation) : k \in Diff(c.listing, c.before, c.after)}

\* comp.known is False: a slug the components table does not hold.
Unseen(chip) == chip \in Recognized \ known

\* The events of transition c as run_source stamps them before enqueueing.
Stamped(c) ==
  {[key |-> k, chip |-> c.after.chip,
    unseen |-> Unseen(c.after.chip) /\ k.type \in {"new_product", "duplicate_listing",
                                                   "component_changed"},
    baseline |-> BaselineQuiet /\ ~hadOk] : k \in KeysOf(c)}

\* DEFAULT_RULES, first match; a re-typed listing is MINOR.
Severity(e) ==
  CASE e.key.type = "duplicate_listing" -> 2
    [] e.key.type = "component_changed" -> IF e.unseen THEN 5 ELSE 4
    [] e.key.type = "new_product"       -> 5
    [] e.key.type = "spec_changed"      -> 4
    [] e.key.type = "images_changed"    -> 3

\* Mutant of BirthStatus: enqueue() forgets that a first crawl is no news.
BirthStatusNoBaseline(e) ==
  IF e.key.type \in muted \/ Severity(e) < MinSeverity THEN "suppressed" ELSE "pending"

\* The status DiscordNotifier.enqueue gives the row of event e.
BirthStatus(e) ==
  IF e.baseline \/ e.key.type \in muted \/ Severity(e) < MinSeverity
  THEN "suppressed" ELSE "pending"

Statuses == {"pending", "sent", "failed", "suppressed"}

\* Counters stop where the code stops telling values apart: attempts past
\* MaxAttempts, posts past "more than once".
Rows == [status : Statuses, attempts : 0..(MaxAttempts + 1)]

Bump(n, cap) == IF n < cap THEN n + 1 ELSE n

Pending == {k \in DOMAIN outbox : outbox[k].status = "pending"}
-----------------------------------------------------------------------------
(* Resolution and snapshots. *)

Latest(p) == snaps[p][Len(snaps[p])]

Siblings(p) == {q \in Listings \ {p} : Identity[q] = Identity[p] /\ snaps[q] # <<>>}

\* resolve_prior: own latest snapshot, else another listing of the product
\* (the most recently seen one; any of them here), else nothing.
Priors(p) ==
  IF snaps[p] # <<>> THEN {[before |-> Latest(p), relation |-> "same_listing"]}
  ELSE IF Siblings(p) # {}
       THEN {[before |-> Latest(q), relation |-> "existing_product"] : q \in Siblings(p)}
       ELSE {[before |-> NoValue, relation |-> "none"]}

\* append(): INSERT OR IGNORE under UNIQUE(listing_id, content_hash).
WithSnapshot(p, c) ==
  IF \E i \in 1..Len(snaps[p]) : snaps[p][i] = c
  THEN snaps ELSE [snaps EXCEPT ![p] = Append(@, c)]

Init ==
  /\ snaps = [p \in Listings |-> <<>>]
  /\ known = {} /\ events = {} /\ completed = {}
  /\ outbox = [k \in {} |-> NoValue]
  /\ muted \in Policies
  /\ pc = "idle" /\ plan = {} /\ src = NoValue /\ hadOk = FALSE
  /\ todo = {} /\ change = NoValue /\ queue = {} /\ entry = NoValue
  /\ newChip = NoValue /\ batch = {} /\ mailing = NoValue
  /\ obs = [p \in Listings |-> NoValue]
  /\ changes = {} /\ cut = {} /\ unlearned = {}
  /\ posts = [k \in Keys |-> 0] /\ unacked = {}

-----------------------------------------------------------------------------
(* The crawl: run_all, then run_source over the products of a source. *)

\* A run is assembled and started for some of the sources (those in scope and
\* due); assembling it seeds the known hardware.
StartRun ==
  /\ pc = "idle"
  /\ plan' \in SUBSET Sources
  /\ known' = known \cup SeedChips
  /\ pc' = "next"
  /\ UNCHANGED <<snaps, events, outbox, completed, muted, src, hadOk, todo, change,
                 queue, entry, newChip, batch, mailing, obs, changes, cut,
                 unlearned, posts, unacked>>

Visit(s) ==
  /\ pc = "next" /\ s \in plan
  /\ plan' = plan \ {s}
  /\ UNCHANGED <<store, muted, change, queue, entry, newChip, batch, mailing, history>>

\* Discovery yields a catalog that passes the health gate.
CrawlSource(s) ==
  /\ Visit(s)
  /\ src' = s
  /\ hadOk' = (s \in completed)
  /\ todo' \in SUBSET {p \in Listings : SourceOf[p] = s}
  /\ pc' = "product"

\* The catalog is empty or has collapsed: the run is recorded as failed, no
\* product is looked at, and the outbox is drained all the same.
UnhealthySource(s) ==
  /\ Visit(s)
  /\ src' = s
  /\ hadOk' = (s \in completed)
  /\ pc' = "drain"
  /\ UNCHANGED todo

\* The engine raises during discovery: recorded as failed, nothing drained.
BrokenSource(s) ==
  /\ Visit(s)
  /\ UNCHANGED <<pc, src, hadOk, todo>>

\* Fetch or parse error, or a page that is not a trackable product.
SkipProduct(p) ==
  /\ pc = "product" /\ p \in todo
  /\ todo' = todo \ {p}
  /\ UNCHANGED <<store, muted, history, pc, plan, src, hadOk, change, queue,
                 entry, newChip, batch, mailing>>

\* The page says what the latest snapshot says: touch() and nothing else.
UnchangedProduct(p) ==
  /\ pc = "product" /\ p \in todo
  /\ snaps[p] # <<>>
  /\ todo' = todo \ {p}
  /\ obs' = [obs EXCEPT ![p] = Latest(p)]
  /\ UNCHANGED <<store, muted, pc, plan, src, hadOk, change, queue, entry, newChip,
                 batch, mailing, changes, cut, unlearned, posts, unacked>>

\* The page says c, something else: append() commits the snapshot.  Content
\* hashes include the listing's URL, so a sibling's snapshot never equals c.
ChangedProduct(p, c) ==
  /\ pc = "product" /\ p \in todo
  /\ todo' = todo \ {p}
  /\ \E prior \in Priors(p) :
       LET t == [listing |-> p, before |-> prior.before, after |-> c,
                 relation |-> prior.relation]
       IN /\ prior.relation = "same_listing" => prior.before # c
          /\ change' = t
          /\ queue' = Stamped(t)
          /\ changes' = changes \cup {t}
  /\ newChip' = IF Unseen(c.chip) THEN c.chip ELSE NoValue
  /\ snaps' = WithSnapshot(p, c)
  /\ obs' = [obs EXCEPT ![p] = c]
  /\ pc' = "enqueue"
  /\ UNCHANGED <<known, events, outbox, completed, muted, plan, src, hadOk, entry,
                 batch, mailing, cut, unlearned, posts, unacked>>

\* DiscordNotifier.enqueue, first commit: the change_events row.
RecordEvent(e) ==
  /\ pc = "enqueue" /\ e \in queue
  /\ events' = events \cup {e}
  /\ queue' = queue \ {e}
  /\ entry' = e
  /\ pc' = "put"
  /\ UNCHANGED <<snaps, known, outbox, completed, muted, plan, src, hadOk, todo,
                 change, newChip, batch, mailing, history>>

\* Second commit: INSERT OR IGNORE into notifications under UNIQUE(dedup_key).
OutboxPut ==
  /\ pc = "put"
  /\ IF entry.key \in DOMAIN outbox
     THEN UNCHANGED outbox
     ELSE outbox' = [k \in DOMAIN outbox \cup {entry.key} |->
                          IF k = entry.key
                          THEN [status |-> BirthStatus(entry), attempts |-> 0]
                          ELSE outbox[k]]
  /\ entry' = NoValue
  /\ pc' = "enqueue"
  /\ UNCHANGED <<snaps, known, events, completed, muted, plan, src, hadOk, todo,
                 change, queue, newChip, batch, mailing, obs, changes, cut,
                 unlearned, posts, unacked>>

\* Mutants of LearnComponents: called inside the event loop, or not at all.
LearnTooEarly ==
  /\ pc = "enqueue"
  /\ known' = IF newChip = NoValue THEN known ELSE known \cup {newChip}
  /\ change' = NoValue /\ newChip' = NoValue /\ queue' = {}
  /\ pc' = "product"
  /\ UNCHANGED <<snaps, events, outbox, completed, muted, plan, src, hadOk, todo,
                 entry, batch, mailing, history>>
LearnNothing ==
  /\ pc = "enqueue" /\ queue = {}
  /\ change' = NoValue /\ newChip' = NoValue
  /\ pc' = "product"
  /\ UNCHANGED <<store, muted, plan, src, hadOk, todo, queue, entry, batch, mailing,
                 history>>

\* _learn_components, once every event of the product is enqueued.
LearnComponents ==
  /\ pc = "enqueue" /\ queue = {}
  /\ known' = IF newChip = NoValue THEN known ELSE known \cup {newChip}
  /\ change' = NoValue /\ newChip' = NoValue
  /\ pc' = "product"
  /\ UNCHANGED <<snaps, events, outbox, completed, muted, plan, src, hadOk, todo,
                 queue, entry, batch, mailing, history>>

\* What an interruption between the append and the learning leaves undone.
CutShort ==
  /\ cut' = IF pc = "put" \/ (pc = "enqueue" /\ queue # {})
            THEN cut \cup {change} ELSE cut
  /\ unlearned' = IF pc \in {"enqueue", "put"} /\ newChip # NoValue
                  THEN unlearned \cup {newChip} ELSE unlearned
  /\ unacked' = IF pc = "mark" THEN unacked \cup {mailing} ELSE unacked

\* A store call raises (a locked or full database): the product is logged as an
\* error and the crawl goes on with the next one.
ProductRaises ==
  /\ "raise" \in Faults
  /\ pc \in {"enqueue", "put"}
  /\ CutShort
  /\ change' = NoValue /\ queue' = {} /\ entry' = NoValue /\ newChip' = NoValue
  /\ pc' = "product"
  /\ UNCHANGED <<store, muted, plan, src, hadOk, todo, batch, mailing, obs, changes,
                 posts>>

\* run_finished(ok) commits before the source's own drain starts.
FinishSource ==
  /\ pc = "product" /\ todo = {}
  /\ completed' = completed \cup {src}
  /\ pc' = "drain"
  /\ UNCHANGED <<snaps, known, events, outbox, muted, plan, src, hadOk, todo, change,
                 queue, entry, newChip, batch, mailing, history>>

\* After the last source (and the stories, module Stories) comes a final drain.
FinishPlan ==
  /\ pc = "next" /\ plan = {}
  /\ pc' = "drain"
  /\ UNCHANGED <<store, muted, plan, src, hadOk, todo, change, queue, entry, newChip,
                 batch, mailing, history>>
-----------------------------------------------------------------------------
(* DiscordNotifier.drain.  Rows are handled in any order (the code's is the   *)
(* order of their ids).                                                       *)

\* run_all goes on with the next source, or ends after the final drain.
LeaveDrain ==
  /\ pc' = IF src = NoValue THEN "idle" ELSE "next"
  /\ src' = NoValue /\ hadOk' = FALSE

Mark(k, status) ==
  outbox' = [outbox EXCEPT ![k].status = status,
                           ![k].attempts = Bump(@, MaxAttempts + 1)]

DrainUnconfigured ==
  /\ "no_webhook" \in Faults
  /\ pc = "drain"
  /\ LeaveDrain
  /\ UNCHANGED <<store, muted, plan, todo, change, queue, entry, newChip,
                 batch, mailing, history>>

\* Mutants of DrainStart: rows already sent, or withheld, are read again.
DrainStartOver ==
  /\ pc = "drain"
  /\ batch' = {k \in DOMAIN outbox : outbox[k].status \in {"pending", "sent"}}
  /\ pc' = "post"
  /\ UNCHANGED <<store, muted, plan, src, hadOk, todo, change, queue, entry, newChip,
                 mailing, history>>
DrainStartWithheld ==
  /\ pc = "drain"
  /\ batch' = {k \in DOMAIN outbox : outbox[k].status \in {"pending", "suppressed"}}
  /\ pc' = "post"
  /\ UNCHANGED <<store, muted, plan, src, hadOk, todo, change, queue, entry, newChip,
                 mailing, history>>

\* The pending rows are read once; the loop below works from this copy.
DrainStart ==
  /\ pc = "drain"
  /\ batch' = Pending
  /\ pc' = "post"
  /\ UNCHANGED <<store, muted, plan, src, hadOk, todo, change, queue, entry, newChip,
                 mailing, history>>

\* The last choke point for a muted change type.
NeutraliseMuted(k) ==
  /\ pc = "post" /\ k \in batch
  /\ k.type \in muted
  /\ Mark(k, "suppressed")
  /\ batch' = batch \ {k}
  /\ UNCHANGED <<snaps, known, events, completed, muted, pc, plan, src, hadOk, todo,
                 change, queue, entry, newChip, mailing, history>>

Postable(k) == pc = "post" /\ k \in batch /\ k.type \notin muted

\* Discord accepts the message; the row is marked in a step of its own.
PostAccepted(k) ==
  /\ Postable(k)
  /\ posts' = [posts EXCEPT ![k] = Bump(@, 2)]
  /\ mailing' = k
  /\ pc' = "mark"
  /\ UNCHANGED <<store, muted, plan, src, hadOk, todo, change, queue, entry, newChip,
                 batch, obs, changes, cut, unlearned, unacked>>

MarkSent ==
  /\ pc = "mark"
  /\ Mark(mailing, "sent")
  /\ batch' = batch \ {mailing}
  /\ mailing' = NoValue
  /\ pc' = "post"
  /\ UNCHANGED <<snaps, known, events, completed, muted, plan, src, hadOk, todo,
                 change, queue, entry, newChip, history>>

\* HTTP 429: the row is marked pending and the drain stops.
PostRateLimited(k) ==
  /\ "rate_limit" \in Faults
  /\ Postable(k)
  /\ Mark(k, "pending")
  /\ batch' = {}
  /\ UNCHANGED <<snaps, known, events, completed, muted, pc, plan, src, hadOk, todo,
                 change, queue, entry, newChip, mailing, history>>

\* Mutant of PostFails: the attempts are never looked at.
PostFailsForEver(k) ==
  /\ Postable(k)
  /\ "reject" \in Faults
  /\ Mark(k, "pending")
  /\ batch' = batch \ {k}
  /\ UNCHANGED <<snaps, known, events, completed, muted, pc, plan, src, hadOk, todo,
                 change, queue, entry, newChip, mailing, obs, changes, cut, unlearned,
                 posts, unacked>>

\* Any other error: the row stays pending until its attempts are used up.  The
\* answer to an accepted message may have been lost on the way back.
PostFails(k) ==
  /\ Postable(k)
  /\ \/ "reject" \in Faults /\ UNCHANGED <<posts, unacked>>
     \/ /\ "lost_ack" \in Faults
        /\ posts' = [posts EXCEPT ![k] = Bump(@, 2)]
        /\ unacked' = unacked \cup {k}
  /\ Mark(k, IF outbox[k].attempts < MaxAttempts THEN "pending" ELSE "failed")
  /\ batch' = batch \ {k}
  /\ UNCHANGED <<snaps, known, events, completed, muted, pc, plan, src, hadOk, todo,
                 change, queue, entry, newChip, mailing, obs, changes, cut, unlearned>>

EndDrain ==
  /\ pc = "post" /\ batch = {}
  /\ LeaveDrain
  /\ UNCHANGED <<store, muted, plan, todo, change, queue, entry, newChip,
                 batch, mailing, history>>

\* outbox_mark raises.  The handler around the source turns its run from ok to
\* failed and goes on; around the final drain there is none and the run ends.
DrainRaises ==
  /\ "drain_raise" \in Faults
  /\ pc \in {"drain", "post", "mark"}
  /\ CutShort
  /\ completed' = IF src = NoValue \/ hadOk THEN completed ELSE completed \ {src}
  /\ batch' = {} /\ mailing' = NoValue
  /\ LeaveDrain
  /\ UNCHANGED <<snaps, known, events, outbox, muted, plan, todo, change, queue,
                 entry, newChip, obs, changes, posts>>
-----------------------------------------------------------------------------
(* The environment. *)

\* The process dies; the database keeps what was committed.
Kill ==
  /\ "kill" \in Faults
  /\ pc # "idle"
  /\ CutShort
  /\ pc' = "idle" /\ plan' = {} /\ src' = NoValue /\ hadOk' = FALSE
  /\ todo' = {} /\ change' = NoValue /\ queue' = {} /\ entry' = NoValue
  /\ newChip' = NoValue /\ batch' = {} /\ mailing' = NoValue
  /\ UNCHANGED <<store, muted, obs, changes, posts>>

\* The operator edits radar.yaml; the next process reads it.
EditPolicy ==
  /\ pc = "idle"
  /\ muted' \in Policies
  /\ UNCHANGED <<store, process, history>>

\* oem-radar outbox --suppress-pending, a process of its own that takes no lock:
\* with "suppress_any" also while a drain is under way.
SuppressPending ==
  /\ \/ "suppress_any" \in Faults
     \/ "suppress_idle" \in Faults /\ pc = "idle"
  /\ Pending # {}
  /\ outbox' = [k \in DOMAIN outbox |->
                  IF k \in Pending THEN [outbox[k] EXCEPT !.status = "suppressed"]
                  ELSE outbox[k]]
  /\ UNCHANGED <<snaps, known, events, completed, muted, process, history>>

Drain ==
  \/ DrainUnconfigured \/ DrainStart \/ MarkSent \/ EndDrain \/ DrainRaises
  \/ \E k \in batch : \/ NeutraliseMuted(k) \/ PostAccepted(k)
                      \/ PostRateLimited(k) \/ PostFails(k)

Crawl ==
  \/ StartRun \/ FinishSource \/ FinishPlan
  \/ OutboxPut \/ LearnComponents \/ ProductRaises
  \/ \E s \in Sources : CrawlSource(s) \/ UnhealthySource(s) \/ BrokenSource(s)
  \/ \E p \in Listings : SkipProduct(p) \/ UnchangedProduct(p)
                         \/ \E c \in Contents : ChangedProduct(p, c)
  \/ \E e \in queue : RecordEvent(e)

Next == Crawl \/ Drain \/ Kill \/ EditPolicy \/ SuppressPending

Spec == Init /\ [][Next]_vars
-----------------------------------------------------------------------------
TypeOK ==
  /\ snaps \in [Listings -> Seq(Contents)]
  /\ known \subseteq Chips
  /\ events \subseteq Events
  /\ DOMAIN outbox \subseteq Keys /\ outbox \in [DOMAIN outbox -> Rows]
  /\ completed \subseteq Sources
  /\ muted \in Policies
  /\ pc \in {"idle", "next", "product", "enqueue", "put", "drain", "post", "mark"}
  /\ plan \subseteq Sources /\ src \in Sources \cup {NoValue} /\ hadOk \in BOOLEAN
  /\ todo \subseteq Listings
  /\ change \in Changes \cup {NoValue}
  /\ queue \subseteq Events /\ entry \in Events \cup {NoValue}
  /\ newChip \in Recognized \cup {NoValue}
  /\ batch \subseteq Keys /\ mailing \in Keys \cup {NoValue}
  /\ obs \in [Listings -> Contents \cup {NoValue}]
  /\ changes \subseteq Changes /\ cut \subseteq Changes /\ unlearned \subseteq Chips
  /\ posts \in [Keys -> 0..2] /\ unacked \subseteq Keys

InFlight(t) == pc \in {"enqueue", "put"} /\ change = t

Enqueued(k) == k \in DOMAIN outbox /\ \E e \in events : e.key = k

\* A committed transition has its events and its outbox rows, unless it is being
\* enqueued right now or its enqueueing was cut short by a dying process or a
\* raising store call: nothing else (another product, another source, a drain,
\* an operator, a repeated transition) makes a change disappear.
EveryChangeEnqueued ==
  \A t \in changes :
    \/ t \in cut
    \/ InFlight(t)
    \/ \A k \in KeysOf(t) : Enqueued(k)

Earned(k) ==
  \E e \in events : e.key = k /\ ~e.baseline /\ Severity(e) >= MinSeverity

\* What Discord accepted stands for a recorded event that is no first-crawl
\* baseline and reaches the severity floor, however the row was suppressed,
\* retried or re-read in between.
PostsAreEarned == \A k \in Keys : posts[k] > 0 => Earned(k)

\* A key is posted twice only when an earlier acceptance never reached the
\* outbox (process killed or store call failed before the mark, answer lost).
DoublePostExplained == \A k \in Keys : posts[k] = 2 => k \in unacked

\* An unseen processor is flagged by one event only: its second sighting is no
\* news, unless the learning after the first one was cut short.
SecondSightingIsNoNews ==
  \A e, f \in events :
    e.unseen /\ f.unseen /\ e.chip = f.chip /\ e # f => e.chip \in unlearned

\* A row that was sent, given up or suppressed keeps that status for ever; only
\* what an operator suppresses while a drain holds a copy of it can still change.
TerminalIsFinal ==
  [][\A k \in DOMAIN outbox :
       \/ outbox[k].status = "pending"
       \/ outbox[k].status = "suppressed" /\ k \in batch
       \/ outbox'[k].status = outbox[k].status]_vars

\* The outbox implements one life per alert.  An acceptance the outbox has not
\* heard of counts as announced.
AlertOf(k) ==
  IF k \notin DOMAIN outbox THEN "none"
  ELSE IF posts[k] > 0 THEN "announced"
  ELSE CASE outbox[k].status = "pending"    -> "queued"
         [] outbox[k].status = "suppressed" -> "withheld"
         [] outbox[k].status = "failed"     -> "abandoned"
         [] outbox[k].status = "sent"       -> "announced"

Abstract == INSTANCE Alerts WITH alert <- [k \in Keys |-> AlertOf(k)]

RefinesAlerts == Abstract!Spec
-----------------------------------------------------------------------------
(* Liveness.  Runs are scheduled again and again and a running process goes  *)
(* on; a drain that could handle a row again and again does not forever hit  *)
(* the rate limit first.  Kills, edits and operators need not happen.        *)

Handle(k) == k \in batch /\ (NeutraliseMuted(k) \/ PostAccepted(k) \/ PostFails(k))

FairSpec == Spec /\ WF_vars(Crawl \/ Drain) /\ \A k \in Keys : SF_vars(Handle(k))

\* No alert stays pending for ever: rejected ones run out of attempts.
EveryAlertSettles == \A k \in Keys : k \in Pending ~> k \notin Pending
-----------------------------------------------------------------------------
(* Statements of the documentation that the code does not keep. *)

\* docs/ARCHITECTURE.md:21 "Nothing is lost": a committed change always has
\* its outbox rows once the process is past it.
NothingIsLost ==
  \A t \in changes : InFlight(t) \/ \A k \in KeysOf(t) : k \in DOMAIN outbox

\* docs/DATABASE.md:83 the live state is the latest snapshot of each listing.
LatestSnapshotIsLive ==
  \A p \in Listings : obs[p] # NoValue => Latest(p) = obs[p]
=============================================================================
