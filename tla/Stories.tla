------------------------------- MODULE Stories ------------------------------
(***************************************************************************)
(* The story step of run_all: changes that several manufacturers share     *)
(* within a window become one story, whose outbox row replaces the pings   *)
(* of its products that are still pending.                                 *)
(*                                                                         *)
(* A key is what a rule groups events by: a processor, or a field such as  *)
(* memory.  Rules about unseen parts match an event only when its part was *)
(* not yet in the known-hardware table.                                    *)
(***************************************************************************)
EXTENDS Naturals, FiniteSets

CONSTANTS
  Oems,      \* manufacturers, one source each
  Products,  \* product keys
  OemOf,     \* OemOf[p]: manufacturer of product p
  Keys,      \* group_by values
  Parts,     \* keys of the rules that match only unseen_component events
  MinOems,   \* min_distinct_manufacturers
  Window,    \* window_s, in ticks
  MaxTime,   \* bound: ticks
  MaxEvents, \* bound: recorded events
  Nothing,   \* no manufacturer, no story
  Faults     \* which of AllFaults this instance exercises

AllFaults == {"crash", "raise", "rate_limit"}

Pings   == Products \X Keys
Events  == [product : Products, key : Keys, at : 0..MaxTime, unseen : BOOLEAN]
Telling == [key : Keys, oems : SUBSET Oems, products : SUBSET Products]
Rows    == [key : Keys, oems : SUBSET Oems]

ASSUME StoryAssumption ==
  /\ OemOf \in [Products -> Oems]
  /\ Parts \subseteq Keys
  /\ MinOems \in Nat \ {0} /\ Window \in Nat /\ MaxTime \in Nat /\ MaxEvents \in Nat
  /\ Nothing \notin Oems \cup Parts \cup Telling
  /\ Faults \subseteq AllFaults

VARIABLES
  now,        \* the clock
  known,      \* parts in the components table
  events,     \* change_events
  pings,      \* pings[e]: outbox status of a change, "none" when it has no row
  stories,    \* rows of the stories table
  embeds,     \* outbox rows of stories still pending
  told,       \* outbox rows of stories settled
  pc,         \* where the run is, "idle" between runs
  todo,       \* manufacturers still to crawl
  oem,        \* manufacturer being crawled
  part,       \* part to learn after the current change
  found,      \* stories detected in this run and not handled yet
  telling,    \* the story being handled
  cut,        \* stories interrupted between their save and their outbox row (history)
  unlearned   \* parts whose learning was interrupted (history)

store   == <<known, events, pings, stories, embeds, told>>
memory  == <<todo, oem, part, found, telling>>
history == <<cut, unlearned>>
vars == <<now, known, events, pings, stories, embeds, told, pc, todo, oem, part, found,
          telling, cut, unlearned>>

\* "settled": sent, or given up by the drain.
Statuses == {"none", "pending", "suppressed", "settled", "demoted"}

Places == {"idle", "next", "crawl", "learn", "drain", "stories", "demote", "enqueue", "final"}

RowOf(s) == [key |-> s.key, oems |-> s.oems]

Init ==
  /\ now = 0
  /\ known = {} /\ events = {}
  /\ pings = [e \in Pings |-> "none"]
  /\ stories = {} /\ embeds = {} /\ told = {}
  /\ pc = "idle"
  /\ todo = {} /\ oem = Nothing /\ part = Nothing /\ found = {} /\ telling = Nothing
  /\ cut = {} /\ unlearned = {}
-----------------------------------------------------------------------------
(* detect.                                                                   *)

\* Mutant of Matching: the rule forgets to ask for unseen parts.
MatchingAll(k) == {e \in events : e.key = k /\ e.at + Window >= now}

\* Events in the window that a rule about key k matches.
Matching(k) == {e \in events : /\ e.key = k
                               /\ e.at + Window >= now
                               /\ k \in Parts => e.unseen}

Makers(k) == {OemOf[e.product] : e \in Matching(k)}

\* The evidence keeps the earliest matching event of each manufacturer.
Earliest(k, o) == {e.product : e \in {e \in Matching(k) :
  /\ OemOf[e.product] = o
  /\ \A f \in Matching(k) : OemOf[f.product] = o => e.at <= f.at}}

\* What detect may return: one story per key that enough manufacturers share.
Tellings == {s \in Telling :
  /\ s.oems = Makers(s.key)
  /\ Cardinality(s.oems) >= MinOems
  /\ \A p \in s.products : p \in Earliest(s.key, OemOf[p])
  /\ \A o \in s.oems : Cardinality({p \in s.products : OemOf[p] = o}) = 1}

Detection(F) ==
  /\ F \subseteq Tellings
  /\ \A k \in Keys : Cardinality({s \in F : s.key = k}) =
                       (IF Cardinality(Makers(k)) >= MinOems THEN 1 ELSE 0)
-----------------------------------------------------------------------------
StartRun ==
  /\ pc = "idle"
  /\ todo' = Oems
  /\ pc' = "next"
  /\ UNCHANGED <<now, store, oem, part, found, telling, history>>

Crawl(o) ==
  /\ pc = "next" /\ o \in todo
  /\ todo' = todo \ {o}
  /\ oem' = o
  /\ pc' = "crawl"
  /\ UNCHANGED <<now, store, part, found, telling, history>>

\* A product of the source shows a shared change: the event is recorded and its
\* ping queued (INSERT OR IGNORE), suppressed below the threshold or in a first
\* crawl, before the part is learned.  CrawlPipeline has the commits in between.
RecordChange(p, k, q) ==
  /\ pc = "crawl" /\ OemOf[p] = oem
  /\ Cardinality(events) < MaxEvents
  /\ events' = events \cup {[product |-> p, key |-> k, at |-> now,
                             unseen |-> k \in Parts \ known]}
  /\ pings' = [pings EXCEPT ![<<p, k>>] = IF @ = "none" THEN q ELSE @]
  /\ part' = IF k \in Parts \ known THEN k ELSE Nothing
  /\ pc' = "learn"
  /\ UNCHANGED <<now, known, stories, embeds, told, todo, oem, found, telling, history>>

\* A new product teaches its part too; its own event is grouped by its model name,
\* which no other manufacturer shares.
NewProduct(k) ==
  /\ pc = "crawl"
  /\ known' = known \cup {k}
  /\ UNCHANGED <<now, events, pings, stories, embeds, told, pc, memory, history>>

\* Mutant of Learn: learning waits for another day.
LearnNever ==
  /\ pc = "learn"
  /\ part' = Nothing
  /\ pc' = "crawl"
  /\ UNCHANGED <<now, store, todo, oem, found, telling, history>>

Learn ==
  /\ pc = "learn"
  /\ known' = IF part = Nothing THEN known ELSE known \cup {part}
  /\ part' = Nothing
  /\ pc' = "crawl"
  /\ UNCHANGED <<now, events, pings, stories, embeds, told, todo, oem, found, telling,
                 history>>

\* The product is logged as an error and the crawl goes on.
LearnRaises ==
  /\ "raise" \in Faults
  /\ pc = "learn"
  /\ unlearned' = IF part = Nothing THEN unlearned ELSE unlearned \cup {part}
  /\ part' = Nothing
  /\ pc' = "crawl"
  /\ UNCHANGED <<now, store, todo, oem, found, telling, cut>>

SourceDone ==
  /\ pc = "crawl"
  /\ pc' = "drain"
  /\ oem' = Nothing
  /\ UNCHANGED <<now, store, todo, part, found, telling, history>>

\* The source fails as a whole: logged, and nothing is drained.
SourceFails ==
  /\ "raise" \in Faults
  /\ pc = "crawl"
  /\ pc' = "next"
  /\ oem' = Nothing
  /\ UNCHANGED <<now, store, todo, part, found, telling, history>>

\* A drain settles what is pending but for rejected rows and those behind a rate limit.
Drain ==
  /\ pc \in {"drain", "final"}
  /\ \E left \in SUBSET {e \in Pings : pings[e] = "pending"}, back \in SUBSET embeds :
       /\ "rate_limit" \in Faults \/ (left = {} /\ back = {})
       /\ pings' = [e \in Pings |-> IF pings[e] = "pending" /\ e \notin left
                                    THEN "settled" ELSE pings[e]]
       /\ told' = told \cup (embeds \ back)
       /\ embeds' = back
  /\ pc' = IF pc = "final" THEN "idle" ELSE "next"
  /\ UNCHANGED <<now, known, events, stories, memory, history>>

Detect ==
  /\ pc = "next" /\ todo = {}
  /\ \E F \in SUBSET Tellings : Detection(F) /\ found' = F
  /\ pc' = "stories"
  /\ UNCHANGED <<now, store, todo, oem, part, telling, history>>

\* story_exists: this set of manufacturers was alerted before.
AlreadyTold(s) ==
  /\ pc = "stories" /\ s \in found
  /\ RowOf(s) \in stories
  /\ found' = found \ {s}
  /\ UNCHANGED <<now, store, pc, todo, oem, part, telling, history>>

\* Mutant of SaveStory: the pings are demoted first.
DemoteFirst(s) ==
  /\ pc = "stories" /\ s \in found
  /\ RowOf(s) \notin stories
  /\ pings' = [e \in Pings |-> IF pings[e] = "pending" /\ e[1] \in s.products
                               THEN "demoted" ELSE pings[e]]
  /\ found' = found \ {s} /\ telling' = s
  /\ pc' = "demote"
  /\ UNCHANGED <<now, known, events, stories, embeds, told, todo, oem, part, history>>

SaveStory(s) ==
  /\ pc = "stories" /\ s \in found
  /\ RowOf(s) \notin stories
  /\ stories' = stories \cup {RowOf(s)}
  /\ found' = found \ {s} /\ telling' = s
  /\ pc' = "demote"
  /\ UNCHANGED <<now, known, events, pings, embeds, told, todo, oem, part, history>>

\* Every pending ping of a product in the evidence, whatever change it is about.
DemotePings ==
  /\ pc = "demote"
  /\ pings' = [e \in Pings |-> IF pings[e] = "pending" /\ e[1] \in telling.products
                               THEN "demoted" ELSE pings[e]]
  /\ pc' = "enqueue"
  /\ UNCHANGED <<now, known, events, stories, embeds, told, memory, history>>

\* Mutant of EnqueueStory: a story has to pass the severity threshold of an event.
EnqueueBelow ==
  /\ pc = "enqueue"
  /\ telling' = Nothing
  /\ pc' = "stories"
  /\ UNCHANGED <<now, store, todo, oem, part, found, history>>

EnqueueStory ==
  /\ pc = "enqueue"
  /\ embeds' = IF RowOf(telling) \in told THEN embeds ELSE embeds \cup {RowOf(telling)}
  /\ telling' = Nothing
  /\ pc' = "stories"
  /\ UNCHANGED <<now, known, events, pings, stories, told, todo, oem, part, found, history>>

StoriesDone ==
  /\ pc = "stories" /\ found = {}
  /\ pc' = "final"
  /\ UNCHANGED <<now, store, memory, history>>

Forget == /\ todo' = {} /\ oem' = Nothing /\ part' = Nothing
          /\ found' = {} /\ telling' = Nothing

\* The process dies, or a store call of the story step raises, which nothing in
\* run_all catches: what was in memory is gone.
Crash ==
  /\ "crash" \in Faults
  /\ pc # "idle"
  /\ cut' = IF telling = Nothing THEN cut ELSE cut \cup {RowOf(telling)}
  /\ unlearned' = IF part = Nothing THEN unlearned ELSE unlearned \cup {part}
  /\ Forget
  /\ pc' = "idle"
  /\ UNCHANGED <<now, store>>

Tick ==
  /\ pc = "idle" /\ now < MaxTime
  /\ now' = now + 1
  /\ UNCHANGED <<store, pc, memory, history>>

Next ==
  \/ StartRun \/ Learn \/ LearnRaises \/ SourceDone \/ Drain \/ Detect \/ DemotePings
  \/ EnqueueStory \/ StoriesDone \/ SourceFails \/ Crash \/ Tick
  \/ \E o \in Oems : Crawl(o)
  \/ \E p \in Products, k \in Keys, q \in {"pending", "suppressed"} : RecordChange(p, k, q)
  \/ \E k \in Parts : NewProduct(k)
  \/ \E s \in found : AlreadyTold(s) \/ SaveStory(s)

Spec == Init /\ [][Next]_vars
-----------------------------------------------------------------------------
TypeOK ==
  /\ now \in 0..MaxTime
  /\ known \subseteq Parts
  /\ events \subseteq Events
  /\ pings \in [Pings -> Statuses]
  /\ stories \subseteq Rows /\ embeds \subseteq Rows /\ told \subseteq Rows
  /\ pc \in Places
  /\ todo \subseteq Oems /\ oem \in Oems \cup {Nothing}
  /\ part \in Parts \cup {Nothing}
  /\ found \subseteq Telling /\ telling \in Telling \cup {Nothing}
  /\ cut \subseteq Rows /\ unlearned \subseteq Parts

\* A story in the table is in the outbox, or was interrupted on its way there:
\* story_exists never silences a story nobody was told.
SavedIsTold ==
  \A r \in stories : \/ r \in embeds \cup told
                     \/ telling # Nothing /\ r = RowOf(telling)
                     \/ r \in cut

\* A ping is withheld only in favour of a story that its manufacturer is part of.
DemotedHasStory ==
  \A e \in Pings : pings[e] = "demoted" => \E r \in stories : OemOf[e[1]] \in r.oems

\* A part makes news as unseen for one manufacturer only, so that no story about
\* an unseen part is ever told unless its learning was interrupted.
UnseenIsOneMakers ==
  \A r \in stories : r.key \in Parts /\ MinOems > 1 => r.key \in unlearned

\* What the rules are for: a part that was unseen within the window and that enough
\* manufacturers show within it is a story by the end of the run that finds the last
\* of them.
Fresh(k) == {e \in events : e.key = k /\ e.at + Window >= now}

SharedPartIsAStory ==
  pc = "final" => \A k \in Parts :
    /\ \E e \in Fresh(k) : e.unseen
    /\ Cardinality({OemOf[e.product] : e \in Fresh(k)}) >= MinOems
    => \E r \in stories : r.key = k
=============================================================================
