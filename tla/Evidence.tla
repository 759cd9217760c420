------------------------------ MODULE Evidence ------------------------------
(***************************************************************************)
(* Community evidence: which community a run asks, what of its listing is  *)
(* stored, and what is logged about it.                                    *)
(*                                                                         *)
(* The item, its link and its event are three commits; the run itself is a *)
(* row of crawler_runs that is opened before the first of them and closed  *)
(* after the last.  Of that table only what its queries read is kept: the  *)
(* newest row, the sources with a row of status ok, and the sources whose  *)
(* last such row is younger than the interval.                             *)
(***************************************************************************)
EXTENDS Naturals, Sequences, FiniteSets

CONSTANTS
  Communities,  \* COMMUNITIES, as a set
  After,        \* After[c]: the community that follows c in that tuple
  First,        \* the first one
  Posts,        \* submissions that may be listed
  Home,         \* Home[p]: the community p is submitted to
  MaxVer,       \* bound: texts one submission may have
  MaxEdits,     \* bound: changes of the listings
  MaxFaults,    \* bound: failures of every kind
  None          \* no community, no submission

ASSUME EvidenceAssumption ==
  /\ First \in Communities
  /\ After \in [Communities -> Communities]
  /\ Home \in [Posts -> Communities]
  /\ None \notin Communities \cup Posts
  /\ MaxVer \in Nat /\ MaxEdits \in Nat /\ MaxFaults \in Nat

VARIABLES
  feed,       \* feed[p]: text of p in the listing, 0 while it is not listed
  latest,     \* community of the newest row of crawler_runs
  completed,  \* communities with a row of status ok
  fresh,      \* communities whose last such row is within the interval
  item,       \* item[p]: its row of evidence_items
  links,      \* links[p]: number of its rows of evidence_links
  events,     \* events[p]: its rows of evidence_events
  pc,         \* where collect_community is, "idle" outside it
  comm,       \* the community it collects
  baseline,   \* its `baseline`
  todo,       \* what discover returned and is not stored yet
  cur,        \* submission stored last, whose link and event are due
  status,     \* what record_evidence_item said of it
  failed,     \* whether stats.errors is non-empty
  asked,      \* submissions its listing had
  edits,      \* changes of the listings so far
  faults,     \* failures so far
  missed,     \* missed[p]: revisions of p whose event was cut off
  intake      \* intake[c]: listing of the first run of c that ended ok

store == <<item, links, events>>
ledger == <<latest, completed, fresh>>
run == <<pc, comm, baseline, todo, cur, status, failed, asked>>
world == <<feed, edits>>
vars == <<store, ledger, run, world, faults, missed, intake>>

Versions == 1..MaxVer
Modes == {"baseline", "live"}

\* A row of evidence_items: the text it holds (0 when there is no row), its
\* observation_mode and its revision_history.
Rows == [ver : 0..MaxVer, mode : Modes, past : Seq(Versions)]
NoRow == [ver |-> 0, mode |-> "baseline", past |-> <<>>]
Stored(p) == item[p].ver # 0

\* What retrieve finds of a community; retrieve raises when it is nothing.
Listing(c) == {p \in Posts : Home[p] = c /\ feed[p] # 0}

Init ==
  /\ feed = [p \in Posts |-> 0] /\ edits = 0 /\ faults = 0
  /\ latest = None /\ completed = {} /\ fresh = {}
  /\ item = [p \in Posts |-> NoRow]
  /\ links = [p \in Posts |-> 0]
  /\ events = [p \in Posts |-> <<>>]
  /\ pc = "idle" /\ comm = None /\ baseline = FALSE
  /\ todo = {} /\ cur = None /\ status = "unchanged" /\ failed = FALSE /\ asked = {}
  /\ missed = [p \in Posts |-> 0]
  /\ intake = [c \in Communities |-> {}]

---------------------------------------------------------------------------
(* The world. *)

\* A submission appears, is edited, is removed or falls off the listing.
Relist(p, v) ==
  /\ edits < MaxEdits /\ v # feed[p]
  /\ feed' = [feed EXCEPT ![p] = v]
  /\ edits' = edits + 1
  /\ UNCHANGED <<store, ledger, run, faults, missed, intake>>

\* The interval since the last good run of c is over.
Tick(c) ==
  /\ c \in fresh
  /\ fresh' = fresh \ {c}
  /\ UNCHANGED <<latest, completed, store, run, world, faults, missed, intake>>

---------------------------------------------------------------------------
(* The turn. *)

\* Mutant of Turn: only a run that ended ok takes its turn.
TurnOfCompleted == IF latest \in completed THEN After[latest] ELSE First

\* The community after the one of the newest row, whatever became of it.
Turn == IF latest = None THEN First ELSE After[latest]

\* collect_community up to the commit of run_started.
Open(c) ==
  /\ pc = "idle"
  /\ baseline' = (c \notin completed)
  /\ latest' = c
  /\ pc' = "discover" /\ comm' = c /\ UNCHANGED <<failed, asked>>
  /\ UNCHANGED <<completed, fresh, todo, cur, status, store, world, faults, missed, intake>>

\* A scheduled run: the community whose turn it is, if it is due.
Scheduled(c) == c = Turn /\ c \notin fresh /\ Open(c)

\* An operator forces a run, or names the one community it is about.
Manual(c) == Open(c)

---------------------------------------------------------------------------
(* run_evidence_source. *)

\* collect_community is over; its variables are gone.
Close ==
  /\ pc' = "idle" /\ comm' = None /\ baseline' = FALSE
  /\ todo' = {} /\ cur' = None /\ status' = "unchanged"
  /\ failed' = FALSE /\ asked' = {}

\* A refused, malformed or empty listing closes the run as failed.
DiscoverFails ==
  /\ pc = "discover"
  /\ \/ Listing(comm) = {} /\ UNCHANGED faults
     \/ faults < MaxFaults /\ faults' = faults + 1
  /\ Close
  /\ UNCHANGED <<store, ledger, world, missed, intake>>

Discover ==
  /\ pc = "discover"
  /\ Listing(comm) # {}
  /\ asked' = Listing(comm)
  /\ todo' = {<<p, feed[p]>> : p \in Listing(comm)}
  /\ pc' = "items"
  /\ UNCHANGED <<comm, baseline, cur, status, failed, store, ledger, world, faults, missed, intake>>

\* One entry cannot be turned into an item.
RefFails(p, v) ==
  /\ pc = "items" /\ <<p, v>> \in todo /\ faults < MaxFaults
  /\ todo' = todo \ {<<p, v>>}
  /\ failed' = TRUE /\ faults' = faults + 1
  /\ UNCHANGED <<pc, comm, baseline, cur, status, asked, store, ledger, world, missed, intake>>

Observed == IF baseline THEN "baseline" ELSE "live"

\* Mutant of RowOf: an edit is stamped with the mode of the run that sees it.
RowOfThisRun(p, v) ==
  IF Stored(p) THEN [ver |-> v, mode |-> Observed, past |-> Append(item[p].past, item[p].ver)]
  ELSE [ver |-> v, mode |-> Observed, past |-> <<>>]

\* What record_evidence_item writes: a known submission keeps its mode, and
\* what it was goes to its history.
RowOf(p, v) ==
  IF Stored(p) THEN [ver |-> v, mode |-> item[p].mode, past |-> Append(item[p].past, item[p].ver)]
  ELSE [ver |-> v, mode |-> Observed, past |-> <<>>]

\* Mutant of Unchanged: every submission of the listing is written again.
RewriteUnchanged(p, v) ==
  /\ pc = "items" /\ <<p, v>> \in todo /\ item[p].ver = v
  /\ todo' = todo \ {<<p, v>>}
  /\ cur' = p /\ status' = "updated" /\ pc' = "link"
  /\ UNCHANGED <<comm, baseline, failed, asked, store, ledger, world, faults, missed, intake>>

\* The same facts again: neither a link nor an event.
Unchanged(p, v) ==
  /\ pc = "items" /\ <<p, v>> \in todo /\ item[p].ver = v
  /\ todo' = todo \ {<<p, v>>}
  /\ UNCHANGED <<pc, comm, baseline, cur, status, failed, asked, store, ledger, world, faults, missed, intake>>

\* Mutant of StoreItem: a known submission is never written again.
StoreNewOnly(p, v) ==
  /\ pc = "items" /\ <<p, v>> \in todo /\ item[p].ver # v
  /\ item' = IF Stored(p) THEN item ELSE [item EXCEPT ![p] = RowOf(p, v)]
  /\ pc' = IF Stored(p) THEN "items" ELSE "link"
  /\ cur' = IF Stored(p) THEN None ELSE p
  /\ status' = IF Stored(p) THEN "unchanged" ELSE "new"
  /\ todo' = todo \ {<<p, v>>}
  /\ UNCHANGED <<comm, baseline, failed, asked, links, events, ledger, world, faults, missed, intake>>

\* The first commit for a new or edited submission.
StoreItem(p, v) ==
  /\ pc = "items" /\ <<p, v>> \in todo /\ item[p].ver # v
  /\ item' = [item EXCEPT ![p] = RowOf(p, v)]
  /\ status' = IF Stored(p) THEN "updated" ELSE "new"
  /\ todo' = todo \ {<<p, v>>}
  /\ cur' = p /\ pc' = "link"
  /\ UNCHANGED <<comm, baseline, failed, asked, links, events, ledger, world, faults, missed, intake>>

\* The second: a link to no product.  UNIQUE does not compare NULLs, so it
\* is a new row every time.
LinkEvidence ==
  /\ pc = "link"
  /\ links' = [links EXCEPT ![cur] = @ + 1]
  /\ pc' = "event"
  /\ UNCHANGED <<comm, baseline, todo, cur, status, failed, asked, item, events, ledger, world, faults, missed, intake>>

\* The third.
RecordEvent ==
  /\ pc = "event"
  /\ events' = [events EXCEPT ![cur] = Append(@, IF status = "new" THEN "added" ELSE "updated")]
  /\ pc' = "items" /\ cur' = None /\ status' = "unchanged"
  /\ UNCHANGED <<comm, baseline, todo, failed, asked, item, links, ledger, world, faults, missed, intake>>

\* run_finished: ok only without a single error.
FinishRun ==
  /\ pc = "items" /\ todo = {}
  /\ IF failed THEN UNCHANGED <<completed, fresh, intake>>
     ELSE /\ completed' = completed \cup {comm}
          /\ fresh' = fresh \cup {comm}
          /\ intake' = IF comm \in completed THEN intake
                       ELSE [intake EXCEPT ![comm] = asked]
  /\ Close
  /\ UNCHANGED <<latest, store, world, faults, missed>>

\* The revision that is stored but not logged.
CutOff == missed' = IF cur = None THEN missed ELSE [missed EXCEPT ![cur] = @ + 1]

\* The store raises out of run_evidence_source, or the process dies: the row
\* is closed as failed or stays open.
Interrupt ==
  /\ pc # "idle" /\ faults < MaxFaults
  /\ faults' = faults + 1
  /\ CutOff /\ Close
  /\ UNCHANGED <<store, ledger, world, intake>>

Next ==
  \/ \E p \in Posts, v \in 0..MaxVer :
       Relist(p, v) \/ RefFails(p, v) \/ Unchanged(p, v) \/ StoreItem(p, v)
  \/ \E c \in Communities : Tick(c) \/ Scheduled(c) \/ Manual(c)
  \/ DiscoverFails \/ Discover \/ LinkEvidence \/ RecordEvent \/ FinishRun
  \/ Interrupt

Work ==
  \/ \E p \in Posts, v \in Versions : Unchanged(p, v) \/ StoreItem(p, v)
  \/ DiscoverFails \/ Discover \/ LinkEvidence \/ RecordEvent \/ FinishRun

\* A run that has begun goes on, intervals pass, and a scheduler that finds
\* no crawl under way again and again starts one.  Operators owe nothing.
Fairness ==
  /\ WF_vars(Work)
  /\ \A c \in Communities : WF_vars(Tick(c))
  /\ SF_vars(\E c \in Communities : Scheduled(c))

Spec == Init /\ [][Next]_vars /\ Fairness

---------------------------------------------------------------------------
(* Properties. *)

\* Type correctness.
TypeOK ==
  /\ feed \in [Posts -> 0..MaxVer] /\ edits \in 0..MaxEdits /\ faults \in 0..MaxFaults
  /\ latest \in Communities \cup {None}
  /\ completed \subseteq Communities /\ fresh \subseteq completed
  /\ item \in [Posts -> Rows]
  /\ links \in [Posts -> Nat]
  /\ events \in [Posts -> Seq({"added", "updated"})]
  /\ pc \in {"idle", "discover", "items", "link", "event"}
  /\ comm \in Communities \cup {None}
  /\ baseline \in BOOLEAN /\ failed \in BOOLEAN
  /\ todo \subseteq Posts \X Versions
  /\ asked \subseteq Posts
  /\ cur \in Posts \cup {None}
  /\ status \in {"new", "updated", "unchanged"}
  /\ missed \in [Posts -> Nat]
  /\ intake \in [Communities -> SUBSET Posts]

Revisions(p) == IF Stored(p) THEN Len(item[p].past) + 1 ELSE 0
DueNow(p) == IF cur = p THEN 1 ELSE 0

\* The log of a submission has one event for every text that was stored of
\* it, except those whose run was interrupted between the commits: repeats,
\* reordered listings, failed and repeated runs add none.  Every event has
\* its link before it.
EveryRevisionLoggedOnce ==
  \A p \in Posts :
    /\ Len(events[p]) + missed[p] + DueNow(p) = Revisions(p)
    /\ Len(events[p]) <= links[p] /\ links[p] <= Revisions(p)

\* What the first good run of a community found is baseline for ever, and
\* only what it did not find is live: runs that failed or were interrupted
\* before it admit nothing, edits and restarts after it change nothing.
FirstIntakeIsBaseline ==
  \A p \in Posts :
    /\ p \in intake[Home[p]] => Stored(p) /\ item[p].mode = "baseline"
    /\ Stored(p) /\ item[p].mode = "live" => Home[p] \in completed

\* No text that was ever stored of a submission is lost: an edit moves it to
\* the end of the history.
NothingOverwritten ==
  [][\A p \in Posts :
       item'[p] # item[p] /\ Stored(p) =>
         item'[p].past = Append(item[p].past, item[p].ver)]_vars

\* Both communities are asked for ever: neither one that fails every time,
\* nor one that an operator keeps running, holds the turn.
EveryCommunityInTurn ==
  \A c \in Communities : []<>(pc = "discover" /\ comm = c)

\* A submission that stays listed is stored, in its last text.
ListedIsStored ==
  \A p \in Posts, v \in Versions : <>[](feed[p] = v) => <>(item[p].ver = v)
=============================================================================
