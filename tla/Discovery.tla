----------------------------- MODULE Discovery ------------------------------
(***************************************************************************)
(* The manual inbox of research proposals (discovery.py, discovery_cli.py, *)
(* discovery_dashboard.py).  Every command works on a private copy of the  *)
(* published database and publishes it, with its consumer export, by       *)
(* replacing the file CURRENT.  Commands are processes: they may overlap,  *)
(* raise, be interrupted or die between any two steps.                     *)
(*                                                                         *)
(* A generation is [db, export].  A database keeps the label of each lead, *)
(* its observations and its reviews, in order.  A payload stands for the   *)
(* proposal's text and for the evidence file it points to, whose digest    *)
(* names the copy in the inbox's own evidence directory.                   *)
(***************************************************************************)
EXTENDS Naturals, Sequences, SequencesExt

CONSTANTS
  Commands,      \* processes that may run at the same time
  Leads, Payloads, Labels,
  Unreviewed,    \* the label a lead is inserted with
  Exports,       \* producer exports: partial functions from Leads to Payloads
  MaxPublished   \* bound: generations ever published

ASSUME DiscoveryAssumption ==
  /\ Exports \subseteq UNION {[ls -> Payloads] : ls \in SUBSET Leads}
  /\ MaxPublished \in Nat

VARIABLES
  settings,   \* the settings file: "absent", "disabled" or "enabled"
  current,    \* the generation CURRENT names
  publisher,  \* the command, if any, that replaced CURRENT last
  evidence,   \* the copies of evidence: "absent", "partial" or "whole"
  step,       \* what each command does next
  job,        \* what it is to do: leads to import, or a review
  draft,      \* the generation it builds
  behind,     \* commands whose copy is no longer the published one
  overtaken,  \* one of these has published
  torn,       \* an interrupt has removed a published generation
  published   \* how many generations were published

discoveryVars == <<settings, current, publisher, evidence, step, job, draft,
                   behind, overtaken, torn, published>>

EmptyDb ==
  [label |-> [l \in {} |-> Unreviewed], observations |-> <<>>, reviews |-> <<>>]

\* CURRENT is missing, or names a directory that is gone: the inbox is empty.
NoGeneration == [db |-> EmptyDb, export |-> <<>>]

\* What list, review and the dashboard read.
Inbox == current.db

ObservationsOf(db, l) == SelectSeq(db.observations, LAMBDA o : o.lead = l)
ReviewsOf(db, l)      == SelectSeq(db.reviews, LAMBDA r : r.lead = l)

\* The consumer export: each lead with its label, observations and reviews.
ExportRows(db) ==
  [l \in DOMAIN db.label |->
     [label |-> db.label[l], history |-> ObservationsOf(db, l),
      reviews |-> ReviewsOf(db, l)]]

\* The evidence that the observations of a database have copied.
Copied(db) == {o.payload : o \in {p \in ToSet(db.observations) : p.owned}}

\* Mutant of Served: only the present observation's evidence may be opened.
ServedLatest(p) ==
  /\ evidence[p] = "whole"
  /\ \E l \in DOMAIN Inbox.label :
       LET o == Last(ObservationsOf(Inbox, l)) IN o.owned /\ o.payload = p

\* Evidence is served when an observation refers to it and its bytes still
\* have the digest that is its name.
Served(p) == p \in Copied(Inbox) /\ evidence[p] = "whole"

NoJob == [kind |-> "none"]

\* What is imported, what a database holds and what a command is to do.
Observations == [lead : Leads, payload : Payloads, owned : BOOLEAN]
Databases ==
  [label : UNION {[ls -> Labels \cup {Unreviewed}] : ls \in SUBSET Leads},
   observations : Seq(Observations), reviews : Seq([lead : Leads, label : Labels])]
Jobs ==
  {NoJob}
  \cup [kind : {"import"}, copying : SUBSET Payloads, todo : SUBSET Observations]
  \cup [kind : {"review"}, lead : Leads, label : Labels]

\* The settings, the inbox, its evidence and what each command has in hand have their
\* types.
DiscoveryTypeOK ==
  /\ settings \in {"absent", "disabled", "enabled"}
  /\ Inbox \in Databases /\ publisher \subseteq Commands
  /\ evidence \in [Payloads -> {"absent", "partial", "whole"}]
  /\ step \in [Commands -> {"idle", "configure", "child", "copy", "import", "write",
                            "review", "export", "replace", "published"}]
  /\ job \in [Commands -> Jobs]
  /\ DOMAIN draft = Commands /\ \A c \in Commands : draft[c].db \in Databases
  /\ behind \subseteq Commands /\ overtaken \in BOOLEAN /\ torn \in BOOLEAN
  /\ published \in 0..MaxPublished

DiscoveryInit ==
  /\ settings = "absent"
  /\ current = NoGeneration /\ publisher = {}
  /\ evidence = [p \in Payloads |-> "absent"]
  /\ step = [c \in Commands |-> "idle"]
  /\ job = [c \in Commands |-> NoJob]
  /\ draft = [c \in Commands |-> NoGeneration]
  /\ behind = {} /\ overtaken = FALSE /\ torn = FALSE /\ published = 0

Goto(c, s) == step' = [step EXCEPT ![c] = s]

ghosts == <<behind, overtaken, torn, published>>
-----------------------------------------------------------------------------
(* Settings.  A command reads them once, when it starts.                     *)

\* configure refuses to overwrite settings it has seen ...
Configure(c) ==
  /\ step[c] = "idle" /\ settings = "absent"
  /\ Goto(c, "configure")
  /\ UNCHANGED <<settings, current, publisher, evidence, job, draft, ghosts>>

\* ... and writes new ones, always disabled.
SaveSettings(c) ==
  /\ step[c] = "configure"
  /\ settings' = "disabled"
  /\ Goto(c, "idle")
  /\ UNCHANGED <<current, publisher, evidence, job, draft, ghosts>>

Switch(c) ==
  /\ step[c] = "idle" /\ settings # "absent"
  /\ settings' \in {"enabled", "disabled"} \ {settings}
  /\ UNCHANGED <<current, publisher, evidence, step, job, draft, ghosts>>
-----------------------------------------------------------------------------
(* Commands that publish.                                                    *)

Ready(c) ==
  step[c] = "idle" /\ settings = "enabled" /\ published < MaxPublished

\* An export passes all checks before anything is written; the evidence of
\* some of its leads may be gone by then, which is no refusal.
Prepare(c) ==
  \E x \in Exports, missing \in SUBSET Payloads :
    /\ job' = [job EXCEPT ![c] =
                 [kind |-> "import", copying |-> {},
                  todo |-> {[lead |-> l, payload |-> x[l],
                             owned |-> x[l] \notin missing] : l \in DOMAIN x}]]
    /\ Goto(c, "copy")

BeginImport(c) ==
  /\ Ready(c)
  /\ Prepare(c)
  /\ UNCHANGED <<settings, current, publisher, evidence, draft, ghosts>>

\* refresh runs the producer in a staging directory of its own ...
BeginRefresh(c) ==
  /\ Ready(c)
  /\ Goto(c, "child")
  /\ UNCHANGED <<settings, current, publisher, evidence, job, draft, ghosts>>

\* ... and imports what it exported, when it has exited 0, reported COMPLETE
\* and still is the pinned producer.
ChildCompletes(c) ==
  /\ step[c] = "child"
  /\ Prepare(c)
  /\ UNCHANGED <<settings, current, publisher, evidence, draft, ghosts>>

\* A review names a lead of the inbox.
BeginLabel(c) ==
  /\ Ready(c)
  /\ \E l \in DOMAIN Inbox.label, label \in Labels :
       job' = [job EXCEPT ![c] =
                 [kind |-> "review", lead |-> l, label |-> label]]
  /\ Goto(c, "copy")
  /\ UNCHANGED <<settings, current, publisher, evidence, draft, ghosts>>

\* Mutant of CopyCurrent: the new generation starts empty.
CopyNothing(c) ==
  /\ step[c] = "copy"
  /\ draft' = [draft EXCEPT ![c] = NoGeneration]
  /\ behind' = behind \ {c}
  /\ Goto(c, job[c].kind)
  /\ UNCHANGED <<settings, current, publisher, evidence, job, overtaken, torn,
                 published>>

\* The new generation starts as a copy of the published database.
CopyCurrent(c) ==
  /\ step[c] = "copy"
  /\ draft' = [draft EXCEPT ![c] = [db |-> Inbox, export |-> <<>>]]
  /\ behind' = behind \ {c}
  /\ Goto(c, job[c].kind)
  /\ UNCHANGED <<settings, current, publisher, evidence, job,
                 overtaken, torn, published>>

\* An evidence file is created first and written next; one that exists is
\* compared, and anything but a whole copy refuses the import (Stop).
CreateCopy(c) ==
  /\ step[c] = "import"
  /\ \E i \in job[c].todo :
       /\ i.owned /\ evidence[i.payload] = "absent"
       /\ evidence' = [evidence EXCEPT ![i.payload] = "partial"]
       /\ job' = [job EXCEPT ![c].copying = {i.payload}]
  /\ Goto(c, "write")
  /\ UNCHANGED <<settings, current, publisher, draft, ghosts>>

WriteCopy(c) ==
  /\ step[c] = "write"
  /\ evidence' = [p \in Payloads |->
                    IF p \in job[c].copying THEN "whole" ELSE evidence[p]]
  /\ job' = [job EXCEPT ![c].copying = {}]
  /\ Goto(c, "import")
  /\ UNCHANGED <<settings, current, publisher, draft, ghosts>>

\* An observation that repeats the lead's present one is left out; any other is
\* appended, and a lead seen for the first time is unreviewed.
WithObservation(db, i) ==
  LET history == ObservationsOf(db, i.lead)
  IN  IF history # <<>> /\ Last(history) = i /\ i.lead \in DOMAIN db.label
      THEN db
      ELSE [label |-> [l \in DOMAIN db.label \cup {i.lead} |->
                         IF l \in DOMAIN db.label THEN db.label[l] ELSE Unreviewed],
            observations |-> Append(db.observations, i), reviews |-> db.reviews]

\* Mutant of StoreObservation: a copy that exists is not compared.
StoreUnchecked(c) ==
  /\ step[c] = "import"
  /\ \E i \in job[c].todo :
       /\ i.owned => evidence[i.payload] # "absent"
       /\ draft' = [draft EXCEPT ![c].db = WithObservation(@, i)]
       /\ job' = [job EXCEPT ![c].todo = @ \ {i}]
  /\ UNCHANGED <<settings, current, publisher, evidence, step, ghosts>>

StoreObservation(c) ==
  /\ step[c] = "import"
  /\ \E i \in job[c].todo :
       /\ i.owned => evidence[i.payload] = "whole"
       /\ draft' = [draft EXCEPT ![c].db = WithObservation(@, i)]
       /\ job' = [job EXCEPT ![c].todo = @ \ {i}]
  /\ UNCHANGED <<settings, current, publisher, evidence, step, ghosts>>

\* The label is set on the lead, if the copy has it, and its review is kept.
WithReview(db, l, label) ==
  [label |-> [k \in DOMAIN db.label |-> IF k = l THEN label ELSE db.label[k]],
   observations |-> db.observations,
   reviews |-> Append(db.reviews, [lead |-> l, label |-> label])]

StoreReview(c) ==
  /\ step[c] = "review"
  /\ draft' = [draft EXCEPT ![c].db =
                 WithReview(@, job[c].lead, job[c].label)]
  /\ Goto(c, "export")
  /\ UNCHANGED <<settings, current, publisher, evidence, job, ghosts>>

\* The database is committed, read back and exported beside itself.
Export(c) ==
  /\ \/ step[c] = "export"
     \/ step[c] = "import" /\ job[c].todo = {}
  /\ draft' = [draft EXCEPT ![c].export = ExportRows(draft[c].db)]
  /\ Goto(c, "replace")
  /\ UNCHANGED <<settings, current, publisher, evidence, job, ghosts>>

\* CURRENT is replaced whatever has been published since the copy was made.
Replace(c) ==
  /\ step[c] = "replace"
  /\ published < MaxPublished
  /\ current' = draft[c] /\ publisher' = {c}
  /\ overtaken' = (overtaken \/ c \in behind)
  /\ behind' = {d \in Commands \ {c} :
                  \/ d \in behind
                  \/ step[d] \notin {"idle", "configure", "child", "copy"}}
  /\ published' = published + 1
  /\ Goto(c, "published")
  /\ UNCHANGED <<settings, evidence, job, draft, torn>>

Forget(c) ==
  /\ Goto(c, "idle")
  /\ job' = [job EXCEPT ![c] = NoJob]
  /\ draft' = [draft EXCEPT ![c] = NoGeneration]
  /\ behind' = behind \ {c}

Return(c) ==
  /\ step[c] = "published"
  /\ Forget(c)
  /\ UNCHANGED <<settings, current, publisher, evidence,
                 overtaken, torn, published>>

\* A step raises, a child fails, a copy of evidence is found damaged, or the
\* process dies.  The unpublished generation is removed or never looked at
\* again.
Stop(c) ==
  /\ step[c] \notin {"idle", "published"}
  /\ Forget(c)
  /\ UNCHANGED <<settings, current, publisher, evidence,
                 overtaken, torn, published>>

\* An interrupt after the replacement, before the command has returned: the
\* handler removes the generation that CURRENT may name by now.
InterruptLate(c) ==
  /\ step[c] = "published"
  /\ Forget(c)
  /\ IF c \in publisher
     THEN current' = NoGeneration /\ torn' = TRUE
     ELSE UNCHANGED <<current, torn>>
  /\ UNCHANGED <<settings, publisher, evidence, overtaken,
                 published>>

Command(c) ==
  \/ Configure(c) \/ SaveSettings(c) \/ Switch(c)
  \/ BeginImport(c) \/ BeginRefresh(c) \/ ChildCompletes(c) \/ BeginLabel(c)
  \/ CopyCurrent(c) \/ CreateCopy(c) \/ WriteCopy(c) \/ StoreObservation(c)
  \/ StoreReview(c) \/ Export(c) \/ Replace(c) \/ Return(c)
  \/ Stop(c) \/ InterruptLate(c)

DiscoveryNext == \E c \in Commands : Command(c)

DiscoverySpec == DiscoveryInit /\ [][DiscoveryNext]_discoveryVars
-----------------------------------------------------------------------------
(* One copy of the database never lost another's work.                       *)
Alone == ~overtaken /\ ~torn

\* CURRENT names a whole generation: an export that matches the database, and
\* every piece of evidence its observations claim to own, byte for byte,
\* whatever command died, raised or overlapped on the way.
GenerationIsWhole ==
  current # NoGeneration =>
    /\ current.export = ExportRows(current.db)
    /\ \A p \in Copied(current.db) : evidence[p] = "whole"

\* The label of each lead is the one its last review gave it, if it has any.
LabelsFit(db) ==
  \A l \in DOMAIN db.label :
    \/ /\ db.label[l] = Unreviewed
       /\ \A i \in DOMAIN db.reviews : db.reviews[i].lead # l
    \/ \E i \in DOMAIN db.reviews :
         /\ db.reviews[i] = [lead |-> l, label |-> db.label[l]]
         /\ \A j \in DOMAIN db.reviews : j > i => db.reviews[j].lead # l

\* No import resets a review, while no command lost another's work.
LabelsFollowReviews == Alone => LabelsFit(Inbox)

\* What is published is complete and of one piece.
CurrentIsComplete == GenerationIsWhole /\ LabelsFollowReviews

\* A database keeps all another one has: its leads, and its observations and
\* reviews in their order.
Keeps(new, old) ==
  /\ DOMAIN old.label \subseteq DOMAIN new.label
  /\ IsPrefix(old.observations, new.observations)
  /\ IsPrefix(old.reviews, new.reviews)

\* What is published is never lost by a later import, review, failure or death:
\* only a command that began before another published can undo that one's work,
\* and only an interrupt that hits a command after it has published.
NothingForgotten ==
  [][\/ Keeps(Inbox', Inbox)
     \/ \E c \in behind : step[c] = "replace" /\ step'[c] = "published"
     \/ torn']_discoveryVars

\* Evidence that a page of the dashboard links to can be opened ever after:
\* what is served once stays served.
EvidenceStays ==
  [][Alone' => \A p \in Payloads : Served(p) => Served(p)']_discoveryVars
=============================================================================
