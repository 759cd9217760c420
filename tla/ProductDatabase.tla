--------------------------- MODULE ProductDatabase ---------------------------
(***************************************************************************)
(* Official evidence: what a run over PSREF, Lenovo's product database,    *)
(* stores of its records, which tracked products it links them to, and     *)
(* which of them it notes as candidates for a new model.                   *)
(*                                                                         *)
(* The item, its link and its event are three commits, while crawls of the *)
(* shop, in processes of their own, track more products and rename them.   *)
(***************************************************************************)
EXTENDS Naturals

CONSTANTS
  Records,    \* ProductIDs
  Names,      \* ProductNames, and models of tracked products
  Keys,       \* product_keys of Lenovo's listings
  WithWithdrawn, \* include_withdrawn
  Nothing,    \* no record, no item, no product
  Unlinked,   \* the NULL of evidence_links.product_key
  MaxPublished, MaxTracked \* bounds: changes of PSREF, and of the listings

ASSUME ProductDatabaseAssumption ==
  /\ WithWithdrawn \in BOOLEAN
  /\ Unlinked \notin Keys /\ Nothing \notin Names
  /\ MaxPublished \in Nat /\ MaxTracked \in Nat

Entry == [name : Names, withdrawn : BOOLEAN, new : BOOLEAN]

VARIABLES
  tree,      \* tree[r]: PSREF's entry of r, or Nothing
  published, tracks, \* changes of the tree and of the listings so far
  model,     \* model[k]: model of the newest snapshot of k, or Nothing
  alias,     \* alias[k]: names among the aliases of its product
  fact,      \* fact[r]: what its row of evidence_items holds, or Nothing
  linked,    \* linked[r]: product_keys of its rows of evidence_links
  announced, \* records with an event that names a new-model candidate
  phase,     \* where the run is: "idle", "items", "resolve", "link", "event"
  batch,     \* batch[r]: entries of discover() that it has not come to
  current, key,   \* its record, with its entry, and what that was resolved to
  untracked  \* names that no listing has had at some moment of this run

databaseStore == <<fact, linked, announced>>
databaseRun == <<phase, batch, current, key>>
shop == <<tracks, model, alias>>
databaseVars == <<tree, published, shop, databaseStore, databaseRun, untracked>>

\* A stored record, and one that a run may have to handle.
Stored == [name : Names, withdrawn : BOOLEAN]
Handled == {Nothing} \cup Entry

\* The pages, the tables and what the run has in hand have their types.
DatabaseTypeOK ==
  /\ tree \in [Records -> Handled] /\ batch \in [Records -> Handled]
  /\ published \in 0..MaxPublished /\ tracks \in 0..MaxTracked
  /\ model \in [Keys -> Names \cup {Nothing}] /\ alias \in [Keys -> SUBSET Names]
  /\ fact \in [Records -> Stored \cup {Nothing}]
  /\ linked \in [Records -> SUBSET (Keys \cup {Unlinked})]
  /\ announced \subseteq Records /\ untracked \subseteq Names
  /\ phase \in {"idle", "items", "resolve", "link", "event"}
  /\ current \in [record : Records \cup {Nothing}, entry : Handled]
  /\ key \in Keys \cup {Unlinked}

None == [r \in Records |-> Nothing]
NotAt == [record |-> Nothing, entry |-> Nothing]
Untracked(m, a) == {n \in Names : \A k \in Keys : m[k] # n /\ n \notin a[k]}

DatabaseInit ==
  /\ tree \in [Records -> {[name |-> n, withdrawn |-> FALSE, new |-> TRUE] : n \in Names}]
  /\ published = 0 /\ tracks = 0
  /\ model = [k \in Keys |-> Nothing] /\ alias = [k \in Keys |-> {}]
  /\ fact = None /\ linked = [r \in Records |-> {}] /\ announced = {}
  /\ phase = "idle" /\ batch = None /\ current = NotAt /\ key = Unlinked
  /\ untracked = {}

\* PSREF changes an entry, withdraws it or takes it back.
Publish(r) ==
  /\ published < MaxPublished /\ published' = published + 1
  /\ \E e \in Entry : tree' = [tree EXCEPT ![r] = e]
  /\ UNCHANGED <<shop, databaseStore, databaseRun, untracked>>

\* A crawl of the shop stores a first or another snapshot of a product.  The
\* aliases of earlier ones stay.
Track(k, n, names) ==
  /\ tracks < MaxTracked /\ tracks' = tracks + 1
  /\ model' = [model EXCEPT ![k] = n]
  /\ alias' = [alias EXCEPT ![k] = @ \cup names]
  /\ untracked' = IF phase = "idle" THEN {} ELSE untracked \cup Untracked(model', alias')
  /\ UNCHANGED <<tree, published, databaseStore, databaseRun>>

---------------------------------------------------------------------------
(* run_evidence_source. *)

\* One request brings every entry; nothing of it is read again.
DiscoverRecords ==
  /\ phase = "idle"
  /\ phase' = "items" /\ batch' = tree /\ current' = NotAt /\ key' = Unlinked
  /\ untracked' = Untracked(model, alias)
  /\ UNCHANGED <<tree, published, shop, databaseStore>>

\* What content_hash is made of: IsNewProduct is not.
Facts(e) == [name |-> e.name, withdrawn |-> e.withdrawn]

Extracted(e) == WithWithdrawn \/ ~e.withdrawn

\* The item is committed.  A record whose facts are as stored is left at that.
RecordItem(r) ==
  /\ phase = "items" /\ batch[r] # Nothing
  /\ batch' = [batch EXCEPT ![r] = Nothing]
  /\ IF Extracted(batch[r]) /\ fact[r] # Facts(batch[r])
     THEN /\ fact' = [fact EXCEPT ![r] = Facts(batch[r])]
          /\ phase' = "resolve" /\ current' = [record |-> r, entry |-> batch[r]]
     ELSE UNCHANGED <<fact, phase, current>>
  /\ UNCHANGED <<tree, published, shop, linked, announced, key, untracked>>

\* Mutant of Resolved: only one listing is looked at.
ResolvedByOne(n) ==
  LET k == CHOOSE h \in Keys : TRUE
  IN  IF model[k] = n THEN {k} ELSE {Unlinked}

\* Some listing of exactly that model, or else with that alias; PSREF gives no
\* SKU and no MPN.
Resolved(n) ==
  LET same == {k \in Keys : model[k] = n}
      known == {k \in Keys : n \in alias[k]}
  IN  IF same # {} THEN same ELSE IF known # {} THEN known ELSE {Unlinked}

ResolveLink ==
  /\ phase = "resolve"
  /\ phase' = "link" /\ key' \in Resolved(current.entry.name)
  /\ UNCHANGED <<tree, published, shop, databaseStore, batch, current, untracked>>

\* A row more, unless there is one for this key.
LinkItem ==
  /\ phase = "link"
  /\ linked' = [linked EXCEPT ![current.record] = @ \cup {key}]
  /\ phase' = "event"
  /\ UNCHANGED <<tree, published, shop, fact, announced, batch, current, key, untracked>>

\* candidates_for_evidence, for a record without region and SKU.
IsCandidate(e, k) == e.new /\ ~e.withdrawn /\ k = Unlinked

LogEvent ==
  /\ phase = "event"
  /\ announced' = announced \cup (IF IsCandidate(current.entry, key) THEN {current.record} ELSE {})
  /\ phase' = "items" /\ current' = NotAt /\ key' = Unlinked
  /\ UNCHANGED <<tree, published, shop, fact, linked, batch, untracked>>

\* The run is through, or its process dies between two of its steps.
LeaveRecords ==
  /\ phase # "idle"
  /\ phase' = "idle" /\ batch' = None /\ current' = NotAt /\ key' = Unlinked /\ untracked' = {}
  /\ UNCHANGED <<tree, published, shop, databaseStore>>

DatabaseNext ==
  \/ \E r \in Records : Publish(r) \/ RecordItem(r)
  \/ \E k \in Keys, n \in Names, names \in SUBSET Names : Track(k, n, names)
  \/ DiscoverRecords \/ ResolveLink \/ LinkItem \/ LogEvent \/ LeaveRecords

DatabaseSpec == DatabaseInit /\ [][DatabaseNext]_databaseVars
---------------------------------------------------------------------------
(* What the Evidence tab shows: one row of evidence_links, by the index on  *)
(* (evidence_item_id, product_key), where NULL comes first.                 *)

\* Mutant of Shown: a row with a product is preferred.
ShownIfAny(r) == IF linked[r] \subseteq {Unlinked} THEN linked[r] ELSE linked[r] \ {Unlinked}

Shown(r) == IF Unlinked \in linked[r] THEN {Unlinked} ELSE linked[r]

\* A record is noted as a new model only if its name was that, or an alias, of no
\* tracked product at some moment of the run: a product that is tracked all the while is
\* no news, whichever of its listings carries the name and whatever PSREF and
\* the shop change meanwhile.
TrackedIsNoNews ==
  [][\A r \in announced' \ announced : current.entry.name \in untracked]_databaseVars

\* What was noted as a new model is never shown as the page of a tracked product,
\* not after a death of the run between the two commits and not after a rename:
\* the link is committed before the event, and is never taken back.
AnnouncedIsNotLinked == \A r \in announced : Shown(r) = {Unlinked}
=============================================================================
