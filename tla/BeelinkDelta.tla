---------------------------- MODULE BeelinkDelta ----------------------------
(***************************************************************************)
(* The isolated collector of Beelink's Chinese catalogue                   *)
(* (experimental/beelink_china_delta.py).  One answer of the shop lists    *)
(* models with their configurations.  The first good poll is the baseline; *)
(* later ones announce what they have not seen before.  A poll that fails  *)
(* before its save changes nothing, and has no action here.                *)
(***************************************************************************)
EXTENDS Naturals, FiniteSets

CONSTANTS
  Models, Configs,  \* ids the catalogue may list
  Unnumbered,       \* a configuration without an id of its own
  KeepPct,          \* of the previous count: fewer models fail the poll
  MaxMoved          \* bound: changes of the catalogue

VARIABLES
  shelf,      \* the catalogue: the configurations of each model on it
  models, configs,  \* those stored; a configuration keeps its first model
  shelved,    \* the count of the last good poll, if any
  arrivals,   \* stored candidates: models and configurations
  \* Ghosts.
  firstKnown, \* what the baseline has stored
  joined,     \* configurations stored together with their model
  halfSaved,  \* what a save that was cut short has stored
  moved

beelinkVars ==
  <<shelf, models, configs, shelved, arrivals, firstKnown, joined, halfSaved,
    moved>>

ASSUME ModelsAssumption == KeepPct \in 1..100 /\ Unnumbered \notin Models

Shelves == UNION {[ms -> SUBSET (Configs \cup {Unnumbered})] : ms \in SUBSET Models}

BeelinkInit ==
  /\ shelf \in Shelves
  /\ models = {} /\ configs = [c \in {} |-> c]
  /\ shelved = {} /\ arrivals = {} /\ moved = 0
  /\ firstKnown = {} /\ joined = {} /\ halfSaved = {}

CatalogueChanges ==
  /\ moved < MaxMoved
  /\ moved' = moved + 1
  /\ shelf' \in Shelves \ {shelf}
  /\ UNCHANGED <<models, configs, shelved, arrivals, firstKnown, joined,
                 halfSaved>>

\* A configuration without an id is taken for its model.
KeysOf(p) == {IF c = Unnumbered THEN p ELSE c : c \in shelf[p]}
ShelfKeys == UNION {KeysOf(p) : p \in DOMAIN shelf}

\* A key is stored once, with a model that lists it.
ConfigsAfter(keys) ==
  {f \in [DOMAIN configs \cup keys -> models \cup DOMAIN shelf] :
     \A c \in DOMAIN f : IF c \in DOMAIN configs THEN f[c] = configs[c]
                         ELSE f[c] \in DOMAIN shelf /\ c \in KeysOf(f[c])}

Model(p) == [kind |-> "NEW_CHINA_PRODUCT", id |-> p]
Configuration(c) == [kind |-> "NEW_CHINA_CONFIGURATION", id |-> c]

\* Mutant of Arrivals: only models are looked up.
ArrivalsOfModels == {Model(p) : p \in DOMAIN shelf \ models}

\* A model that is not stored is one arrival, whatever its configurations; a
\* stored one arrives with each configuration that is not.
Arrivals ==
  {Model(p) : p \in DOMAIN shelf \ models} \cup
  {Configuration(c) :
     c \in (UNION {KeysOf(p) : p \in DOMAIN shelf \cap models}) \ DOMAIN configs}

SafeShelf ==
  /\ DOMAIN shelf # {}
  /\ \A m \in shelved : 100 * Cardinality(DOMAIN shelf) >= KeepPct * m

PollBeelink ==
  /\ SafeShelf
  /\ models' = models \cup DOMAIN shelf
  /\ configs' \in ConfigsAfter(ShelfKeys)
  /\ joined' = joined \cup {c \in DOMAIN configs' \ DOMAIN configs :
                              configs'[c] \notin models}
  /\ shelved' = {Cardinality(DOMAIN shelf)}
  /\ IF shelved = {}
     THEN /\ firstKnown' = firstKnown
               \cup {Model(p) : p \in DOMAIN shelf}
               \cup {Configuration(c) : c \in ShelfKeys}
          /\ UNCHANGED arrivals
     ELSE arrivals' = arrivals \cup Arrivals /\ UNCHANGED firstKnown
  /\ UNCHANGED <<shelf, halfSaved, moved>>

\* A save that raises half-way leaves rows in the open transaction, which the
\* record of the failure commits: some models and configurations are stored
\* and not announced.
BeelinkCutShort ==
  /\ SafeShelf
  /\ \E ms \in SUBSET DOMAIN shelf, keys \in SUBSET ShelfKeys :
       /\ models' = models \cup ms
       /\ configs' \in {f \in ConfigsAfter(keys) :
                          \A c \in DOMAIN f \ DOMAIN configs : f[c] \in ms}
       /\ halfSaved' = halfSaved \cup {Model(p) : p \in ms \ models}
                         \cup {Configuration(c) : c \in keys \ DOMAIN configs}
  /\ UNCHANGED <<shelf, shelved, arrivals, firstKnown, joined, moved>>

BeelinkNext == CatalogueChanges \/ PollBeelink \/ BeelinkCutShort

BeelinkSpec == BeelinkInit /\ [][BeelinkNext]_beelinkVars
-----------------------------------------------------------------------------
\* Every model and configuration that has joined the catalogue since its
\* baseline was announced, a configuration by itself or with its model.
CatalogueArrivalsReported ==
  LET Told == arrivals \cup firstKnown \cup halfSaved
  IN  /\ \A p \in models : Model(p) \in Told
      /\ \A c \in DOMAIN configs :
           \/ Configuration(c) \in Told
           \/ c \in joined /\ Model(configs[c]) \in arrivals
=============================================================================
