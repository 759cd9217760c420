----------------------------- MODULE SchemaGate -----------------------------
(***************************************************************************)
(* The compatibility gate of the store: what SqliteStore.__init__ does to  *)
(* a database before it hands the store out.  Several processes may open   *)
(* the same file at once, and die or meet database errors on the way.      *)
(*                                                                         *)
(* A version of the schema adds either tables (all its tables are one      *)
(* element here) or columns to the tables of an earlier version.           *)
(***************************************************************************)
EXTENDS Naturals, FiniteSets, FiniteSetsExt

CONSTANTS
  Openers,  \* processes that construct a SqliteStore on the file
  Expected, \* EXPECTED_SCHEMA_VERSION
  Host,     \* Host[c]: version of the tables that the columns of version c join
  Nobody,   \* no process
  Faults    \* which of AllFaults this instance exercises

AllFaults == {"crash", "db_error", "unreadable"}

Columns == DOMAIN Host
Tables  == (1..Expected) \ Columns

ASSUME GateAssumption ==
  /\ Nobody \notin Openers
  /\ Expected \in Nat \ {0}
  /\ Columns \subseteq 1..Expected
  /\ \A c \in Columns : Host[c] \in Tables /\ Host[c] < c
  /\ Faults \subseteq AllFaults

Marker == 0             \* the table schema_migrations
Alien  == Expected + 1  \* tables of a newer release, or of another program

VARIABLES
  db,        \* the committed file: its tables, columns and recorded versions
  writer,    \* process inside a migration's transaction
  pc,        \* pc[p]: where p is in __init__
  report,    \* report[p]: the verdict p acts on, "none" before there is one
  from,      \* from[p]: the version that verdict observed
  at,        \* at[p]: the next statement of schema.sql that p executes
  error,     \* error[p]: the sqlite3.Error met: "none", "clash" or "fault"
  abandoned  \* whether a bootstrap was ever cut short (history)

vars == <<db, writer, pc, report, from, at, error, abandoned>>

States == {"FRESH", "MIGRATION_REQUIRED", "COMPATIBLE", "INCOMPATIBLE_NEWER",
           "UNKNOWN", "PARTIAL", "CORRUPT"}

Unadmittable == {"INCOMPATIBLE_NEWER", "UNKNOWN", "PARTIAL", "CORRUPT"}

Database == [tables : SUBSET (0..Alien), columns : SUBSET Columns,
             versions : SUBSET (1..Alien)]

\* Places of __init__: outside, after the read-only inspection, in schema.sql as
\* bootstrap or as the end of a migration, recording versions, at and inside the
\* migration's transaction, before the last inspection; and the outcomes.
Places == {"out", "open", "script", "stamp", "finalize", "begin", "migrate", "post",
           "admitted", "refused", "dead"}
-----------------------------------------------------------------------------
(* Databases that can be on disk.                                            *)

Empty == [tables |-> {}, columns |-> {}, versions |-> {}]

\* A database of version v: bootstrapped by that release, or migrated to it.
Release(v) == [tables   |-> {t \in Tables : t <= v} \cup {Marker},
               columns  |-> {c \in Columns : c <= v},
               versions |-> 1..v]

\* schema.sql executed as far as statement k.
HalfBuilt(k) == [tables   |-> {t \in Tables : t < k} \cup {Marker},
                 columns  |-> {c \in Columns : Host[c] < k},
                 versions |-> {}]

Honest(d) ==
  \/ d = Empty
  \/ \E v \in 1..Expected : d = Release(v)
  \/ \E k \in 1..(Expected + 1) : d = HalfBuilt(k)

Newer   == [tables |-> Tables \cup {Marker, Alien}, columns |-> Columns,
            versions |-> 1..Alien]
Foreign == [tables |-> {Alien}, columns |-> {}, versions |-> {}]

\* The marker says current, a table is gone.
Gutted(t) == [Release(Expected) EXCEPT !.tables = @ \ {t}]

\* What the unconditional migrate() of earlier releases left when it was cut
\* short: all of schema.sql executed over a database of version v.
Laundered(v) ==
  [tables   |-> Tables \cup {Marker},
   columns  |-> {c \in Columns : c <= v \/ Host[c] > v},
   versions |-> 1..v]

\* A database of version v older than the marker table, as far as it got.
Markerless(v) == [Release(v) EXCEPT !.tables = @ \ {Marker}, !.versions = {}]

\* What that migrate() made of a marker-less one: schema.sql executed over it and
\* every version stamped.  CREATE TABLE IF NOT EXISTS gave the tables that were
\* there already none of their later columns.
Blessed(v) == [Laundered(v) EXCEPT !.versions = 1..Expected]

OnDisk == {Empty, Newer, Foreign} \cup {Gutted(t) : t \in Tables}
          \cup UNION {{Release(v), Laundered(v), Markerless(v), Blessed(v)} : v \in 1..Expected}
-----------------------------------------------------------------------------
\* Mutants of Verdict: the marker alone decides; tables without a marker are
\* given one.
VerdictByMarker(d) ==
  CASE d.tables = {}          -> "FRESH"
    [] d.tables # {} /\ (Marker \notin d.tables \/ d.versions = {}) -> "UNKNOWN"
    [] d.versions # {} /\ Max(d.versions) > Expected -> "INCOMPATIBLE_NEWER"
    [] d.versions # {} /\ Max(d.versions) < Expected -> "MIGRATION_REQUIRED"
    [] OTHER                  -> "COMPATIBLE"
VerdictStampsUnknown(d) ==
  CASE d.versions = {}             -> "FRESH"
    [] d.versions # {} /\ Max(d.versions) > Expected -> "INCOMPATIBLE_NEWER"
    [] d.versions # {} /\ Max(d.versions) < Expected -> "MIGRATION_REQUIRED"
    [] OTHER                       -> "COMPATIBLE"

\* inspect_schema of a readable database.  CASE in the order of its tests.
Verdict(d) ==
  IF d.tables = {} THEN "FRESH"
  ELSE IF Marker \notin d.tables \/ d.versions = {} THEN "UNKNOWN"
  ELSE IF \E v \in d.versions : v > Expected THEN "INCOMPATIBLE_NEWER"
  ELSE IF Expected \notin d.versions THEN "MIGRATION_REQUIRED"
  ELSE IF ~ (Tables \subseteq d.tables) THEN "PARTIAL"
  ELSE "COMPATIBLE"

Observed(d) == IF d.versions = {} THEN 0 ELSE Max(d.versions)

\* The versions a migration from version v applies.
Later(v) == {w \in 1..Expected : w > v}

\* ALTER TABLE finds the column, INSERT finds the version: someone was here.
Clash(d, v) == Later(v) \cap (d.columns \cup d.versions) # {}

Migrated(d, v) ==
  [tables   |-> d.tables \cup (Tables \cap Later(v)),
   columns  |-> d.columns \cup (Columns \cap Later(v)),
   versions |-> d.versions \cup Later(v)]

\* CREATE TABLE IF NOT EXISTS: a new table has its later columns at once.
Created(d, t) ==
  IF t \in (Tables \cup {Marker}) \ d.tables
  THEN [d EXCEPT !.tables = @ \cup {t},
                 !.columns = @ \cup {c \in Columns : Host[c] = t}]
  ELSE d

Init ==
  /\ db \in OnDisk
  /\ writer = Nobody
  /\ pc = [p \in Openers |-> "out"]
  /\ report = [p \in Openers |-> "none"]
  /\ from = [p \in Openers |-> 0]
  /\ at = [p \in Openers |-> 0]
  /\ error = [p \in Openers |-> "none"]
  /\ abandoned = FALSE
-----------------------------------------------------------------------------
Goto(p, place) == pc' = [pc EXCEPT ![p] = place]

\* What an inspection may answer: an error while reading counts as corruption.
Answers == {Verdict(db)} \cup (IF "unreadable" \in Faults THEN {"CORRUPT"} ELSE {})

\* Phase 1, read-only.  No verdict when there is no file yet, or an error that
\* inspect_schema does not turn into one.
Inspect(p) ==
  /\ pc[p] = "out"
  /\ \E r \in Answers \cup (IF db = Empty \/ "unreadable" \in Faults THEN {"none"} ELSE {}) :
       /\ report' = [report EXCEPT ![p] = r]
       /\ Goto(p, IF r \in Unadmittable THEN "refused" ELSE "open")
  /\ from' = [from EXCEPT ![p] = Observed(db)]
  /\ error' = [error EXCEPT ![p] = "none"]
  /\ UNCHANGED <<db, writer, at, abandoned>>

\* Phase 2, read-write, on the verdict of phase 1 when there is one.
Admit(p) ==
  /\ pc[p] = "open"
  /\ \E r \in IF report[p] = "none" THEN Answers ELSE {report[p]} :
       /\ report' = [report EXCEPT ![p] = r]
       /\ Goto(p, CASE r = "COMPATIBLE"         -> "admitted"
                    [] r = "FRESH"              -> "script"
                    [] r = "MIGRATION_REQUIRED" -> "begin"
                    [] OTHER                    -> "post")
  /\ from' = IF report[p] = "none" THEN [from EXCEPT ![p] = Observed(db)] ELSE from
  /\ at' = [at EXCEPT ![p] = 0]
  /\ UNCHANGED <<db, writer, error, abandoned>>

\* The inspection of phase 2 is outside the try: its error ends the constructor.
Unreadable(p) ==
  /\ "unreadable" \in Faults
  /\ pc[p] = "open" /\ report[p] = "none"
  /\ error' = [error EXCEPT ![p] = "fault"]
  /\ Goto(p, "refused")
  /\ UNCHANGED <<db, writer, report, from, at, abandoned>>

\* executescript(schema.sql) commits statement by statement.
Script(p) ==
  /\ pc[p] \in {"script", "finalize"}
  /\ writer = Nobody
  /\ db' = Created(db, at[p])
  /\ IF at[p] < Expected
     THEN at' = [at EXCEPT ![p] = @ + 1] /\ UNCHANGED pc
     ELSE at' = [at EXCEPT ![p] = 0]
          /\ Goto(p, IF pc[p] = "script" THEN "stamp" ELSE "post")
  /\ UNCHANGED <<writer, report, from, error, abandoned>>

\* INSERT OR IGNORE of every version, then one commit.
Stamp(p) ==
  /\ pc[p] = "stamp"
  /\ writer = Nobody
  /\ db' = [db EXCEPT !.versions = @ \cup 1..Expected]
  /\ Goto(p, "post")
  /\ UNCHANGED <<writer, report, from, at, error, abandoned>>

\* BEGIN IMMEDIATE waits for other writers.
Begin(p) ==
  /\ pc[p] = "begin"
  /\ writer = Nobody
  /\ writer' = p
  /\ Goto(p, "migrate")
  /\ UNCHANGED <<db, report, from, at, error, abandoned>>

\* Every migration after the observed version, and the commit.
Migrate(p) ==
  /\ pc[p] = "migrate"
  /\ ~ Clash(db, from[p])
  /\ db' = Migrated(db, from[p])
  /\ writer' = Nobody
  /\ Goto(p, "finalize")
  /\ UNCHANGED <<report, from, at, error, abandoned>>

\* Mutant of Rollback: what the failed migration had done so far is kept.
RollbackNothing(p) ==
  /\ writer' = IF writer = p THEN Nobody ELSE writer
  /\ db' = IF writer = p THEN [db EXCEPT !.columns = @ \cup (Columns \cap Later(from[p]))]
                         ELSE db
Rollback(p) ==
  /\ writer' = IF writer = p THEN Nobody ELSE writer
  /\ UNCHANGED db

MigrationClashes(p) ==
  /\ pc[p] = "migrate"
  /\ Clash(db, from[p])
  /\ Rollback(p)
  /\ error' = [error EXCEPT ![p] = "clash"]
  /\ Goto(p, "post")
  /\ UNCHANGED <<report, from, at, abandoned>>

GivesUp(p) == abandoned' = (abandoned \/ pc[p] \in {"script", "stamp"})

\* Any other sqlite3.Error of a bootstrap or a migration: busy, full, I/O.
DatabaseError(p) ==
  /\ "db_error" \in Faults
  /\ pc[p] \in {"script", "stamp", "finalize", "begin", "migrate"}
  /\ Rollback(p)
  /\ GivesUp(p)
  /\ error' = [error EXCEPT ![p] = "fault"]
  /\ Goto(p, "post")
  /\ UNCHANGED <<report, from, at>>

\* Mutants of Outcome: an admission step that failed is refused unseen, or tried
\* again for as long as it takes.
OutcomeByError(p, r) ==
  IF r = "COMPATIBLE" /\ error[p] = "none" THEN "admitted" ELSE "refused"
OutcomeRetry(p, r) ==
  CASE r = "COMPATIBLE"         -> "admitted"
    [] r = "MIGRATION_REQUIRED" -> "begin"
    [] OTHER                    -> "refused"

Outcome(p, r) == IF r = "COMPATIBLE" THEN "admitted" ELSE "refused"

\* The result is inspected again before the store is handed out.
PostAdmission(p) ==
  /\ pc[p] = "post"
  /\ \E r \in Answers :
       /\ report' = [report EXCEPT ![p] = r]
       /\ Goto(p, Outcome(p, r))
  /\ UNCHANGED <<db, writer, from, at, error, abandoned>>

\* The process dies; SQLite rolls its transaction back.
Die(p) ==
  /\ "crash" \in Faults
  /\ pc[p] \notin {"out", "admitted", "refused", "dead"}
  /\ Rollback(p)
  /\ GivesUp(p)
  /\ Goto(p, "dead")
  /\ UNCHANGED <<report, from, at, error>>

\* The next command, or the next tick of the scheduler, opens the file anew.
Reopen(p) ==
  /\ pc[p] \in {"admitted", "refused", "dead"}
  /\ Goto(p, "out")
  /\ report' = [report EXCEPT ![p] = "none"]
  /\ UNCHANGED <<db, writer, from, at, error, abandoned>>

Step(p) ==
  \/ Admit(p) \/ Unreadable(p) \/ Script(p) \/ Stamp(p)
  \/ Begin(p) \/ Migrate(p) \/ MigrationClashes(p)
  \/ DatabaseError(p) \/ PostAdmission(p)

Next == \E p \in Openers : Inspect(p) \/ Step(p) \/ Die(p) \/ Reopen(p)

Spec == Init /\ [][Next]_vars

\* A process that has started to open the file goes on.  Its wait for another
\* writer ends with its turn or with SQLite's busy timeout, a DatabaseError.
FairSpec == Spec /\ \A p \in Openers : WF_vars(Step(p))
-----------------------------------------------------------------------------
TypeOK ==
  /\ db \in Database
  /\ writer \in Openers \cup {Nobody}
  /\ pc \in [Openers -> Places]
  /\ report \in [Openers -> States \cup {"none"}]
  /\ from \in [Openers -> 0..Alien]
  /\ at \in [Openers -> 0..Expected]
  /\ error \in [Openers -> {"none", "clash", "fault"}]
  /\ abandoned \in BOOLEAN

Ready(d) == d = Release(Expected)

\* The marker says current, the structure is not.
Mislabelled(d) == Expected \in d.versions /\ ~ Ready(d)

\* Normal work begins only on a database with every table and version this release
\* expects, whoever else bootstrapped, migrated or died meanwhile.  A column can be
\* missing only where an earlier release has stamped it over: the gate checks the
\* tables and believes the marker about the columns.
AdmittedIsReady ==
  \A p \in Openers :
    pc[p] = "admitted" => Ready(db) \/ \E v \in 1..Expected : db = Blessed(v)

\* The gate makes no such file itself: nothing it does to a database, in whatever
\* order and wherever it stops, ends in a marker that says current over a structure
\* that is not.
NothingIsLaundered ==
  [][Mislabelled(db') => db' = db]_vars

\* Whatever is cut short, the file is one a later release can classify: a whole
\* version, or a prefix of schema.sql without any version.
HonestStaysHonest == [][Honest(db) => Honest(db')]_vars

\* A file that contradicts its marker, has none, or is newer, is never touched,
\* whether the gate notices and refuses it or believes the marker.
Hopeless(d) ==
  \/ Verdict(d) = "INCOMPATIBLE_NEWER"
  \/ d.tables # {} /\ Marker \notin d.tables
  \/ Mislabelled(d)
  \/ d.versions # {} /\ Clash(d, Observed(d))

HopelessIsLeftAlone == [][Hopeless(db) => db' = db]_vars

\* A sound file is refused only for a bootstrap that is under way or was cut
\* short, or for an error this very process met.
SoundIsRefusedForCause ==
  [][\A p \in Openers :
       pc[p] # "refused" /\ pc'[p] = "refused" /\ Honest(db) =>
         \/ abandoned
         \/ \E q \in Openers : pc[q] \in {"script", "stamp"}
         \/ error'[p] = "fault" \/ "CORRUPT" \in {report[p], report'[p]}]_vars

\* Every construction ends, admitted or refused, however often others retry.
EveryOpeningEnds ==
  \A p \in Openers :
    pc[p] = "open" ~> pc[p] \in {"admitted", "refused", "dead"}
=============================================================================
