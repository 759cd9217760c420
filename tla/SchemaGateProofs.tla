-------------------------- MODULE SchemaGateProofs --------------------------
(***************************************************************************)
(* Proofs about the compatibility gate for any number of processes and any *)
(* history of table and column versions.                                   *)
(*                                                                         *)
(* The argument: a file is in one of few shapes (Known), and a process     *)
(* that acts on an old verdict finds the file either as it was inspected   *)
(* or already brought to the current release, which no statement changes.  *)
(***************************************************************************)
EXTENDS SchemaGate, TLAPS

Current == Release(Expected)

Halves == {HalfBuilt(k) : k \in 1..(Expected + 1)}
Olds   == {Release(v) : v \in 1..Expected} \cup {Laundered(v) : v \in 1..Expected}
Stamps == {Blessed(v) : v \in 1..Expected}
Known  == OnDisk \cup Halves

\* Files a bootstrap may find.
Fresh(d) == d = Empty \/ d \in Halves \/ d = Current

\* What an old verdict still says about the file.
Finished(p) ==
  /\ pc[p] = "finalize" => db = Current
  /\ pc[p] = "admitted" \/ (pc[p] = "open" /\ report[p] = "COMPATIBLE") => db \in Stamps

Bootstraps(p) ==
  /\ pc[p] = "open" /\ report[p] = "FRESH" => Fresh(db)
  /\ pc[p] = "script" =>
       \/ db = Empty /\ at[p] = 0
       \/ \E k \in 1..(Expected + 1) : at[p] <= k /\ db = HalfBuilt(k)
       \/ db = Current
  /\ pc[p] = "stamp" => db = HalfBuilt(Expected + 1) \/ db = Current

Migrates(p) ==
  \/ pc[p] \in {"begin", "migrate"}
  \/ pc[p] = "open" /\ report[p] = "MIGRATION_REQUIRED"
  => /\ from[p] \in 1..Expected /\ from[p] < Expected
     /\ db \in {Release(from[p]), Laundered(from[p]), Current}

FileInv ==
  /\ TypeOK
  /\ db \in Known
  /\ \A p \in Openers : Finished(p) /\ Bootstraps(p) /\ Migrates(p)
-----------------------------------------------------------------------------
(* Shapes of a file.                                                         *)

\* Max of the versions of a whole release.
LEMMA MaxOfVersions == ASSUME NEW v \in Nat, v >= 1 PROVE Max(1..v) = v
<1>1. v \in 1..v /\ \A y \in 1..v : v >= y
  OBVIOUS
<1>2. PICK x \in 1..v : x = Max(1..v) /\ \A y \in 1..v : x >= y
  BY <1>1 DEF Max
<1>3. QED BY <1>1, <1>2

\* Versions are numbers.
LEMMA Numbers ==
  /\ Expected \in Nat /\ Expected >= 1
  /\ \A c \in Columns : c \in Nat /\ 1 <= c /\ c <= Expected
  /\ \A c \in Columns : Host[c] \in Nat /\ 1 <= Host[c] /\ Host[c] < c
  /\ \A c \in Columns : Host[c] \in Tables
  /\ \A t \in Tables : t \in Nat /\ 1 <= t /\ t <= Expected
<1>1. Expected \in Nat /\ Expected >= 1
  BY GateAssumption
<1>2. \A c \in Columns : c \in 1..Expected
  BY GateAssumption
<1>3. \A t \in Tables : t \in 1..Expected
  BY DEF Tables
<1>4. \A c \in Columns : Host[c] \in Tables /\ Host[c] < c
  BY GateAssumption
<1>5. QED BY <1>1, <1>2, <1>3, <1>4

\* The current release is what every complete path builds.
LEMMA Currents ==
  /\ Laundered(Expected) = Current /\ Blessed(Expected) = Current
  /\ Current \in Stamps
  /\ Current = [tables |-> Tables \cup {Marker}, columns |-> Columns,
                versions |-> 1..Expected]
  /\ HalfBuilt(Expected + 1) = [tables |-> Tables \cup {Marker},
                                columns |-> Columns, versions |-> {}]
<1>1. {t \in Tables : t <= Expected} = Tables /\ {t \in Tables : t < Expected + 1} = Tables
  BY Numbers DEF Tables
<1>2. {c \in Columns : c <= Expected} = Columns
  BY Numbers
<1>3. {c \in Columns : c <= Expected \/ Host[c] > Expected} = Columns
  BY Numbers
<1>4. {c \in Columns : Host[c] < Expected + 1} = Columns
  BY Numbers DEF Tables
<1>5. Laundered(Expected) = Current /\ Blessed(Expected) = Current
  BY <1>1, <1>2, <1>3 DEF Laundered, Blessed, Current, Release
<1>6. Current \in Stamps
  BY <1>5, Numbers DEF Stamps
<1>7. QED BY <1>1, <1>2, <1>4, <1>5, <1>6 DEF Current, Release, HalfBuilt

\* A migration from what it observed arrives at the current release.
LEMMA Arrives ==
  ASSUME NEW v \in 1..Expected, NEW d \in {Release(v), Laundered(v)}
  PROVE Migrated(d, v) = Current
<1>1. d.tables \cup (Tables \cap Later(v)) = Tables \cup {Marker}
  BY Numbers DEF Release, Laundered, Later, Tables, Marker
<1>2. d.columns \cup (Columns \cap Later(v)) = Columns
  BY Numbers DEF Release, Laundered, Later
<1>3. d.versions \cup Later(v) = 1..Expected
  BY Numbers DEF Release, Laundered, Later
<1>4. QED BY <1>1, <1>2, <1>3, Currents DEF Migrated

\* A migration of the current release clashes.
LEMMA CurrentClashes ==
  ASSUME NEW v \in 0..Expected, v < Expected PROVE Clash(Current, v)
<1>1. Expected \in Later(v) /\ Expected \in Current.versions
  BY Numbers, Currents DEF Later
<1>2. QED BY <1>1 DEF Clash

\* Executing a statement of schema.sql again changes nothing.
LEMMA CurrentIsComplete == ASSUME NEW t \in 0..Expected PROVE Created(Current, t) = Current
BY Currents DEF Created, Marker

\* The next statement of schema.sql over a half-built file.
LEMMA NextStatement ==
  ASSUME NEW k \in 1..(Expected + 1), NEW t \in 0..Expected, t <= k
  PROVE  \/ t < k /\ Created(HalfBuilt(k), t) = HalfBuilt(k)
         \/ t = k /\ Created(HalfBuilt(k), t) = HalfBuilt(k + 1)
<1>1. CASE t < k
  <2>1. t \notin (Tables \cup {Marker}) \ HalfBuilt(k).tables
    BY <1>1 DEF HalfBuilt
  <2>2. QED BY <1>1, <2>1 DEF Created
<1>2. CASE t = k /\ t \in Tables
  <2>1. HalfBuilt(k).tables \cup {t} = {u \in Tables : u < k + 1} \cup {Marker}
    BY <1>2, Numbers DEF HalfBuilt, Tables
  <2>2. HalfBuilt(k).columns \cup {c \in Columns : Host[c] = t} = {c \in Columns : Host[c] < k + 1}
    BY <1>2, Numbers DEF HalfBuilt, Tables
  <2>3. t \in (Tables \cup {Marker}) \ HalfBuilt(k).tables
    BY <1>2, Numbers DEF HalfBuilt, Tables, Marker
  <2>4. Created(HalfBuilt(k), t) = [tables |-> HalfBuilt(k).tables \cup {t},
           columns |-> HalfBuilt(k).columns \cup {c \in Columns : Host[c] = t},
           versions |-> {}]
    BY <2>3 DEF Created, HalfBuilt
  <2>5. QED BY <1>2, <2>1, <2>2, <2>4 DEF HalfBuilt
<1>3. CASE t = k /\ t \notin Tables
  <2>1. {u \in Tables : u < k + 1} = {u \in Tables : u < k}
    BY <1>3, Numbers DEF Tables
  <2>2. {c \in Columns : Host[c] < k + 1} = {c \in Columns : Host[c] < k}
    BY <1>3, Numbers DEF Tables
  <2>3. t \notin Tables \cup {Marker}
    BY <1>3 DEF Marker
  <2>4. QED BY <1>3, <2>1, <2>2, <2>3 DEF Created, HalfBuilt
<1>4. QED BY <1>1, <1>2, <1>3

\* The first statement of schema.sql.
LEMMA FirstStatement == Created(Empty, 0) = HalfBuilt(1)
<1>1. {t \in Tables : t < 1} = {} /\ {c \in Columns : Host[c] < 1} = {}
      /\ {c \in Columns : Host[c] = 0} = {}
  BY Numbers DEF Tables
<1>2. QED BY <1>1 DEF Created, Empty, HalfBuilt, Marker

\* What an inspection of each shape says, and what it observes.
Said(d) ==
  /\ d \in Database
  /\ Observed(d) \in 0..Alien
  /\ Verdict(d) \in States \ {"CORRUPT"}
  /\ Verdict(d) = "FRESH" => d = Empty
  /\ Verdict(d) = "COMPATIBLE" => d \in Stamps
  /\ Verdict(d) = "MIGRATION_REQUIRED" =>
       \E v \in 1..Expected : v < Expected /\ Observed(d) = v
                            /\ d \in {Release(v), Laundered(v)}

\* Two shapes whose versions are 1..v and that have the marker.
LEMMA VersionedSays ==
  ASSUME NEW v \in 1..Expected, NEW d \in {Release(v), Laundered(v)} PROVE Said(d)
<1>1. d.versions = 1..v /\ Marker \in d.tables /\ d \in Database
  BY Numbers DEF Release, Laundered, Database, Marker, Alien, Tables
<1>2. Observed(d) = v
  BY <1>1, MaxOfVersions, Numbers DEF Observed
<1>3. d.tables # {} /\ d.versions # {} /\ ~ \E w \in d.versions : w > Expected
  BY <1>1, Numbers
<1>4. CASE v = Expected
  <2>1. d = Current
    BY <1>4, Currents DEF Current
  <2>2. Verdict(d) = "COMPATIBLE"
    BY <1>1, <1>3, <1>4, <2>1, Currents, Numbers DEF Verdict
  <2>3. QED BY <1>1, <1>2, <2>1, <2>2, Currents, Numbers DEF Said, States, Alien
<1>5. CASE v < Expected
  <2>1. Verdict(d) = "MIGRATION_REQUIRED"
    BY <1>1, <1>3, <1>5, Numbers DEF Verdict
  <2>2. QED BY <1>1, <1>2, <1>5, <2>1, Numbers DEF Said, States, Alien
<1>6. QED BY <1>4, <1>5, Numbers

LEMMA KnownSays == ASSUME NEW d \in Known PROVE Said(d)
<1>1. CASE d = Empty
  <2>1. Verdict(d) = "FRESH" /\ Observed(d) = 0 /\ d \in Database
    BY <1>1 DEF Verdict, Observed, Empty, Database
  <2>2. QED BY <1>1, <2>1, Numbers DEF Said, States, Alien
<1>2. CASE d = Newer
  <2>1. d.versions = 1..Alien /\ Marker \in d.tables /\ d \in Database
    BY <1>2, Numbers DEF Newer, Database, Alien, Marker, Tables
  <2>2. Observed(d) = Alien
    BY <2>1, Numbers, MaxOfVersions DEF Observed, Alien
  <2>3. Alien \in d.versions /\ Alien > Expected /\ d.tables # {} /\ d.versions # {}
    BY <2>1, Numbers DEF Alien
  <2>4. Verdict(d) = "INCOMPATIBLE_NEWER"
    BY <2>1, <2>3 DEF Verdict
  <2>5. QED BY <2>1, <2>2, <2>4, Numbers DEF Said, States, Alien
<1>3. CASE d = Foreign
  <2>1. Verdict(d) = "UNKNOWN" /\ Observed(d) = 0 /\ d \in Database
    BY <1>3, Numbers DEF Verdict, Observed, Foreign, Database, Alien, Marker
  <2>2. QED BY <1>3, <2>1, Numbers DEF Said, States, Alien
<1>4. CASE \E v \in 1..Expected : d = Release(v) \/ d = Laundered(v)
  BY <1>4, VersionedSays
<1>5. CASE \E t \in Tables : d = Gutted(t)
  <2>1. PICK t \in Tables : d = Gutted(t)
    BY <1>5
  <2>2. d.versions = 1..Expected /\ Marker \in d.tables /\ t \notin d.tables
        /\ d \in Database
    BY <2>1, Currents, Numbers DEF Gutted, Current, Marker, Database, Alien
  <2>3. Observed(d) = Expected
    BY <2>2, Numbers, MaxOfVersions DEF Observed
  <2>4. Verdict(d) = "PARTIAL"
    BY <2>2, Numbers DEF Verdict
  <2>5. QED BY <2>2, <2>3, <2>4, Numbers DEF Said, States, Alien
<1>6. CASE d \in Halves
  <2>1. PICK k \in 1..(Expected + 1) : d = HalfBuilt(k)
    BY <1>6 DEF Halves
  <2>2. d.versions = {} /\ Marker \in d.tables /\ d \in Database
    BY <2>1, Numbers DEF HalfBuilt, Database, Alien, Marker
  <2>3. Verdict(d) = "UNKNOWN" /\ Observed(d) = 0
    BY <2>2 DEF Verdict, Observed
  <2>4. QED BY <1>6, <2>2, <2>3, Numbers DEF Said, States, Alien
<1>7. CASE \E v \in 1..Expected : d = Markerless(v)
  <2>1. PICK v \in 1..Expected : d = Markerless(v)
    BY <1>7
  <2>2. d.versions = {} /\ d.tables = {t \in Tables : t <= v} /\ d \in Database
    <3>1. d = [tables |-> {t \in Tables : t <= v} , columns |-> {c \in Columns : c <= v},
               versions |-> {}]
      <4>1. ({t \in Tables : t <= v} \cup {Marker}) \ {Marker} = {t \in Tables : t <= v}
        BY Numbers DEF Marker
      <4>2. QED BY <2>1, <4>1 DEF Markerless, Release
    <3>2. {t \in Tables : t <= v} \subseteq 0..Alien
      BY Numbers DEF Alien
    <3>3. QED BY <3>1, <3>2 DEF Database
  <2>3. 1 \in d.tables
    <3>1. 1 \notin Columns
      BY Numbers
    <3>2. QED BY <2>2, <3>1, Numbers DEF Tables
  <2>4. Verdict(d) = "UNKNOWN" /\ Observed(d) = 0
    BY <2>2, <2>3 DEF Verdict, Observed
  <2>5. QED BY <2>2, <2>4, Numbers DEF Said, States, Alien
<1>8. CASE \E v \in 1..Expected : d = Blessed(v)
  <2>1. PICK v \in 1..Expected : d = Blessed(v)
    BY <1>8
  <2>2. d.versions = 1..Expected /\ d.tables = Tables \cup {Marker} /\ d \in Database
    <3>1. d = [tables |-> Tables \cup {Marker},
               columns |-> {c \in Columns : c <= v \/ Host[c] > v}, versions |-> 1..Expected]
      BY <2>1 DEF Blessed, Laundered
    <3>2. Tables \cup {Marker} \subseteq 0..Alien /\ 1..Expected \subseteq 1..Alien
      BY Numbers DEF Alien, Marker
    <3>3. QED BY <3>1, <3>2 DEF Database
  <2>3. Observed(d) = Expected
    BY <2>2, Numbers, MaxOfVersions DEF Observed
  <2>4. Verdict(d) = "COMPATIBLE"
    BY <2>2, Numbers DEF Verdict
  <2>5. d \in Stamps
    BY <2>1 DEF Stamps
  <2>6. QED BY <2>2, <2>3, <2>4, <2>5, Numbers DEF Said, States, Alien
<1>9. QED BY <1>1, <1>2, <1>3, <1>4, <1>5, <1>6, <1>7, <1>8 DEF Known, OnDisk
-----------------------------------------------------------------------------
(* The invariant is inductive.                                               *)

\* No two of these shapes are the same file.
LEMMA Apart ==
  /\ Empty # Current
  /\ \A k \in 1..(Expected + 1) : HalfBuilt(k) # Current /\ HalfBuilt(k) # Empty
  /\ \A v \in 1..Expected : /\ Release(v) # Empty /\ Laundered(v) # Empty
                           /\ Release(v) \notin Halves /\ Laundered(v) \notin Halves
  /\ Empty \notin Stamps /\ \A d \in Halves : d \notin Stamps
<1>1. Empty.versions = {} /\ Expected \in Current.versions
  BY Currents, Numbers DEF Empty
<1>2. \A k \in 1..(Expected + 1) : HalfBuilt(k).versions = {} /\ HalfBuilt(k).tables # {}
  BY DEF HalfBuilt
<1>3. \A v \in 1..Expected : Release(v).versions # {} /\ Laundered(v).versions # {}
  BY DEF Release, Laundered
<1>4. Empty.tables = {}
  BY DEF Empty
<1>5. \A d \in Stamps : Expected \in d.versions
  BY Numbers DEF Stamps, Blessed, Laundered
<1>6. Empty \notin Stamps /\ \A d \in Halves : d \notin Stamps
  BY <1>1, <1>2, <1>5 DEF Halves
<1>7. QED BY <1>1, <1>2, <1>3, <1>4, <1>6 DEF Halves

\* What a statement of a bootstrap's schema.sql does, and that when it does
\* something, no later statement had been executed.
LEMMA BootstrapStatement ==
  ASSUME NEW t \in 0..Expected, NEW d,
         \/ d = Empty /\ t = 0
         \/ \E k \in 1..(Expected + 1) : t <= k /\ d = HalfBuilt(k)
  PROVE  /\ \E k \in 1..(Expected + 1) : t + 1 <= k /\ Created(d, t) = HalfBuilt(k)
         /\ \/ Created(d, t) = d
            \/ /\ Created(d, t) = HalfBuilt(t + 1)
               /\ \A j \in 1..(Expected + 1) : d = HalfBuilt(j) => j <= t
               /\ d # HalfBuilt(Expected + 1)
<1>1. CASE d = Empty /\ t = 0
  <2>1. Created(d, t) = HalfBuilt(t + 1) /\ t + 1 \in 1..(Expected + 1)
    BY <1>1, FirstStatement, Numbers
  <2>2. \A j \in 1..(Expected + 1) : d # HalfBuilt(j)
    BY <1>1, Apart
  <2>3. Expected + 1 \in 1..(Expected + 1)
    BY Numbers
  <2>4. QED BY <2>1, <2>2, <2>3
<1>2. CASE \E k \in 1..(Expected + 1) : t <= k /\ d = HalfBuilt(k)
  <2>1. PICK k \in 1..(Expected + 1) : t <= k /\ d = HalfBuilt(k)
    BY <1>2
  <2>2. CASE t < k /\ Created(d, t) = HalfBuilt(k)
    BY <2>1, <2>2, Numbers
  <2>3. CASE t = k /\ Created(d, t) = HalfBuilt(k + 1)
    <3>1. t + 1 \in 1..(Expected + 1)
      BY <2>3, Numbers
    <3>2. CASE t \in d.tables
      <4>1. Created(d, t) = d
        BY <3>2 DEF Created
      <4>2. QED BY <2>3, <3>1, <4>1
    <3>3. CASE t \notin d.tables
      <4>1. CASE t \in Tables
        <5>1. \A j \in 1..(Expected + 1) : d = HalfBuilt(j) => j <= t
          BY <3>3, <4>1, Numbers DEF HalfBuilt
        <5>2. d # HalfBuilt(Expected + 1)
          BY <5>1, Numbers
        <5>3. QED BY <2>3, <3>1, <5>1, <5>2
      <4>2. CASE t \notin Tables
        <5>1. t # Marker
          BY <2>1, <3>3 DEF HalfBuilt, Marker
        <5>2. Created(d, t) = d
          BY <4>2, <5>1 DEF Created
        <5>3. QED BY <2>3, <3>1, <5>2
      <4>3. QED BY <4>1, <4>2
    <3>4. QED BY <3>2, <3>3
  <2>4. QED BY <2>1, <2>2, <2>3, NextStatement
<1>3. QED BY <1>1, <1>2

Same(q) == /\ pc'[q] = pc[q] /\ report'[q] = report[q]
           /\ from'[q] = from[q] /\ at'[q] = at[q]

\* What a process may conclude survives the steps of the others.
LEMMA OthersKeep ==
  ASSUME FileInv, NEW q \in Openers, Same(q), db' = db \/ db' = Current
  PROVE  Finished(q)' /\ Bootstraps(q)' /\ Migrates(q)'
<1>1. Finished(q) /\ Bootstraps(q) /\ Migrates(q)
  BY DEF FileInv
<1>2. Finished(q)'
  <2>1. Current \in Stamps
    BY Currents
  <2>2. CASE db' = db
    BY <1>1, <2>2 DEF Finished, Same, Current, Release, Stamps, Blessed, Laundered
  <2>3. CASE db' = Current
    <3>1. (db = Current)' /\ (db \in Stamps)'
      BY <2>1, <2>3 DEF Current, Release, Stamps, Blessed, Laundered
    <3>2. (pc[q] = "finalize" => db = Current)'
      BY <3>1
    <3>3. (pc[q] = "admitted" \/ (pc[q] = "open" /\ report[q] = "COMPATIBLE") => db \in Stamps)'
      BY <3>1
    <3>4. QED BY <3>2, <3>3 DEF Finished
  <2>4. QED BY <2>2, <2>3
<1>3. Bootstraps(q)'
  BY <1>1 DEF Bootstraps, Same, Fresh, Current
<1>4. Migrates(q)'
  BY <1>1 DEF Migrates, Same, Current
<1>5. QED BY <1>2, <1>3, <1>4

\* So do those of the bootstrap of another process.
LEMMA OthersKeepHalf ==
  ASSUME FileInv, NEW q \in Openers, Same(q), NEW t \in 0..Expected,
         db = Empty \/ db \in Halves, db' = HalfBuilt(t + 1),
         \A j \in 1..(Expected + 1) : db = HalfBuilt(j) => j <= t,
         db # HalfBuilt(Expected + 1)
  PROVE  Finished(q)' /\ Bootstraps(q)' /\ Migrates(q)'
<1>1. Finished(q) /\ Bootstraps(q) /\ Migrates(q) /\ TypeOK
  BY DEF FileInv
<1>2. db # Current /\ t + 1 \in 1..(Expected + 1) /\ db' \in Halves
  BY Apart, Numbers DEF Halves
<1>3. Finished(q)'
  <2>1. db \notin Stamps
    BY Apart
  <2>2. QED BY <1>1, <1>2, <2>1 DEF Finished, Same
<1>4. Bootstraps(q)'
  <2>1. pc[q] # "stamp"
    BY <1>1, <1>2 DEF Bootstraps
  <2>2. pc[q] = "script" => at[q] <= t + 1
    <3>1. at[q] \in Nat
      BY <1>1, Numbers DEF TypeOK
    <3>2. QED BY <1>1, <1>2, <3>1 DEF Bootstraps
  <2>3. Fresh(db')
    BY <1>2 DEF Fresh
  <2>4. QED BY <1>2, <2>1, <2>2, <2>3 DEF Bootstraps, Same, Fresh, Halves, Current, HalfBuilt
<1>5. Migrates(q)'
  <2>1. \A v \in 1..Expected : db \notin {Release(v), Laundered(v), Current}
    BY Apart, <1>2
  <2>2. QED BY <1>1, <2>1 DEF Migrates, Same
<1>6. QED BY <1>3, <1>4, <1>5

LEMMA CurrentIsKnown == Current \in Known /\ Said(Current)
<1>1. Expected \in 1..Expected
  BY Numbers
<1>2. Current \in Known
  BY <1>1 DEF Current, Known, OnDisk
<1>3. QED BY <1>2, KnownSays

LEMMA Starts == Init => FileInv
<1> SUFFICES ASSUME Init PROVE FileInv
  OBVIOUS
<1>1. db \in Known /\ Said(db)
  BY KnownSays DEF Init, Known
<1>2. TypeOK
  <2>1. 0 \in 0..Alien /\ 0 \in 0..Expected
    BY Numbers DEF Alien
  <2>2. db \in Database /\ writer \in Openers \cup {Nobody} /\ abandoned \in BOOLEAN
    BY <1>1 DEF Init, Said
  <2>3. pc \in [Openers -> Places] /\ report \in [Openers -> States \cup {"none"}]
    BY DEF Init, Places
  <2>4. /\ from \in [Openers -> 0..Alien] /\ at \in [Openers -> 0..Expected]
        /\ error \in [Openers -> {"none", "clash", "fault"}]
    BY <2>1 DEF Init
  <2>5. QED BY <2>2, <2>3, <2>4 DEF TypeOK
<1>3. ASSUME NEW q \in Openers PROVE Finished(q) /\ Bootstraps(q) /\ Migrates(q)
  BY DEF Init, Finished, Bootstraps, Migrates
<1>4. QED BY <1>1, <1>2, <1>3 DEF FileInv

\* Inspections: phase 1, the fresh inspection of phase 2, the last one.
LEMMA InspectKeeps ==
  ASSUME FileInv, NEW p \in Openers, Inspect(p) \/ Admit(p) \/ PostAdmission(p)
  PROVE  FileInv'
<1>1. db' = db /\ db \in Known /\ Said(db) /\ TypeOK
  BY KnownSays DEF FileInv, Inspect, Admit, PostAdmission
<1>2. \A r \in Answers : /\ r \in States
                         /\ r # "CORRUPT" => r = Verdict(db)
  BY <1>1 DEF Answers, Said, States
<1>3. Finished(p) /\ Bootstraps(p) /\ Migrates(p)
  BY DEF FileInv
<1>4. ASSUME NEW q \in Openers, q # p PROVE Finished(q)' /\ Bootstraps(q)' /\ Migrates(q)'
  <2>1. Same(q)
    BY <1>1, <1>4 DEF Same, TypeOK, Inspect, Admit, PostAdmission, Goto
  <2>2. QED BY <1>1, <2>1, OthersKeep
<1>5. CASE Inspect(p)
  <2>1. PICK r \in Answers \cup {"none"} :
          /\ report' = [report EXCEPT ![p] = r]
          /\ pc' = [pc EXCEPT ![p] = IF r \in Unadmittable THEN "refused" ELSE "open"]
    BY <1>5 DEF Inspect, Goto
  <2>2. r \in States \/ r = "none"
    BY <1>2, <2>1
  <2>3. TypeOK'
    BY <1>1, <1>5, <2>1, <2>2 DEF Inspect, TypeOK, Said, Places
  <2>4. pc'[p] \in {"refused", "open"} /\ report'[p] = r /\ from'[p] = Observed(db)
    BY <1>1, <1>5, <2>1 DEF TypeOK, Inspect
  <2>5. Finished(p)' /\ Bootstraps(p)' /\ Migrates(p)'
    <3>1. r = "CORRUPT" \/ r = Verdict(db) \/ r = "none"
      BY <1>2, <2>1
    <3>2. Finished(p)'
      BY <1>1, <2>4, <3>1 DEF Finished, Said, Current, Release
    <3>3. r = "FRESH" => db = Empty
      BY <1>1, <3>1 DEF Said, States
    <3>4. Bootstraps(p)'
      BY <1>1, <2>4, <3>3 DEF Bootstraps, Fresh, Empty
    <3>5. Migrates(p)'
      BY <1>1, <2>4, <3>1 DEF Migrates, Said
    <3>6. QED BY <3>2, <3>4, <3>5
  <2>6. QED BY <1>1, <1>4, <2>3, <2>5 DEF FileInv
<1>6. CASE Admit(p)
  <2>1. PICK r \in IF report[p] = "none" THEN Answers ELSE {report[p]} :
          /\ report' = [report EXCEPT ![p] = r]
          /\ pc' = [pc EXCEPT ![p] = CASE r = "COMPATIBLE"         -> "admitted"
                                       [] r = "FRESH"              -> "script"
                                       [] r = "MIGRATION_REQUIRED" -> "begin"
                                       [] OTHER                    -> "post"]
    BY <1>6 DEF Admit, Goto
  <2>2. r \in States
    BY <1>1, <1>2, <2>1 DEF TypeOK
  <2>3. TypeOK'
    BY <1>1, <1>6, <2>1, <2>2, Numbers DEF Admit, TypeOK, Said, Places
  <2>4. pc[p] = "open" /\ at'[p] = 0 /\ pc'[p] \in {"admitted", "script", "begin", "post"}
        /\ from'[p] = (IF report[p] = "none" THEN Observed(db) ELSE from[p])
        /\ (pc'[p] = "admitted" => r = "COMPATIBLE")
        /\ (pc'[p] = "script" => r = "FRESH")
        /\ (pc'[p] = "begin" => r = "MIGRATION_REQUIRED")
    BY <1>1, <1>6, <2>1 DEF TypeOK, Admit
  <2>5. CASE report[p] = "none"
    <3>1. r = "CORRUPT" \/ r = Verdict(db)
      BY <1>2, <2>1, <2>5
    <3>2. from'[p] = Observed(db)
      BY <2>4, <2>5
    <3>3. Finished(p)' /\ Bootstraps(p)'
      BY <1>1, <2>4, <3>1 DEF Finished, Bootstraps, Said
    <3>4. Migrates(p)'
      BY <1>1, <2>4, <3>1, <3>2 DEF Migrates, Said
    <3>5. QED BY <1>1, <1>4, <2>3, <3>3, <3>4 DEF FileInv
  <2>6. CASE report[p] # "none"
    <3>1. r = report[p]
      BY <2>1, <2>6
    <3>2. db = Empty \/ db = Current \/ (\E k \in 1..(Expected + 1) : 0 <= k /\ db = HalfBuilt(k))
          \/ r # "FRESH"
      BY <1>3, <2>4, <3>1, Numbers DEF Bootstraps, Fresh, Halves
    <3>3. Finished(p)' /\ Bootstraps(p)' /\ Migrates(p)'
      BY <1>1, <1>3, <2>4, <2>6, <3>1, <3>2 DEF Finished, Bootstraps, Migrates, Current, HalfBuilt
    <3>4. QED BY <1>1, <1>4, <2>3, <3>3 DEF FileInv
  <2>7. QED BY <1>1, <1>4, <2>3, <2>5, <2>6 DEF FileInv
<1>7. CASE PostAdmission(p)
  <2>1. PICK r \in Answers :
          /\ report' = [report EXCEPT ![p] = r]
          /\ pc' = [pc EXCEPT ![p] = IF r = "COMPATIBLE" THEN "admitted" ELSE "refused"]
    BY <1>7 DEF PostAdmission, Goto, Outcome
  <2>2. TypeOK'
    BY <1>1, <1>2, <1>7, <2>1 DEF PostAdmission, TypeOK, Places
  <2>3. Finished(p)' /\ Bootstraps(p)' /\ Migrates(p)'
    BY <1>1, <1>2, <2>1 DEF TypeOK, Finished, Bootstraps, Migrates, Said
  <2>4. QED BY <1>1, <1>4, <2>2, <2>3 DEF FileInv
<1>8. QED BY <1>5, <1>6, <1>7

\* Steps that leave the file as it is and read nothing of it.
LEMMA QuietKeeps ==
  ASSUME FileInv, NEW p \in Openers,
         \/ Unreadable(p) \/ Begin(p) \/ MigrationClashes(p) \/ DatabaseError(p)
         \/ Die(p) \/ Reopen(p)
  PROVE  FileInv'
<1>1. db' = db /\ db \in Known /\ TypeOK
  BY DEF FileInv, Unreadable, Begin, MigrationClashes, DatabaseError, Die, Reopen, Rollback
<1>2. TypeOK'
  <2>1. CASE Begin(p)
    BY <1>1, <2>1 DEF Begin, Goto, TypeOK, Places
  <2>2. CASE MigrationClashes(p)
    BY <1>1, <2>2 DEF MigrationClashes, Rollback, Goto, TypeOK, Places
  <2>3. CASE DatabaseError(p)
    BY <1>1, <2>3 DEF DatabaseError, Rollback, GivesUp, Goto, TypeOK, Places
  <2>4. CASE Die(p)
    BY <1>1, <2>4 DEF Die, Rollback, GivesUp, Goto, TypeOK, Places
  <2>5. CASE Reopen(p)
    BY <1>1, <2>5 DEF Reopen, Goto, TypeOK, Places
  <2>6. CASE Unreadable(p)
    BY <1>1, <2>6 DEF Unreadable, Goto, TypeOK, Places
  <2>7. QED BY <2>1, <2>2, <2>3, <2>4, <2>5, <2>6
<1>3. ASSUME NEW q \in Openers, q # p PROVE Finished(q)' /\ Bootstraps(q)' /\ Migrates(q)'
  <2>1. Same(q)
    BY <1>1, <1>3 DEF Same, TypeOK, Unreadable, Begin, MigrationClashes, DatabaseError, Die, Reopen, Goto
  <2>2. QED BY <1>1, <2>1, OthersKeep
<1>4. Finished(p)' /\ Bootstraps(p)' /\ Migrates(p)'
  <2>1. CASE Begin(p)
    <3>1. Migrates(p) /\ pc[p] = "begin" /\ pc'[p] = "migrate" /\ from' = from
      BY <1>1, <2>1 DEF Begin, Goto, FileInv, TypeOK
    <3>2. QED BY <1>1, <3>1 DEF Finished, Bootstraps, Migrates, Current
  <2>2. CASE ~ Begin(p)
    <3>1. pc'[p] \in {"post", "dead", "out", "refused"}
      BY <1>1, <2>2 DEF Unreadable, MigrationClashes, DatabaseError, Die, Reopen, Goto, TypeOK
    <3>2. QED BY <3>1 DEF Finished, Bootstraps, Migrates
  <2>3. QED BY <2>1, <2>2
<1>5. QED BY <1>1, <1>2, <1>3, <1>4 DEF FileInv

\* Migrate, and Stamp: the file becomes the current release.
LEMMA CompletionKeeps ==
  ASSUME FileInv, NEW p \in Openers, Migrate(p) \/ Stamp(p)
  PROVE  FileInv' /\ db' = Current
<1>1. TypeOK /\ Bootstraps(p) /\ Migrates(p)
  BY DEF FileInv
<1>2. db' = Current
  <2>1. CASE Migrate(p)
    <3>1. pc[p] = "migrate" /\ ~ Clash(db, from[p]) /\ db' = Migrated(db, from[p])
      BY <2>1 DEF Migrate
    <3>2. from[p] \in 1..Expected /\ db \in {Release(from[p]), Laundered(from[p])}
      BY <1>1, <3>1, CurrentClashes DEF Migrates
    <3>3. QED BY <3>1, <3>2, Arrives
  <2>2. CASE Stamp(p)
    <3>1. (db = HalfBuilt(Expected + 1) \/ db = Current)
          /\ db' = [db EXCEPT !.versions = @ \cup 1..Expected]
      BY <1>1, <2>2 DEF Stamp, Bootstraps
    <3>2. /\ db.tables = Tables \cup {Marker} /\ db.columns = Columns
          /\ db.versions \cup 1..Expected = 1..Expected
      <4>1. CASE db = HalfBuilt(Expected + 1)
        BY <4>1, Currents
      <4>2. CASE db = Current
        BY <4>2, Currents
      <4>3. QED BY <3>1, <4>1, <4>2
    <3>3. db' = [tables |-> db.tables, columns |-> db.columns,
                 versions |-> db.versions \cup 1..Expected]
      BY <1>1, <3>1 DEF TypeOK, Database
    <3>4. QED BY <3>2, <3>3, Currents
  <2>3. QED BY <2>1, <2>2
<1>3. TypeOK'
  <2>1. db' \in Database
    BY <1>2, CurrentIsKnown DEF Said
  <2>2. QED BY <1>1, <2>1 DEF Migrate, Stamp, Goto, TypeOK, Places
<1>4. ASSUME NEW q \in Openers, q # p PROVE Finished(q)' /\ Bootstraps(q)' /\ Migrates(q)'
  <2>1. Same(q)
    BY <1>1, <1>4 DEF Same, TypeOK, Migrate, Stamp, Goto
  <2>2. QED BY <1>2, <2>1, OthersKeep
<1>5. Finished(p)' /\ Bootstraps(p)' /\ Migrates(p)'
  <2>1. pc'[p] \in {"finalize", "post"}
    BY <1>1 DEF Migrate, Stamp, Goto, TypeOK
  <2>2. QED BY <1>2, <2>1 DEF Finished, Bootstraps, Migrates, Current
<1>6. QED BY <1>2, <1>3, <1>4, <1>5, CurrentIsKnown DEF FileInv, Current

LEMMA ScriptKeeps ==
  ASSUME FileInv, NEW p \in Openers, Script(p)
  PROVE  FileInv' /\ (db' = db \/ ((db = Empty \/ db \in Halves) /\ db' \in Halves))
<1>1. TypeOK /\ Bootstraps(p) /\ Finished(p) /\ db \in Known /\ at[p] \in 0..Expected
      /\ pc[p] \in {"script", "finalize"} /\ db' = Created(db, at[p])
  BY DEF FileInv, TypeOK, Script
<1>2. ASSUME NEW q \in Openers, q # p PROVE Same(q)
  BY <1>1, <1>2 DEF Same, TypeOK, Script, Goto
<1>3. /\ pc' \in [Openers -> Places] /\ at' \in [Openers -> 0..Expected]
      /\ \/ at[p] < Expected /\ at'[p] = at[p] + 1 /\ pc'[p] = pc[p]
         \/ at[p] = Expected /\ at'[p] = 0
            /\ pc'[p] = (IF pc[p] = "script" THEN "stamp" ELSE "post")
  <2>1. CASE at[p] < Expected
    BY <1>1, <2>1, Numbers DEF Script, TypeOK
  <2>2. CASE at[p] = Expected
    BY <1>1, <2>2, Numbers DEF Script, TypeOK, Goto, Places
  <2>3. QED BY <1>1, <2>1, <2>2, Numbers
<1>4. CASE db = Current
  <2>1. db' = Current
    BY <1>1, <1>4, CurrentIsComplete
  <2>2. TypeOK'
    BY <1>1, <1>3, <1>4, <2>1 DEF Script, TypeOK
  <2>3. Finished(p)' /\ Bootstraps(p)' /\ Migrates(p)'
    BY <1>1, <1>3, <2>1 DEF Finished, Bootstraps, Migrates, Current
  <2>4. QED BY <1>1, <1>2, <1>4, <2>1, <2>2, <2>3, OthersKeep DEF FileInv
<1>5. CASE db # Current
  <2>1. pc[p] = "script" /\ (db = Empty \/ db \in Halves)
        /\ \/ db = Empty /\ at[p] = 0
           \/ \E k \in 1..(Expected + 1) : at[p] <= k /\ db = HalfBuilt(k)
    BY <1>1, <1>5 DEF Bootstraps, Finished, Halves
  <2>2. PICK k \in 1..(Expected + 1) : at[p] + 1 <= k /\ db' = HalfBuilt(k)
    BY <1>1, <2>1, BootstrapStatement
  <2>3. db' \in Halves /\ db' \in Known /\ Said(db')
    BY <2>2, KnownSays DEF Halves, Known
  <2>4. TypeOK'
    BY <1>1, <1>3, <2>3 DEF Script, TypeOK, Said
  <2>5. Finished(p)' /\ Migrates(p)'
    BY <1>3, <2>1 DEF Finished, Migrates
  <2>6. Bootstraps(p)'
    <3>1. CASE pc'[p] = "script" /\ at'[p] = at[p] + 1
      BY <2>2, <3>1 DEF Bootstraps, HalfBuilt
    <3>2. CASE pc'[p] = "stamp" /\ at[p] = Expected
      <4>1. k = Expected + 1
        BY <2>2, <3>2, Numbers
      <4>2. QED BY <2>2, <3>2, <4>1 DEF Bootstraps, HalfBuilt
    <3>3. QED BY <1>3, <2>1, <3>1, <3>2
  <2>7. ASSUME NEW q \in Openers, q # p PROVE Finished(q)' /\ Bootstraps(q)' /\ Migrates(q)'
    BY <1>1, <1>2, <2>1, <2>7, BootstrapStatement, OthersKeep, OthersKeepHalf
  <2>8. QED BY <2>1, <2>3, <2>4, <2>5, <2>6, <2>7 DEF FileInv, Known, Halves
<1>6. QED BY <1>4, <1>5

LEMMA StutterKeeps == FileInv /\ UNCHANGED vars => FileInv'
<1> SUFFICES ASSUME FileInv, UNCHANGED vars PROVE FileInv'
  OBVIOUS
<1>1. TypeOK' /\ db' \in Known
  BY DEF FileInv, TypeOK, vars
<1>2. ASSUME NEW q \in Openers PROVE Finished(q)' /\ Bootstraps(q)' /\ Migrates(q)'
  BY OthersKeep DEF Same, vars
<1>3. QED BY <1>1, <1>2 DEF FileInv

LEMMA Inductive == FileInv /\ [Next]_vars => FileInv'
BY InspectKeeps, QuietKeeps, CompletionKeeps, ScriptKeeps, StutterKeeps DEF Next, Step

LEMMA Invariant == Spec => []FileInv
BY Starts, Inductive, PTL DEF Spec

\* The only ways a file changes: a statement of a bootstrap, or completion.
LEMMA Changes ==
  ASSUME FileInv, [Next]_vars
  PROVE  \/ db' = db
         \/ (db = Empty \/ db \in Halves) /\ db' \in Halves
         \/ /\ db' = Current
            /\ \/ db = Current \/ db \in Halves
               \/ \E v \in 1..Expected : /\ db \in {Release(v), Laundered(v)}
                                       /\ ~ Clash(db, v)
<1>1. CASE UNCHANGED vars
  BY <1>1 DEF vars
<1>2. ASSUME NEW p \in Openers, Script(p) PROVE db' = db \/ ((db = Empty \/ db \in Halves) /\ db' \in Halves)
  BY <1>2, ScriptKeeps
<1>3. ASSUME NEW p \in Openers, Stamp(p) PROVE db' = Current /\ (db = Current \/ db \in Halves)
  <2>1. Bootstraps(p) /\ pc[p] = "stamp" /\ Expected + 1 \in 1..(Expected + 1)
    BY <1>3, Numbers DEF FileInv, Stamp
  <2>2. QED BY <1>3, <2>1, CompletionKeeps DEF Bootstraps, Halves
<1>4. ASSUME NEW p \in Openers, Migrate(p)
      PROVE db' = Current /\ \E v \in 1..Expected : /\ db \in {Release(v), Laundered(v)}
                                                  /\ ~ Clash(db, v)
  <2>1. Migrates(p) /\ pc[p] = "migrate" /\ ~ Clash(db, from[p])
    BY <1>4 DEF FileInv, Migrate
  <2>2. from[p] \in 1..Expected /\ db \in {Release(from[p]), Laundered(from[p])}
    BY <2>1, CurrentClashes DEF Migrates
  <2>3. QED BY <1>4, <2>1, <2>2, CompletionKeeps
<1>5. ASSUME NEW p \in Openers, ~ Script(p), ~ Stamp(p), ~ Migrate(p),
             Inspect(p) \/ Step(p) \/ Die(p) \/ Reopen(p)
      PROVE db' = db
  BY <1>5 DEF Step, Inspect, Admit, Unreadable, PostAdmission, Begin, MigrationClashes,
              DatabaseError, Die, Reopen, Rollback
<1>6. QED BY <1>1, <1>2, <1>3, <1>4, <1>5 DEF Next

-----------------------------------------------------------------------------
(* The theorems.                                                             *)

\* Every variable of the gate keeps its type.
THEOREM TypeCorrect == Spec => []TypeOK
<1>1. FileInv => TypeOK
  BY DEF FileInv
<1>2. QED BY <1>1, Invariant, PTL

\* SqliteStore.__init__ returns only on a file with every table and version of the
\* current release, for any number of processes bootstrapping, migrating and dying
\* at once; columns are missing at most where an earlier release had blessed it.
THEOREM AdmissionIsSound == Spec => []AdmittedIsReady
<1>1. FileInv => AdmittedIsReady
  BY DEF FileInv, Finished, AdmittedIsReady, Stamps
<1>2. QED BY <1>1, Invariant, PTL

\* No step of any process makes a file whose marker says current over a structure
\* that is not, whichever file it began with.
THEOREM NoLaundering == Spec => NothingIsLaundered
<1>1. FileInv /\ [Next]_vars => (Mislabelled(db') => db' = db)
  <2> SUFFICES ASSUME FileInv, [Next]_vars, db' # db PROVE ~ Mislabelled(db')
    OBVIOUS
  <2>1. CASE db' \in Halves
    BY <2>1 DEF Halves, HalfBuilt, Mislabelled
  <2>2. CASE db' = Current
    BY <2>2 DEF Current, Ready, Mislabelled
  <2>3. QED BY <2>1, <2>2, Changes
<1>2. QED BY <1>1, Invariant, PTL DEF Spec, NothingIsLaundered

\* No crash and no error of a bootstrap or migration leaves a file whose marker
\* and structure disagree.
THEOREM HonestyKept == Spec => HonestStaysHonest
<1>1. FileInv /\ [Next]_vars => (Honest(db) => Honest(db'))
  <2> SUFFICES ASSUME FileInv, [Next]_vars, Honest(db) PROVE Honest(db')
    OBVIOUS
  <2>1. CASE db' = db
    BY <2>1
  <2>2. CASE db' \in Halves
    BY <2>2 DEF Halves, Honest
  <2>3. CASE db' = Current
    BY <2>3, Numbers DEF Current, Honest
  <2>4. QED BY <2>1, <2>2, <2>3, Changes
<1>2. QED BY <1>1, Invariant, PTL DEF Spec, HonestStaysHonest

\* A file that is newer, foreign, incomplete or contradictory is never changed.
THEOREM HopelessKept == Spec => HopelessIsLeftAlone
<1>1. FileInv /\ [Next]_vars => (Hopeless(db) => db' = db)
  <2> SUFFICES ASSUME FileInv, [Next]_vars, db' # db PROVE ~ Hopeless(db)
    OBVIOUS
  <2>1. db # Current
    BY Changes, Apart DEF Halves
  <2>2. CASE db = Empty \/ db \in Halves
    <3>1. db.versions = {} /\ (db.tables = {} \/ Marker \in db.tables)
      BY <2>2 DEF Empty, Halves, HalfBuilt
    <3>2. Verdict(db) # "INCOMPATIBLE_NEWER"
      BY <3>1 DEF Verdict
    <3>3. QED BY <3>1, <3>2 DEF Hopeless, Mislabelled
  <2>3. CASE \E v \in 1..Expected : /\ db \in {Release(v), Laundered(v)}
                                  /\ ~ Clash(db, v)
    <3>1. PICK v \in 1..Expected : db \in {Release(v), Laundered(v)} /\ ~ Clash(db, v)
      BY <2>3
    <3>2. db.versions = 1..v /\ Marker \in db.tables
      BY <3>1 DEF Release, Laundered
    <3>3. Observed(db) = v
      BY <3>2, MaxOfVersions, Numbers DEF Observed
    <3>4. v # Expected
      BY <2>1, <3>1, Currents DEF Current
    <3>5. Verdict(db) # "INCOMPATIBLE_NEWER" /\ Expected \notin db.versions
      BY <3>2, <3>4, Numbers DEF Verdict
    <3>6. QED BY <3>1, <3>2, <3>3, <3>5 DEF Hopeless, Mislabelled
  <2>4. QED BY <2>1, <2>2, <2>3, Changes
<1>2. QED BY <1>1, Invariant, PTL DEF Spec, HopelessIsLeftAlone
-----------------------------------------------------------------------------
(* Why a sound file is refused.                                              *)

\* A half-built file has its builder, or had one that gave up.
Explained == db \in Halves => \/ abandoned
                             \/ \E q \in Openers : pc[q] \in {"script", "stamp"}

\* Whoever is about to inspect the file for the last time met an error, or came
\* while or after another process bootstrapped it, or it is no sound file.
CauseOf(p) ==
  /\ pc[p] = "open" => report[p] \notin Unadmittable
  /\ pc[p] = "post" => \/ error[p] = "fault"
                       \/ report[p] = "CORRUPT"
                       \/ db \in Halves \/ db = Current \/ ~ Honest(db)

CauseInv == Explained /\ \A p \in Openers : CauseOf(p)

LEMMA HonestVerdict ==
  ASSUME NEW d, Honest(d)
  PROVE  Verdict(d) \in {"FRESH", "COMPATIBLE", "MIGRATION_REQUIRED"} \/ d \in Halves
<1>1. CASE d = Empty
  BY <1>1 DEF Verdict, Empty
<1>2. CASE \E v \in 1..Expected : d = Release(v)
  <2>1. PICK v \in 1..Expected : d = Release(v)
    BY <1>2
  <2>2. d.versions = 1..v /\ v \in d.versions /\ Marker \in d.tables
    BY <2>1, Numbers DEF Release
  <2>3. ~ \E w \in d.versions : w > Expected
    BY <2>2, Numbers
  <2>4. CASE v = Expected
    BY <2>1, <2>2, <2>3, <2>4, Currents DEF Verdict, Current
  <2>5. CASE v # Expected
    <3>1. Expected \notin d.versions
      BY <2>2, <2>5, Numbers
    <3>2. QED BY <2>2, <2>3, <3>1 DEF Verdict
  <2>6. QED BY <2>4, <2>5
<1>3. QED BY <1>1, <1>2 DEF Honest, Halves

\* The migration of a sound file clashes only when someone else has done it.
LEMMA HonestNoClash ==
  ASSUME NEW v \in 1..Expected, NEW d \in {Release(v), Laundered(v)}, Honest(d)
  PROVE  ~ Clash(d, v)
<1>1. d = Release(v)
  <2>1. d.versions = 1..v /\ v \in d.versions
    BY Numbers DEF Release, Laundered
  <2>2. d # Empty /\ d \notin Halves
    BY Apart
  <2>3. PICK w \in 1..Expected : d = Release(w)
    BY <2>2 DEF Honest, Halves
  <2>4. 1..v = 1..w
    BY <2>1, <2>3 DEF Release
  <2>5. v \in 1..w /\ w \in 1..v
    BY <2>4
  <2>6. v = w
    BY <2>5
  <2>7. QED BY <2>3, <2>6
<1>2. \A w \in Later(v) : w \notin d.columns /\ w \notin d.versions
  BY <1>1, Numbers DEF Later, Release
<1>3. QED BY <1>2 DEF Clash

LEMMA CurrentVerdict == Verdict(Current) = "COMPATIBLE"
<1>1. Current.versions = 1..Expected /\ Current.tables = Tables \cup {Marker}
      /\ Expected \in 1..Expected
  BY Currents, Numbers
<1>2. QED BY <1>1, Numbers DEF Verdict

LEMMA CauseKept == FileInv /\ CauseInv /\ [Next]_vars => CauseInv'
<1> SUFFICES ASSUME FileInv, CauseInv, [Next]_vars PROVE CauseInv'
  OBVIOUS
<1>1. TypeOK /\ Said(db) /\ Said(db)'
  BY KnownSays, Inductive DEF FileInv
<1>2. db \in Halves \/ db = Current => db' \in Halves \/ db' = Current
  BY Changes, Apart
<1>3. ~ Honest(db) => \/ ~ Honest(db') \/ db' \in Halves \/ db' = Current
  BY Changes
<1>4. CASE UNCHANGED vars
  BY <1>4, <1>3 DEF vars, CauseInv, Explained, CauseOf, Current, Halves, HalfBuilt, Honest, Release, Empty
<1>5. ASSUME NEW p \in Openers, Inspect(p) \/ Step(p) \/ Die(p) \/ Reopen(p)
      PROVE CauseInv'
  <2>1. ASSUME NEW q \in Openers, q # p PROVE CauseOf(q)'
    <3>1. Same(q) /\ error'[q] = error[q]
      BY <1>1, <1>5, <2>1 DEF Same, TypeOK, Inspect, Step, Admit, Unreadable, Script, Stamp, Begin,
         Migrate, MigrationClashes, DatabaseError, PostAdmission, Die, Reopen, Goto
    <3>2. QED BY <1>2, <1>3, <3>1 DEF CauseInv, CauseOf, Same, Current, Halves, HalfBuilt, Honest, Release, Empty
  <2>2. CauseOf(p)'
    <3>1. CASE Inspect(p)
      BY <1>1, <3>1 DEF Inspect, Goto, TypeOK, CauseOf
    <3>2. CASE Admit(p)
      <4>1. PICK r \in IF report[p] = "none" THEN Answers ELSE {report[p]} :
              /\ report'[p] = r
              /\ pc'[p] = (CASE r = "COMPATIBLE"         -> "admitted"
                             [] r = "FRESH"              -> "script"
                             [] r = "MIGRATION_REQUIRED" -> "begin"
                             [] OTHER                    -> "post")
        BY <1>1, <3>2 DEF Admit, Goto, TypeOK
      <4>2. pc'[p] # "open" /\ pc[p] = "open" /\ db' = db
        BY <3>2, <4>1 DEF Admit
      <4>3. SUFFICES ASSUME pc'[p] = "post", r # "CORRUPT"
                     PROVE  db \in Halves \/ ~ Honest(db)
        BY <4>1, <4>2 DEF CauseOf, Honest, Halves, HalfBuilt, Empty, Release
      <4>4. r \notin {"COMPATIBLE", "FRESH", "MIGRATION_REQUIRED"}
        BY <4>1, <4>3
      <4>5. report[p] = "none"
        BY <1>1, <4>1, <4>2, <4>3, <4>4 DEF CauseInv, CauseOf, TypeOK, States, Unadmittable
      <4>6. r = Verdict(db)
        BY <4>1, <4>3, <4>5 DEF Answers
      <4>7. QED BY <4>4, <4>6, HonestVerdict
    <3>3. CASE Script(p)
      <4>1. CASE pc[p] = "script"
        BY <1>1, <3>3, <4>1 DEF Script, Goto, TypeOK, CauseOf
      <4>2. CASE pc[p] = "finalize"
        BY <1>1, <1>2, <3>3, <4>2 DEF Script, Goto, TypeOK, CauseOf, FileInv, Finished
      <4>3. QED BY <3>3, <4>1, <4>2 DEF Script
    <3>4. CASE Stamp(p)
      BY <1>1, <3>4, CompletionKeeps DEF Stamp, Goto, TypeOK, CauseOf, Current
    <3>5. CASE MigrationClashes(p)
      <4>1. Migrates(p) /\ pc[p] = "migrate" /\ Clash(db, from[p]) /\ db' = db
        BY <3>5 DEF FileInv, MigrationClashes, Rollback
      <4>2. db = Current \/ ~ Honest(db)
        BY <4>1, HonestNoClash DEF Migrates
      <4>3. pc'[p] = "post"
        BY <1>1, <3>5 DEF MigrationClashes, Goto, TypeOK
      <4>4. QED BY <4>1, <4>2, <4>3 DEF CauseOf
    <3>6. CASE DatabaseError(p)
      BY <1>1, <3>6 DEF DatabaseError, Goto, TypeOK, CauseOf
    <3>7. CASE Unreadable(p) \/ Begin(p) \/ Migrate(p) \/ PostAdmission(p) \/ Die(p) \/ Reopen(p)
      BY <1>1, <3>7 DEF Unreadable, Begin, Migrate, PostAdmission, Outcome, Die, Reopen, Goto, TypeOK, CauseOf
    <3>8. QED BY <1>5, <3>1, <3>2, <3>3, <3>4, <3>5, <3>6, <3>7 DEF Step
  <2>3. Explained'
    <3>1. CASE Script(p)
      <4>1. CASE pc[p] = "finalize"
        <5>1. db' = db /\ db = Current
          BY <1>1, <4>1, <3>1, CurrentIsComplete DEF FileInv, Finished, Script, TypeOK
        <5>2. QED BY <5>1, Apart DEF Explained, Halves
      <4>2. CASE pc[p] = "script"
        BY <1>1, <3>1, <4>2 DEF Script, Goto, TypeOK, Explained
      <4>3. QED BY <3>1, <4>1, <4>2 DEF Script
    <3>2. CASE Stamp(p) \/ Migrate(p)
      BY <3>2, CompletionKeeps, Apart DEF Explained, Halves
    <3>3. CASE DatabaseError(p) \/ Die(p)
      <4>1. db' = db /\ (abandoned' = (abandoned \/ pc[p] \in {"script", "stamp"}))
            /\ \A q \in Openers : q # p => pc'[q] = pc[q]
        BY <1>1, <3>3 DEF DatabaseError, Die, Rollback, GivesUp, Goto, TypeOK
      <4>2. QED BY <4>1 DEF CauseInv, Explained, Halves, HalfBuilt
    <3>4. CASE Inspect(p) \/ Admit(p) \/ Unreadable(p) \/ Begin(p) \/ MigrationClashes(p) \/ PostAdmission(p) \/ Reopen(p)
      <4>1. db' = db /\ abandoned' = abandoned /\ pc[p] \notin {"script", "stamp"}
            /\ \A q \in Openers : q # p => pc'[q] = pc[q]
        BY <1>1, <3>4 DEF Inspect, Admit, Unreadable, Begin, MigrationClashes, PostAdmission, Reopen,
                          Rollback, Goto, TypeOK
      <4>2. QED BY <4>1 DEF CauseInv, Explained, Halves, HalfBuilt
    <3>5. QED BY <1>5, <3>1, <3>2, <3>3, <3>4 DEF Step
  <2>4. QED BY <2>1, <2>2, <2>3 DEF CauseInv
<1>6. QED BY <1>4, <1>5 DEF Next

\* A process that finds a sound file refused met an error itself, or a bootstrap
\* was under way or had been cut short.
THEOREM RefusalsAreCaused == Spec => SoundIsRefusedForCause
<1>1. Init => CauseInv
  <2> SUFFICES ASSUME Init PROVE CauseInv
    OBVIOUS
  <2>1. db \notin Halves
    <3>1. \A k \in 1..(Expected + 1) : HalfBuilt(k).versions = {} /\ Marker \in HalfBuilt(k).tables
      BY DEF HalfBuilt
    <3>2. db.versions # {} \/ Marker \notin db.tables
      <4>1. CASE db = Empty \/ db = Foreign
        BY <4>1, Numbers DEF Empty, Foreign, Alien, Marker
      <4>2. CASE db = Newer
        <5>1. Alien \in db.versions
          BY <4>2, Numbers DEF Newer, Alien
        <5>2. QED BY <5>1
      <4>3. CASE \E v \in 1..Expected : db = Release(v) \/ db = Laundered(v)
        BY <4>3 DEF Release, Laundered
      <4>4. CASE \E t \in Tables : db = Gutted(t)
        <5>1. db.versions = Current.versions
          BY <4>4 DEF Gutted, Current, Release
        <5>2. Expected \in db.versions
          BY <5>1, Currents, Numbers
        <5>3. QED BY <5>2
      <4>5. CASE \E v \in 1..Expected : db = Markerless(v) \/ db = Blessed(v)
        <5>1. \A v \in 1..Expected : /\ Marker \notin Markerless(v).tables
                                     /\ 1 \in Blessed(v).versions
          BY Numbers DEF Markerless, Release, Blessed, Laundered, Marker
        <5>2. QED BY <4>5, <5>1
      <4>6. QED BY <4>1, <4>2, <4>3, <4>4, <4>5 DEF Init, OnDisk
    <3>3. QED BY <3>1, <3>2 DEF Halves
  <2>2. QED BY <2>1 DEF Init, CauseInv, Explained, CauseOf
<1>2. FileInv /\ CauseInv /\ [Next]_vars =>
        \A p \in Openers :
          pc[p] # "refused" /\ pc'[p] = "refused" /\ Honest(db) =>
            \/ abandoned
            \/ \E q \in Openers : pc[q] \in {"script", "stamp"}
            \/ error'[p] = "fault" \/ "CORRUPT" \in {report[p], report'[p]}
  <2> SUFFICES ASSUME FileInv, CauseInv, [Next]_vars, NEW p \in Openers,
                      pc[p] # "refused", pc'[p] = "refused", Honest(db),
                      "CORRUPT" \notin {report[p], report'[p]}, error'[p] # "fault"
               PROVE  db \in Halves
    BY DEF CauseInv, Explained
  <2>1. TypeOK /\ Said(db)
    BY KnownSays DEF FileInv
  <2>2. Inspect(p) \/ PostAdmission(p)
    <3>1. PICK q \in Openers : Inspect(q) \/ Step(q) \/ Die(q) \/ Reopen(q)
      BY DEF Next, vars
    <3>2. q = p
      BY <2>1, <3>1 DEF TypeOK, Inspect, Step, Admit, Unreadable, Script, Stamp, Begin, Migrate,
         MigrationClashes, DatabaseError, PostAdmission, Die, Reopen, Goto
    <3>3. ~ (Admit(p) \/ Unreadable(p) \/ Script(p) \/ Stamp(p) \/ Begin(p) \/ Migrate(p)
             \/ MigrationClashes(p) \/ DatabaseError(p) \/ Die(p) \/ Reopen(p))
      BY <2>1 DEF TypeOK, Admit, Unreadable, Script, Stamp, Begin, Migrate, MigrationClashes,
         DatabaseError, Die, Reopen, Goto
    <3>4. QED BY <3>1, <3>2, <3>3 DEF Step
  <2>3. CASE Inspect(p)
    <3>1. report'[p] \in Unadmittable /\ report'[p] = Verdict(db)
      BY <2>1, <2>3 DEF Inspect, Goto, Answers, TypeOK, Unadmittable
    <3>2. QED BY <3>1, HonestVerdict DEF Unadmittable
  <2>4. CASE PostAdmission(p)
    <3>1. report'[p] = Verdict(db) /\ Verdict(db) # "COMPATIBLE" /\ pc[p] = "post"
          /\ error'[p] = error[p]
      BY <2>1, <2>4 DEF PostAdmission, Goto, Answers, TypeOK, Outcome
    <3>2. db # Current
      BY <3>1, CurrentVerdict
    <3>3. QED BY <3>1, <3>2 DEF CauseInv, CauseOf
  <2>5. QED BY <2>2, <2>3, <2>4
<1>3. QED BY <1>1, <1>2, Starts, Inductive, CauseKept, PTL DEF Spec, SoundIsRefusedForCause
=============================================================================
