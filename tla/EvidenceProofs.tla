--------------------------- MODULE EvidenceProofs ---------------------------
(***************************************************************************)
(* Proofs about Evidence, for any communities and submissions.             *)
(***************************************************************************)
EXTENDS Evidence, TLAPS

\* A submission is in hand exactly between the commits of one revision, and
\* what a run handles belongs to its community.
Located ==
  /\ cur # None <=> pc \in {"link", "event"}
  /\ pc # "idle" => comm \in Communities
  /\ \A q \in asked : Home[q] = comm
  /\ \A e \in todo : Home[e[1]] = comm
  /\ cur # None => Home[cur] = comm
  /\ pc \in {"idle", "discover"} => todo = {} /\ asked = {}

Typed == TypeOK /\ Located

LEMMA InitTyped == Init => Typed
<1>. SUFFICES ASSUME Init PROVE TypeOK /\ Located
    BY DEF Typed
<1>1. item \in [Posts -> Rows] /\ events \in [Posts -> Seq({"added", "updated"})]
    BY EvidenceAssumption DEF Init, Rows, NoRow, Modes, Versions
<1>2. baseline \in BOOLEAN /\ failed \in BOOLEAN
    BY DEF Init
<1>3. intake \in [Communities -> SUBSET Posts]
    BY DEF Init
<1>4. TypeOK
    BY EvidenceAssumption, <1>1, <1>2, <1>3 DEF Init, TypeOK
<1>5. Located
    BY DEF Init, Located
<1>. QED  BY <1>4, <1>5

LEMMA RowTyped ==
  ASSUME TypeOK, NEW p \in Posts, NEW v \in Versions
  PROVE  RowOf(p, v) \in Rows /\ RowOf(p, v).ver = v
<1>1. item[p] \in Rows
    BY DEF TypeOK
<1>2. Stored(p) => item[p].ver \in Versions
    BY <1>1, EvidenceAssumption DEF Rows, Versions, Stored
<1>3. Stored(p) => Append(item[p].past, item[p].ver) \in Seq(Versions)
    BY <1>1, <1>2 DEF Rows
<1>4. v \in 0..MaxVer
    BY EvidenceAssumption DEF Versions
<1>. QED  BY <1>1, <1>3, <1>4 DEF RowOf, Observed, Rows, Modes

\* Between runs nothing is in hand.
LEMMA ClosedTyped ==
  ASSUME Close
  PROVE  /\ baseline' \in BOOLEAN /\ failed' \in BOOLEAN
         /\ todo' \subseteq Posts \X Versions /\ asked' \subseteq Posts
         /\ pc' \in {"idle", "discover", "items", "link", "event"}
         /\ comm' \in Communities \cup {None} /\ cur' \in Posts \cup {None}
         /\ status' \in {"new", "updated", "unchanged"}
         /\ Located'
<1>1. baseline' \in BOOLEAN /\ failed' \in BOOLEAN
    BY DEF Close
<1>2. Located'
    BY DEF Close, Located
<1>. QED  BY <1>1, <1>2 DEF Close

LEMMA NextTyped == ASSUME Typed, [Next]_vars PROVE Typed'
<1>. USE EvidenceAssumption DEF Typed, TypeOK, Located
<1>1. ASSUME NEW p \in Posts, NEW v \in 0..MaxVer, Relist(p, v) PROVE Typed'
  <2>1. feed' \in [Posts -> 0..MaxVer] /\ edits' \in 0..MaxEdits
      BY <1>1 DEF Relist
  <2>2. UNCHANGED <<store, ledger, run, faults, missed, intake>>
      BY <1>1 DEF Relist
  <2>. QED  BY <2>1, <2>2 DEF store, ledger, run
<1>2. ASSUME NEW p \in Posts, NEW v \in 0..MaxVer, RefFails(p, v) PROVE Typed'
    BY <1>2 DEF RefFails, store, ledger, world
<1>3. ASSUME NEW p \in Posts, NEW v \in 0..MaxVer, Unchanged(p, v) PROVE Typed'
    BY <1>3 DEF Unchanged, store, ledger, world
<1>4. ASSUME NEW p \in Posts, NEW v \in 0..MaxVer, StoreItem(p, v) PROVE Typed'
  <2>1. v \in Versions /\ Home[p] = comm
      BY <1>4 DEF StoreItem
  <2>2. item' \in [Posts -> Rows]
      BY <1>4, <2>1, RowTyped DEF StoreItem
  <2>. QED  BY <1>4, <2>1, <2>2 DEF StoreItem, ledger, world
<1>5. ASSUME NEW c \in Communities, Tick(c) PROVE Typed'
    BY <1>5 DEF Tick, store, run, world
<1>6. ASSUME NEW c \in Communities, Open(c) PROVE Typed'
    BY <1>6 DEF Open, store, world
<1>7. CASE DiscoverFails
    BY <1>7, ClosedTyped DEF DiscoverFails, store, ledger, world
<1>8. CASE Discover
  <2>1. todo' \subseteq Posts \X Versions
      BY <1>8 DEF Discover, Listing, Versions
  <2>2. asked' \subseteq Posts /\ \A q \in asked' : Home[q] = comm
      BY <1>8 DEF Discover, Listing
  <2>3. \A e \in todo' : Home[e[1]] = comm
      BY <1>8 DEF Discover, Listing
  <2>. QED  BY <1>8, <2>1, <2>2, <2>3 DEF Discover, store, ledger, world
<1>9. CASE LinkEvidence
    BY <1>9 DEF LinkEvidence, ledger, world
<1>10. CASE RecordEvent
  <2>1. events' \in [Posts -> Seq({"added", "updated"})]
      BY <1>10 DEF RecordEvent
  <2>. QED  BY <1>10, <2>1 DEF RecordEvent, ledger, world
<1>11. CASE FinishRun
    BY <1>11, ClosedTyped DEF FinishRun, store, world
<1>12. CASE Interrupt
    BY <1>12, ClosedTyped DEF Interrupt, CutOff, store, ledger, world
<1>13. CASE UNCHANGED vars
    BY <1>13 DEF vars, store, ledger, run, world
<1>. QED
    BY <1>1, <1>2, <1>3, <1>4, <1>5, <1>6, <1>7, <1>8, <1>9, <1>10, <1>11, <1>12, <1>13
    DEF Next, Scheduled, Manual

LEMMA TypedAlways == Spec => []Typed
<1>. QED  BY InitTyped, NextTyped, PTL DEF Spec

\* TypeOK for every instance.
THEOREM TypeCorrect == Spec => []TypeOK
<1>. QED  BY TypedAlways, PTL DEF Typed
-----------------------------------------------------------------------------
(* The log.  A revision whose commits are under way is missing its event,   *)
(* and before its second commit its link as well.                           *)

Logged ==
  \A p \in Posts :
    /\ Len(events[p]) + missed[p] + DueNow(p) = Revisions(p)
    /\ Len(events[p]) + (IF pc = "event" THEN DueNow(p) ELSE 0) <= links[p]
    /\ links[p] + (IF pc = "link" THEN DueNow(p) ELSE 0) <= Revisions(p)

LEMMA InitLogged == Init => Logged
<1>. QED  BY EvidenceAssumption DEF Init, Logged, DueNow, Revisions, Stored, NoRow

LEMMA NextLogged == ASSUME Typed, Logged, [Next]_vars PROVE Logged'
<1>. USE EvidenceAssumption DEF Typed, TypeOK, Located, Logged, DueNow, Revisions, Stored
<1>. \A p \in Posts : /\ Len(events[p]) \in Nat /\ links[p] \in Nat /\ missed[p] \in Nat
                      /\ Len(item[p].past) \in Nat
    BY DEF Rows
<1>1. CASE UNCHANGED <<item, links, events, missed, cur>> /\ (pc' = pc \/ cur = None)
    BY <1>1
<1>2. ASSUME NEW p \in Posts, NEW v \in 0..MaxVer, StoreItem(p, v) PROVE Logged'
  <2>1. v \in Versions /\ v # 0 /\ cur = None /\ pc = "items"
      BY <1>2 DEF StoreItem, Versions
  <2>2. RowOf(p, v).ver # 0
      BY <2>1, RowTyped
  <2>3. Len(RowOf(p, v).past) = IF Stored(p) THEN Len(item[p].past) + 1 ELSE 0
    <3>1. item[p].past \in Seq(Versions)
        BY DEF Rows
    <3>. QED  BY <3>1 DEF RowOf
  <2>4. item' = [item EXCEPT ![p] = RowOf(p, v)] /\ cur' = p /\ pc' = "link"
        /\ UNCHANGED <<links, events, missed>>
      BY <1>2 DEF StoreItem
  <2>5. Revisions(p)' = Revisions(p) + 1
      BY <2>2, <2>3, <2>4
  <2>6. DueNow(p) = 0 /\ DueNow(p)' = 1
      BY <2>1, <2>4
  <2>7. ASSUME NEW q \in Posts, q # p
        PROVE  DueNow(q) = 0 /\ DueNow(q)' = 0 /\ Revisions(q)' = Revisions(q)
      BY <2>1, <2>4, <2>7
  <2>8. Revisions(p) \in Nat
      OBVIOUS
  <2>9. ASSUME NEW q \in Posts
        PROVE  /\ Len(events'[q]) + missed'[q] + DueNow(q)' = Revisions(q)'
               /\ Len(events'[q]) <= links'[q]
               /\ links'[q] + DueNow(q)' <= Revisions(q)'
    <3>1. CASE q = p
      <4>2. Len(events[p]) \in Nat /\ missed[p] \in Nat /\ links[p] \in Nat
          OBVIOUS
      <4>1. /\ Len(events[p]) + missed[p] = Revisions(p)
            /\ Len(events[p]) <= links[p] /\ links[p] <= Revisions(p)
        <5>1. /\ Len(events[p]) + missed[p] + 0 = Revisions(p)
              /\ Len(events[p]) + 0 <= links[p] /\ links[p] + 0 <= Revisions(p)
            BY <2>1, <2>6 DEF Logged
        <5>. HIDE DEF Revisions
        <5>. QED  BY <5>1, <4>2, <2>8
      <4>3. /\ Len(events[p]) + missed[p] + 1 = Revisions(p)'
            /\ Len(events[p]) <= links[p] /\ links[p] + 1 <= Revisions(p)'
        <5>. HIDE DEF Revisions
        <5>. QED  BY <4>1, <4>2, <2>5, <2>8
      <4>. QED
        <5>. HIDE DEF Revisions, DueNow
        <5>. QED  BY <4>3, <3>1, <2>4, <2>6
    <3>2. CASE q # p
        BY <3>2, <2>1, <2>4, <2>7
    <3>. QED  BY <3>1, <3>2
  <2>10. \A q \in Posts : Len(events'[q]) \in Nat
      BY <2>4
  <2>. HIDE DEF Revisions, DueNow
  <2>. QED  BY <2>4, <2>9, <2>10
<1>3. CASE LinkEvidence
    BY <1>3 DEF LinkEvidence
<1>4. CASE RecordEvent
  <2>1. cur \in Posts /\ cur' = None
      BY <1>4 DEF RecordEvent
  <2>2. Len(events'[cur]) = Len(events[cur]) + 1
      BY <1>4, <2>1 DEF RecordEvent
  <2>3. /\ UNCHANGED <<item, links, missed>> /\ pc = "event" /\ pc' = "items"
        /\ \A p \in Posts \ {cur} : events'[p] = events[p]
      BY <1>4, <2>1 DEF RecordEvent
  <2>4. DueNow(cur) = 1 /\ \A p \in Posts : DueNow(p)' = 0 /\ (p # cur => DueNow(p) = 0)
      BY <2>1, <2>3
  <2>5. \A p \in Posts : Revisions(p)' = Revisions(p) /\ Revisions(p) \in Nat
      BY <2>3
  <2>6. ASSUME NEW p \in Posts
        PROVE  /\ Len(events'[p]) + missed'[p] + DueNow(p)' = Revisions(p)'
               /\ Len(events'[p]) <= links'[p] /\ links'[p] <= Revisions(p)'
               /\ Len(events'[p]) \in Nat /\ links'[p] \in Nat
    <3>1. /\ Len(events[p]) + missed[p] + DueNow(p) = Revisions(p)
          /\ Len(events[p]) + DueNow(p) <= links[p] /\ links[p] <= Revisions(p)
      <4>. HIDE DEF Revisions, DueNow
      <4>. QED  BY <2>3, <2>5
    <3>2. CASE p = cur
      <4>1. /\ Len(events'[p]) = Len(events[p]) + 1 /\ missed'[p] = missed[p]
            /\ links'[p] = links[p] /\ DueNow(p) = 1 /\ DueNow(p)' = 0
            /\ Revisions(p)' = Revisions(p) /\ Revisions(p) \in Nat
          BY <2>2, <2>3, <2>4, <2>5, <3>2
      <4>2. Len(events[p]) \in Nat /\ links[p] \in Nat /\ missed[p] \in Nat
          OBVIOUS
      <4>. HIDE DEF Revisions, DueNow, TypeOK, Typed, Logged, Located
      <4>3. Len(events'[p]) \in Nat /\ links'[p] \in Nat
          BY <4>1, <4>2
      <4>4. Len(events'[p]) <= links'[p]
          BY <3>1, <4>1, <4>2
      <4>5. links'[p] <= Revisions(p)'
          BY <3>1, <4>1, <4>2
      <4>6. Len(events'[p]) + missed'[p] + DueNow(p)' = Revisions(p)'
          BY <3>1, <4>1, <4>2
      <4>. QED  BY <4>3, <4>4, <4>5, <4>6
    <3>3. CASE p # cur
      <4>1. /\ Len(events'[p]) = Len(events[p]) /\ missed'[p] = missed[p]
            /\ links'[p] = links[p] /\ DueNow(p) = 0 /\ DueNow(p)' = 0
            /\ Revisions(p)' = Revisions(p) /\ Revisions(p) \in Nat
          BY <2>3, <2>4, <2>5, <3>3
      <4>2. Len(events[p]) \in Nat /\ links[p] \in Nat /\ missed[p] \in Nat
          OBVIOUS
      <4>. HIDE DEF Revisions, DueNow, TypeOK, Typed, Logged, Located
      <4>. QED  BY <3>1, <4>1, <4>2
    <3>. QED  BY <3>2, <3>3
  <2>. HIDE DEF Revisions, DueNow
  <2>. QED  BY <2>3, <2>4, <2>6
<1>5. CASE Interrupt
  <2>1. UNCHANGED <<item, links, events>> /\ cur' = None
      BY <1>5 DEF Interrupt, Close, store
  <2>2. \A p \in Posts : missed'[p] = missed[p] + DueNow(p)
      BY <1>5 DEF Interrupt, CutOff
  <2>3. \A p \in Posts : DueNow(p) \in {0, 1} /\ DueNow(p)' = 0
      BY <2>1
  <2>. QED  BY <2>1, <2>2, <2>3
<1>. QED
    BY <1>1, <1>2, <1>3, <1>4, <1>5
    DEF Next, Relist, RefFails, Unchanged, Tick, Scheduled, Manual, Open, DiscoverFails,
        Discover, FinishRun, Close, vars, store, ledger, run, world

\* EveryRevisionLoggedOnce for every instance.
THEOREM LogIsComplete == Spec => []EveryRevisionLoggedOnce
<1>1. Typed /\ Logged => EveryRevisionLoggedOnce
  <2>. SUFFICES ASSUME Typed, Logged, NEW p \in Posts
                PROVE  /\ Len(events[p]) + missed[p] + DueNow(p) = Revisions(p)
                       /\ Len(events[p]) <= links[p] /\ links[p] <= Revisions(p)
      BY DEF EveryRevisionLoggedOnce
  <2>1. Len(events[p]) \in Nat /\ links[p] \in Nat /\ Revisions(p) \in Nat /\ DueNow(p) \in {0, 1}
      BY DEF Typed, TypeOK, Rows, Revisions, DueNow
  <2>. QED  BY <2>1 DEF Logged
<1>2. Spec => []Logged
    BY TypedAlways, InitLogged, NextLogged, PTL DEF Spec
<1>. QED  BY <1>1, <1>2, TypedAlways, PTL
-----------------------------------------------------------------------------
(* The first intake.  A run whose listing is still clean has every entry of *)
(* it stored or still to do, and its `baseline` is still what the ledger    *)
(* says, so when it ends ok everything it asked for is stored as baseline.  *)

Admitted ==
  /\ pc # "idle" => (baseline <=> comm \notin completed)
  /\ ~failed => \A q \in asked : Stored(q) \/ \E v \in Versions : <<q, v>> \in todo
  /\ FirstIntakeIsBaseline

LEMMA InitAdmitted == Init => Admitted
<1>. QED  BY EvidenceAssumption DEF Init, Admitted, FirstIntakeIsBaseline, Stored, NoRow

LEMMA NextAdmitted == ASSUME Typed, Admitted, [Next]_vars PROVE Admitted'
<1>. USE EvidenceAssumption DEF Typed, TypeOK, Located, Admitted, FirstIntakeIsBaseline, Stored
<1>1. CASE UNCHANGED <<item, completed, intake, baseline, comm, failed, asked, todo>> /\ (pc = "idle" => pc' = "idle")
    BY <1>1
<1>2. ASSUME NEW p \in Posts, NEW v \in 0..MaxVer, RefFails(p, v) PROVE Admitted'
    BY <1>2 DEF RefFails, store, ledger
<1>3. ASSUME NEW p \in Posts, NEW v \in 0..MaxVer, Unchanged(p, v) PROVE Admitted'
    BY <1>3 DEF Unchanged, store, ledger, Versions
<1>4. ASSUME NEW p \in Posts, NEW v \in 0..MaxVer, StoreItem(p, v) PROVE Admitted'
  <2>1. v \in Versions /\ Home[p] = comm /\ comm \in Communities
      BY <1>4 DEF StoreItem
  <2>2. RowOf(p, v).ver # 0
    <3>1. v \in 1..MaxVer /\ MaxVer \in Nat
        BY <2>1 DEF Versions
    <3>2. TypeOK
        OBVIOUS
    <3>3. RowOf(p, v).ver = v
        BY <2>1, <3>2, RowTyped, Zenon
    <3>. QED  BY <3>1, <3>3
  <2>3. RowOf(p, v).mode = IF Stored(p) THEN item[p].mode
                           ELSE IF comm \in completed THEN "live" ELSE "baseline"
      BY <1>4 DEF RowOf, Observed, StoreItem
  <2>4. item' = [item EXCEPT ![p] = RowOf(p, v)] /\ todo' = todo \ {<<p, v>>}
        /\ UNCHANGED <<completed, intake, baseline, comm, failed, asked>>
      BY <1>4 DEF StoreItem, ledger
  <2>5. Stored(p)' /\ \A q \in Posts : Stored(q) => Stored(q)'
      BY <2>2, <2>4
  <2>6. ~failed' => \A q \in asked' : Stored(q)' \/ \E w \in Versions : <<q, w>> \in todo'
      BY <2>4, <2>5
  <2>7. \A q \in Posts : Stored(q) => item'[q].mode = item[q].mode
      BY <2>3, <2>4
  <2>8. ASSUME NEW q \in Posts
        PROVE  /\ q \in intake'[Home[q]] => Stored(q)' /\ item'[q].mode = "baseline"
               /\ Stored(q)' /\ item'[q].mode = "live" => Home[q] \in completed'
    <3>1. CASE Stored(q)
        BY <3>1, <2>4, <2>5, <2>7
    <3>2. CASE ~Stored(q) /\ q # p
        BY <3>2, <2>4
    <3>3. CASE ~Stored(q) /\ q = p
        BY <3>3, <2>1, <2>3, <2>4
    <3>. QED  BY <3>1, <3>2, <3>3
  <2>9. pc' # "idle" => (baseline' <=> comm' \notin completed')
      BY <1>4, <2>4 DEF StoreItem
  <2>. QED  BY <2>6, <2>8, <2>9
<1>5. ASSUME NEW c \in Communities, Open(c) PROVE Admitted'
    BY <1>5 DEF Open, store
<1>6. CASE Close /\ UNCHANGED <<item, completed, intake>>
    BY <1>6 DEF Close
<1>7. CASE Discover
  <2>1. \A q \in asked' : <<q, feed[q]>> \in todo' /\ feed[q] \in Versions
      BY <1>7 DEF Discover, Listing, Versions
  <2>. QED  BY <1>7, <2>1 DEF Discover, store, ledger
<1>8. CASE FinishRun /\ ~failed
  <2>1. \A q \in asked : Stored(q) /\ Home[q] = comm
      BY <1>8 DEF FinishRun
  <2>2. UNCHANGED item /\ completed' = completed \cup {comm} /\ pc' = "idle" /\ asked' = {}
      BY <1>8 DEF FinishRun, Close, store
  <2>3. intake' = IF comm \in completed THEN intake ELSE [intake EXCEPT ![comm] = asked]
      BY <1>8 DEF FinishRun
  <2>4. comm \notin completed => \A q \in asked : item[q].mode = "baseline"
      BY <2>1 DEF Rows, Modes
  <2>. QED  BY <2>1, <2>2, <2>3, <2>4
<1>. QED
    BY <1>1, <1>2, <1>3, <1>4, <1>5, <1>6, <1>7, <1>8
    DEF Next, Relist, Tick, Scheduled, Manual, DiscoverFails, LinkEvidence, RecordEvent,
        FinishRun, Interrupt, vars, store, ledger, run, world

\* FirstIntakeIsBaseline for every instance.
THEOREM IntakeIsBaseline == Spec => []FirstIntakeIsBaseline
<1>1. Spec => []Admitted
    BY TypedAlways, InitAdmitted, NextAdmitted, PTL DEF Spec
<1>. QED  BY <1>1, PTL DEF Admitted
-----------------------------------------------------------------------------

\* NothingOverwritten for every instance.
THEOREM HistoryKept == Spec => NothingOverwritten
<1>1. ASSUME Typed, [Next]_vars
      PROVE  [\A p \in Posts :
                item'[p] # item[p] /\ Stored(p) =>
                  item'[p].past = Append(item[p].past, item[p].ver)]_vars
  <2>1. CASE UNCHANGED item
      BY <2>1
  <2>2. ASSUME NEW p \in Posts, NEW v \in 0..MaxVer, StoreItem(p, v)
        PROVE  \A q \in Posts : item'[q] # item[q] /\ Stored(q) =>
                 item'[q].past = Append(item[q].past, item[q].ver)
      BY <2>2 DEF StoreItem, RowOf, Typed, TypeOK
  <2>. QED
      BY <1>1, <2>1, <2>2
      DEF Next, Relist, RefFails, Unchanged, Tick, Scheduled, Manual, Open, DiscoverFails,
          Discover, LinkEvidence, RecordEvent, FinishRun, Interrupt, vars, store
<1>. QED  BY <1>1, TypedAlways, PTL DEF Spec, NothingOverwritten
=============================================================================
