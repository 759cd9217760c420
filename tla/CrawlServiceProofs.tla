------------------------- MODULE CrawlServiceProofs -------------------------
(***************************************************************************)
(* Proofs about CrawlService, for any number of one-shot runs and          *)
(* dashboards.                                                             *)
(***************************************************************************)
EXTENDS CrawlService, TLAPS

\* An attempt has the lock file open from OpenLock on, and only then; a
\* controller reports "running" exactly while its thread is in execute_crawl.
Opened ==
  /\ \A p \in Procs :
       /\ pc[p] = "flock" => fd[p] # 0
       /\ pc[p] \in {"off", "start", "finish"} => fd[p] = 0
  /\ \A d \in Dashboards : status[d] = "running" <=> pc[d] # "off"

Typed == TypeOK /\ Opened

LEMMA InitTyped == Init => Typed
<1>. SUFFICES ASSUME Init PROVE Typed
    OBVIOUS
<1>1. TypeOK
    BY ServiceAssumption DEF Init, TypeOK, Inodes, Places, Statuses
<1>2. Opened
  <2>1. \A p \in Procs : pc[p] = "off" /\ fd[p] = 0
      BY DEF Init
  <2>2. \A d \in Dashboards : status[d] # "running" /\ pc[d] = "off"
      BY <2>1 DEF Init, Procs
  <2>. QED  BY <2>1, <2>2 DEF Opened
<1>. QED  BY <1>1, <1>2 DEF Typed

LEMMA StepTyped == ASSUME Typed, NEW p \in Procs, Step(p) PROVE Typed'
<1>. USE ServiceAssumption DEF Typed, TypeOK, Opened, Inodes, Places, Statuses
<1>1. CASE BadConfig(p)
    BY <1>1 DEF BadConfig, Over
<1>2. CASE OpenLock(p)
    BY <1>2 DEF OpenLock
<1>3. CASE Lock(p)
    BY <1>3 DEF Lock
<1>4. CASE Refused(p)
    BY <1>4 DEF Refused, Over
<1>5. CASE BuildStore(p)
    BY <1>5 DEF BuildStore
<1>6. CASE StoreRefuses(p)
  <2>1. holder' \in [1..MaxInode -> Procs \cup {Nobody}]
      BY <1>6 DEF StoreRefuses, Gone
  <2>2. leaked' \subseteq Dashboards
      BY <1>6 DEF StoreRefuses, Procs
  <2>. QED  BY <1>6, <2>1, <2>2 DEF StoreRefuses, Over
<1>7. CASE CrawlEnds(p)
    BY <1>7 DEF CrawlEnds
<1>8. CASE Release(p)
    BY <1>8 DEF Release
<1>9. CASE Finish(p)
    BY <1>9 DEF Finish, Over
<1>. QED  BY <1>1, <1>2, <1>3, <1>4, <1>5, <1>6, <1>7, <1>8, <1>9 DEF Step

LEMMA NextTyped == ASSUME Typed, [Next]_vars PROVE Typed'
<1>. USE ServiceAssumption DEF Typed, TypeOK, Opened, Inodes, Places, Statuses, Procs
<1>1. ASSUME NEW p \in Procs, Crash(p) PROVE Typed'
    BY <1>1 DEF Crash, Over, Gone
<1>2. ASSUME NEW r \in Runs, StartRun(r) PROVE Typed'
    BY <1>2 DEF StartRun
<1>3. ASSUME NEW r \in Runs, SkipLock(r) PROVE Typed'
    BY <1>3 DEF SkipLock
<1>4. ASSUME NEW d \in Dashboards, Trigger(d) PROVE Typed'
    BY <1>4 DEF Trigger
<1>5. CASE DeleteLock
    BY <1>5 DEF DeleteLock
<1>6. CASE UNCHANGED vars
    BY <1>6 DEF vars
<1>. QED  BY <1>1, <1>2, <1>3, <1>4, <1>5, <1>6, StepTyped DEF Next

LEMMA TypedAlways == Spec => []Typed
<1>. QED  BY InitTyped, NextTyped, PTL DEF Spec

\* TypeOK for every instance.
THEOREM TypeCorrect == Spec => []TypeOK
<1>. QED  BY TypedAlways, PTL DEF Typed
-----------------------------------------------------------------------------
(* OneCrawlAtATime.  As long as nobody deletes the file under a process    *)
(* that has it open, all of them open the same one, and who is past the    *)
(* flock holds it.                                                         *)

CarefulDelete == "delete_lock" \in Faults => "careful_delete" \in Faults

LockInv ==
  /\ \A p \in Procs : fd[p] # 0 => fd[p] = file
  /\ \A p \in Procs : Locked(p) => holder[fd[p]] = p

LEMMA LockStep ==
  ASSUME CarefulDelete, Typed, LockInv, [Next]_vars PROVE LockInv'
<1>. USE ServiceAssumption DEF Typed, TypeOK, Opened, LockInv, Locked, Inodes, Procs, CarefulDelete
<1>1. ASSUME NEW p \in Procs, BadConfig(p) PROVE LockInv'
    BY <1>1 DEF BadConfig, Over
<1>2. ASSUME NEW p \in Procs, OpenLock(p) PROVE LockInv'
    BY <1>2 DEF OpenLock
<1>3. ASSUME NEW p \in Procs, Lock(p) PROVE LockInv'
    BY <1>3 DEF Lock
<1>4. ASSUME NEW p \in Procs, Refused(p) PROVE LockInv'
    BY <1>4 DEF Refused, Over
<1>5. ASSUME NEW p \in Procs, BuildStore(p) PROVE LockInv'
    BY <1>5 DEF BuildStore
<1>6. ASSUME NEW p \in Procs, StoreRefuses(p) PROVE LockInv'
    BY <1>6 DEF StoreRefuses, Over, Gone
<1>7. ASSUME NEW p \in Procs, CrawlEnds(p) PROVE LockInv'
    BY <1>7 DEF CrawlEnds
<1>8. ASSUME NEW p \in Procs, Release(p) PROVE LockInv'
    BY <1>8 DEF Release
<1>9. ASSUME NEW p \in Procs, Finish(p) PROVE LockInv'
    BY <1>9 DEF Finish, Over
<1>10. ASSUME NEW p \in Procs, Crash(p) PROVE LockInv'
    BY <1>10 DEF Crash, Over, Gone
<1>11. ASSUME NEW r \in Runs, StartRun(r) \/ SkipLock(r) PROVE LockInv'
    BY <1>11 DEF StartRun, SkipLock
<1>12. ASSUME NEW d \in Dashboards, Trigger(d) PROVE LockInv'
    BY <1>12 DEF Trigger
<1>13. CASE DeleteLock \/ UNCHANGED vars
    BY <1>13 DEF DeleteLock, vars
<1>. QED
    BY <1>1, <1>2, <1>3, <1>4, <1>5, <1>6, <1>7, <1>8, <1>9, <1>10, <1>11, <1>12, <1>13
       DEF Next, Step

LEMMA LockAlways ==
  ASSUME CarefulDelete PROVE Spec => [](Typed /\ LockInv)
<1>1. Init => LockInv
    BY ServiceAssumption DEF Init, LockInv, Locked
<1>. QED  BY <1>1, LockStep, TypedAlways, PTL DEF Spec

LEMMA OneLocked == LockInv => OneCrawlAtATime
    BY DEF LockInv, OneCrawlAtATime, Locked

\* OneCrawlAtATime for every instance in which the lock file is deleted with care
\* or not at all: crashes, refusals, leaks and --no-lock runs included.
THEOREM CrawlsExclude ==
  ASSUME CarefulDelete PROVE Spec => []OneCrawlAtATime
<1>. QED  BY LockAlways, OneLocked, PTL
-----------------------------------------------------------------------------
(* RefusalExplained: a lock is held by a process on its way to the finally *)
(* clause, by one of the leaking dashboards, or by nobody.                 *)

HeldInv ==
  \A i \in Inodes :
    holder[i] \in {Nobody} \cup leaked \/ (Locked(holder[i]) /\ fd[holder[i]] = i)

LEMMA HeldStep ==
  ASSUME Typed, HeldInv, [Next]_vars PROVE HeldInv'
<1>. USE ServiceAssumption DEF Typed, TypeOK, Opened, HeldInv, Locked, Inodes, Procs
<1>1. ASSUME NEW p \in Procs, BadConfig(p) PROVE HeldInv'
    BY <1>1 DEF BadConfig, Over
<1>2. ASSUME NEW p \in Procs, OpenLock(p) PROVE HeldInv'
    BY <1>2 DEF OpenLock
<1>3. ASSUME NEW p \in Procs, Lock(p) PROVE HeldInv'
    BY <1>3 DEF Lock
<1>4. ASSUME NEW p \in Procs, Refused(p) PROVE HeldInv'
    BY <1>4 DEF Refused, Over
<1>5. ASSUME NEW p \in Procs, BuildStore(p) PROVE HeldInv'
    BY <1>5 DEF BuildStore
<1>6. ASSUME NEW p \in Procs, StoreRefuses(p) PROVE HeldInv'
    BY <1>6 DEF StoreRefuses, Over, Gone
<1>7. ASSUME NEW p \in Procs, CrawlEnds(p) PROVE HeldInv'
    BY <1>7 DEF CrawlEnds
<1>8. ASSUME NEW p \in Procs, Release(p) PROVE HeldInv'
    BY <1>8 DEF Release
<1>9. ASSUME NEW p \in Procs, Finish(p) PROVE HeldInv'
    BY <1>9 DEF Finish, Over
<1>10. ASSUME NEW p \in Procs, Crash(p) PROVE HeldInv'
    BY <1>10 DEF Crash, Over, Gone
<1>11. ASSUME NEW r \in Runs, StartRun(r) \/ SkipLock(r) PROVE HeldInv'
    BY <1>11 DEF StartRun, SkipLock
<1>12. ASSUME NEW d \in Dashboards, Trigger(d) PROVE HeldInv'
    BY <1>12 DEF Trigger
<1>13. CASE DeleteLock \/ UNCHANGED vars
    BY <1>13 DEF DeleteLock, vars
<1>. QED
    BY <1>1, <1>2, <1>3, <1>4, <1>5, <1>6, <1>7, <1>8, <1>9, <1>10, <1>11, <1>12, <1>13
       DEF Next, Step

\* RefusalExplained for every instance, deleted lock files included.
THEOREM RefusalsAreHonest == Spec => []RefusalExplained
<1>1. Init => HeldInv
    BY DEF Init, HeldInv
<1>2. Typed /\ HeldInv => RefusalExplained
    BY ServiceAssumption
       DEF Typed, TypeOK, Opened, HeldInv, RefusalExplained, Inodes
<1>. QED  BY <1>1, <1>2, HeldStep, TypedAlways, PTL DEF Spec
=============================================================================
