---------------------------- MODULE CrawlService ----------------------------
(***************************************************************************)
(* Who may crawl, and when: execute_crawl under the run lock, called by    *)
(* one-shot command-line runs and by the single-flight controller of each  *)
(* dashboard process.                                                      *)
(*                                                                         *)
(* The lock is an flock on whatever file is at run_lock_path.  It belongs  *)
(* to an open file description, so it outlives the call that took it and   *)
(* ends with the process.                                                  *)
(***************************************************************************)
EXTENDS Naturals, FiniteSets

CONSTANTS
  Runs,        \* one-shot processes: `oem-radar run`, scheduled or typed
  Dashboards,  \* long-lived processes holding a CrawlController
  MaxInode,    \* bound: lock files ever created
  Nobody,      \* no process
  Faults       \* which of AllFaults this instance exercises

AllFaults == {"bad_config", "store_refuses", "crawl_raises", "crash",
              "delete_lock", "careful_delete", "no_lock"}

Procs == Runs \cup Dashboards

ASSUME ServiceAssumption ==
  /\ Runs \cap Dashboards = {}
  /\ Nobody \notin Procs
  /\ MaxInode \in Nat
  /\ Faults \subseteq AllFaults

VARIABLES
  file,     \* inode at run_lock_path, 0 when there is no file
  inodes,   \* number of lock files created so far
  holder,   \* holder[i]: process with a description that locks inode i
  pc,       \* pc[p]: where p is in execute_crawl, "off" outside it
  fd,       \* fd[p]: inode opened by p's current attempt, 0 for none
  result,   \* result[p]: how the crawl of p ended
  status,   \* status[d]: what the controller of dashboard d reports
  leaked    \* dashboards whose store was refused after they took the lock

vars == <<file, inodes, holder, pc, fd, result, status, leaked>>

Inodes == 1..MaxInode

\* Places of execute_crawl: before the lock, between opening and locking its
\* file, before the store is built, in run_all, in the finally clause, and
\* before the controller records the outcome.
Places == {"off", "start", "flock", "build", "crawl", "finally", "finish"}

Statuses == {"idle", "running", "ok", "failed", "blocked"}

Init ==
  /\ file = 0 /\ inodes = 0
  /\ holder = [i \in Inodes |-> Nobody]
  /\ pc = [p \in Procs |-> "off"]
  /\ fd = [p \in Procs |-> 0]
  /\ result = [p \in Procs |-> "ok"]
  /\ status = [d \in Dashboards |-> "idle"]
  /\ leaked = {}

\* execute_crawl of p is over, with outcome s: a dashboard records it, a
\* one-shot process exits and the kernel closes what it had open.
Over(p, s) ==
  /\ pc' = [pc EXCEPT ![p] = "off"]
  /\ fd' = [fd EXCEPT ![p] = 0]
  /\ status' = IF p \in Dashboards THEN [status EXCEPT ![p] = s] ELSE status

\* Mutant of Gone: a lock made of a file with the holder's PID in it.
GoneStale(p) == UNCHANGED holder

\* The kernel drops every lock of a process that is gone.
Gone(p) == holder' = [i \in Inodes |-> IF holder[i] = p THEN Nobody ELSE holder[i]]

\* The CrawlController refuses to start a second crawl while one is running.
Trigger(d) ==
  /\ status[d] # "running"
  /\ status' = [status EXCEPT ![d] = "running"]
  /\ pc' = [pc EXCEPT ![d] = "start"]
  /\ UNCHANGED <<file, inodes, holder, fd, result, leaked>>

StartRun(r) ==
  /\ pc[r] = "off"
  /\ pc' = [pc EXCEPT ![r] = "start"]
  /\ UNCHANGED <<file, inodes, holder, fd, result, status, leaked>>

\* radar.yaml or an OEM file does not load.
BadConfig(p) ==
  /\ "bad_config" \in Faults
  /\ pc[p] = "start"
  /\ Over(p, "failed")
  /\ UNCHANGED <<file, inodes, holder, result, leaked>>

\* oem-radar run --no-lock.
SkipLock(r) ==
  /\ "no_lock" \in Faults
  /\ pc[r] = "start"
  /\ pc' = [pc EXCEPT ![r] = "build"]
  /\ UNCHANGED <<file, inodes, holder, fd, result, status, leaked>>

\* os.open(path, O_CREAT): the file is created when it is not there.
OpenLock(p) ==
  /\ pc[p] = "start"
  /\ IF file # 0 THEN UNCHANGED <<file, inodes, leaked>>
     ELSE inodes < MaxInode /\ inodes' = inodes + 1 /\ file' = inodes + 1
  /\ fd' = [fd EXCEPT ![p] = file']
  /\ pc' = [pc EXCEPT ![p] = "flock"]
  /\ UNCHANGED <<holder, result, status, leaked>>

\* Mutant of Lock: flock(LOCK_SH).
LockShared(p) ==
  /\ pc[p] = "flock"
  /\ holder' = [holder EXCEPT ![fd[p]] = p]
  /\ pc' = [pc EXCEPT ![p] = "build"]
  /\ UNCHANGED <<file, inodes, fd, result, status, leaked>>

\* flock(LOCK_EX | LOCK_NB) succeeds.
Lock(p) ==
  /\ pc[p] = "flock"
  /\ holder[fd[p]] = Nobody
  /\ holder' = [holder EXCEPT ![fd[p]] = p]
  /\ pc' = [pc EXCEPT ![p] = "build"]
  /\ UNCHANGED <<file, inodes, fd, result, status, leaked>>

\* It does not: LockError, the description is closed.
Refused(p) ==
  /\ pc[p] = "flock"
  /\ holder[fd[p]] # Nobody
  /\ Over(p, "blocked")
  /\ UNCHANGED <<file, inodes, holder, result, leaked>>

BuildStore(p) ==
  /\ pc[p] = "build"
  /\ pc' = [pc EXCEPT ![p] = "crawl"]
  /\ UNCHANGED <<file, inodes, holder, fd, result, status, leaked>>

\* build_store_and_notifier raises, the schema gate's refusal for one.  It is
\* called before the try whose finally releases the lock: in a dashboard the
\* description stays open.
StoreRefuses(p) ==
  /\ "store_refuses" \in Faults
  /\ pc[p] = "build"
  /\ Over(p, "failed")
  /\ IF p \in Runs THEN Gone(p) /\ UNCHANGED leaked
     ELSE UNCHANGED holder /\ leaked' = leaked \cup {p}
  /\ UNCHANGED <<file, inodes, result>>

CrawlEnds(p) ==
  /\ pc[p] = "crawl"
  /\ \/ result' = [result EXCEPT ![p] = "ok"]
     \/ "crawl_raises" \in Faults /\ result' = [result EXCEPT ![p] = "failed"]
  /\ pc' = [pc EXCEPT ![p] = "finally"]
  /\ UNCHANGED <<file, inodes, holder, fd, status, leaked>>

\* Mutant of Release: no finally, the lock is released after a good crawl only.
ReleaseIfOk(p) ==
  /\ pc[p] = "finally"
  /\ holder' = IF fd[p] = 0 \/ result[p] # "ok" THEN holder
               ELSE [holder EXCEPT ![fd[p]] = Nobody]
  /\ pc' = [pc EXCEPT ![p] = "finish"]
  /\ fd' = [fd EXCEPT ![p] = 0]
  /\ UNCHANGED <<file, inodes, result, status, leaked>>

\* The finally clause; the outcome is recorded after the lock is free.
Release(p) ==
  /\ pc[p] = "finally"
  /\ holder' = IF fd[p] = 0 THEN holder ELSE [holder EXCEPT ![fd[p]] = Nobody]
  /\ pc' = [pc EXCEPT ![p] = "finish"]
  /\ fd' = [fd EXCEPT ![p] = 0]
  /\ UNCHANGED <<file, inodes, result, status, leaked>>

\* Mutant of Finish: an exception ends the thread unrecorded.
FinishIfOk(p) ==
  /\ pc[p] = "finish"
  /\ Over(p, IF result[p] = "ok" THEN "ok" ELSE "running")
  /\ UNCHANGED <<file, inodes, holder, result, leaked>>

Finish(p) ==
  /\ pc[p] = "finish"
  /\ Over(p, result[p])
  /\ UNCHANGED <<file, inodes, holder, result, leaked>>

\* A process dies, whatever it is doing; a dashboard is started again.
Crash(p) ==
  /\ "crash" \in Faults
  /\ Over(p, "idle")
  /\ Gone(p)
  /\ leaked' = leaked \ {p}
  /\ UNCHANGED <<file, inodes, result>>

Locked(p) == fd[p] # 0 /\ pc[p] \in {"build", "crawl", "finally"}

\* The documented last resort: once no crawl is running the operator deletes
\* the lock file (MaxInode - 1 times at most).  A careful one also sees to it
\* that no process has it open.
DeleteLock ==
  /\ Faults \cap {"delete_lock", "careful_delete"} # {}
  /\ file # 0 /\ inodes < MaxInode
  /\ \A p \in Procs :
       IF "careful_delete" \in Faults THEN fd[p] = 0 ELSE ~Locked(p)
  /\ file' = 0
  /\ UNCHANGED <<inodes, holder, pc, fd, result, status, leaked>>

Step(p) ==
  \/ BadConfig(p) \/ OpenLock(p) \/ Lock(p) \/ Refused(p) \/ BuildStore(p)
  \/ StoreRefuses(p) \/ CrawlEnds(p) \/ Release(p) \/ Finish(p)

Next ==
  \/ \E p \in Procs : Step(p) \/ Crash(p)
  \/ \E r \in Runs : StartRun(r) \/ SkipLock(r)
  \/ \E d \in Dashboards : Trigger(d)
  \/ DeleteLock

Spec == Init /\ [][Next]_vars

\* A process that is in execute_crawl goes on.
FairSpec == Spec /\ \A p \in Procs : WF_vars(Step(p))
-----------------------------------------------------------------------------
TypeOK ==
  /\ file \in 0..MaxInode /\ inodes \in 0..MaxInode
  /\ holder \in [Inodes -> Procs \cup {Nobody}]
  /\ pc \in [Procs -> Places]
  /\ fd \in [Procs -> 0..MaxInode]
  /\ result \in [Procs -> {"ok", "failed"}]
  /\ status \in [Dashboards -> Statuses] /\ leaked \subseteq Dashboards

\* Two crawls that take the lock never overlap, from the moment they have it
\* until their finally clause, whatever crashes, raises or is refused.
OneCrawlAtATime == \A p, q \in Procs : Locked(p) /\ Locked(q) => p = q

\* Whoever is refused the lock is refused because a run is active, or because a
\* dashboard sits on the lock of a crawl whose store was refused.
RefusalExplained ==
  \A p \in Procs :
    pc[p] = "flock" /\ holder[fd[p]] # Nobody =>
      Locked(holder[fd[p]]) \/ holder[fd[p]] \in leaked

\* Every crawl a dashboard reports as running ends in an outcome, and the button
\* works again.
EveryTriggerEnds == \A d \in Dashboards : status[d] = "running" ~> status[d] # "running"

\* A held lock is given back, unless it leaked.
LockComesFree ==
  \A i \in Inodes : holder[i] # Nobody ~> holder[i] = Nobody \/ holder[i] \in leaked
=============================================================================
