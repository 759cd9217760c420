------------------------------- MODULE Alerts -------------------------------
(***************************************************************************)
(* What the notification side of OEM Radar promises, without tables,       *)
(* commits or processes: every distinct change is one alert, and an alert  *)
(* has one life.  It is queued or withheld when the change is detected; a  *)
(* queued alert is announced, withheld or given up, and whatever happened  *)
(* to it then is final.  The outbox of CrawlPipeline implements this.      *)
(***************************************************************************)
CONSTANT Keys           \* the distinct changes (dedup keys) there can be

VARIABLE alert          \* alert[k]: what has become of change k so far

AlertStates == {"none", "queued", "withheld", "announced", "abandoned"}

TypeOK == alert \in [Keys -> AlertStates]

Init == alert = [k \in Keys |-> "none"]

Become(k, before, after) ==
  /\ alert[k] \in before
  /\ alert' = [alert EXCEPT ![k] = after]

Queue(k)    == Become(k, {"none"}, "queued")
Withhold(k) == Become(k, {"none", "queued"}, "withheld")
Announce(k) == Become(k, {"queued"}, "announced")
Abandon(k)  == Become(k, {"queued"}, "abandoned")

\* An operator withholds everything still queued, at once.
WithholdQueued ==
  alert' = [k \in Keys |-> IF alert[k] = "queued" THEN "withheld" ELSE alert[k]]

Next ==
  \/ WithholdQueued
  \/ \E k \in Keys : Queue(k) \/ Withhold(k) \/ Announce(k) \/ Abandon(k)

Spec == Init /\ [][Next]_alert
=============================================================================
