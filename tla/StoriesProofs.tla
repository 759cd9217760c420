---------------------------- MODULE StoriesProofs ---------------------------
(***************************************************************************)
(* Proofs about Stories, for any manufacturers, products, keys and window. *)
(***************************************************************************)
EXTENDS Stories, FiniteSetTheorems, TLAPS

\* A story is being handled exactly between its save and its outbox row, and a
\* part waits to be learned only right after its change.
Located ==
  /\ pc \in {"demote", "enqueue"} => telling \in Telling
  /\ telling # Nothing => pc \in {"demote", "enqueue"}
  /\ part # Nothing => pc = "learn"

Typed == TypeOK /\ Located

LEMMA InitTyped == Init => Typed
<1>. QED  BY StoryAssumption DEF Init, Typed, TypeOK, Located, Places, Statuses

\* What detect returns are stories whose evidence is of their own manufacturers.
LEMMA DetectSound ==
  ASSUME NEW F \in SUBSET Tellings, NEW s \in F
  PROVE  s \in Telling /\ \A p \in s.products : OemOf[p] \in s.oems
<1>1. s \in Telling /\ s.oems = Makers(s.key)
    BY DEF Tellings
<1>2. ASSUME NEW p \in s.products PROVE OemOf[p] \in s.oems
  <2>1. p \in Earliest(s.key, OemOf[p])
      BY DEF Tellings
  <2>2. PICK e \in Matching(s.key) : e.product = p
      BY <2>1 DEF Earliest
  <2>3. OemOf[p] \in Makers(s.key)
      BY <2>2 DEF Makers
  <2>. QED  BY <2>3, <1>1
<1>. QED  BY <1>1, <1>2

LEMMA RowTyped == ASSUME NEW s \in Telling PROVE RowOf(s) \in Rows
<1>. QED  BY DEF RowOf, Telling, Rows

LEMMA NextTyped == ASSUME Typed, [Next]_vars PROVE Typed'
<1>. USE StoryAssumption DEF Typed, TypeOK, Located, Places, Statuses
<1>1. CASE StartRun
    BY <1>1 DEF StartRun, store, history
<1>2. ASSUME NEW o \in Oems, Crawl(o) PROVE Typed'
    BY <1>2 DEF Crawl, store, history
<1>3. ASSUME NEW p \in Products, NEW k \in Keys,
             NEW q \in {"pending", "suppressed"}, RecordChange(p, k, q) PROVE Typed'
  <2>1. [product |-> p, key |-> k, at |-> now, unseen |-> k \in Parts \ known] \in Events
      BY DEF Events
  <2>2. pings' \in [Pings -> Statuses]
      BY <1>3 DEF RecordChange, Pings
  <2>. QED  BY <1>3, <2>1, <2>2 DEF RecordChange, history
<1>4. CASE Learn
    BY <1>4 DEF Learn, history
<1>5. CASE LearnRaises
    BY <1>5 DEF LearnRaises, store
<1>6. CASE SourceDone
    BY <1>6 DEF SourceDone, store, history
<1>7. CASE Drain
  <2>1. PICK left \in SUBSET {e \in Pings : pings[e] = "pending"}, back \in SUBSET embeds :
          /\ pings' = [e \in Pings |-> IF pings[e] = "pending" /\ e \notin left
                                       THEN "settled" ELSE pings[e]]
          /\ told' = told \cup (embeds \ back)
          /\ embeds' = back
      BY <1>7 DEF Drain
  <2>2. pings' \in [Pings -> Statuses] /\ told' \subseteq Rows /\ embeds' \subseteq Rows
      BY <2>1
  <2>. QED  BY <1>7, <2>2 DEF Drain, memory, history
<1>8. CASE Detect
  <2>1. found' \subseteq Telling
      BY <1>8, DetectSound DEF Detect
  <2>. QED  BY <1>8, <2>1 DEF Detect, store, history
<1>9. ASSUME NEW s \in found, AlreadyTold(s) PROVE Typed'
    BY <1>9 DEF AlreadyTold, store, history
<1>10. ASSUME NEW s \in found, SaveStory(s) PROVE Typed'
    BY <1>10, RowTyped DEF SaveStory, history
<1>11. CASE DemotePings
  <2>1. pings' \in [Pings -> Statuses]
      BY <1>11 DEF DemotePings
  <2>. QED  BY <1>11, <2>1 DEF DemotePings, memory, history
<1>12. CASE EnqueueStory
    BY <1>12, RowTyped DEF EnqueueStory, history
<1>13. CASE StoriesDone
    BY <1>13 DEF StoriesDone, store, memory, history
<1>14. CASE Crash
    BY <1>14, RowTyped DEF Crash, Forget, store
<1>15. CASE Tick
    BY <1>15 DEF Tick, store, memory, history
<1>16. CASE UNCHANGED vars
    BY <1>16 DEF vars
<1>17. CASE SourceFails
    BY <1>17 DEF SourceFails, store, history
<1>18. ASSUME NEW k \in Parts, NewProduct(k) PROVE Typed'
    BY <1>18 DEF NewProduct, memory, history
<1>. QED
    BY <1>1, <1>2, <1>3, <1>4, <1>5, <1>6, <1>7, <1>8, <1>9, <1>10, <1>11, <1>12, <1>13,
       <1>14, <1>15, <1>16, <1>17, <1>18 DEF Next

LEMMA TypedAlways == Spec => []Typed
<1>. QED  BY InitTyped, NextTyped, PTL DEF Spec

\* TypeOK for every instance.
THEOREM TypeCorrect == Spec => []TypeOK
<1>. QED  BY TypedAlways, PTL DEF Typed
-----------------------------------------------------------------------------
(* Told.  What is being handled is in the table, and so is everything in   *)
(* the outbox or interrupted on the way to it.                             *)

LEMMA SavedStep == ASSUME Typed, SavedIsTold, [Next]_vars PROVE SavedIsTold'
<1>. USE StoryAssumption DEF Typed, TypeOK, Located, SavedIsTold
<1>1. CASE UNCHANGED <<stories, embeds, told, telling, cut>>
    BY <1>1
<1>2. CASE Drain
  <2>1. embeds \cup told \subseteq embeds' \cup told'
      BY <1>2 DEF Drain
  <2>. QED  BY <1>2, <2>1 DEF Drain, memory, history
<1>3. ASSUME NEW s \in found, SaveStory(s) PROVE SavedIsTold'
    BY <1>3 DEF SaveStory, history
<1>4. CASE EnqueueStory
    BY <1>4 DEF EnqueueStory, history
<1>5. CASE Crash
    BY <1>5 DEF Crash, Forget, store
<1>6. ASSUME NEW p \in Products, NEW k \in Keys,
             NEW q \in {"pending", "suppressed"}, RecordChange(p, k, q)
      PROVE UNCHANGED <<stories, embeds, told, telling, cut>>
    BY <1>6 DEF RecordChange, history
<1>7. ASSUME StartRun \/ SourceDone \/ Detect \/ StoriesDone \/ Tick \/ DemotePings
             \/ Learn \/ LearnRaises \/ SourceFails \/ UNCHANGED vars
      PROVE  UNCHANGED <<stories, embeds, told, telling, cut>>
    BY <1>7 DEF StartRun, SourceDone, Detect, StoriesDone, Tick, DemotePings, Learn, LearnRaises,
                SourceFails, store, memory, history, vars
<1>10. ASSUME NEW k \in Parts, NewProduct(k)
       PROVE  UNCHANGED <<stories, embeds, told, telling, cut>>
    BY <1>10 DEF NewProduct, memory, history
<1>8. ASSUME NEW o \in Oems, Crawl(o) PROVE UNCHANGED <<stories, embeds, told, telling, cut>>
    BY <1>8 DEF Crawl, store, history
<1>9. ASSUME NEW s \in found, AlreadyTold(s)
      PROVE  UNCHANGED <<stories, embeds, told, telling, cut>>
    BY <1>9 DEF AlreadyTold, store, history
<1>. QED  BY <1>1, <1>2, <1>3, <1>4, <1>5, <1>6, <1>7, <1>8, <1>9, <1>10 DEF Next

\* SavedIsTold: an alerted story is silenced only if it was queued or interrupted.
THEOREM NothingSilenced == Spec => []SavedIsTold
<1>1. Init => SavedIsTold
    BY DEF Init, SavedIsTold
<1>. QED  BY <1>1, SavedStep, TypedAlways, PTL DEF Spec
-----------------------------------------------------------------------------
(* Demotion.  The evidence of a detected story names its own manufacturers, *)
(* and the story is saved before a ping is withheld for it.                 *)

Evidenced(s) == \A p \in s.products : OemOf[p] \in s.oems

StoryInv ==
  /\ \A s \in found : Evidenced(s)
  /\ telling # Nothing => Evidenced(telling)
  /\ pc = "demote" => telling # Nothing /\ RowOf(telling) \in stories
  /\ DemotedHasStory

LEMMA StoryStep == ASSUME Typed, StoryInv, [Next]_vars PROVE StoryInv'
<1>. USE StoryAssumption DEF Typed, TypeOK, Located, StoryInv, DemotedHasStory
<1>1. CASE StartRun
    BY <1>1 DEF StartRun, store, history
<1>2. ASSUME NEW o \in Oems, Crawl(o) PROVE StoryInv'
    BY <1>2 DEF Crawl, store, history
<1>3. ASSUME NEW p \in Products, NEW k \in Keys,
             NEW q \in {"pending", "suppressed"}, RecordChange(p, k, q) PROVE StoryInv'
  <2>1. \A e \in Pings : pings'[e] = "demoted" => pings[e] = "demoted"
      BY <1>3 DEF RecordChange, Pings
  <2>. QED  BY <1>3, <2>1 DEF RecordChange, history
<1>4. CASE Learn
    BY <1>4 DEF Learn, history
<1>5. CASE LearnRaises
    BY <1>5 DEF LearnRaises, store
<1>6. CASE SourceDone
    BY <1>6 DEF SourceDone, store, history
<1>7. CASE Drain
  <2>1. \A e \in Pings : pings'[e] = "demoted" => pings[e] = "demoted"
      BY <1>7 DEF Drain
  <2>2. UNCHANGED <<stories, found, telling>> /\ pc' # "demote"
      BY <1>7 DEF Drain, memory
  <2>. QED  BY <2>1, <2>2
<1>8. CASE Detect
  <2>1. \A s \in found' : Evidenced(s)
      BY <1>8, DetectSound DEF Detect, Evidenced
  <2>. QED  BY <1>8, <2>1 DEF Detect, store, history
<1>9. ASSUME NEW s \in found, AlreadyTold(s) PROVE StoryInv'
    BY <1>9 DEF AlreadyTold, store, history
<1>10. ASSUME NEW s \in found, SaveStory(s) PROVE StoryInv'
    BY <1>10 DEF SaveStory, history
<1>11. CASE DemotePings
  <2>1. ASSUME NEW e \in Pings, pings'[e] = "demoted"
        PROVE  \E r \in stories : OemOf[e[1]] \in r.oems
    <3>1. CASE e[1] \in telling.products
      <4>1. OemOf[e[1]] \in RowOf(telling).oems
          BY <1>11, <3>1 DEF DemotePings, Evidenced, RowOf
      <4>. QED  BY <4>1, <1>11 DEF DemotePings
    <3>2. CASE e[1] \notin telling.products
        BY <2>1, <3>2, <1>11 DEF DemotePings
    <3>. QED  BY <3>1, <3>2
  <2>. QED  BY <1>11, <2>1 DEF DemotePings, memory, history
<1>12. CASE EnqueueStory
    BY <1>12 DEF EnqueueStory, history
<1>13. CASE StoriesDone
    BY <1>13 DEF StoriesDone, store, memory, history
<1>14. CASE Crash
    BY <1>14 DEF Crash, Forget, store
<1>15. CASE Tick
    BY <1>15 DEF Tick, store, memory, history
<1>16. CASE UNCHANGED vars
    BY <1>16 DEF vars
<1>17. CASE SourceFails
    BY <1>17 DEF SourceFails, store, history
<1>18. ASSUME NEW k \in Parts, NewProduct(k) PROVE StoryInv'
    BY <1>18 DEF NewProduct, memory, history
<1>. QED
    BY <1>1, <1>2, <1>3, <1>4, <1>5, <1>6, <1>7, <1>8, <1>9, <1>10, <1>11, <1>12, <1>13,
       <1>14, <1>15, <1>16, <1>17, <1>18 DEF Next

\* DemotedHasStory: no ping is withheld without a story of its manufacturer.
THEOREM DemotionIsExplained == Spec => []DemotedHasStory
<1>1. Init => StoryInv
    BY StoryAssumption DEF Init, StoryInv, DemotedHasStory, Pings
<1>2. StoryInv => DemotedHasStory
    BY DEF StoryInv
<1>. QED  BY <1>1, <1>2, StoryStep, TypedAlways, PTL DEF Spec
-----------------------------------------------------------------------------
(* Unseen parts.  Unless learning a part was interrupted, one change shows  *)
(* it as unseen: learning follows before the next change is looked at.      *)

OneSighting ==
  /\ \A e \in events : e.unseen => \/ e.key \in known \cup unlearned
                                   \/ pc = "learn" /\ part = e.key
  /\ \A e, f \in events : e.unseen /\ f.unseen /\ e.key = f.key =>
                            e = f \/ e.key \in unlearned
  /\ \A e \in events : e.unseen => e.key \in Parts

LEMMA OneSightingStep == ASSUME Typed, OneSighting, [Next]_vars PROVE OneSighting'
<1>. USE StoryAssumption DEF Typed, TypeOK, Located, OneSighting
<1>1. CASE UNCHANGED <<events, known, part, unlearned>> /\ (pc = "learn" => pc' = "learn")
    BY <1>1
<1>2. ASSUME NEW p \in Products, NEW k \in Keys,
             NEW q \in {"pending", "suppressed"}, RecordChange(p, k, q) PROVE OneSighting'
  <2>. DEFINE new == [product |-> p, key |-> k, at |-> now, unseen |-> k \in Parts \ known]
  <2>1. events' = events \cup {new} /\ UNCHANGED <<known, unlearned>> /\ pc' = "learn"
      BY <1>2 DEF RecordChange, history
  <2>2. \A e \in events : e.unseen => e.key \in known \cup unlearned
      BY <1>2 DEF RecordChange
  <2>3. new.unseen <=> k \in Parts \ known
      OBVIOUS
  <2>4. new.key = k
      OBVIOUS
  <2>5. new.unseen => part' = k
      BY <1>2, <2>3 DEF RecordChange
  <2>6. \A e \in events : e.unseen /\ new.unseen /\ e.key = k => k \in unlearned
      BY <2>2, <2>3
  <2>. HIDE DEF new
  <2>7. \A e \in events' : e.unseen => \/ e.key \in known' \cup unlearned'
                                       \/ pc' = "learn" /\ part' = e.key
      BY <2>1, <2>2, <2>4, <2>5
  <2>8. \A e, f \in events' : e.unseen /\ f.unseen /\ e.key = f.key =>
                                e = f \/ e.key \in unlearned'
      BY <2>1, <2>4, <2>6
  <2>9. \A e \in events' : e.unseen => e.key \in Parts
      BY <2>1, <2>3, <2>4
  <2>. QED  BY <2>7, <2>8, <2>9
<1>3. CASE Learn
    BY <1>3 DEF Learn, history
<1>4. CASE LearnRaises
    BY <1>4 DEF LearnRaises, store
<1>5. CASE Crash
    BY <1>5 DEF Crash, Forget, store
<1>6. ASSUME StartRun \/ SourceDone \/ Drain \/ Detect \/ DemotePings \/ EnqueueStory
             \/ StoriesDone \/ SourceFails \/ Tick \/ UNCHANGED vars
      PROVE  UNCHANGED <<events, known, part, unlearned>> /\ (pc = "learn" => pc' = "learn")
    BY <1>6 DEF StartRun, SourceDone, SourceFails, Drain, Detect, DemotePings, EnqueueStory, StoriesDone,
                Tick, store, memory, history, vars
<1>7. ASSUME NEW o \in Oems, Crawl(o)
      PROVE  UNCHANGED <<events, known, part, unlearned>> /\ (pc = "learn" => pc' = "learn")
    BY <1>7 DEF Crawl, store, history
<1>8. ASSUME NEW s \in found, AlreadyTold(s) \/ SaveStory(s)
      PROVE  UNCHANGED <<events, known, part, unlearned>> /\ (pc = "learn" => pc' = "learn")
    BY <1>8 DEF AlreadyTold, SaveStory, store, history
<1>9. ASSUME NEW k \in Parts, NewProduct(k) PROVE OneSighting'
    BY <1>9 DEF NewProduct, memory, history
<1>. QED  BY <1>1, <1>2, <1>3, <1>4, <1>5, <1>6, <1>7, <1>8, <1>9 DEF Next

\* So detect finds no story about a part whose learning was never interrupted.
LEMMA FewMakers ==
  ASSUME Typed, OneSighting, MinOems > 1, NEW s \in Tellings, s.key \in Parts
  PROVE  s.key \in unlearned
<1>. USE StoryAssumption
<1>. SUFFICES ASSUME s.key \notin unlearned PROVE FALSE
    OBVIOUS
<1>1. Cardinality(Makers(s.key)) >= MinOems
    BY DEF Tellings
<1>2. \A e, f \in Matching(s.key) : e = f
    BY DEF Matching, OneSighting
<1>3. CASE Matching(s.key) = {}
  <2>1. Makers(s.key) = {}
      BY <1>3 DEF Makers
  <2>2. Cardinality(Makers(s.key)) = 0
      BY <2>1, FS_EmptySet
  <2>. QED  BY <2>2, <1>1
<1>4. CASE Matching(s.key) # {}
  <2>1. PICK e \in Matching(s.key) : TRUE
      BY <1>4
  <2>2. Makers(s.key) = {OemOf[e.product]}
      BY <2>1, <1>2 DEF Makers
  <2>3. Cardinality(Makers(s.key)) = 1
      BY <2>2, FS_Singleton
  <2>. QED  BY <2>3, <1>1
<1>. QED  BY <1>3, <1>4

Excused(s) == s.key \in Parts /\ MinOems > 1 => s.key \in unlearned

PartInv ==
  /\ \A s \in found : Excused(s)
  /\ telling # Nothing => Excused(telling)
  /\ UnseenIsOneMakers

LEMMA PartStep == ASSUME Typed, OneSighting, PartInv, [Next]_vars PROVE PartInv'
<1>. USE StoryAssumption DEF Typed, TypeOK, Located, PartInv, UnseenIsOneMakers, Excused
<1>1. unlearned \subseteq unlearned'
    BY DEF Next, StartRun, Crawl, RecordChange, Learn, LearnRaises, SourceDone, Drain, Detect,
           AlreadyTold, SaveStory, DemotePings, EnqueueStory, StoriesDone, Crash, Tick,
           SourceFails, NewProduct, history, vars
<1>2. CASE found' \subseteq found /\ telling' \in {telling, Nothing} /\ stories' = stories
    BY <1>1, <1>2
<1>3. CASE Detect
    BY <1>3, FewMakers DEF Detect, store, history
<1>4. ASSUME NEW s \in found, SaveStory(s) PROVE PartInv'
    BY <1>4 DEF SaveStory, RowOf, history
<1>5. ASSUME StartRun \/ Learn \/ LearnRaises \/ SourceDone \/ Drain \/ DemotePings
             \/ EnqueueStory \/ StoriesDone \/ SourceFails \/ Crash \/ Tick \/ UNCHANGED vars
      PROVE  found' \subseteq found /\ telling' \in {telling, Nothing} /\ stories' = stories
    BY <1>5 DEF StartRun, Learn, LearnRaises, SourceDone, Drain, DemotePings, EnqueueStory,
                StoriesDone, SourceFails, Crash, Tick, Forget, store, memory, history, vars
<1>6. ASSUME NEW o \in Oems, Crawl(o)
      PROVE  found' \subseteq found /\ telling' \in {telling, Nothing} /\ stories' = stories
    BY <1>6 DEF Crawl, store
<1>7. ASSUME NEW p \in Products, NEW k \in Keys,
             NEW q \in {"pending", "suppressed"}, RecordChange(p, k, q)
      PROVE  found' \subseteq found /\ telling' \in {telling, Nothing} /\ stories' = stories
    BY <1>7 DEF RecordChange
<1>8. ASSUME NEW s \in found, AlreadyTold(s)
      PROVE  found' \subseteq found /\ telling' \in {telling, Nothing} /\ stories' = stories
    BY <1>8 DEF AlreadyTold, store
<1>9. ASSUME NEW k \in Parts, NewProduct(k)
      PROVE  found' \subseteq found /\ telling' \in {telling, Nothing} /\ stories' = stories
    BY <1>9 DEF NewProduct, memory
<1>. QED  BY <1>2, <1>3, <1>4, <1>5, <1>6, <1>7, <1>8, <1>9 DEF Next

\* UnseenIsOneMakers: whatever the window, a rule about unseen parts fires only for
\* a part whose learning was interrupted.
THEOREM UnseenNeverShared == Spec => []UnseenIsOneMakers
<1>1. Init => OneSighting /\ PartInv
    BY StoryAssumption DEF Init, OneSighting, PartInv, UnseenIsOneMakers
<1>2. PartInv => UnseenIsOneMakers
    BY DEF PartInv
<1>. QED  BY <1>1, <1>2, OneSightingStep, PartStep, TypedAlways, PTL DEF Spec
=============================================================================
