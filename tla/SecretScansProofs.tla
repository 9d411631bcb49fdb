------------------------- MODULE SecretScansProofs -------------------------
(***************************************************************************)
(* Scans that overlap, restart or are declared abandoned lose nothing and  *)
(* tell the owner once, for any findings, starters and number of scans.    *)
(***************************************************************************)
EXTENDS SecretScans, FiniteSetTheorems, TLAPS

Executor == [step : ScanStep, found : SUBSET Finding, new : SUBSET Finding]

ScanShape ==
    /\ scan \in [Scan -> Status]
    /\ stale \cup orphaned \subseteq {n \in Scan : scan[n] # "none"}
    /\ exec \in [Scan -> Executor]
    /\ starting \subseteq Starter
    /\ commits \subseteq Finding
    /\ detection \in [Finding -> {"none", "OPEN", "RESOLVED", "FALSE_POSITIVE"}]
    /\ told \in [Finding -> Nat]

OneActive == \A m, n \in Scan : m \in Active /\ n \in Active => m = n

(* What the status of a scan can be at a step of its executor. *)
Placed ==
    \A n \in Scan :
      /\ scan[n] = "none" => exec[n].step = "none"
      /\ exec[n].step \in {"begin", "collect", "insert", "complete"} => scan[n] # "COMPLETED"
      /\ exec[n].step = "notify" => n \notin Active

HasInserted(n) == exec[n].step \in {"complete", "notify"}

(* What an executor has inserted is stored, is news to the owner and is in *)
(* the hands of no other executor. *)
Held ==
    \A n \in Scan : HasInserted(n) =>
      /\ exec[n].found \subseteq Stored
      /\ exec[n].new \subseteq Stored
      /\ \A f \in exec[n].new :
           /\ told[f] = 0
           /\ \A m \in Scan : HasInserted(m) /\ f \in exec[m].new => m = n

ScanInv ==
    /\ ScanShape
    /\ OneActive
    /\ Placed
    /\ Held
    /\ ActiveIsServed
    /\ CompletedIsStored
    /\ ToldOnce

LEMMA InitHolds == ScanInit => ScanInv
  BY DEF ScanInit, ScanInv, ScanShape, Executor, Status, ScanStep, OneActive, Placed,
         Held, HasInserted, ActiveIsServed, CompletedIsStored, ToldOnce, Active, Stored

(* A step that stores no finding and tells of none. *)
LEMMA QuietKeeps ==
  ASSUME ScanInv, ScanShape', OneActive', Placed', ActiveIsServed',
         UNCHANGED <<detection, told>>,
         \A n \in Scan :
           /\ exec'[n].found = exec[n].found /\ exec'[n].new = exec[n].new
           /\ HasInserted(n)' => HasInserted(n)
           /\ scan'[n] = "COMPLETED" => scan[n] = "COMPLETED" \/ HasInserted(n)
  PROVE  ScanInv'
<1>1. Stored' = Stored  BY DEF Stored
<1>2. Held'
  <2> SUFFICES ASSUME NEW n \in Scan, HasInserted(n)'
               PROVE  /\ exec'[n].found \subseteq Stored
                      /\ exec'[n].new \subseteq Stored
                      /\ \A f \in exec'[n].new :
                           /\ told[f] = 0
                           /\ \A m \in Scan : HasInserted(m)' /\ f \in exec'[m].new => m = n
    BY <1>1 DEF Held
  <2> QED  BY DEF ScanInv, Held
<1>3. CompletedIsStored'  BY <1>1 DEF ScanInv, CompletedIsStored, Held
<1>4. ToldOnce'  BY <1>1 DEF ScanInv, ToldOnce
<1> QED  BY <1>2, <1>3, <1>4 DEF ScanInv

LEMMA GoOnGives ==
  ASSUME ScanInv, NEW n \in Scan, NEW s \in ScanStep, GoOn(n, s)
  PROVE  /\ exec' \in [Scan -> Executor]
         /\ \A m \in Scan : /\ exec'[m].step = IF m = n THEN s ELSE exec[m].step
                            /\ exec'[m].found = exec[m].found
                            /\ exec'[m].new = exec[m].new
<1> DEFINE e == [exec[n] EXCEPT !.step = s]
<1>1. exec' = [exec EXCEPT ![n] = e]  BY DEF GoOn
<1>2. exec[n] \in Executor  BY DEF ScanInv, ScanShape
<1>3. /\ e \in Executor /\ e.step = s
      /\ e.found = exec[n].found /\ e.new = exec[n].new
  BY <1>2 DEF Executor
<1> HIDE DEF e
<1>4. \A m \in Scan : exec'[m] = IF m = n THEN e ELSE exec[m]
  BY <1>1 DEF ScanInv, ScanShape
<1>5. exec' \in [Scan -> Executor]  BY <1>1, <1>3 DEF ScanInv, ScanShape
<1> QED  BY <1>3, <1>4, <1>5

(* Scans that are active may fail while their executors go on. *)
LEMMA SweepKeeps ==
  ASSUME ScanInv, NEW r \in Starter, SweepStale(r)
  PROVE  ScanInv'
<1>1. \A n \in Scan : scan'[n] = IF n \in Abandoned THEN "FAILED" ELSE scan[n]
  BY DEF SweepStale
<1>2. UNCHANGED <<stale, exec, commits, detection, told, orphaned>>
  BY DEF SweepStale
<1>3. \A n \in Scan : scan'[n] \in {"none", "COMPLETED"} => scan'[n] = scan[n]
  BY <1>1
<1>4. Active' \subseteq Active  BY <1>1 DEF Active
<1>5. ScanShape'
  <2>1. scan' \in [Scan -> Status]  BY DEF SweepStale, ScanInv, ScanShape, Status
  <2>2. starting' \subseteq Starter  BY DEF SweepStale, ScanInv, ScanShape
  <2> QED  BY <1>2, <1>3, <2>1, <2>2 DEF ScanInv, ScanShape
<1>6. OneActive'  BY <1>4 DEF ScanInv, OneActive
<1>7. Placed'  BY <1>2, <1>3, <1>4 DEF ScanInv, Placed
<1>8. ActiveIsServed'  BY <1>2, <1>4 DEF ScanInv, ActiveIsServed
<1>9. \A n \in Scan : HasInserted(n)' => HasInserted(n)  BY <1>2 DEF HasInserted
<1> QED  BY <1>2, <1>3, <1>5, <1>6, <1>7, <1>8, <1>9, QuietKeeps

(* A new row: its slot was free, and nothing is known of it yet. *)
LEMMA CreateKeeps ==
  ASSUME ScanInv, NEW r \in Starter, CreateScan(r)
  PROVE  ScanInv'
<1>1. starting' \subseteq Starter /\ UNCHANGED <<stale, commits, detection, told, orphaned>>
  BY DEF CreateScan, ScanInv, ScanShape
<1>2. CASE UNCHANGED <<scan, exec>>
  <2>1. ScanShape'  BY <1>1, <1>2 DEF ScanInv, ScanShape
  <2>2. OneActive' /\ Placed' /\ ActiveIsServed'
    BY <1>1, <1>2 DEF ScanInv, OneActive, Placed, ActiveIsServed, Active
  <2>3. \A n \in Scan : HasInserted(n)' => HasInserted(n)  BY <1>2 DEF HasInserted
  <2> QED  BY <1>1, <1>2, <2>1, <2>2, <2>3, QuietKeeps
<1>3. ASSUME NEW n \in Fresh, Active = {}, Set(n, "PENDING"), GoOn(n, "begin")
      PROVE  ScanInv'
  <2>1. n \in Scan /\ scan[n] = "none"  BY DEF Fresh
  <2>2. /\ exec' \in [Scan -> Executor]
        /\ \A m \in Scan : /\ exec'[m].step = IF m = n THEN "begin" ELSE exec[m].step
                           /\ exec'[m].found = exec[m].found
                           /\ exec'[m].new = exec[m].new
    BY <1>3, <2>1, GoOnGives DEF ScanStep
  <2>3. \A m \in Scan : scan'[m] = IF m = n THEN "PENDING" ELSE scan[m]
    BY <1>3, <2>1 DEF Set, ScanInv, ScanShape
  <2>4. ScanShape'
    <3>1. scan' \in [Scan -> Status]  BY <1>3 DEF Set, ScanInv, ScanShape, Status
    <3> QED  BY <1>1, <2>2, <2>3, <3>1 DEF ScanInv, ScanShape
  <2>5. Active' = {n}  BY <1>3, <2>1, <2>3 DEF Active
  <2>6. OneActive'  BY <2>5 DEF OneActive
  <2>7. Placed'
    <3>1. \A m \in Scan : m # n => m \notin Active'  BY <2>5
    <3> QED  BY <2>2, <2>3, <3>1 DEF ScanInv, Placed
  <2>8. ActiveIsServed'  BY <2>1, <2>2, <2>5 DEF ActiveIsServed
  <2>9. \A m \in Scan : HasInserted(m)' => HasInserted(m)  BY <2>2 DEF HasInserted
  <2> QED  BY <1>1, <2>2, <2>3, <2>4, <2>6, <2>7, <2>8, <2>9, QuietKeeps
<1> QED  BY <1>2, <1>3 DEF CreateScan, SlotFree

(***************************************************************************)
(* The executor.                                                           *)
(***************************************************************************)
(* An executor that gives up leaves the row to RecordFailure. *)
LEMMA FailKeeps ==
  ASSUME ScanInv, NEW n \in Scan, exec[n].step \notin {"none", "done"}, GoOn(n, "fail"),
         UNCHANGED <<scan, stale, starting, commits, detection, told, orphaned>>
  PROVE  ScanInv'
<1>1. /\ exec' \in [Scan -> Executor]
      /\ \A m \in Scan : /\ exec'[m].step = IF m = n THEN "fail" ELSE exec[m].step
                         /\ exec'[m].found = exec[m].found
                         /\ exec'[m].new = exec[m].new
  BY GoOnGives DEF ScanStep
<1>2. ScanShape' /\ OneActive'  BY <1>1 DEF ScanInv, ScanShape, OneActive, Active
<1>3. Placed'  BY <1>1 DEF ScanInv, Placed, Active
<1>4. ActiveIsServed'  BY <1>1 DEF ScanInv, ActiveIsServed, Active
<1>5. \A m \in Scan : HasInserted(m)' => HasInserted(m)  BY <1>1 DEF HasInserted
<1> QED  BY <1>1, <1>2, <1>3, <1>4, <1>5, QuietKeeps

LEMMA BeginKeeps ==
  ASSUME ScanInv, NEW n \in Scan, BeginScan(n)
  PROVE  ScanInv'
<1>1. exec[n].step = "begin" /\ scan[n] # "none" /\ scan[n] # "COMPLETED"
  BY DEF BeginScan, AtStep, ScanInv, Placed
<1>2. UNCHANGED <<stale, starting, commits, detection, told, orphaned>>
  BY DEF BeginScan
<1>3. CASE Active \ {n} = {} /\ Set(n, "RUNNING") /\ GoOn(n, "collect")
  <2>1. /\ exec' \in [Scan -> Executor]
        /\ \A m \in Scan : /\ exec'[m].step = IF m = n THEN "collect" ELSE exec[m].step
                           /\ exec'[m].found = exec[m].found
                           /\ exec'[m].new = exec[m].new
    BY <1>3, GoOnGives DEF ScanStep
  <2>2. \A m \in Scan : scan'[m] = IF m = n THEN "RUNNING" ELSE scan[m]
    BY <1>3 DEF Set, ScanInv, ScanShape
  <2>3. ScanShape'
    <3>1. scan' \in [Scan -> Status]  BY <1>3 DEF Set, ScanInv, ScanShape, Status
    <3> QED  BY <1>2, <2>1, <2>2, <3>1 DEF ScanInv, ScanShape
  <2>4. Active' = {n}  BY <1>3, <2>2 DEF Active
  <2>5. OneActive'  BY <2>4 DEF OneActive
  <2>6. Placed'
    <3>1. \A m \in Scan : m # n => m \notin Active'  BY <2>4
    <3> QED  BY <2>1, <2>2, <3>1 DEF ScanInv, Placed
  <2>7. ActiveIsServed'  BY <2>1, <2>4 DEF ActiveIsServed
  <2>8. \A m \in Scan : HasInserted(m)' => HasInserted(m)  BY <2>1 DEF HasInserted
  <2> QED  BY <1>2, <2>1, <2>2, <2>3, <2>5, <2>6, <2>7, <2>8, QuietKeeps
<1>4. CASE GoOn(n, "fail") /\ UNCHANGED scan
  BY <1>1, <1>2, <1>4, FailKeeps
<1> QED  BY <1>3, <1>4 DEF BeginScan

LEMMA CompleteKeeps ==
  ASSUME ScanInv, NEW n \in Scan, CompleteScan(n)
  PROVE  ScanInv'
<1>1. exec[n].step = "complete" /\ scan[n] # "none"
  BY DEF CompleteScan, AtStep, ScanInv, Placed
<1>2. UNCHANGED <<stale, starting, commits, detection, told, orphaned>>
  BY DEF CompleteScan
<1>3. /\ exec' \in [Scan -> Executor]
      /\ \A m \in Scan : /\ exec'[m].step = IF m = n THEN "notify" ELSE exec[m].step
                         /\ exec'[m].found = exec[m].found
                         /\ exec'[m].new = exec[m].new
  <2>1. GoOn(n, "notify")  BY DEF CompleteScan, Following
  <2> QED  BY <2>1, GoOnGives DEF ScanStep
<1>4. \A m \in Scan : scan'[m] = IF m = n THEN "COMPLETED" ELSE scan[m]
  BY DEF CompleteScan, Set, ScanInv, ScanShape
<1>5. ScanShape'
  <2>1. scan' \in [Scan -> Status]  BY DEF CompleteScan, Set, ScanInv, ScanShape, Status
  <2> QED  BY <1>2, <1>3, <1>4, <2>1 DEF ScanInv, ScanShape
<1>6. Active' = Active \ {n}  BY <1>4 DEF Active
<1>7. OneActive'  BY <1>6 DEF ScanInv, OneActive
<1>8. Placed'  BY <1>3, <1>4, <1>6 DEF ScanInv, Placed
<1>9. ActiveIsServed'
  <2>1. Active' \subseteq Scan  BY DEF Active
  <2> QED  BY <2>1, <1>2, <1>3, <1>6 DEF ScanInv, ActiveIsServed
<1>10. \A m \in Scan : HasInserted(m)' => HasInserted(m)  BY <1>1, <1>3 DEF HasInserted
<1> QED
  BY <1>1, <1>2, <1>3, <1>4, <1>5, <1>7, <1>8, <1>9, <1>10, QuietKeeps DEF HasInserted

LEMMA RecordKeeps ==
  ASSUME ScanInv, NEW n \in Scan, RecordFailure(n)
  PROVE  ScanInv'
<1>1. exec[n].step = "fail" /\ scan[n] # "none"
  BY DEF RecordFailure, AtStep, ScanInv, Placed
<1>2. UNCHANGED <<stale, starting, commits, detection, told>>
  BY DEF RecordFailure
<1>3. /\ exec' \in [Scan -> Executor]
      /\ \A m \in Scan : /\ exec'[m].step = IF m = n THEN "done" ELSE exec[m].step
                         /\ exec'[m].found = exec[m].found
                         /\ exec'[m].new = exec[m].new
  BY GoOnGives DEF RecordFailure, ScanStep
<1>4. \/ /\ scan' \in [Scan -> Status] /\ orphaned' = orphaned
         /\ \A m \in Scan : scan'[m] = IF m = n THEN "FAILED" ELSE scan[m]
      \/ scan' = scan /\ orphaned' = orphaned \cup {n}
  BY DEF RecordFailure, Set, ScanInv, ScanShape, Status
<1>5. ScanShape'
  <2>1. \A m \in Scan : scan[m] # "none" => scan'[m] # "none"  BY <1>4
  <2>2. orphaned' \subseteq {m \in Scan : scan[m] # "none"}
    BY <1>1, <1>4 DEF ScanInv, ScanShape
  <2> QED  BY <1>2, <1>3, <1>4, <2>1, <2>2 DEF ScanInv, ScanShape
<1>6. Active' \subseteq Active /\ (n \in Active' => n \in orphaned')
  BY <1>4 DEF Active
<1>7. OneActive'  BY <1>6 DEF ScanInv, OneActive
<1>8. Placed'  BY <1>1, <1>3, <1>4, <1>6 DEF ScanInv, Placed
<1>9. ActiveIsServed'
  <2>1. Active' \subseteq Scan  BY DEF Active
  <2> QED  BY <2>1, <1>3, <1>4, <1>6 DEF ScanInv, ActiveIsServed
<1>10. \A m \in Scan : HasInserted(m)' => HasInserted(m)  BY <1>3 DEF HasInserted
<1> QED
  BY <1>2, <1>3, <1>4, <1>5, <1>7, <1>8, <1>9, <1>10, QuietKeeps

LEMMA RestartKeeps ==
  ASSUME ScanInv, Restart
  PROVE  ScanInv'
<1> DEFINE running == {n \in Scan : exec[n].step \notin {"none", "done"}}
<1>1. /\ orphaned' = orphaned \cup running /\ starting' = {}
      /\ UNCHANGED <<scan, stale, commits, detection, told>>
  BY DEF Restart
<1>2. /\ exec' \in [Scan -> Executor]
      /\ \A m \in Scan : /\ exec'[m].step = IF m \in running THEN "done" ELSE exec[m].step
                         /\ exec'[m].found = exec[m].found
                         /\ exec'[m].new = exec[m].new
  <2>1. \A m \in Scan : exec[m] \in Executor  BY DEF ScanInv, ScanShape
  <2>2. \A m \in Scan : LET e == [exec[m] EXCEPT !.step = "done"] IN
          e \in Executor /\ e.step = "done" /\ e.found = exec[m].found /\ e.new = exec[m].new
    BY <2>1 DEF Executor, ScanStep
  <2>3. exec' = [m \in Scan |-> IF m \in running
                               THEN [exec[m] EXCEPT !.step = "done"] ELSE exec[m]]
    BY DEF Restart
  <2> QED  BY <2>1, <2>2, <2>3
<1>3. \A m \in Scan : m \in running => scan[m] # "none"  BY DEF ScanInv, Placed
<1>4. ScanShape'  BY <1>1, <1>2, <1>3 DEF ScanInv, ScanShape
<1>5. OneActive'  BY <1>1 DEF ScanInv, OneActive, Active
<1>6. Placed'  BY <1>1, <1>2, <1>3 DEF ScanInv, Placed, Active
<1>7. ActiveIsServed'  BY <1>1, <1>2 DEF ScanInv, ActiveIsServed, Active
<1>8. \A m \in Scan : HasInserted(m)' => HasInserted(m)  BY <1>2 DEF HasInserted
<1> QED  BY <1>1, <1>2, <1>4, <1>5, <1>6, <1>7, <1>8, QuietKeeps

(* What is collected is held by nobody before it is inserted. *)
LEMMA CollectKeeps ==
  ASSUME ScanInv, NEW n \in Scan, CollectFindings(n)
  PROVE  ScanInv'
<1> DEFINE e == [exec[n] EXCEPT !.step = "insert", !.found = commits]
<1>1. exec' = [exec EXCEPT ![n] = e]  BY DEF CollectFindings, Following
<1>2. UNCHANGED <<scan, stale, starting, commits, detection, told, orphaned>>
  BY DEF CollectFindings
<1>3. e \in Executor /\ e.step = "insert" /\ e.new = exec[n].new
  BY DEF ScanInv, ScanShape, Executor, ScanStep
<1> HIDE DEF e
<1>4. \A m \in Scan : exec'[m] = IF m = n THEN e ELSE exec[m]
  BY <1>1 DEF ScanInv, ScanShape
<1>5. exec[n].step = "collect"  BY DEF CollectFindings, AtStep
<1>6. ScanShape'  BY <1>1, <1>2, <1>3 DEF ScanInv, ScanShape
<1>7. OneActive'  BY <1>2 DEF ScanInv, OneActive, Active
<1>8. Placed'  BY <1>2, <1>3, <1>4, <1>5 DEF ScanInv, Placed, Active
<1>9. \A m \in Scan : HasInserted(m)' => HasInserted(m) /\ m # n
  BY <1>3, <1>4 DEF HasInserted
<1>10. Held'
  BY <1>2, <1>4, <1>9 DEF ScanInv, Held, Stored
<1>11. ActiveIsServed'  BY <1>2, <1>3, <1>4 DEF ScanInv, ActiveIsServed, Active
<1>12. CompletedIsStored'
  BY <1>2, <1>4, <1>5 DEF ScanInv, CompletedIsStored, Placed, Stored
<1>13. ToldOnce'  BY <1>2 DEF ScanInv, ToldOnce, Stored
<1> QED  BY <1>6, <1>7, <1>8, <1>10, <1>11, <1>12, <1>13 DEF ScanInv

(* What is inserted anew was not stored, so nobody holds it and nobody was *)
(* told of it. *)
LEMMA InsertKeeps ==
  ASSUME ScanInv, NEW n \in Scan, InsertFindings(n)
  PROVE  ScanInv'
<1> DEFINE e == [exec[n] EXCEPT !.step = "complete", !.new = exec[n].found \ Stored]
<1>1. exec' = [exec EXCEPT ![n] = e] /\ detection' = Inserted(exec[n].found)
  BY DEF InsertFindings, Following
<1>2. UNCHANGED <<scan, stale, starting, commits, told, orphaned>>
  BY DEF InsertFindings
<1>3. /\ e \in Executor /\ e.step = "complete"
      /\ e.found = exec[n].found /\ e.new = exec[n].found \ Stored
      /\ exec[n].found \subseteq Finding
  BY DEF ScanInv, ScanShape, Executor, ScanStep
<1> HIDE DEF e
<1>4. \A m \in Scan : exec'[m] = IF m = n THEN e ELSE exec[m]
  BY <1>1 DEF ScanInv, ScanShape
<1>5. exec[n].step = "insert"  BY DEF InsertFindings, AtStep
<1>6. detection' \in [Finding -> {"none", "OPEN", "RESOLVED", "FALSE_POSITIVE"}]
  BY <1>1 DEF Inserted, ScanInv, ScanShape
<1>7. Stored' = Stored \cup exec[n].found
  BY <1>1, <1>3 DEF Inserted, Stored
<1>8. ScanShape'  BY <1>1, <1>2, <1>3, <1>6 DEF ScanInv, ScanShape
<1>9. OneActive'  BY <1>2 DEF ScanInv, OneActive, Active
<1>10. Placed'  BY <1>2, <1>3, <1>4, <1>5 DEF ScanInv, Placed, Active
<1>11. \A m \in Scan : HasInserted(m)' <=> HasInserted(m) \/ m = n
  BY <1>3, <1>4 DEF HasInserted
<1>12. Held'
  <2>1. \A f \in Finding \ Stored : told[f] = 0
    BY DEF ScanInv, ScanShape, ToldOnce
  <2>2. \A m \in Scan : HasInserted(m) => m # n /\ exec[m].new \subseteq Stored
    BY <1>5 DEF ScanInv, Held, HasInserted
  <2>3. ASSUME NEW m \in Scan, HasInserted(m)'
        PROVE  /\ exec'[m].found \subseteq Stored'
               /\ exec'[m].new \subseteq Stored'
               /\ \A f \in exec'[m].new :
                    /\ told'[f] = 0
                    /\ \A k \in Scan : HasInserted(k)' /\ f \in exec'[k].new => k = m
    <3>1. CASE m = n
      <4>1. exec'[m] = e  BY <3>1, <1>4
      <4>2. \A k \in Scan : k # n /\ HasInserted(k)' => exec'[k].new \subseteq Stored
        BY <2>2, <1>4, <1>11
      <4> QED  BY <3>1, <4>1, <4>2, <2>1, <1>2, <1>3, <1>7
    <3>2. CASE m # n
      <4>1. exec'[m] = exec[m] /\ HasInserted(m)  BY <3>2, <2>3, <1>4, <1>11
      <4>2. exec[m].new \subseteq Stored  BY <4>1, <2>2
      <4>3. \A f \in exec[m].new : \A k \in Scan :
              HasInserted(k)' /\ f \in exec'[k].new => k = m
        BY <4>1, <4>2, <1>3, <1>4, <1>11 DEF ScanInv, Held
      <4> QED  BY <4>1, <4>2, <4>3, <1>2, <1>7 DEF ScanInv, Held
    <3> QED  BY <3>1, <3>2
  <2> QED  BY <2>3 DEF Held
<1>13. ActiveIsServed'  BY <1>2, <1>3, <1>4 DEF ScanInv, ActiveIsServed, Active
<1>14. CompletedIsStored'
  BY <1>2, <1>3, <1>4, <1>7 DEF ScanInv, CompletedIsStored
<1>15. ToldOnce'  BY <1>2, <1>7 DEF ScanInv, ToldOnce
<1> QED  BY <1>8, <1>9, <1>10, <1>12, <1>13, <1>14, <1>15 DEF ScanInv

(* The owner is told of what one executor holds, and it lets go of it. *)
LEMMA NotifyKeeps ==
  ASSUME ScanInv, NEW n \in Scan, NotifyOwner(n)
  PROVE  ScanInv'
<1>1. exec[n].step = "notify" /\ HasInserted(n)
  BY DEF NotifyOwner, AtStep, HasInserted
<1>2. UNCHANGED <<scan, stale, starting, commits, detection, orphaned>> /\ Stored' = Stored
  BY DEF NotifyOwner, Stored
<1>3. /\ exec' \in [Scan -> Executor]
      /\ \A m \in Scan : /\ exec'[m].step = IF m = n THEN "done" ELSE exec[m].step
                         /\ exec'[m].found = exec[m].found
                         /\ exec'[m].new = exec[m].new
  BY GoOnGives DEF NotifyOwner, ScanStep
<1>4. \A f \in Finding : told'[f] = told[f] + (IF f \in exec[n].new THEN 1 ELSE 0)
  BY DEF NotifyOwner, ToldOf
<1>5. \A f \in exec[n].new : f \in Stored /\ told[f] = 0
  BY <1>1 DEF ScanInv, Held
<1>6. told' \in [Finding -> Nat]
  BY DEF NotifyOwner, ScanInv, ScanShape
<1>7. ScanShape'  BY <1>2, <1>3, <1>6 DEF ScanInv, ScanShape
<1>8. OneActive'  BY <1>2 DEF ScanInv, OneActive, Active
<1>9. Placed'  BY <1>1, <1>2, <1>3 DEF ScanInv, Placed, Active
<1>10. \A m \in Scan : HasInserted(m)' => HasInserted(m) /\ m # n
  BY <1>3 DEF HasInserted
<1>11. Held'
  <2> SUFFICES ASSUME NEW m \in Scan, HasInserted(m)'
               PROVE  /\ exec'[m].found \subseteq Stored'
                      /\ exec'[m].new \subseteq Stored'
                      /\ \A f \in exec'[m].new :
                           /\ told'[f] = 0
                           /\ \A k \in Scan : HasInserted(k)' /\ f \in exec'[k].new => k = m
    BY DEF Held
  <2>1. HasInserted(m) /\ m # n  BY <1>10
  <2>2. \A f \in exec[m].new : f \in Finding /\ f \notin exec[n].new /\ told[f] = 0
    BY <2>1, <1>1 DEF ScanInv, Held, Stored
  <2>3. \A f \in exec[m].new : told'[f] = 0  BY <2>2, <1>4
  <2> QED  BY <2>1, <2>3, <1>2, <1>3, <1>10 DEF ScanInv, Held
<1>12. ActiveIsServed'
  <2>1. n \notin Active /\ Active' = Active /\ Active \subseteq Scan
    BY <1>1, <1>2 DEF ScanInv, Placed, Active
  <2> QED  BY <2>1, <1>2, <1>3 DEF ScanInv, ActiveIsServed
<1>13. CompletedIsStored'  BY <1>2, <1>3 DEF ScanInv, CompletedIsStored
<1>14. ToldOnce'
  <2> SUFFICES ASSUME NEW f \in Finding
               PROVE  told'[f] <= 1 /\ (told'[f] = 1 => f \in Stored)
    BY <1>2 DEF ToldOnce
  <2>1. CASE f \in exec[n].new  BY <2>1, <1>4, <1>5
  <2>2. CASE f \notin exec[n].new
    <3>1. told'[f] = told[f]  BY <2>2, <1>4 DEF ScanInv, ScanShape
    <3> QED  BY <3>1 DEF ScanInv, ToldOnce
  <2> QED  BY <2>1, <2>2
<1> QED  BY <1>7, <1>8, <1>9, <1>11, <1>12, <1>13, <1>14 DEF ScanInv

(***************************************************************************)
(* The rest of the world.                                                  *)
(***************************************************************************)
Decided(f) == detection[f] \in {"RESOLVED", "FALSE_POSITIVE"}

LEMMA TriageGives ==
  ASSUME ScanInv, Triage
  PROVE  /\ detection' \in [Finding -> {"none", "OPEN", "RESOLVED", "FALSE_POSITIVE"}]
         /\ Stored' = Stored
         /\ \A f \in Finding : Decided(f) => Decided(f)'
<1>1. CASE \E f \in Stored, s \in {"RESOLVED", "FALSE_POSITIVE"} :
             detection' = [detection EXCEPT ![f] = s]
  BY <1>1 DEF Stored, ScanInv, ScanShape, Decided
<1>2. CASE \E D \in SUBSET Stored, s \in {"RESOLVED", "FALSE_POSITIVE"} :
             detection' = [f \in Finding |->
                IF f \in D /\ detection[f] = "OPEN" THEN s ELSE detection[f]]
  BY <1>2 DEF Stored, ScanInv, ScanShape, Decided
<1> QED  BY <1>1, <1>2 DEF Triage

LEMMA WorldKeeps ==
  ASSUME ScanInv,
         \/ Triage
         \/ \E f \in Finding : CommitSecret(f)
         \/ \E n \in Scan : GrowStale(n)
  PROVE  ScanInv'
<1>1. UNCHANGED <<scan, exec, starting, told, orphaned>>
  BY DEF Triage, CommitSecret, GrowStale
<1>2. ScanShape' /\ Stored' = Stored
  <2>1. CASE Triage
    <3>1. UNCHANGED <<stale, commits>>  BY <2>1 DEF Triage
    <3> QED  BY <2>1, <3>1, <1>1, TriageGives DEF ScanInv, ScanShape
  <2>2. CASE \E f \in Finding : CommitSecret(f)
    BY <2>2, <1>1 DEF CommitSecret, ScanInv, ScanShape, Stored
  <2>3. CASE \E n \in Scan : GrowStale(n)
    BY <2>3, <1>1 DEF GrowStale, ScanInv, ScanShape, Stored
  <2> QED  BY <2>1, <2>2, <2>3
<1>3. OneActive' /\ Placed' /\ ActiveIsServed'
  BY <1>1 DEF ScanInv, OneActive, Placed, ActiveIsServed, Active
<1>4. Held' /\ CompletedIsStored' /\ ToldOnce'
  BY <1>1, <1>2 DEF ScanInv, Held, HasInserted, CompletedIsStored, ToldOnce
<1> QED  BY <1>2, <1>3, <1>4 DEF ScanInv

LEMMA ErrorKeeps ==
  ASSUME ScanInv, NEW n \in Scan, ScanError(n)
  PROVE  ScanInv'
BY FailKeeps DEF ScanError, ErrorLeadsTo

LEMMA StepKeeps == ScanInv /\ [ScanNext]_scanVars => ScanInv'
<1> SUFFICES ASSUME ScanInv, [ScanNext]_scanVars  PROVE ScanInv'
  OBVIOUS
<1>1. CASE UNCHANGED scanVars
  BY <1>1 DEF scanVars, ScanInv, ScanShape, OneActive, Placed, Held, HasInserted,
              ActiveIsServed, CompletedIsStored, ToldOnce, Active, Stored
<1>2. ASSUME NEW n \in Scan, ExecuteStep(n)  PROVE ScanInv'
  BY <1>2, BeginKeeps, CollectKeeps, InsertKeeps, CompleteKeeps, NotifyKeeps, RecordKeeps
     DEF ExecuteStep
<1> QED
  BY <1>1, <1>2, RestartKeeps, SweepKeeps, CreateKeeps, ErrorKeeps, WorldKeeps DEF ScanNext

LEMMA Invariant == ScanSpec => []ScanInv
<1> QED  BY InitHolds, StepKeeps, PTL DEF ScanSpec

(* The partial unique index and the check of the executor leave a project  *)
(* with one active scan at most.                                           *)
THEOREM ScansTyped == ScanSpec => []ScanTypeOK
<1>1. ScanInv => ScanTypeOK
  <2> SUFFICES ASSUME ScanInv  PROVE Cardinality(Active) <= 1
    BY DEF ScanInv, ScanShape, Executor, ScanTypeOK
  <2>1. CASE Active = {}  BY <2>1, FS_EmptySet
  <2>2. ASSUME NEW n \in Active  PROVE Cardinality(Active) = 1
    <3>1. Active = {n}  BY <2>2 DEF ScanInv, OneActive, Active
    <3> QED  BY <3>1, FS_Singleton
  <2> QED  BY <2>1, <2>2
<1> QED  BY <1>1, Invariant, PTL

(* A scan that holds the slot is settled by its executor, unless the       *)
(* executor was stopped or could not write that.                           *)
THEOREM ActiveServed == ScanSpec => []ActiveIsServed
<1>1. ScanInv => ActiveIsServed  BY DEF ScanInv
<1> QED  BY <1>1, Invariant, PTL

(* What a completed scan has found is stored, also when the scan had been  *)
(* declared abandoned and another ran beside it.                           *)
THEOREM FindingsStored == ScanSpec => []CompletedIsStored
<1>1. ScanInv => CompletedIsStored  BY DEF ScanInv
<1> QED  BY <1>1, Invariant, PTL

(* The owner hears of a finding once at most, whatever scans overlap.      *)
THEOREM OwnerToldOnce == ScanSpec => []ToldOnce
<1>1. ScanInv => ToldOnce  BY DEF ScanInv
<1> QED  BY <1>1, Invariant, PTL

DecisionsKept ==
    \A f \in Finding : detection[f] \in {"RESOLVED", "FALSE_POSITIVE"}
        => detection'[f] \in {"RESOLVED", "FALSE_POSITIVE"}

(* No scan takes a triage decision back: insertions skip what is there.    *)
THEOREM DecisionsSurvive == ScanSpec => TriageSurvives
<1>1. ASSUME ScanInv, ScanNext  PROVE DecisionsKept
  <2>1. CASE Triage  BY <1>1, <2>1, TriageGives DEF Decided, DecisionsKept
  <2>2. CASE \E n \in Scan : InsertFindings(n)
    BY <2>2 DEF InsertFindings, Inserted, Stored, DecisionsKept
  <2>3. CASE UNCHANGED detection  BY <2>3 DEF DecisionsKept
  <2> QED
    BY <1>1, <2>1, <2>2, <2>3
       DEF ScanNext, Restart, CommitSecret, SweepStale, CreateScan, ExecuteStep, BeginScan,
           CollectFindings, CompleteScan, NotifyOwner, RecordFailure, ScanError, GrowStale
<1>2. ScanInv /\ [ScanNext]_scanVars => [DecisionsKept]_scanVars
  BY <1>1
<1> QED  BY <1>2, Invariant, PTL DEF ScanSpec, TriageSurvives, DecisionsKept

(***************************************************************************)
(* How a scan takes the slot of its project, and what becomes of its row.  *)
(***************************************************************************)
SlotTakenFree ==
    \A n \in Scan : n \in Active' \ Active =>
        Active = {} /\ (scan[n] = "none" \/ AtStep(n, "begin"))

OutcomeKept ==
    \A n \in Scan :
        /\ scan[n] = "COMPLETED" => scan'[n] \in {"COMPLETED", "FAILED"}
        /\ AtStep(n, "done") =>
             \/ scan'[n] = scan[n]
             \/ n \in Abandoned /\ scan'[n] = "FAILED"

LEMMA RowSetOnce ==
  ASSUME ScanInv, NEW n \in Scan, NEW s \in Status, Set(n, s)
  PROVE  scan'[n] = s /\ \A m \in Scan \ {n} : scan'[m] = scan[m]
BY DEF Set, ScanInv, ScanShape

(* A scan becomes active when no scan is, as a new row or as the first     *)
(* step of an executor whose row a sweep had failed before it began.  One  *)
(* that completed never runs again, and once its executor has ended only a *)
(* sweep of stale scans touches its row: although no update of the         *)
(* executor is guarded by the status (secret-scan.executor.ts:71).         *)
THEOREM SlotsAreTakenFree == ScanSpec => [][SlotTakenFree /\ OutcomeKept]_scanVars
<1>1. ASSUME ScanInv, ScanNext  PROVE SlotTakenFree /\ OutcomeKept
  <2>1. CASE UNCHANGED scan
    BY <2>1 DEF SlotTakenFree, OutcomeKept, Active
  <2>2. ASSUME NEW r \in Starter, SweepStale(r)  PROVE SlotTakenFree /\ OutcomeKept
    <3>1. \A n \in Scan : scan'[n] = IF n \in Abandoned THEN "FAILED" ELSE scan[n]
      BY <2>2 DEF SweepStale
    <3>2. \A n \in Abandoned : scan[n] # "COMPLETED"  BY DEF Abandoned, Active
    <3> QED  BY <3>1, <3>2 DEF SlotTakenFree, OutcomeKept, Active
  <2>3. ASSUME NEW r \in Starter, CreateScan(r), ~UNCHANGED scan
        PROVE  SlotTakenFree /\ OutcomeKept
    <3>1. PICK n \in Fresh : Active = {} /\ Set(n, "PENDING")
      BY <2>3 DEF CreateScan, SlotFree
    <3>2. n \in Scan /\ scan[n] = "none" /\ exec[n].step = "none"
      BY <1>1, <3>1 DEF Fresh, ScanInv, Placed
    <3>3. scan'[n] = "PENDING" /\ \A m \in Scan \ {n} : scan'[m] = scan[m]
      BY <1>1, <3>1, <3>2, RowSetOnce DEF Status
    <3> QED  BY <3>1, <3>2, <3>3 DEF SlotTakenFree, OutcomeKept, Active, AtStep
  <2>4. ASSUME NEW n \in Scan, BeginScan(n), ~UNCHANGED scan
        PROVE  SlotTakenFree /\ OutcomeKept
    <3>1. AtStep(n, "begin") /\ Active \ {n} = {} /\ Set(n, "RUNNING")
      BY <2>4 DEF BeginScan
    <3>2. scan[n] # "COMPLETED"  BY <1>1, <3>1 DEF ScanInv, Placed, AtStep
    <3>3. scan'[n] = "RUNNING" /\ \A m \in Scan \ {n} : scan'[m] = scan[m]
      BY <1>1, <3>1, RowSetOnce DEF Status
    <3> QED  BY <3>1, <3>2, <3>3 DEF SlotTakenFree, OutcomeKept, Active, AtStep
  <2>5. ASSUME NEW n \in Scan, CompleteScan(n) \/ RecordFailure(n), ~UNCHANGED scan
        PROVE  SlotTakenFree /\ OutcomeKept
    <3>1. PICK s \in {"COMPLETED", "FAILED"} : Set(n, s)
      BY <2>5 DEF CompleteScan, RecordFailure
    <3>2. ~AtStep(n, "done")  BY <2>5 DEF CompleteScan, RecordFailure, AtStep
    <3>3. scan'[n] = s /\ \A m \in Scan \ {n} : scan'[m] = scan[m]
      BY <1>1, <3>1, RowSetOnce DEF Status
    <3> QED  BY <3>1, <3>2, <3>3 DEF SlotTakenFree, OutcomeKept, Active
  <2>6. ASSUME NEW n \in Scan,
               \/ CollectFindings(n) \/ InsertFindings(n) \/ NotifyOwner(n)
               \/ ScanError(n) \/ GrowStale(n)
        PROVE  UNCHANGED scan
    BY <2>6 DEF CollectFindings, InsertFindings, NotifyOwner, ScanError, GrowStale
  <2>7. Restart \/ Triage \/ (\E f \in Finding : CommitSecret(f)) => UNCHANGED scan
    BY DEF Restart, Triage, CommitSecret
  <2> QED  BY <1>1, <2>1, <2>2, <2>3, <2>4, <2>5, <2>6, <2>7 DEF ScanNext, ExecuteStep
<1>2. ScanInv /\ [ScanNext]_scanVars => [SlotTakenFree /\ OutcomeKept]_scanVars
  BY <1>1
<1> QED  BY <1>2, Invariant, PTL DEF ScanSpec
=============================================================================
