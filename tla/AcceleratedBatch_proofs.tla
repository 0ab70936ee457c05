----------------------- MODULE AcceleratedBatch_proofs -----------------------
(***************************************************************************)
(* Proofs about AcceleratedBatch, for any runs, days, partitions, limits   *)
(* and faults: no publisher finds a bundle that leaves something out, no   *)
(* bundle is stored twice, and none is gone in time while the accelerated  *)
(* publishers have the group for themselves.                               *)
(***************************************************************************)
EXTENDS AcceleratedBatch, FiniteSetTheorems, TLAPS

-----------------------------------------------------------------------------
(***************************************************************************)
(* The inductive invariant.                                                *)
(***************************************************************************)
Holding == {"retrieve", "publish", "delete"}

\* A leg queues once, the one that has the group is at work, and a job of another
\* workflow is only there after one has queued.
QueueInv ==
  /\ \A l \in Legs : attempt[l[1]] = 0 => stage[l] = "idle"
  /\ \A l \in Legs : stage[l] \in Holding <=> lock = l
  /\ \A i \in DOMAIN queue : queue[i] \in Legs => stage[queue[i]] = "queued"
  /\ \A i, j \in DOMAIN queue : queue[i] = queue[j] => i = j
  /\ foreign = 0 => lock # Foreign /\ \A i \in DOMAIN queue : queue[i] # Foreign

\* The row of the matrix covers what is unfinished, the bundle of the current
\* attempt is the row, and there is none yet where one is still computed.
BundleInv ==
  /\ \A b \in bundles : b.name[2] <= attempt[b.name[1]]
  /\ \A l \in Legs :
       /\ stage[l] # "idle" => Unfinished(l[2]) \subseteq assigned[l]
       /\ \A b \in Stored(l) : b.parts = assigned[l]
       /\ stage[l] \in {"ready", "compute"} => Stored(l) = {}

\* No bundle was refused.
Accepted == \A l \in Legs : why[l] \notin {"coverage", "conflict"}

\* Whoever publishes was computed, in this attempt or an earlier one, and only the
\* bundle of an earlier attempt can be missing.
AttemptInv ==
  \A l \in Legs :
    /\ computed[l] <= attempt[l[1]]
    /\ stage[l] \in {"waiting", "queued"} \cup Holding => computed[l] > 0
    /\ why[l] = "missing" => stage[l] = "failed" /\ computed[l] \in 1..(attempt[l[1]] - 1)

BatchInv == TypeOK /\ QueueInv /\ BundleInv /\ Accepted /\ AttemptInv

LEMMA LegFacts == ASSUME NEW l \in Legs
                  PROVE  /\ l = <<l[1], l[2]>> /\ l[1] \in Runs /\ l[2] \in Days
                         /\ l[2] \in Requested[l[1]]
BY DEF Legs

LEMMA LegOf == ASSUME NEW r \in Runs, NEW d \in Requested[r] PROVE <<r, d>> \in Legs
BY AcceleratedBatchAssumption DEF Legs

LEMMA Initially == Init => BatchInv
<1> SUFFICES ASSUME Init PROVE BatchInv
  OBVIOUS
<1>1. TypeOK
  BY AcceleratedBatchAssumption DEF Init, TypeOK, Ended
<1>2. QueueInv
  BY AcceleratedBatchAssumption DEF Init, QueueInv, Holding
<1>3. BundleInv /\ Accepted
  BY AcceleratedBatchAssumption DEF Init, BundleInv, Stored, Accepted, Reasons
<1>4. AttemptInv
  BY AcceleratedBatchAssumption, LegFacts DEF Init, AttemptInv, Holding, Reasons
<1> QED BY <1>1, <1>2, <1>3, <1>4 DEF BatchInv

\* The types, one action after the other.
LEMMA Removed == ASSUME NEW S, NEW q \in Seq(S), NEW i \in DOMAIN q
                 PROVE  /\ RemoveAt(q, i) \in Seq(S)
                        /\ Len(RemoveAt(q, i)) = Len(q) - 1
                        /\ \A j \in DOMAIN RemoveAt(q, i) :
                             RemoveAt(q, i)[j] = IF j < i THEN q[j] ELSE q[j + 1]
<1> DEFINE a == SubSeq(q, 1, i - 1)
           b == SubSeq(q, i + 1, Len(q))
<1>0. i \in 1..Len(q) /\ Len(q) \in Nat
  OBVIOUS
<1>1. /\ a \in Seq(S) /\ Len(a) = i - 1
      /\ \A j \in 1..(i - 1) : a[j] = q[j]
  BY <1>0
<1>2. /\ b \in Seq(S) /\ Len(b) = Len(q) - i
      /\ \A j \in 1..(Len(q) - i) : b[j] = q[j + i]
  BY <1>0
<1> HIDE DEF a, b
<1>3. a \o b \in Seq(S) /\ Len(a \o b) = Len(q) - 1
  BY <1>0, <1>1, <1>2
<1>4. RemoveAt(q, i) = a \o b
  BY DEF RemoveAt, a, b
<1>5. ASSUME NEW j \in 1..(Len(q) - 1)
      PROVE  (a \o b)[j] = IF j < i THEN q[j] ELSE q[j + 1]
  <2>1. (a \o b)[j] = IF j <= i - 1 THEN a[j] ELSE b[j - (i - 1)]
    BY <1>0, <1>1, <1>2
  <2>2. CASE j < i
    BY <1>0, <1>1, <2>1, <2>2
  <2>3. CASE ~(j < i)
    <3>1. j - (i - 1) \in 1..(Len(q) - i) /\ (j - (i - 1)) + i = j + 1
      BY <1>0, <2>3
    <3> QED BY <1>0, <1>2, <2>1, <2>3, <3>1
  <2> QED BY <2>2, <2>3
<1>6. DOMAIN (a \o b) = 1..(Len(q) - 1)
  BY <1>3
<1> QED BY <1>3, <1>4, <1>5, <1>6

LEMMA QueueType ==
  ASSUME TypeOK, NEW l \in Legs, LeaveQueue(l)
  PROVE  queue' \in Seq(Legs \cup {Foreign})
BY Removed DEF TypeOK, LeaveQueue

LEMMA Types == TypeOK /\ [Next]_vars => TypeOK'
<1> SUFFICES ASSUME TypeOK, [Next]_vars PROVE TypeOK'
  OBVIOUS
<1> USE AcceleratedBatchAssumption
<1>1. ASSUME NEW r \in Runs, Dispatch(r) \/ RerunAll(r) PROVE TypeOK'
  <2>1. Validate(r) /\ attempt[r] + 1 \in 0..MaxAttempts
    BY <1>1 DEF Dispatch, RerunAll, TypeOK
  <2> QED BY <2>1 DEF Validate, TypeOK, groupVars, Unfinished, Ended, Active
<1>2. ASSUME NEW r \in Runs, RerunFailed(r) PROVE TypeOK'
  BY <1>2 DEF RerunFailed, TypeOK, groupVars, Ended, Active
<1>3. ASSUME NEW l \in Legs, StartCompute(l) PROVE TypeOK'
  BY <1>3 DEF StartCompute, Goto, TypeOK, groupVars, Active
<1>4. ASSUME NEW l \in Legs, Upload(l) PROVE TypeOK'
  <2>1. CASE Stored(l) # {}
    BY <1>4, <2>1 DEF Upload, Fail, Goto, TypeOK, groupVars, Ended, Reasons
  <2>2. CASE Stored(l) = {}
    <3>1. attempt[l[1]] \in 0..MaxAttempts
      BY LegFacts DEF TypeOK
    <3> DEFINE new == [name |-> BundleName(l), parts |-> assigned[l], age |-> 0]
    <3>2. new \in [name : Runs \X (0..MaxAttempts) \X Days, parts : SUBSET Partitions, age : Nat]
      BY <3>1, LegFacts DEF BundleName, TypeOK
    <3>3. bundles' = bundles \cup {new} /\ computed' = [computed EXCEPT ![l] = attempt[l[1]]]
      BY <1>4, <2>2 DEF Upload
    <3> HIDE DEF new
    <3> QED BY <1>4, <2>2, <3>1, <3>2, <3>3 DEF Upload, Goto, TypeOK, groupVars, Active
  <2> QED BY <2>1, <2>2
<1>5. ASSUME NEW l \in Legs, Enqueue(l) PROVE TypeOK'
  BY <1>5 DEF Enqueue, Goto, TypeOK, Active
<1>6. CASE Grant
  BY <1>6 DEF Grant, TypeOK, Active
<1>7. ASSUME NEW l \in Legs, Retrieve(l) PROVE TypeOK'
  <2>1. stage' \in [Legs -> Ended \cup Active] /\ why' \in [Legs -> Reasons \cup {None}]
    BY <1>7 DEF Retrieve, Fail, Goto, TypeOK, Active, Ended, Reasons
  <2>2. lock' \in Legs \cup {Foreign, None} /\ held' \in Nat
    BY <1>7 DEF Retrieve, Release, TypeOK
  <2> QED BY <1>7, <2>1, <2>2 DEF Retrieve, TypeOK
<1>8. ASSUME NEW l \in Legs, NEW p \in Partitions, PublishPartition(l, p) PROVE TypeOK'
  <2>1. /\ durable' = durable \cup {<<l[2], p>>} /\ l[2] \in Days
        /\ UNCHANGED <<attempt, stage, assigned, computed, why, bundles>>
        /\ UNCHANGED <<queue, lock, held, foreign, broken>>
    BY <1>8, LegFacts DEF PublishPartition, legVars, groupVars
  <2>2. durable' \subseteq Days \X Partitions
    BY <2>1 DEF TypeOK
  <2> QED BY <2>1, <2>2 DEF TypeOK
<1>9. ASSUME NEW l \in Legs, Verify(l) PROVE TypeOK'
  BY <1>9 DEF Verify, Goto, TypeOK, groupVars, Active
<1>16. ASSUME NEW l \in Legs, Delete(l) PROVE TypeOK'
  <2>1. stage' \in [Legs -> Ended \cup Active] /\ why' \in [Legs -> Reasons \cup {None}]
    BY <1>16 DEF Delete, Fail, Goto, TypeOK, Ended, Reasons
  <2>2. lock' \in Legs \cup {Foreign, None} /\ held' \in Nat
    BY <1>16 DEF Delete, Release, TypeOK
  <2> QED BY <1>16, <2>1, <2>2 DEF Delete, TypeOK
<1>10. ASSUME NEW l \in Legs, Break(l) PROVE TypeOK'
  <2>1. queue' \in Seq(Legs \cup {Foreign})
    BY <1>10, QueueType DEF Break
  <2> QED BY <1>10, <2>1 DEF Break, Release, Fail, Goto, TypeOK, Ended, Reasons
<1>11. CASE ForeignQueue
  BY <1>11 DEF ForeignQueue, TypeOK, legVars
<1>12. ASSUME NEW d \in Days, NEW p \in Partitions, ForeignPublish(d, p) PROVE TypeOK'
  BY <1>12 DEF ForeignPublish, TypeOK, legVars, groupVars
<1>13. CASE ForeignEnd
  BY <1>13 DEF ForeignEnd, Release, TypeOK, legVars
<1>14. CASE Tick
  <2> DEFINE Bundle == [name : Runs \X (0..MaxAttempts) \X Days, parts : SUBSET Partitions, age : Nat]
  <2>1. ASSUME NEW b \in Bundle PROVE [b EXCEPT !.age = @ + 1] \in Bundle
    <3>1. b.age + 1 \in Nat
      OBVIOUS
    <3> QED BY <3>1
  <2>2. bundles \subseteq Bundle
    BY DEF TypeOK
  <2> HIDE DEF Bundle
  <2>3. ASSUME NEW c \in bundles' PROVE c \in Bundle
    <3>1. PICK b \in bundles : c = [b EXCEPT !.age = @ + 1]
      BY <1>14 DEF Tick
    <3> QED BY <2>1, <2>2, <3>1
  <2>4. bundles' \subseteq Bundle
    BY <2>3
  <2>5. held' \in Nat
    BY <1>14 DEF Tick, TypeOK
  <2>6. UNCHANGED <<durable, attempt, stage, assigned, computed, why, queue, lock, foreign, broken>>
    BY <1>14 DEF Tick, legVars
  <2> QED BY <2>4, <2>5, <2>6 DEF TypeOK, Bundle
<1>15. CASE UNCHANGED vars
  BY <1>15 DEF vars, TypeOK, legVars, groupVars
<1> QED BY <1>1, <1>2, <1>3, <1>4, <1>5, <1>6, <1>7, <1>8, <1>9, <1>10, <1>11, <1>12, <1>13, <1>14,
           <1>15, <1>16 DEF Next, Actions, Proceed

-----------------------------------------------------------------------------
\* Partitions stay durable.
LEMMA Shrinks == [Next]_vars => \A d \in Days : Unfinished(d)' \subseteq Unfinished(d)
<1> SUFFICES ASSUME [Next]_vars PROVE durable \subseteq durable'
  BY DEF Unfinished
<1> QED
  BY DEF Next, Actions, Proceed, Dispatch, RerunAll, Validate, RerunFailed, StartCompute, Upload,
         Enqueue, Grant, Retrieve, PublishPartition, Verify, Delete, Break, ForeignQueue,
         ForeignPublish, ForeignEnd, Tick, vars

\* A new attempt of a run has no bundle yet.
LEMMA NewAttempt ==
  ASSUME TypeOK, BundleInv, NEW r \in Runs,
         attempt' = [attempt EXCEPT ![r] = @ + 1], bundles' = bundles
  PROVE  /\ \A l \in Legs : Stored(l)' = IF l[1] = r THEN {} ELSE Stored(l)
         /\ \A b \in bundles' : b.name[2] <= attempt'[b.name[1]]
         /\ attempt'[r] > 0
<1>1. attempt[r] \in Nat /\ attempt'[r] = attempt[r] + 1
  BY DEF TypeOK
<1>2. ASSUME NEW b \in bundles
      PROVE  /\ b.name[2] <= attempt[b.name[1]]
             /\ b.name[1] \in Runs /\ b.name[2] \in Int /\ attempt[b.name[1]] \in Int
  BY AcceleratedBatchAssumption DEF TypeOK, BundleInv
<1>3. ASSUME NEW l \in Legs PROVE Stored(l)' = IF l[1] = r THEN {} ELSE Stored(l)
  <2>1. CASE l[1] = r
    <3> SUFFICES ASSUME NEW b \in bundles, b.name = <<r, attempt'[r], l[2]>> PROVE FALSE
      BY <2>1 DEF Stored, BundleName
    <3>1. b.name[1] = r /\ b.name[2] = attempt'[r]
      OBVIOUS
    <3> QED BY <1>1, <1>2, <3>1
  <2>2. CASE l[1] # r
    BY <2>2, LegFacts DEF Stored, BundleName, TypeOK
  <2> QED BY <2>1, <2>2
<1>4. ASSUME NEW b \in bundles PROVE b.name[2] <= attempt'[b.name[1]]
  BY <1>1, <1>2 DEF TypeOK
<1> QED BY <1>1, <1>3, <1>4

\* Where neither attempts nor bundles change.
LEMMA SameStored ==
  ASSUME UNCHANGED <<attempt, bundles>> PROVE \A l \in Legs : Stored(l)' = Stored(l)
BY DEF Stored, BundleName

LEMMA Queues == TypeOK /\ QueueInv /\ [Next]_vars => QueueInv'
<1> SUFFICES ASSUME TypeOK, QueueInv, [Next]_vars PROVE QueueInv'
  OBVIOUS
<1> USE AcceleratedBatchAssumption DEF QueueInv, Holding
<1>0. ASSUME NEW r \in Runs, attempt[r] = 0 \/ HasEnded(r)
      PROVE  \A l \in Legs : l[1] = r => stage[l] \in Ended
  BY <1>0, LegFacts DEF HasEnded, Ended
<1>1. ASSUME NEW r \in Runs, Dispatch(r) \/ RerunAll(r) PROVE QueueInv'
  <2>1. Validate(r) /\ \A l \in Legs : l[1] = r => stage[l] \in Ended
    BY <1>0, <1>1 DEF Dispatch, RerunAll
  <2>2. attempt' = [attempt EXCEPT ![r] = @ + 1] /\ attempt[r] \in Nat
    BY <2>1 DEF Validate, TypeOK
  <2>3. \A l \in Legs : IF l[1] = r THEN /\ stage'[l] \in {"ready", "idle"}
                                        /\ stage[l] \notin {"queued"} \cup Holding
                                  ELSE stage'[l] = stage[l]
    BY <2>1 DEF Validate, Ended
  <2>4. UNCHANGED <<queue, lock, foreign>>
    BY <2>1 DEF Validate, groupVars
  <2>5. ASSUME NEW l \in Legs, attempt'[l[1]] = 0 PROVE stage'[l] = "idle"
    <3>1. l[1] # r /\ attempt'[l[1]] = attempt[l[1]]
      BY <2>2, <2>5, LegFacts DEF TypeOK
    <3> QED BY <2>3, <2>5, <3>1
  <2>6. \A l \in Legs : stage'[l] \in Holding <=> lock' = l
    BY <2>3, <2>4 DEF Ended
  <2>7. \A i \in DOMAIN queue' : queue'[i] \in Legs => stage'[queue'[i]] = "queued"
    BY <2>3, <2>4
  <2> QED BY <2>4, <2>5, <2>6, <2>7
<1>2. ASSUME NEW r \in Runs, RerunFailed(r) PROVE QueueInv'
  <2>1. \A l \in Legs : l[1] = r => stage[l] \in Ended
    BY <1>0, <1>2 DEF RerunFailed
  <2>2. attempt' = [attempt EXCEPT ![r] = @ + 1] /\ attempt[r] \in Nat
    BY <1>2 DEF RerunFailed, TypeOK
  <2>3. \A l \in Legs : IF l[1] = r THEN /\ stage'[l] \in {"ready", "waiting"} \cup Ended
                                        /\ stage[l] \notin {"queued"} \cup Holding
                                  ELSE stage'[l] = stage[l]
    BY <1>2, <2>1 DEF RerunFailed, Ended
  <2>4. UNCHANGED <<queue, lock, foreign>>
    BY <1>2 DEF RerunFailed, groupVars
  <2>5. ASSUME NEW l \in Legs, attempt'[l[1]] = 0 PROVE stage'[l] = "idle"
    <3>1. l[1] # r /\ attempt'[l[1]] = attempt[l[1]]
      BY <2>2, <2>5, LegFacts DEF TypeOK
    <3> QED BY <2>3, <2>5, <3>1
  <2>6. \A l \in Legs : stage'[l] \in Holding <=> lock' = l
    BY <2>3, <2>4 DEF Ended
  <2>7. \A i \in DOMAIN queue' : queue'[i] \in Legs => stage'[queue'[i]] = "queued"
    BY <2>3, <2>4
  <2> QED BY <2>4, <2>5, <2>6, <2>7
<1>3. ASSUME NEW l \in Legs, StartCompute(l) PROVE QueueInv'
  BY <1>3 DEF StartCompute, Goto, groupVars, TypeOK
<1>4. ASSUME NEW l \in Legs, Upload(l) PROVE QueueInv'
  <2>1. /\ stage[l] = "compute" /\ UNCHANGED <<attempt, queue, lock, foreign>>
        /\ \E x \in {"waiting", "failed"} : stage' = [stage EXCEPT ![l] = x]
    BY <1>4 DEF Upload, Goto, Fail, groupVars
  <2> QED BY <2>1 DEF TypeOK
<1>5. ASSUME NEW l \in Legs, Enqueue(l) PROVE QueueInv'
  <2>1. /\ stage[l] = "waiting" /\ UNCHANGED <<attempt, lock, foreign>>
        /\ stage' = [stage EXCEPT ![l] = "queued"]
    BY <1>5 DEF Enqueue, Goto
  <2>2. /\ DOMAIN queue' = 1..(Len(queue) + 1) /\ DOMAIN queue = 1..Len(queue) /\ Len(queue) \in Nat
        /\ \A i \in DOMAIN queue' : queue'[i] = IF i = Len(queue) + 1 THEN l ELSE queue[i]
    BY <1>5 DEF Enqueue, TypeOK
  <2>3. \A i \in DOMAIN queue : queue[i] # l
    BY <2>1
  <2>4. \A i, j \in DOMAIN queue' : queue'[i] = queue'[j] => i = j
    BY <2>2, <2>3
  <2>5. \A i \in DOMAIN queue' : queue'[i] \in Legs => stage'[queue'[i]] = "queued"
    BY <2>1, <2>2 DEF TypeOK
  <2>6. foreign' = 0 => lock' # Foreign /\ \A i \in DOMAIN queue' : queue'[i] # Foreign
    BY <2>1, <2>2
  <2> QED BY <2>1, <2>4, <2>5, <2>6 DEF TypeOK
<1>6. CASE Grant
  <2>1. /\ DOMAIN queue = 1..Len(queue) /\ Len(queue) \in Nat /\ 1 \in DOMAIN queue
        /\ DOMAIN queue' = 1..(Len(queue) - 1)
        /\ \A i \in DOMAIN queue' : queue'[i] = queue[i + 1] /\ i + 1 \in DOMAIN queue
        /\ Head(queue) = queue[1]
    BY <1>6 DEF Grant, TypeOK
  <2>2. /\ lock = None /\ lock' = queue[1] /\ UNCHANGED <<attempt, foreign>>
        /\ stage' = [l \in Legs |-> IF l = queue[1] THEN "retrieve" ELSE stage[l]]
    BY <1>6, <2>1 DEF Grant
  <2>3. \A i \in DOMAIN queue' : queue'[i] # queue[1]
    BY <2>1
  <2>4. \A i, j \in DOMAIN queue' : queue'[i] = queue'[j] => i = j
    BY <2>1
  <2>5. \A i \in DOMAIN queue' : queue'[i] \in Legs => stage'[queue'[i]] = "queued"
    BY <2>1, <2>2, <2>3
  <2>6. \A l \in Legs : stage'[l] \in Holding <=> lock' = l
    BY <2>1, <2>2
  <2>7. \A l \in Legs : attempt'[l[1]] = 0 => stage'[l] = "idle"
    BY <2>1, <2>2
  <2>8. foreign' = 0 => lock' # Foreign /\ \A i \in DOMAIN queue' : queue'[i] # Foreign
    BY <2>1, <2>2
  <2> QED BY <2>4, <2>5, <2>6, <2>7, <2>8
<1>7. ASSUME NEW l \in Legs, Retrieve(l) \/ Verify(l) \/ Delete(l) PROVE QueueInv'
  <2>1. /\ stage[l] \in Holding /\ UNCHANGED <<attempt, queue, foreign>>
        /\ \/ \E x \in {"publish", "delete"} : stage' = [stage EXCEPT ![l] = x] /\ lock' = lock
           \/ \E x \in {"failed", "done"} : stage' = [stage EXCEPT ![l] = x] /\ lock' = None
    BY <1>7 DEF Retrieve, Verify, Delete, Release, Goto, Fail, groupVars
  <2>2. \A k \in Legs : k # l => stage'[k] = stage[k]
    BY <2>1 DEF TypeOK
  <2>3. \A k \in Legs : attempt'[k[1]] = 0 => stage'[k] = "idle"
    BY <2>1, <2>2
  <2>4. \A i \in DOMAIN queue : queue[i] # l
    BY <2>1
  <2>5. \A k \in Legs : stage'[k] \in Holding <=> lock' = k
    BY <2>1, <2>2 DEF TypeOK
  <2>6. \A i \in DOMAIN queue' : queue'[i] \in Legs => stage'[queue'[i]] = "queued"
    BY <2>1, <2>2, <2>4
  <2>7. foreign' = 0 => lock' # Foreign /\ \A i \in DOMAIN queue' : queue'[i] # Foreign
    BY <2>1
  <2> QED BY <2>1, <2>3, <2>5, <2>6, <2>7
<1>8. ASSUME NEW l \in Legs, Break(l) PROVE QueueInv'
  <2>1. /\ stage' = [stage EXCEPT ![l] = "failed"] /\ UNCHANGED <<attempt, foreign>>
        /\ lock' = IF lock = l THEN None ELSE lock
        /\ stage[l] \in Active /\ LeaveQueue(l)
    BY <1>8 DEF Break, Fail, Goto, Release
  <2>2. /\ \A i \in DOMAIN queue' : queue'[i] # l /\ \E j \in DOMAIN queue : queue'[i] = queue[j]
        /\ \A i, j \in DOMAIN queue' : queue'[i] = queue'[j] => i = j
    <3>1. CASE UNCHANGED queue /\ \A i \in DOMAIN queue : queue[i] # l
      BY <3>1
    <3>2. ASSUME NEW n \in DOMAIN queue, queue[n] = l, queue' = RemoveAt(queue, n)
          PROVE  /\ \A i \in DOMAIN queue' : queue'[i] # l /\ \E j \in DOMAIN queue : queue'[i] = queue[j]
                 /\ \A i, j \in DOMAIN queue' : queue'[i] = queue'[j] => i = j
      <4>1. /\ DOMAIN queue = 1..Len(queue) /\ Len(queue) \in Nat
            /\ DOMAIN queue' = 1..(Len(queue) - 1)
            /\ \A j \in DOMAIN queue' : queue'[j] = IF j < n THEN queue[j] ELSE queue[j + 1]
        BY <3>2, Removed DEF TypeOK
      <4>2. \A j \in DOMAIN queue' : j \in DOMAIN queue /\ j + 1 \in DOMAIN queue
        BY <4>1
      <4> QED BY <3>2, <4>1, <4>2
    <3> QED BY <2>1, <3>1, <3>2 DEF LeaveQueue
  <2>3. \A k \in Legs : k # l => stage'[k] = stage[k]
    BY <2>1 DEF TypeOK
  <2>4. \A k \in Legs : attempt'[k[1]] = 0 => stage'[k] = "idle"
    BY <2>1, <2>3 DEF Active
  <2>5. \A k \in Legs : stage'[k] \in Holding <=> lock' = k
    BY <2>1, <2>3 DEF TypeOK
  <2>6. \A i \in DOMAIN queue' : queue'[i] \in Legs => stage'[queue'[i]] = "queued"
    BY <2>2, <2>3
  <2>7. foreign' = 0 => lock' # Foreign /\ \A i \in DOMAIN queue' : queue'[i] # Foreign
    BY <2>1, <2>2
  <2> QED BY <2>2, <2>4, <2>5, <2>6, <2>7
<1>9. CASE ForeignQueue
  <2>1. /\ foreign' # 0 /\ UNCHANGED <<attempt, stage, lock>>
        /\ \A i \in DOMAIN queue : queue[i] # Foreign
    BY <1>9 DEF ForeignQueue, legVars, TypeOK
  <2>2. /\ DOMAIN queue' = 1..(Len(queue) + 1) /\ DOMAIN queue = 1..Len(queue) /\ Len(queue) \in Nat
        /\ \A i \in DOMAIN queue' : queue'[i] = IF i = Len(queue) + 1 THEN Foreign ELSE queue[i]
    BY <1>9 DEF ForeignQueue, TypeOK
  <2>3. \A i, j \in DOMAIN queue' : queue'[i] = queue'[j] => i = j
    BY <2>1, <2>2
  <2>4. \A i \in DOMAIN queue' : queue'[i] \in Legs => stage'[queue'[i]] = "queued"
    BY <2>1, <2>2
  <2> QED BY <2>1, <2>3, <2>4
<1>10. CASE ForeignEnd
  BY <1>10 DEF ForeignEnd, Release, legVars
<1>11. CASE \/ \E l \in Legs, p \in Partitions : PublishPartition(l, p)
            \/ \E d \in Days, p \in Partitions : ForeignPublish(d, p)
            \/ Tick \/ UNCHANGED vars
  BY <1>11 DEF PublishPartition, ForeignPublish, Tick, vars, legVars, groupVars
<1> QED BY <1>1, <1>2, <1>3, <1>4, <1>5, <1>6, <1>7, <1>8, <1>9, <1>10, <1>11
        DEF Next, Actions, Proceed

LEMMA Bundles == BatchInv /\ [Next]_vars => BundleInv' /\ Accepted'
<1> SUFFICES ASSUME BatchInv, [Next]_vars PROVE BundleInv' /\ Accepted'
  OBVIOUS
<1> USE DEF BatchInv
<1>0. \A l \in Legs : Unfinished(l[2])' \subseteq Unfinished(l[2])
  BY Shrinks, LegFacts
<1>1. ASSUME NEW r \in Runs, Dispatch(r) \/ RerunAll(r) PROVE BundleInv' /\ Accepted'
  <2>1. Validate(r)
    BY <1>1 DEF Dispatch, RerunAll
  <2>2. /\ \A l \in Legs : Stored(l)' = IF l[1] = r THEN {} ELSE Stored(l)
        /\ \A b \in bundles' : b.name[2] <= attempt'[b.name[1]]
        /\ attempt'[r] > 0
    BY <2>1, NewAttempt DEF Validate
  <2>3. ASSUME NEW l \in Legs
        PROVE /\ stage'[l] # "idle" => Unfinished(l[2])' \subseteq assigned'[l]
              /\ \A b \in Stored(l)' : b.parts = assigned'[l]
              /\ stage'[l] \in {"ready", "compute"} => Stored(l)' = {}
              /\ why'[l] \notin {"coverage", "conflict"}
    <3>1. CASE l[1] = r
      <4>1. /\ stage'[l] \in {"ready", "idle"} /\ why'[l] = None
            /\ assigned'[l] = Unfinished(l[2])
        BY <2>1, <3>1 DEF Validate
      <4> QED BY <1>0, <2>2, <3>1, <4>1, AcceleratedBatchAssumption DEF Reasons
    <3>2. CASE l[1] # r
      <4>1. /\ attempt'[l[1]] = attempt[l[1]] /\ stage'[l] = stage[l]
            /\ assigned'[l] = assigned[l] /\ why'[l] = why[l]
        BY <2>1, <3>2, LegFacts DEF Validate, TypeOK
      <4> QED BY <1>0, <2>2, <3>2, <4>1 DEF BundleInv, Accepted
    <3> QED BY <3>1, <3>2
  <2> QED BY <2>2, <2>3 DEF BundleInv, Accepted
<1>2. ASSUME NEW r \in Runs, RerunFailed(r) PROVE BundleInv' /\ Accepted'
  <2>2. /\ \A l \in Legs : Stored(l)' = IF l[1] = r THEN {} ELSE Stored(l)
        /\ \A b \in bundles' : b.name[2] <= attempt'[b.name[1]]
        /\ attempt'[r] > 0
    BY <1>2, NewAttempt DEF RerunFailed
  <2>3. ASSUME NEW l \in Legs
        PROVE /\ stage'[l] # "idle" => Unfinished(l[2])' \subseteq assigned'[l]
              /\ \A b \in Stored(l)' : b.parts = assigned'[l]
              /\ stage'[l] \in {"ready", "compute"} => Stored(l)' = {}
              /\ why'[l] \notin {"coverage", "conflict"}
    <3>1. CASE l[1] = r
      <4>1. /\ stage'[l] # "idle" => stage[l] # "idle"
            /\ assigned'[l] = assigned[l] /\ why'[l] \in {why[l], None}
        BY <1>2, <3>1 DEF RerunFailed
      <4> QED BY <1>0, <2>2, <3>1, <4>1, AcceleratedBatchAssumption
              DEF Reasons, BundleInv, Accepted
    <3>2. CASE l[1] # r
      <4>1. /\ attempt'[l[1]] = attempt[l[1]] /\ stage'[l] = stage[l]
            /\ assigned'[l] = assigned[l] /\ why'[l] = why[l]
        BY <1>2, <3>2, LegFacts DEF RerunFailed, TypeOK
      <4> QED BY <1>0, <2>2, <3>2, <4>1 DEF BundleInv, Accepted
    <3> QED BY <3>1, <3>2
  <2> QED BY <2>2, <2>3 DEF BundleInv, Accepted
<1>3. ASSUME NEW l \in Legs, StartCompute(l) PROVE BundleInv' /\ Accepted'
  BY <1>0, <1>3, SameStored DEF StartCompute, Goto, BundleInv, Accepted, TypeOK
<1>4. ASSUME NEW l \in Legs, Upload(l) PROVE BundleInv' /\ Accepted'
  <2>1. Stored(l) = {} /\ stage[l] = "compute"
    BY <1>4 DEF Upload, BundleInv
  <2> DEFINE new == [name |-> BundleName(l), parts |-> assigned[l], age |-> 0]
  <2>2. /\ bundles' = bundles \cup {new}
        /\ stage' = [stage EXCEPT ![l] = "waiting"]
        /\ UNCHANGED <<attempt, assigned, why>>
    BY <1>4, <2>1 DEF Upload, Goto
  <2>3. new.name = <<l[1], attempt[l[1]], l[2]>> /\ new.parts = assigned[l]
    BY DEF BundleName
  <2>4. Stored(l)' = {new}
    BY <2>1, <2>2, <2>3 DEF Stored, BundleName
  <2>5. ASSUME NEW k \in Legs, k # l PROVE Stored(k)' = Stored(k)
    <3>1. k = <<k[1], k[2]>> /\ l = <<l[1], l[2]>>
      BY LegFacts
    <3>2. k[1] # l[1] \/ k[2] # l[2]
      BY <2>5, <3>1
    <3>3. <<k[1], attempt[k[1]], k[2]>> # <<l[1], attempt[l[1]], l[2]>>
      BY <3>2
    <3> QED BY <2>2, <2>3, <3>3 DEF Stored, BundleName
  <2>6. attempt[l[1]] \in Int
    BY LegFacts DEF TypeOK
  <2>7. \A b \in bundles' : b.name[2] <= attempt'[b.name[1]]
    BY <2>2, <2>3, <2>6 DEF BundleInv
  <2> HIDE DEF new
  <2>8. ASSUME NEW k \in Legs
        PROVE /\ stage'[k] # "idle" => Unfinished(k[2])' \subseteq assigned'[k]
              /\ \A b \in Stored(k)' : b.parts = assigned'[k]
              /\ stage'[k] \in {"ready", "compute"} => Stored(k)' = {}
              /\ why'[k] \notin {"coverage", "conflict"}
    <3>1. CASE k = l
      BY <1>0, <2>1, <2>2, <2>3, <2>4, <3>1 DEF BundleInv, Accepted, TypeOK
    <3>2. CASE k # l
      BY <1>0, <2>2, <2>5, <3>2 DEF BundleInv, Accepted, TypeOK
    <3> QED BY <3>1, <3>2
  <2> QED BY <2>7, <2>8 DEF BundleInv, Accepted
<1>5. ASSUME NEW l \in Legs, Enqueue(l) PROVE BundleInv' /\ Accepted'
  BY <1>0, <1>5, SameStored DEF Enqueue, Goto, BundleInv, Accepted, TypeOK
<1>6. CASE Grant
  <2>1. 1 \in DOMAIN queue /\ queue[1] = Head(queue)
    BY <1>6 DEF Grant, TypeOK
  <2>2. /\ UNCHANGED <<attempt, bundles, assigned, why>>
        /\ \A l \in Legs :
             stage'[l] = stage[l] \/ (stage'[l] = "retrieve" /\ stage[l] = "queued")
    BY <1>6, <2>1 DEF Grant, QueueInv
  <2> QED BY <1>0, <2>2, SameStored DEF BundleInv, Accepted
<1>7. ASSUME NEW l \in Legs, Retrieve(l) PROVE BundleInv' /\ Accepted'
  <2>1. \A b \in Stored(l) : Unfinished(l[2]) \subseteq b.parts
    BY <1>7 DEF Retrieve, BundleInv
  <2>2. \/ stage' = [stage EXCEPT ![l] = "publish"] /\ why' = why
        \/ /\ stage' = [stage EXCEPT ![l] = "failed"]
           /\ \E x \in {"expired", "missing"} : why' = [why EXCEPT ![l] = x]
    BY <1>7, <2>1 DEF Retrieve, Covers, Goto, Fail
  <2>3. UNCHANGED <<attempt, bundles, assigned>> /\ stage[l] = "retrieve"
    BY <1>7 DEF Retrieve
  <2>4. \A k \in Legs :
          /\ stage'[k] = stage[k] \/ (stage'[k] \in {"publish", "failed"} /\ stage[k] = "retrieve")
          /\ why'[k] \in {why[k], "expired", "missing"}
    BY <2>2, <2>3 DEF TypeOK
  <2> QED BY <1>0, <2>3, <2>4, SameStored DEF BundleInv, Accepted
<1>8. ASSUME NEW l \in Legs, NEW p \in Partitions, PublishPartition(l, p)
      PROVE  BundleInv' /\ Accepted'
  BY <1>0, <1>8, SameStored DEF PublishPartition, legVars, BundleInv, Accepted
<1>9. ASSUME NEW l \in Legs, Verify(l) PROVE BundleInv' /\ Accepted'
  BY <1>0, <1>9, SameStored DEF Verify, Goto, BundleInv, Accepted, TypeOK
<1>10. ASSUME NEW l \in Legs, Delete(l) PROVE BundleInv' /\ Accepted'
  <2>1. \/ stage' = [stage EXCEPT ![l] = "done"] /\ why' = why
        \/ stage' = [stage EXCEPT ![l] = "failed"] /\ why' = [why EXCEPT ![l] = "deleted"]
    BY <1>10 DEF Delete, Goto, Fail
  <2>2. UNCHANGED <<attempt, assigned>> /\ bundles' \subseteq bundles /\ stage[l] = "delete"
    BY <1>10 DEF Delete
  <2>3. \A k \in Legs : Stored(k)' \subseteq Stored(k)
    BY <2>2 DEF Stored, BundleName
  <2> QED BY <1>0, <2>1, <2>2, <2>3 DEF BundleInv, Accepted, TypeOK
<1>11. ASSUME NEW l \in Legs, Break(l) PROVE BundleInv' /\ Accepted'
  <2>1. stage[l] # "idle" /\ UNCHANGED <<attempt, bundles, assigned>>
    BY <1>11 DEF Break, Active
  <2> QED BY <1>0, <1>11, <2>1, SameStored DEF Break, Fail, Goto, BundleInv, Accepted, TypeOK
<1>12. CASE ForeignQueue \/ ForeignEnd \/ UNCHANGED vars
  BY <1>0, <1>12, SameStored
     DEF ForeignQueue, ForeignEnd, vars, legVars, BundleInv, Accepted
<1>13. ASSUME NEW d \in Days, NEW p \in Partitions, ForeignPublish(d, p)
       PROVE  BundleInv' /\ Accepted'
  BY <1>0, <1>13, SameStored DEF ForeignPublish, legVars, BundleInv, Accepted
<1>14. CASE Tick
  <2>1. UNCHANGED <<attempt, assigned, stage, why>>
    BY <1>14 DEF Tick, legVars
  <2>2. ASSUME NEW c \in bundles'
        PROVE  \E b \in bundles : c.name = b.name /\ c.parts = b.parts
    <3>1. PICK b \in bundles : c = [b EXCEPT !.age = @ + 1]
      BY <1>14 DEF Tick
    <3>2. b \in [name : Runs \X (0..MaxAttempts) \X Days, parts : SUBSET Partitions, age : Nat]
      BY DEF TypeOK
    <3> QED BY <3>1, <3>2
  <2>3. ASSUME NEW k \in Legs
        PROVE  \A c \in Stored(k)' : \E b \in Stored(k) : c.parts = b.parts
    BY <2>1, <2>2 DEF Stored, BundleName
  <2> QED BY <1>0, <2>1, <2>2, <2>3 DEF BundleInv, Accepted
<1> QED BY <1>1, <1>2, <1>3, <1>4, <1>5, <1>6, <1>7, <1>8, <1>9, <1>10, <1>11, <1>12, <1>13, <1>14
        DEF Next, Actions, Proceed

\* The attempts of a run, and those in which its legs were computed.
LEMMA Attempts == BatchInv /\ [Next]_vars => AttemptInv'
<1> SUFFICES ASSUME BatchInv, [Next]_vars PROVE AttemptInv'
  OBVIOUS
<1> USE DEF BatchInv
<1>0. \A l \in Legs : attempt[l[1]] \in Nat /\ computed[l] \in Nat
  BY LegFacts, AcceleratedBatchAssumption DEF TypeOK
<1>1. ASSUME NEW r \in Runs, Dispatch(r) \/ RerunAll(r) \/ RerunFailed(r) PROVE AttemptInv'
  <2>1. attempt' = [attempt EXCEPT ![r] = @ + 1]
    BY <1>1 DEF Dispatch, RerunAll, Validate, RerunFailed
  <2> SUFFICES ASSUME NEW l \in Legs
               PROVE  /\ computed'[l] <= attempt'[l[1]]
                      /\ stage'[l] \in {"waiting", "queued"} \cup Holding => computed'[l] > 0
                      /\ why'[l] = "missing" =>
                           stage'[l] = "failed" /\ computed'[l] \in 1..(attempt'[l[1]] - 1)
    BY DEF AttemptInv
  <2>2. attempt'[l[1]] \in {attempt[l[1]], attempt[l[1]] + 1}
    BY <2>1, LegFacts DEF TypeOK
  <2>3. CASE Validate(r) /\ l[1] = r
    BY <1>0, <2>2, <2>3, AcceleratedBatchAssumption DEF Validate, Holding, Reasons
  <2>4. CASE Validate(r) /\ l[1] # r
    <3>1. /\ stage'[l] = stage[l] /\ computed'[l] = computed[l] /\ why'[l] = why[l]
      BY <2>4 DEF Validate
    <3> QED BY <1>0, <2>2, <3>1 DEF AttemptInv
  <2>5. CASE RerunFailed(r)
    <3>1. computed'[l] = computed[l]
      BY <2>5 DEF RerunFailed
    <3>2. CASE l[1] = r /\ stage[l] = "failed"
      <4>1. /\ stage'[l] = IF computed[l] = 0 THEN "ready" ELSE "waiting"
            /\ why'[l] = None
        BY <2>5, <3>2 DEF RerunFailed
      <4> QED BY <1>0, <2>2, <3>1, <4>1, AcceleratedBatchAssumption
              DEF AttemptInv, Holding, Reasons
    <3>3. CASE ~(l[1] = r /\ stage[l] = "failed")
      <4>1. stage'[l] = stage[l] /\ why'[l] = why[l]
        BY <2>5, <3>3 DEF RerunFailed
      <4> QED BY <1>0, <2>2, <3>1, <4>1 DEF AttemptInv
    <3> QED BY <3>2, <3>3
  <2> QED BY <1>1, <2>3, <2>4, <2>5 DEF Dispatch, RerunAll
<1>2. ASSUME NEW l \in Legs, Upload(l) PROVE AttemptInv'
  <2>1. /\ stage[l] = "compute" /\ attempt[l[1]] > 0 /\ why[l] # "missing"
        /\ attempt' = attempt /\ Stored(l) = {}
    BY <1>0, <1>2 DEF Upload, QueueInv, AttemptInv, BundleInv
  <2>2. /\ computed' = [computed EXCEPT ![l] = attempt[l[1]]] /\ why' = why
        /\ stage' = [stage EXCEPT ![l] = "waiting"]
    BY <1>2, <2>1 DEF Upload, Goto
  <2> QED BY <1>0, <2>1, <2>2 DEF AttemptInv, TypeOK
<1>3. ASSUME NEW l \in Legs, Retrieve(l) PROVE AttemptInv'
  <2>1. /\ UNCHANGED <<computed, attempt>> /\ stage[l] = "retrieve"
        /\ computed[l] > 0 /\ computed[l] <= attempt[l[1]]
    BY <1>3 DEF Retrieve, AttemptInv, Holding
  <2>2. /\ stage'[l] \in {"publish", "failed"}
        /\ why'[l] # why[l] => stage'[l] = "failed"
        /\ why'[l] = "missing" /\ why[l] # "missing" => computed[l] # attempt[l[1]]
    BY <1>3 DEF Retrieve, Goto, Fail, TypeOK
  <2>3. \A k \in Legs \ {l} : stage'[k] = stage[k] /\ why'[k] = why[k]
    BY <1>3 DEF Retrieve, Goto, Fail, TypeOK
  <2>4. why[l] # "missing"
    BY <2>1 DEF AttemptInv
  <2>5. ASSUME NEW k \in Legs
        PROVE  /\ computed'[k] <= attempt'[k[1]]
               /\ stage'[k] \in {"waiting", "queued"} \cup Holding => computed'[k] > 0
               /\ why'[k] = "missing" =>
                    stage'[k] = "failed" /\ computed'[k] \in 1..(attempt'[k[1]] - 1)
    <3>1. CASE k = l
      BY <1>0, <2>1, <2>2, <2>4, <3>1
    <3>2. CASE k # l
      BY <2>1, <2>3, <3>2 DEF AttemptInv
    <3> QED BY <3>1, <3>2
  <2> QED BY <2>5 DEF AttemptInv
<1>4. ASSUME UNCHANGED <<computed, attempt>>,
             \A k \in Legs :
               /\ why'[k] = "missing" => why[k] = "missing" /\ stage'[k] = stage[k]
               /\ stage'[k] \in {"waiting", "queued"} \cup Holding =>
                    stage[k] \in {"waiting", "queued"} \cup Holding
      PROVE  AttemptInv'
  BY <1>4 DEF AttemptInv
<1>5. ASSUME NEW l \in Legs, StartCompute(l) \/ Enqueue(l) \/ Verify(l) PROVE AttemptInv'
  <2>1. /\ UNCHANGED <<computed, attempt, why>> /\ stage[l] # "failed"
        /\ \/ stage'[l] = "compute"
           \/ stage[l] \in {"waiting", "queued"} \cup Holding
        /\ \A k \in Legs \ {l} : stage'[k] = stage[k]
    BY <1>5 DEF StartCompute, Enqueue, Verify, Goto, Holding, TypeOK
  <2> QED BY <1>4, <2>1 DEF AttemptInv, Holding
<1>6. CASE Grant
  <2>1. Head(queue) = queue[1] /\ 1 \in DOMAIN queue
    BY <1>6 DEF Grant, TypeOK
  <2>2. /\ UNCHANGED <<computed, attempt, why>>
        /\ \A k \in Legs : stage'[k] = stage[k] \/ stage[k] = "queued"
    BY <1>6, <2>1 DEF Grant, QueueInv
  <2> QED BY <1>4, <2>2 DEF AttemptInv
<1>7. ASSUME NEW l \in Legs, Delete(l) \/ Break(l) PROVE AttemptInv'
  <2>1. /\ UNCHANGED <<computed, attempt>>
        /\ stage'[l] \in Ended /\ stage[l] # "failed"
        /\ why'[l] \in {why[l], "deleted", "broken"}
        /\ \A k \in Legs \ {l} : stage'[k] = stage[k] /\ why'[k] = why[k]
    BY <1>7 DEF Delete, Break, Goto, Fail, Active, Ended, TypeOK
  <2>2. why[l] # "missing"
    BY <2>1 DEF AttemptInv
  <2> QED BY <1>4, <2>1, <2>2 DEF Ended, Holding
<1>8. CASE \/ \E l \in Legs, p \in Partitions : PublishPartition(l, p)
           \/ ForeignQueue \/ (\E d \in Days, p \in Partitions : ForeignPublish(d, p))
           \/ ForeignEnd \/ Tick \/ UNCHANGED vars
  BY <1>4, <1>8 DEF PublishPartition, ForeignQueue, ForeignPublish, ForeignEnd, Tick, vars, legVars
<1> QED BY <1>1, <1>2, <1>3, <1>5, <1>6, <1>7, <1>8 DEF Next, Actions, Proceed

\* The types are those of TypeOK.
THEOREM BatchTypes == Spec => []TypeOK
<1> QED BY Initially, Types, PTL DEF Spec, BatchInv

\* The invariant that the theorems below rest on: types, who is where in the queue,
\* and what the bundle of a leg holds.
THEOREM BatchInvariant == Spec => []BatchInv
<1>1. BatchInv /\ [Next]_vars => BatchInv'
  BY Types, Queues, Bundles, Attempts DEF BatchInv
<1> QED BY Initially, <1>1, PTL DEF Spec

\* command_publish_staged_day, upload-artifact: no publisher finds that its bundle
\* leaves out an unfinished partition, no run stores a bundle twice, and only the
\* bundle of an attempt before the last is looked for and not there.
THEOREM BundlesAreComplete == Spec => []NeverRefused
<1>1. BatchInv => NeverRefused
  BY DEF BatchInv, Accepted, AttemptInv, NeverRefused
<1> QED BY BatchInvariant, <1>1, PTL

-----------------------------------------------------------------------------
(***************************************************************************)
(* Bundles are young enough.                                               *)
(*                                                                         *)
(* A bundle does not age before its publisher queues.  From then on its    *)
(* age, what the job that has the group may still take and what those      *)
(* ahead in the queue may take are together at most what all other legs    *)
(* may take: whoever leaves the queue can only make it less.               *)
(***************************************************************************)
Ahead(i) == (i - 1) * PublishLimit
Most == (Cardinality(Legs) - 1) * PublishLimit
Rest == IF lock = None THEN 0 ELSE PublishLimit - held

\* The bundle is there, unless it is one of an earlier attempt.
Fresh(l) == computed[l] = attempt[l[1]] => Stored(l) # {}

InWaiting(l) == stage[l] = "waiting" => Fresh(l) /\ \A b \in Stored(l) : b.age = 0

InQueue(i) == /\ Fresh(queue[i])
              /\ \A b \in Stored(queue[i]) : b.age + Rest + Ahead(i) <= Most

AtWork(l) == stage[l] \in Holding =>
               /\ IF stage[l] = "retrieve" THEN Fresh(l) ELSE Stored(l) # {}
               /\ \A b \in Stored(l) : b.age + (PublishLimit - held) <= Most + PublishLimit

InTime == /\ held <= PublishLimit
          /\ \A l \in Legs : InWaiting(l) /\ AtWork(l)
          /\ \A i \in DOMAIN queue : InQueue(i)

TimeInv == foreign = 0 => InTime /\ \A l \in Legs : why[l] \notin {"expired", "deleted"}

LEMMA LegsAreFinite == IsFiniteSet(Legs) /\ Cardinality(Legs) \in Nat
<1>1. IsFiniteSet(Runs \X Days)
  BY AcceleratedBatchAssumption, FS_Product
<1>2. Legs \in SUBSET (Runs \X Days)
  BY DEF Legs
<1> QED BY <1>1, <1>2, FS_Subset, FS_CardinalityType

LEMMA Multiply == ASSUME NEW a \in Int, NEW b \in Int, NEW c \in Nat, a <= b
                  PROVE  a * c \in Int /\ b * c \in Int /\ a * c <= b * c
<1>1. (b - a) * c >= 0
  OBVIOUS
<1>2. (b - a) * c = (b * c) - (a * c)
  OBVIOUS
<1> QED BY <1>1, <1>2

LEMMA Successor == ASSUME NEW a \in Int, NEW c \in Nat
                   PROVE  a * c = ((a - 1) * c) + c
OBVIOUS

LEMMA AheadFacts ==
  /\ \A i \in Nat \ {0} : Ahead(i) \in Nat /\ Ahead(i + 1) = Ahead(i) + PublishLimit
  /\ Ahead(1) = 0
  /\ Most \in Int /\ Most + PublishLimit < Retention
  /\ PublishLimit \in Nat \ {0} /\ Retention \in Nat
<1> USE AcceleratedBatchAssumption
<1>1. ASSUME NEW i \in Nat \ {0}
      PROVE  Ahead(i) \in Nat /\ Ahead(i + 1) = Ahead(i) + PublishLimit
  <2>1. i - 1 \in Int /\ i \in Int /\ 0 <= i - 1 /\ (i + 1) - 1 = i
    OBVIOUS
  <2>2. 0 * PublishLimit <= (i - 1) * PublishLimit /\ (i - 1) * PublishLimit \in Int
    BY <2>1, Multiply
  <2>3. i * PublishLimit = ((i - 1) * PublishLimit) + PublishLimit
    BY <2>1, Successor
  <2> QED BY <2>1, <2>2, <2>3 DEF Ahead
<1>2. Ahead(1) = 0
  BY DEF Ahead
<1>3. Most \in Int /\ Most + PublishLimit < Retention
  <2>1. Cardinality(Legs) * PublishLimit = Most + PublishLimit
    BY LegsAreFinite, Successor DEF Most
  <2>2. Most \in Int
    BY LegsAreFinite DEF Most
  <2> QED BY <2>1, <2>2
<1> QED BY <1>1, <1>2, <1>3

\* A leg that is about to queue finds at most all other legs in the queue or at
\* work.
LEMMA Crowd ==
  ASSUME BatchInv, foreign = 0, held <= PublishLimit, NEW l \in Legs, stage[l] = "waiting"
  PROVE  Rest + Ahead(Len(queue) + 1) <= Most
<1> USE DEF BatchInv, QueueInv, Holding
<1> DEFINE others == Legs \ {l}
           n == IF lock = None THEN Len(queue) ELSE Len(queue) + 1
           f == [i \in 1..n |-> IF i <= Len(queue) THEN queue[i] ELSE lock]
<1>1. /\ Len(queue) \in Nat /\ DOMAIN queue = 1..Len(queue)
      /\ \A i \in DOMAIN queue : queue[i] \in Legs
  BY DEF TypeOK
<1>2. lock # None => lock \in Legs
  BY DEF TypeOK
<1>3. IsFiniteSet(others) /\ Cardinality(others) = Cardinality(Legs) - 1
  BY LegsAreFinite, FS_RemoveElement
<1>4. n \in Nat
  BY <1>1
<1>5. ASSUME NEW i \in 1..n PROVE f[i] \in others
  BY <1>1, <1>2, <1>5
<1>6. ASSUME NEW i \in 1..n, NEW j \in 1..n, f[i] = f[j] PROVE i = j
  <2>1. \A k \in DOMAIN queue : lock # None => queue[k] # lock
    BY <1>1, <1>2
  <2> QED BY <1>1, <1>6, <2>1
<1>7. f \in Injection(1..n, others)
  BY <1>5, <1>6 DEF Injection, IsInjective
<1> HIDE DEF f, others
<1>8. Cardinality(1..n) <= Cardinality(others)
  BY <1>3, <1>7, FS_Injection
<1>9. n <= Cardinality(Legs) - 1
  <2> HIDE DEF n
  <2>1. Cardinality(1..n) = IF 1 > n THEN 0 ELSE n - 1 + 1
    BY <1>4, FS_Interval
  <2>2. Cardinality(others) \in Nat
    BY <1>3, FS_CardinalityType
  <2> QED BY <1>3, <1>4, <1>8, <2>1, <2>2, LegsAreFinite
<1>10. Ahead(n + 1) <= Most
  <2> HIDE DEF n
  <2>1. n * PublishLimit <= (Cardinality(Legs) - 1) * PublishLimit
    BY <1>4, <1>9, Multiply, LegsAreFinite, AcceleratedBatchAssumption
  <2>2. (n + 1) - 1 = n
    BY <1>4
  <2> QED BY <2>1, <2>2 DEF Ahead, Most
<1>11. held \in Nat /\ PublishLimit \in Nat /\ Most \in Int
  BY AheadFacts DEF TypeOK
<1>12. CASE lock = None
  <2>1. n = Len(queue) /\ Rest = 0
    BY <1>12 DEF Rest
  <2> HIDE DEF n
  <2>2. n + 1 \in Nat \ {0}
    BY <1>4
  <2>3. Ahead(n + 1) \in Nat
    BY <2>2, AheadFacts
  <2> QED BY <1>10, <1>11, <2>1, <2>3
<1>13. CASE lock # None
  <2>1. n = Len(queue) + 1 /\ Rest = PublishLimit - held
    BY <1>13 DEF Rest
  <2> HIDE DEF n
  <2>2. n \in Nat \ {0}
    BY <1>1, <2>1
  <2>3. Ahead(n + 1) = Ahead(n) + PublishLimit /\ Ahead(n) \in Nat
    BY <2>2, AheadFacts
  <2> QED BY <1>10, <1>11, <2>1, <2>3
<1> QED BY <1>12, <1>13

LEMMA Ages ==
  ASSUME TypeOK
  PROVE  /\ \A b \in bundles : b.age \in Nat
         /\ \A l : \A b \in Stored(l) : b.age \in Nat
         /\ \A i \in DOMAIN queue : i \in Nat \ {0}
         /\ held \in Nat /\ Rest \in Int
<1>1. \A b \in bundles : b.age \in Nat
  BY DEF TypeOK
<1>2. \A l : Stored(l) \subseteq bundles
  BY DEF Stored
<1>3. DOMAIN queue = 1..Len(queue) /\ Len(queue) \in Nat
  BY DEF TypeOK
<1>4. held \in Nat /\ Rest \in Int
  BY AheadFacts DEF TypeOK, Rest
<1> QED BY <1>1, <1>2, <1>3, <1>4

\* What a step that leaves the queue and the group alone, and touches some legs
\* that do not queue, has to show.
LEMMA Frame ==
  ASSUME BatchInv, InTime, foreign = 0, UNCHANGED <<queue, lock, held>>,
         NEW K \in SUBSET Legs,
         \A k \in Legs \ K : /\ stage'[k] = stage[k] /\ computed'[k] = computed[k]
                             /\ attempt'[k[1]] = attempt[k[1]] /\ Stored(k)' = Stored(k),
         \A k \in K : stage[k] # "queued" /\ InWaiting(k)' /\ AtWork(k)'
  PROVE  InTime'
<1>1. ASSUME NEW k \in Legs PROVE InWaiting(k)' /\ AtWork(k)'
  BY DEF InTime, InWaiting, AtWork, Fresh
<1>2. ASSUME NEW i \in DOMAIN queue' PROVE InQueue(i)'
  <2>1. queue[i] \in Legs \ K
    BY DEF BatchInv, QueueInv, TypeOK
  <2> QED BY <2>1 DEF InTime, InQueue, Fresh, Rest
<1> QED BY <1>1, <1>2 DEF InTime

\* A step of a leg that gives the group back, or does not have it.
LEMMA Leaving ==
  ASSUME BatchInv, InTime, foreign = 0, NEW l \in Legs,
         \A k \in Legs \ {l} : stage'[k] = stage[k] /\ Stored(k)' = Stored(k),
         UNCHANGED <<computed, attempt>>,
         stage'[l] \in Ended,
         \/ UNCHANGED <<lock, held>>
         \/ lock = l /\ lock' = None /\ held' = 0,
         \/ UNCHANGED queue /\ \A i \in DOMAIN queue : queue[i] # l
         \/ \E n \in DOMAIN queue : queue[n] = l /\ queue' = RemoveAt(queue, n)
  PROVE  InTime'
<1> USE DEF BatchInv
<1>1. ASSUME NEW k \in Legs PROVE InWaiting(k)' /\ AtWork(k)'
  <2>1. CASE k = l
    BY <2>1 DEF InWaiting, AtWork, Ended, Holding
  <2>2. CASE k # l
    <3>1. stage[k] \in Holding => UNCHANGED held
      BY <2>2 DEF QueueInv
    <3> QED BY <2>2, <3>1 DEF InTime, InWaiting, AtWork, Fresh
  <2> QED BY <2>1, <2>2
<1>2. Rest' <= Rest /\ Rest' \in Int /\ held' <= PublishLimit
  BY Ages, AheadFacts, AcceleratedBatchAssumption DEF Rest, InTime
<1>3. ASSUME NEW i \in DOMAIN queue'
      PROVE  \E j \in DOMAIN queue : queue'[i] = queue[j] /\ queue[j] # l /\ Ahead(i) <= Ahead(j)
  <2>1. CASE UNCHANGED queue /\ \A j \in DOMAIN queue : queue[j] # l
    BY <2>1, Ages, AheadFacts
  <2>2. ASSUME NEW n \in DOMAIN queue, queue[n] = l, queue' = RemoveAt(queue, n)
        PROVE  \E j \in DOMAIN queue : queue'[i] = queue[j] /\ queue[j] # l /\ Ahead(i) <= Ahead(j)
    <3>1. /\ DOMAIN queue = 1..Len(queue) /\ Len(queue) \in Nat
          /\ DOMAIN queue' = 1..(Len(queue) - 1)
          /\ queue'[i] = IF i < n THEN queue[i] ELSE queue[i + 1]
      BY <2>2, Removed DEF TypeOK
    <3>2. i \in Nat \ {0} /\ i \in DOMAIN queue /\ i + 1 \in DOMAIN queue /\ n \in Nat
      BY <3>1
    <3>3. Ahead(i) <= Ahead(i) /\ Ahead(i) <= Ahead(i + 1)
      BY <3>2, AheadFacts
    <3>4. \A j \in DOMAIN queue : queue[j] = l => j = n
      BY <2>2 DEF QueueInv
    <3>5. CASE i < n
      BY <3>1, <3>2, <3>3, <3>4, <3>5
    <3>6. CASE ~(i < n)
      BY <3>1, <3>2, <3>3, <3>4, <3>6
    <3> QED BY <3>5, <3>6
  <2> QED BY <2>1, <2>2
<1>4. DOMAIN queue' \subseteq Nat \ {0}
  <2>1. queue' \in Seq(Legs \cup {Foreign})
    BY Removed DEF TypeOK
  <2> QED BY <2>1
<1>5. ASSUME NEW i \in DOMAIN queue' PROVE InQueue(i)'
  <2>1. PICK j \in DOMAIN queue :
          queue'[i] = queue[j] /\ queue[j] # l /\ Ahead(i) <= Ahead(j)
    BY <1>3
  <2>2. InQueue(j) /\ queue[j] \in Legs \ {l}
    BY <2>1 DEF InTime, QueueInv, TypeOK
  <2>3. PICK k \in Legs \ {l} : k = queue[j] /\ k = queue'[i]
    BY <2>1, <2>2
  <2>4. Ahead(i) \in Nat /\ Ahead(j) \in Nat
    BY <1>4, <2>1, Ages, AheadFacts
  <2>5. /\ computed[k] = attempt[k[1]] => Stored(k)' # {}
        /\ \A b \in Stored(k)' : b.age + Rest' + Ahead(i) <= Most
    BY <1>2, <2>1, <2>2, <2>3, <2>4, Ages, AheadFacts DEF InQueue, Fresh
  <2> QED BY <2>3, <2>5 DEF InQueue, Fresh, Stored, BundleName
<1> QED BY <1>1, <1>2, <1>5 DEF InTime

LEMMA StartsInTime ==
  ASSUME BatchInv, TimeInv, foreign = 0, NEW r \in Runs, Dispatch(r) \/ RerunAll(r) \/ RerunFailed(r)
  PROVE  InTime' /\ \A l \in Legs : why'[l] \notin {"expired", "deleted"}
<1> USE DEF BatchInv
<1> DEFINE K == {l \in Legs : l[1] = r}
<1>1. /\ attempt' = [attempt EXCEPT ![r] = @ + 1]
      /\ UNCHANGED <<bundles, queue, lock, held>>
  BY DEF Dispatch, RerunAll, Validate, RerunFailed, groupVars
<1>2. \A l \in Legs : Stored(l)' = IF l[1] = r THEN {} ELSE Stored(l)
  BY <1>1, NewAttempt
<1>3. ASSUME NEW l \in Legs \ K
      PROVE  /\ stage'[l] = stage[l] /\ computed'[l] = computed[l]
             /\ attempt'[l[1]] = attempt[l[1]] /\ Stored(l)' = Stored(l)
             /\ why'[l] = why[l]
  <2>1. attempt'[l[1]] = attempt[l[1]]
    BY <1>1, LegFacts DEF TypeOK
  <2>2. stage'[l] = stage[l] /\ computed'[l] = computed[l] /\ why'[l] = why[l]
    BY DEF Dispatch, RerunAll, Validate, RerunFailed
  <2> QED BY <1>2, <2>1, <2>2
<1>4. ASSUME NEW l \in K
      PROVE  /\ stage[l] # "queued" /\ InWaiting(l)' /\ AtWork(l)'
             /\ why'[l] \in {why[l], None}
  <2>1. stage[l] \in Ended
    BY LegFacts DEF Dispatch, RerunAll, RerunFailed, HasEnded, QueueInv, Ended
  <2>2. stage'[l] \notin Holding /\ why'[l] \in {why[l], None}
    BY <2>1 DEF Dispatch, RerunAll, Validate, RerunFailed, Ended, Holding
  <2>3. attempt'[r] = attempt[r] + 1 /\ attempt[r] \in Nat
    BY <1>1 DEF TypeOK
  <2>4. computed'[l] \in {computed[l], 0} /\ computed[l] \in Nat /\ computed[l] <= attempt[r]
    BY AcceleratedBatchAssumption DEF Dispatch, RerunAll, Validate, RerunFailed, AttemptInv, TypeOK
  <2>5. computed'[l] # attempt'[l[1]]
    BY <2>3, <2>4
  <2> QED BY <1>2, <2>1, <2>2, <2>5 DEF InWaiting, AtWork, Fresh, Ended
<1>5. InTime'
  <2>1. K \in SUBSET Legs
    OBVIOUS
  <2> HIDE DEF K
  <2> QED BY <1>1, <1>3, <1>4, <2>1, Frame DEF TimeInv
<1> QED BY <1>3, <1>4, <1>5, AcceleratedBatchAssumption DEF TimeInv, Reasons

LEMMA UploadsInTime ==
  ASSUME BatchInv, TimeInv, foreign = 0, NEW l \in Legs, Upload(l)
  PROVE  InTime' /\ why' = why
<1> USE DEF BatchInv
<1>1. Stored(l) = {} /\ stage[l] = "compute"
  BY DEF Upload, BundleInv
<1> DEFINE new == [name |-> BundleName(l), parts |-> assigned[l], age |-> 0]
<1>2. /\ bundles' = bundles \cup {new} /\ stage' = [stage EXCEPT ![l] = "waiting"]
      /\ computed' = [computed EXCEPT ![l] = attempt[l[1]]]
      /\ UNCHANGED <<attempt, why, queue, lock, held>>
  BY <1>1 DEF Upload, Goto, groupVars
<1>3. new.name = <<l[1], attempt[l[1]], l[2]>> /\ new.age = 0
  BY DEF BundleName
<1>4. Stored(l)' = {new}
  BY <1>1, <1>2, <1>3 DEF Stored, BundleName
<1>5. ASSUME NEW k \in Legs, k # l PROVE Stored(k)' = Stored(k)
  <2>1. k = <<k[1], k[2]>> /\ l = <<l[1], l[2]>>
    BY LegFacts
  <2>2. <<k[1], attempt[k[1]], k[2]>> # <<l[1], attempt[l[1]], l[2]>>
    BY <1>5, <2>1
  <2> QED BY <1>2, <1>3, <2>2 DEF Stored, BundleName
<1> HIDE DEF new
<1>6. stage'[l] = "waiting" /\ \A k \in Legs \ {l} : stage'[k] = stage[k] /\ computed'[k] = computed[k]
  BY <1>2 DEF TypeOK
<1>7. InWaiting(l)' /\ AtWork(l)'
  BY <1>3, <1>4, <1>6 DEF InWaiting, AtWork, Fresh, Holding
<1>8. /\ {l} \in SUBSET Legs
      /\ \A k \in {l} : stage[k] # "queued" /\ InWaiting(k)' /\ AtWork(k)'
      /\ \A k \in Legs \ {l} : /\ stage'[k] = stage[k] /\ computed'[k] = computed[k]
                               /\ attempt'[k[1]] = attempt[k[1]] /\ Stored(k)' = Stored(k)
  BY <1>1, <1>2, <1>5, <1>6, <1>7
<1> QED BY <1>2, <1>8, Frame DEF TimeInv

LEMMA QueuesInTime ==
  ASSUME BatchInv, TimeInv, foreign = 0, NEW l \in Legs, Enqueue(l)
  PROVE  InTime' /\ why' = why
<1> USE DEF BatchInv, TimeInv
<1>1. /\ stage[l] = "waiting" /\ stage' = [stage EXCEPT ![l] = "queued"]
      /\ UNCHANGED <<attempt, computed, why, bundles, lock, held>>
  BY DEF Enqueue, Goto
<1>2. /\ DOMAIN queue' = 1..(Len(queue) + 1) /\ DOMAIN queue = 1..Len(queue) /\ Len(queue) \in Nat
      /\ \A i \in DOMAIN queue' : queue'[i] = IF i = Len(queue) + 1 THEN l ELSE queue[i]
  BY DEF Enqueue, TypeOK
<1>3. \A k \in Legs : Stored(k)' = Stored(k)
  BY <1>1, SameStored
<1>4. ASSUME NEW k \in Legs PROVE InWaiting(k)' /\ AtWork(k)'
  <2>1. stage'[k] = IF k = l THEN "queued" ELSE stage[k]
    BY <1>1 DEF TypeOK
  <2> QED BY <1>1, <1>3, <2>1 DEF InTime, InWaiting, AtWork, Fresh, Holding
<1>5. ASSUME NEW i \in DOMAIN queue' PROVE InQueue(i)'
  <2>1. CASE i = Len(queue) + 1
    <3>0. i \in Nat \ {0} /\ held <= PublishLimit
      BY <1>2, <2>1 DEF InTime
    <3>9. Rest + Ahead(Len(queue) + 1) <= Most
      BY <1>1, <3>0, Crowd
    <3>1. Rest + Ahead(i) <= Most /\ Ahead(i) \in Nat
      BY <2>1, <3>0, <3>9, AheadFacts
    <3>2. Fresh(l) /\ \A b \in Stored(l) : b.age = 0
      BY <1>1 DEF InTime, InWaiting
    <3>3. \A b \in Stored(l) : b.age + Rest + Ahead(i) <= Most
      BY <3>1, <3>2, Ages, AheadFacts
    <3>4. queue'[i] = l
      BY <1>2, <2>1
    <3> QED BY <1>1, <3>2, <3>3, <3>4 DEF InQueue, Fresh, Stored, BundleName, Rest
  <2>2. CASE i # Len(queue) + 1
    <3>1. i \in DOMAIN queue /\ queue'[i] = queue[i]
      BY <1>2, <2>2
    <3> QED BY <1>1, <3>1 DEF InTime, InQueue, Fresh, Stored, BundleName, Rest
  <2> QED BY <2>1, <2>2
<1> QED BY <1>1, <1>4, <1>5 DEF InTime

LEMMA GrantsInTime ==
  ASSUME BatchInv, TimeInv, foreign = 0, Grant
  PROVE  InTime' /\ why' = why
<1> USE DEF BatchInv, TimeInv
<1>1. /\ DOMAIN queue = 1..Len(queue) /\ Len(queue) \in Nat /\ 1 \in DOMAIN queue
      /\ DOMAIN queue' = 1..(Len(queue) - 1)
      /\ \A i \in DOMAIN queue' : queue'[i] = queue[i + 1] /\ i + 1 \in DOMAIN queue
      /\ Head(queue) = queue[1]
  BY DEF Grant, TypeOK
<1>2. PICK l \in Legs : l = queue[1] /\ stage[l] = "queued"
  BY <1>1 DEF QueueInv, TypeOK
<1>3. /\ lock = None /\ lock' = l /\ held' = 0 /\ l # None
      /\ stage' = [k \in Legs |-> IF k = l THEN "retrieve" ELSE stage[k]]
      /\ UNCHANGED <<attempt, computed, why, bundles>>
  BY <1>1, <1>2, AcceleratedBatchAssumption DEF Grant
<1>4. Rest = 0 /\ Rest' = PublishLimit
  BY <1>3, AheadFacts DEF Rest
<1>5. \A k \in Legs : Stored(k)' = Stored(k)
  BY <1>3, SameStored
<1>6. ASSUME NEW k \in Legs PROVE InWaiting(k)' /\ AtWork(k)'
  <2>1. CASE k = l
    <3>1. Fresh(l) /\ \A b \in Stored(l) : b.age + Rest + Ahead(1) <= Most
      BY <1>1, <1>2 DEF InTime, InQueue
    <3>2. \A b \in Stored(l) : b.age + (PublishLimit - 0) <= Most + PublishLimit
      BY <1>4, <3>1, Ages, AheadFacts
    <3> QED BY <1>3, <1>5, <2>1, <3>1, <3>2 DEF InWaiting, AtWork, Fresh
  <2>2. CASE k # l
    <3>1. stage'[k] = stage[k] /\ stage[k] \notin Holding
      BY <1>3, <2>2, AcceleratedBatchAssumption DEF QueueInv
    <3> QED BY <1>3, <1>5, <3>1 DEF InTime, InWaiting, AtWork, Fresh
  <2> QED BY <2>1, <2>2
<1>7. ASSUME NEW i \in DOMAIN queue' PROVE InQueue(i)'
  <2>1. /\ i \in Nat \ {0} /\ i + 1 \in DOMAIN queue /\ queue'[i] = queue[i + 1]
        /\ Ahead(i) \in Nat /\ Ahead(i + 1) = Ahead(i) + PublishLimit
    BY <1>1, AheadFacts
  <2>2. PICK k \in Legs : k = queue[i + 1] /\ k = queue'[i]
    BY <2>1 DEF QueueInv, TypeOK
  <2>3. Fresh(k) /\ \A b \in Stored(k) : b.age + Rest + Ahead(i + 1) <= Most
    BY <2>1, <2>2 DEF InTime, InQueue
  <2>4. \A b \in Stored(k) : b.age + PublishLimit + Ahead(i) <= Most
    BY <1>4, <2>1, <2>3, Ages, AheadFacts
  <2> QED BY <1>3, <1>4, <2>2, <2>3, <2>4 DEF InQueue, Fresh, Stored, BundleName
<1>8. held' <= PublishLimit
  BY <1>3, AheadFacts
<1> QED BY <1>3, <1>6, <1>7, <1>8 DEF InTime

LEMMA WorksInTime ==
  ASSUME BatchInv, TimeInv, foreign = 0, NEW l \in Legs,
         Retrieve(l) \/ Verify(l) \/ Delete(l)
  PROVE  InTime' /\ \A k \in Legs : why'[k] \notin {"expired", "deleted"}
<1> USE DEF BatchInv, TimeInv
<1>0. /\ stage[l] \in Holding /\ lock = l /\ AtWork(l)
      /\ \A i \in DOMAIN queue : queue[i] # l
  BY DEF Retrieve, Verify, Delete, Holding, QueueInv, InTime
<1>1. CASE Retrieve(l)
  <2>1. stage[l] = "retrieve" /\ UNCHANGED <<attempt, computed, bundles, queue>> /\ Fresh(l)
    BY <1>0, <1>1 DEF Retrieve, AtWork
  <2>2. \A k \in Legs : Stored(k)' = Stored(k)
    BY <2>1, SameStored
  <2>3. CASE Stored(l) = {}
    <3>1. stage' = [stage EXCEPT ![l] = "failed"] /\ why' = [why EXCEPT ![l] = "missing"] /\ Release
      BY <1>1, <2>1, <2>3 DEF Retrieve, Fail, Goto, Fresh
    <3>2. stage'[l] \in Ended /\ \A k \in Legs \ {l} : stage'[k] = stage[k]
      BY <3>1 DEF TypeOK, Ended
    <3>3. InTime'
      BY <1>0, <2>1, <2>2, <3>1, <3>2, Leaving DEF Release
    <3> QED BY <3>1, <3>3 DEF TypeOK
  <2>4. CASE Stored(l) # {}
    <3>1. \A b \in Stored(l) : Unfinished(l[2]) \subseteq b.parts
      BY <2>1 DEF BundleInv
    <3>2. stage' = [stage EXCEPT ![l] = "publish"] /\ UNCHANGED <<why, lock, held>>
      BY <1>1, <2>4, <3>1 DEF Retrieve, Covers, Goto
    <3>3. stage'[l] = "publish" /\ \A k \in Legs \ {l} : stage'[k] = stage[k]
      BY <3>2 DEF TypeOK
    <3>4. InWaiting(l)' /\ AtWork(l)'
      BY <1>0, <2>2, <2>4, <3>2, <3>3 DEF InWaiting, AtWork
    <3>5. /\ {l} \in SUBSET Legs
          /\ \A k \in {l} : stage[k] # "queued" /\ InWaiting(k)' /\ AtWork(k)'
          /\ \A k \in Legs \ {l} : /\ stage'[k] = stage[k] /\ computed'[k] = computed[k]
                                   /\ attempt'[k[1]] = attempt[k[1]] /\ Stored(k)' = Stored(k)
      BY <2>1, <2>2, <3>3, <3>4
    <3> QED BY <2>1, <3>2, <3>5, Frame
  <2> QED BY <2>3, <2>4
<1>2. CASE Verify(l)
  <2>1. /\ stage[l] = "publish" /\ stage' = [stage EXCEPT ![l] = "delete"]
        /\ UNCHANGED <<attempt, computed, why, bundles, queue, lock, held>>
    BY <1>2 DEF Verify, Goto, groupVars
  <2>2. \A k \in Legs : Stored(k)' = Stored(k)
    BY <2>1, SameStored
  <2>3. stage'[l] = "delete" /\ \A k \in Legs \ {l} : stage'[k] = stage[k]
    BY <2>1 DEF TypeOK
  <2>4. InWaiting(l)' /\ AtWork(l)'
    BY <1>0, <2>1, <2>2, <2>3 DEF InWaiting, AtWork
  <2>5. /\ {l} \in SUBSET Legs
        /\ \A k \in {l} : stage[k] # "queued" /\ InWaiting(k)' /\ AtWork(k)'
        /\ \A k \in Legs \ {l} : /\ stage'[k] = stage[k] /\ computed'[k] = computed[k]
                                 /\ attempt'[k[1]] = attempt[k[1]] /\ Stored(k)' = Stored(k)
    BY <2>1, <2>2, <2>3, <2>4
  <2> QED BY <2>1, <2>5, Frame
<1>3. CASE Delete(l)
  <2>1. stage[l] = "delete" /\ Stored(l) # {}
    BY <1>0, <1>3 DEF Delete, AtWork
  <2>2. /\ stage' = [stage EXCEPT ![l] = "done"] /\ Release /\ bundles' = bundles \ Stored(l)
        /\ UNCHANGED <<attempt, computed, why, queue>>
    BY <1>3, <2>1 DEF Delete, Goto
  <2>3. stage'[l] \in Ended /\ \A k \in Legs \ {l} : stage'[k] = stage[k]
    BY <2>2 DEF TypeOK, Ended
  <2>4. ASSUME NEW k \in Legs \ {l} PROVE Stored(k)' = Stored(k)
    <3>1. k = <<k[1], k[2]>> /\ l = <<l[1], l[2]>>
      BY LegFacts
    <3>2. <<k[1], attempt[k[1]], k[2]>> # <<l[1], attempt[l[1]], l[2]>>
      BY <3>1
    <3> QED BY <2>2, <3>2 DEF Stored, BundleName
  <2>5. InTime'
    BY <1>0, <2>2, <2>3, <2>4, Leaving DEF Release
  <2> QED BY <2>2, <2>5
<1> QED BY <1>1, <1>2, <1>3

LEMMA BreaksInTime ==
  ASSUME BatchInv, TimeInv, foreign = 0, NEW l \in Legs, Break(l)
  PROVE  InTime' /\ \A k \in Legs : why'[k] \notin {"expired", "deleted"}
<1> USE DEF BatchInv, TimeInv
<1>1. /\ stage' = [stage EXCEPT ![l] = "failed"] /\ why' = [why EXCEPT ![l] = "broken"]
      /\ UNCHANGED <<attempt, computed, bundles>> /\ LeaveQueue(l)
      /\ (lock = l /\ lock' = None /\ held' = 0) \/ UNCHANGED <<lock, held>>
  BY DEF Break, Fail, Goto, Release
<1>2. stage'[l] \in Ended /\ \A k \in Legs \ {l} : stage'[k] = stage[k] /\ Stored(k)' = Stored(k)
  BY <1>1, SameStored DEF TypeOK, Ended
<1>3. InTime'
  BY <1>1, <1>2, Leaving DEF LeaveQueue
<1> QED BY <1>1, <1>3 DEF TypeOK

LEMMA TicksInTime ==
  ASSUME BatchInv, TimeInv, foreign = 0, Tick
  PROVE  InTime' /\ why' = why
<1> USE DEF BatchInv, TimeInv
<1>1. /\ \A l \in Legs : stage[l] # "waiting"
      /\ lock # None /\ lock # Foreign /\ held < PublishLimit /\ held' = held + 1
      /\ bundles' = {[b EXCEPT !.age = @ + 1] : b \in {b \in bundles : b.age + 1 < Retention}}
      /\ UNCHANGED <<attempt, stage, computed, why, queue, lock>>
  BY DEF Tick, Limit, legVars, QueueInv
<1>2. Rest \in Int /\ Rest > 0 /\ Rest' = Rest - 1 /\ held \in Nat
  BY <1>1, Ages, AheadFacts DEF Rest
<1>3. ASSUME NEW b \in bundles
      PROVE  /\ [b EXCEPT !.age = @ + 1].name = b.name
             /\ [b EXCEPT !.age = @ + 1].age = b.age + 1 /\ b.age \in Nat
  <2>1. b \in [name : Runs \X (0..MaxAttempts) \X Days, parts : SUBSET Partitions, age : Nat]
    BY DEF TypeOK
  <2> QED BY <2>1
\* A bundle grows older, or is gone if it is too old.
<1>4. ASSUME NEW l \in Legs
      PROVE  /\ \A c \in Stored(l)' : \E b \in Stored(l) : c.age = b.age + 1
             /\ (\E b \in Stored(l) : b.age + 1 < Retention) => Stored(l)' # {}
  <2>1. ASSUME NEW c \in Stored(l)' PROVE \E b \in Stored(l) : c.age = b.age + 1
    <3>1. PICK b \in bundles : c = [b EXCEPT !.age = @ + 1]
      BY <1>1 DEF Stored
    <3>2. b \in Stored(l)
      BY <1>1, <1>3, <3>1 DEF Stored, BundleName
    <3> QED BY <1>3, <3>1, <3>2
  <2>2. ASSUME NEW b \in Stored(l), b.age + 1 < Retention PROVE Stored(l)' # {}
    <3>1. b \in bundles /\ b.name = BundleName(l)
      BY DEF Stored
    <3>2. [b EXCEPT !.age = @ + 1] \in bundles'
      BY <1>1, <2>2, <3>1
    <3> QED BY <1>1, <1>3, <3>1, <3>2 DEF Stored, BundleName
  <2> QED BY <2>1, <2>2
<1>5. ASSUME NEW l \in Legs PROVE InWaiting(l)' /\ AtWork(l)'
  <2>1. CASE stage[l] \in Holding
    <3>1. /\ \A b \in Stored(l) : b.age \in Nat /\ b.age + (PublishLimit - held) <= Most + PublishLimit
          /\ IF stage[l] = "retrieve" THEN Fresh(l) ELSE Stored(l) # {}
      BY <2>1, Ages DEF InTime, AtWork
    <3>2. \A b \in Stored(l) : b.age + 1 < Retention
      BY <1>1, <1>2, <3>1, AheadFacts
    <3>3. Stored(l) # {} => Stored(l)' # {}
      BY <1>4, <3>2
    <3>4. \A c \in Stored(l)' : c.age + (PublishLimit - held') <= Most + PublishLimit
      BY <1>1, <1>2, <1>4, <3>1, AheadFacts
    <3> QED BY <1>1, <2>1, <3>1, <3>3, <3>4 DEF InWaiting, AtWork, Fresh, Holding
  <2>2. CASE stage[l] \notin Holding
    BY <1>1, <2>2 DEF InWaiting, AtWork
  <2> QED BY <2>1, <2>2
<1>6. ASSUME NEW i \in DOMAIN queue' PROVE InQueue(i)'
  <2>1. PICK k \in Legs : k = queue[i] /\ k = queue'[i]
    BY <1>1 DEF QueueInv, TypeOK
  <2>2. Ahead(i) \in Nat
    BY <1>1, Ages, AheadFacts
  <2>3. Fresh(k) /\ \A b \in Stored(k) : b.age \in Nat /\ b.age + Rest + Ahead(i) <= Most
    BY <1>1, <2>1, Ages DEF InTime, InQueue
  <2>4. \A b \in Stored(k) : b.age + 1 < Retention
    BY <1>2, <2>2, <2>3, AheadFacts
  <2>5. Stored(k) # {} => Stored(k)' # {}
    BY <1>4, <2>4
  <2>6. \A c \in Stored(k)' : c.age + Rest' + Ahead(i) <= Most
    BY <1>2, <1>4, <2>2, <2>3, AheadFacts
  <2>7. computed[k] = attempt[k[1]] => Stored(k)' # {}
    BY <2>3, <2>5 DEF Fresh
  <2> QED BY <1>1, <2>1, <2>6, <2>7 DEF InQueue, Fresh, Stored, BundleName
<1>7. held' <= PublishLimit
  BY <1>1, <1>2, AheadFacts
<1> QED BY <1>1, <1>5, <1>6, <1>7 DEF InTime

LEMMA Timely == BatchInv /\ TimeInv /\ [Next]_vars => TimeInv'
<1> SUFFICES ASSUME BatchInv, TimeInv, [Next]_vars PROVE TimeInv'
  OBVIOUS
<1> DEFINE Goal == InTime' /\ \A l \in Legs : why'[l] \notin {"expired", "deleted"}
<1>2. SUFFICES ASSUME foreign' = 0 PROVE Goal
  BY DEF TimeInv
<1>3. foreign \in Nat /\ (foreign = 0 => \A l \in Legs : why[l] \notin {"expired", "deleted"})
  BY AcceleratedBatchAssumption DEF BatchInv, TypeOK, TimeInv
<1>4. CASE ForeignQueue
  BY <1>2, <1>3, <1>4 DEF ForeignQueue
<1>5. foreign = 0 /\ lock # Foreign
  <2>1. foreign = 0 \/ ForeignQueue
    BY <1>2 DEF Next, Actions, Proceed, Dispatch, RerunAll, Validate, RerunFailed, StartCompute,
       Upload, Enqueue, Grant, Retrieve, PublishPartition, Verify, Delete, Break, ForeignPublish,
       ForeignEnd, Tick, vars, groupVars
  <2> QED BY <1>2, <1>3, <2>1 DEF ForeignQueue, BatchInv, QueueInv
<1> USE <1>5
<1>6. ASSUME NEW r \in Runs, Dispatch(r) \/ RerunAll(r) \/ RerunFailed(r) PROVE Goal
  BY <1>6, StartsInTime
<1>7. ASSUME NEW l \in Legs, StartCompute(l) PROVE Goal
  <2>1. /\ stage[l] = "ready" /\ stage' = [stage EXCEPT ![l] = "compute"]
        /\ UNCHANGED <<attempt, computed, why, bundles, queue, lock, held>>
    BY <1>7 DEF StartCompute, Goto, groupVars
  <2>2. /\ {l} \in SUBSET Legs
        /\ \A k \in {l} : stage[k] # "queued" /\ InWaiting(k)' /\ AtWork(k)'
    BY <2>1 DEF InWaiting, AtWork, Holding, BatchInv, TypeOK
  <2>3. \A k \in Legs \ {l} : /\ stage'[k] = stage[k] /\ computed'[k] = computed[k]
                              /\ attempt'[k[1]] = attempt[k[1]] /\ Stored(k)' = Stored(k)
    BY <2>1, SameStored DEF BatchInv, TypeOK
  <2>4. InTime'
    BY <2>1, <2>2, <2>3, Frame DEF TimeInv
  <2> QED BY <1>3, <2>1, <2>4
<1>8. ASSUME NEW l \in Legs, Upload(l) PROVE Goal
  BY <1>3, <1>8, UploadsInTime
<1>9. ASSUME NEW l \in Legs, Enqueue(l) PROVE Goal
  BY <1>3, <1>9, QueuesInTime
<1>10. CASE Grant
  BY <1>3, <1>10, GrantsInTime
<1>11. ASSUME NEW l \in Legs, Retrieve(l) \/ Verify(l) \/ Delete(l) PROVE Goal
  BY <1>11, WorksInTime
<1>12. ASSUME NEW l \in Legs, Break(l) PROVE Goal
  BY <1>12, BreaksInTime
<1>13. CASE \/ \E l \in Legs, p \in Partitions : PublishPartition(l, p)
            \/ \E d \in Days, p \in Partitions : ForeignPublish(d, p)
            \/ UNCHANGED vars
  <2>1. UNCHANGED <<attempt, stage, computed, why, bundles, queue, lock, held>>
    BY <1>13 DEF PublishPartition, ForeignPublish, vars, legVars, groupVars
  <2>2. InTime'
    BY <2>1 DEF TimeInv, InTime, InWaiting, AtWork, InQueue, Fresh, Stored, BundleName, Rest
  <2> QED BY <1>3, <2>1, <2>2
<1>14. CASE Tick
  BY <1>3, <1>14, TicksInTime
<1>15. CASE ForeignEnd
  BY <1>15 DEF ForeignEnd
<1> QED BY <1>4, <1>6, <1>7, <1>8, <1>9, <1>10, <1>11, <1>12, <1>13, <1>14, <1>15
        DEF Next, Actions, Proceed

LEMMA InitiallyTimely == Init => TimeInv
<1> SUFFICES ASSUME Init PROVE TimeInv
  OBVIOUS
<1>1. ASSUME NEW l \in Legs
      PROVE  /\ computed[l] = 0 /\ attempt[l[1]] = 0 /\ stage[l] = "idle" /\ why[l] = None
  BY <1>1, LegFacts DEF Init
<1>3. \A l \in Legs : why[l] \notin {"expired", "deleted"}
  BY <1>1, AcceleratedBatchAssumption DEF Reasons
<1>4. \A l \in Legs : InWaiting(l) /\ AtWork(l)
  BY <1>1 DEF InWaiting, AtWork, Holding
<1>5. DOMAIN queue = {} /\ held = 0 /\ 0 <= PublishLimit
  BY AheadFacts DEF Init
<1> QED BY <1>3, <1>4, <1>5 DEF TimeInv, InTime, InQueue

\* retention-days and timeout-minutes: while only accelerated publishers use the
\* group, none of them finds its bundle expired, however many queue.
THEOREM BundlesLastLongEnough == Spec => []BundleInTime
<1>1. Init => TimeInv
  BY InitiallyTimely
<1>2. BatchInv /\ TimeInv /\ [Next]_vars => TimeInv'
  BY Timely
<1>3. BatchInv /\ TimeInv => BundleInTime
  BY AcceleratedBatchAssumption DEF TimeInv, BundleInTime, BatchInv, TypeOK
<1> QED BY BatchInvariant, <1>1, <1>2, <1>3, PTL DEF Spec

=============================================================================
