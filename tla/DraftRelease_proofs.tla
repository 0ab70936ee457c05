------------------------ MODULE DraftRelease_proofs ------------------------
(***************************************************************************)
(* Proofs about DraftRelease.                                              *)
(*                                                                         *)
(* Agreement rests on DraftInv: what a call returned stays listed, because *)
(* nothing deletes a release, and a call returns only the one release that *)
(* is listed.  It needs neither the release group nor prompt listings.     *)
(*                                                                         *)
(* OneRelease needs both.  SerialInv says why they suffice: a call is      *)
(* about to create only while it is the only active one and no release     *)
(* exists.                                                                 *)
(***************************************************************************)
EXTENDS DraftRelease, TLAPS

DraftInv ==
  /\ TypeOK
  /\ \A c \in Calls : result[c] # None => result[c] \in Matches
  /\ Agreement

LEMMA InitDraft == Init => DraftInv
  BY DraftAssumption DEF Init, DraftInv, TypeOK, Agreement, Status, Active

\* Matches only grows, whatever the step.
LEMMA MatchesGrow == ASSUME TypeOK, [Next]_vars PROVE Matches \subseteq Matches'
<1>1. CASE Call
  <2>1. PICK c \in Calls : Begin(c) \/ Step(c) \/ Break(c)
    BY <1>1 DEF Call
  <2>2. CASE Begin(c) \/ Break(c) \/ List(c) \/ Reconcile(c) \/ Poll(c)
    BY <2>2 DEF Begin, Break, List, Reconcile, Poll, Matches
  <2>3. CASE Post(c)
    BY <2>3 DEF Post, Create, Matches, TypeOK, Status
  <2> QED
    BY <2>1, <2>2, <2>3 DEF Step
<1>2. CASE GitHub
  BY <1>2 DEF GitHub, Appear, PublishByHand, Matches, TypeOK, Status
<1>3. CASE UNCHANGED vars
  BY <1>3 DEF vars, Matches
<1> QED
  BY <1>1, <1>2, <1>3 DEF Next

LEMMA CountersAreBounded ==
  ASSUME NEW f \in [Calls -> 0..Delays], NEW c \in Calls, f[c] < Delays
  PROVE  [f EXCEPT ![c] = f[c] + 1] \in [Calls -> 0..Delays]
<1>1. f[c] \in 0..Delays
  OBVIOUS
<1>2. f[c] + 1 \in 0..Delays
  BY <1>1, DraftAssumption DEF DraftAssumption
<1> QED
  BY <1>2

LEMMA SettingIsConstant == [Next]_vars => UNCHANGED setting
  BY DEF Next, Call, GitHub, Begin, Step, Break, List, Post, Reconcile, Poll,
         Appear, PublishByHand, vars

LEMMA NextTypes == TypeOK /\ [Next]_vars => TypeOK'
<1> SUFFICES ASSUME TypeOK, [Next]_vars PROVE TypeOK'
  OBVIOUS
<1>0. serial' \in BOOLEAN /\ lag' \in BOOLEAN
  BY SettingIsConstant DEF setting, TypeOK
<1> USE <1>0, DraftAssumption DEF TypeOK, Status, Active
<1>1. ASSUME NEW c \in Calls, Return(c)
      PROVE  /\ pc' \in [Calls -> Active \cup {"idle", "done", "failed"}]
             /\ reason' \in [Calls -> {"none", "multiple", "not draft", "refused", "exhausted", "absent", "broken"}]
             /\ result' \in [Calls -> Releases \cup {None}]
  BY <1>1 DEF Return, Fail, Goto, Matches
<1>2. CASE Call
  <2>1. PICK c \in Calls : Begin(c) \/ Step(c) \/ Break(c)
    BY <1>2 DEF Call
  <2>2. CASE Begin(c)
    BY <2>2 DEF Begin, Goto
  <2>3. CASE Break(c)
    BY <2>3 DEF Break, Fail
  <2>4. CASE List(c)
    BY <2>4, <1>1 DEF List, Goto
  <2>5. CASE Post(c)
    <3>1. remote' \in [Releases -> Status]
      BY <2>5 DEF Post, Create
    <3> QED
      BY <2>5, <3>1 DEF Post, Goto
  <2>6. CASE Reconcile(c)
    <3>0. /\ UNCHANGED <<remote, polls>> /\ attempt \in [Calls -> 0..Delays]
          /\ UNCHANGED attempt \/ (attempt[c] < Delays /\ attempt' = [attempt EXCEPT ![c] = attempt[c] + 1])
      BY <2>6 DEF Reconcile
    <3>a. ASSUME UNCHANGED attempt PROVE attempt' \in [Calls -> 0..Delays]
      BY <3>0, <3>a
    <3>b. ASSUME attempt[c] < Delays, attempt' = [attempt EXCEPT ![c] = attempt[c] + 1]
          PROVE  attempt' \in [Calls -> 0..Delays]
      <4>1. [attempt EXCEPT ![c] = attempt[c] + 1] \in [Calls -> 0..Delays]
        BY <3>0, <3>b, CountersAreBounded
      <4> QED
        BY <3>b, <4>1
    <3>1. UNCHANGED <<remote, polls>> /\ attempt' \in [Calls -> 0..Delays]
      BY <3>0, <3>a, <3>b
    <3>2. CASE Return(c)
      BY <1>1, <3>1, <3>2
    <3>3. CASE Fail(c, "refused") \/ Fail(c, "exhausted")
      BY <3>1, <3>3 DEF Fail
    <3>4. CASE Goto(c, "list") /\ UNCHANGED result
      BY <3>1, <3>4 DEF Goto
    <3> QED
      BY <2>6, <3>2, <3>3, <3>4 DEF Reconcile
  <2>7. CASE Poll(c)
    <3>0. /\ UNCHANGED <<remote, attempt>> /\ polls \in [Calls -> 0..Delays]
          /\ UNCHANGED polls \/ (polls[c] < Delays /\ polls' = [polls EXCEPT ![c] = polls[c] + 1])
      BY <2>7 DEF Poll
    <3>a. ASSUME UNCHANGED polls PROVE polls' \in [Calls -> 0..Delays]
      BY <3>0, <3>a
    <3>b. ASSUME polls[c] < Delays, polls' = [polls EXCEPT ![c] = polls[c] + 1]
          PROVE  polls' \in [Calls -> 0..Delays]
      <4>1. [polls EXCEPT ![c] = polls[c] + 1] \in [Calls -> 0..Delays]
        BY <3>0, <3>b, CountersAreBounded
      <4> QED
        BY <3>b, <4>1
    <3>1. UNCHANGED <<remote, attempt>> /\ polls' \in [Calls -> 0..Delays]
      BY <3>0, <3>a, <3>b
    <3>2. CASE Return(c)
      BY <1>1, <3>1, <3>2
    <3>3. CASE Fail(c, "absent")
      BY <3>1, <3>3 DEF Fail
    <3>4. CASE UNCHANGED <<pc, reason, result>>
      BY <3>1, <3>4
    <3> QED
      BY <2>7, <3>2, <3>3, <3>4 DEF Poll
  <2> QED
    BY <2>1, <2>2, <2>3, <2>4, <2>5, <2>6, <2>7 DEF Step
<1>3. CASE GitHub
  BY <1>3 DEF GitHub, Appear, PublishByHand
<1>4. CASE UNCHANGED vars
  BY <1>4 DEF vars
<1> QED
  BY <1>2, <1>3, <1>4 DEF Next

\* A step returns nothing, or to one call the only release that is listed.
LEMMA ReturnsTheOnlyOne ==
  ASSUME TypeOK, [Next]_vars
  PROVE  \/ UNCHANGED result
         \/ \E c \in Calls, r \in Releases : Matches = {r} /\ result' = [result EXCEPT ![c] = r]
<1>1. ASSUME NEW c \in Calls, Return(c)
      PROVE  \/ UNCHANGED result
             \/ \E r \in Releases : Matches = {r} /\ result' = [result EXCEPT ![c] = r]
  BY <1>1 DEF Return, Fail, Matches
<1>2. CASE Call
  BY <1>1, <1>2 DEF Call, Begin, Step, Break, Fail, List, Post, Reconcile, Poll
<1>3. CASE GitHub
  BY <1>3 DEF GitHub, Appear, PublishByHand
<1>4. CASE UNCHANGED vars
  BY <1>4 DEF vars
<1> QED
  BY <1>2, <1>3, <1>4 DEF Next

LEMMA NextDraft == DraftInv /\ [Next]_vars => DraftInv'
<1> SUFFICES ASSUME DraftInv, [Next]_vars PROVE DraftInv'
  OBVIOUS
<1>1. TypeOK /\ TypeOK'
  BY NextTypes DEF DraftInv
<1>2. Matches \subseteq Matches'
  BY <1>1, MatchesGrow
<1>3. \A c \in Calls : result[c] # None => result[c] \in Matches
  BY DEF DraftInv
<1>4. CASE UNCHANGED result
  BY <1>1, <1>2, <1>3, <1>4 DEF DraftInv, Agreement
<1>5. CASE \E c \in Calls, r \in Releases : Matches = {r} /\ result' = [result EXCEPT ![c] = r]
  <2>1. PICK c \in Calls, r \in Releases : Matches = {r} /\ result' = [result EXCEPT ![c] = r]
    BY <1>5
  <2>2. \A d \in Calls : result'[d] # None => result'[d] = r
    BY <1>1, <1>3, <2>1 DEF TypeOK
  <2>3. \A d \in Calls : result'[d] # None => result'[d] \in Matches'
    BY <1>2, <2>1, <2>2
  <2> QED
    BY <1>1, <2>2, <2>3 DEF DraftInv, Agreement
<1> QED
  BY <1>1, <1>4, <1>5, ReturnsTheOnlyOne

\* The variables of ensure_draft, of GitHub and of its listing keep the types of
\* TypeOK.
THEOREM DraftTypes == Spec => []TypeOK
<1>1. DraftInv => TypeOK
  BY DEF DraftInv
<1> QED
  BY InitDraft, NextDraft, <1>1, PTL DEF Spec

\* ensure_draft returns one identifier to all its callers, for any calls,
\* overlaps, lost answers and delays of the listing.
THEOREM CallersAgree == Spec => []Agreement
<1>1. DraftInv => Agreement
  BY DEF DraftInv
<1> QED
  BY InitDraft, NextDraft, <1>1, PTL DEF Spec

-----------------------------------------------------------------------------
\* The calls are serialised and no release is hidden.
SerialInv ==
  /\ TypeOK
  /\ \A c, d \in Calls : pc[c] \in Active /\ pc[d] \in Active => c = d
  /\ \A r \in Releases : remote[r] # "hidden"
  /\ \A c \in Calls : pc[c] = "post" => Existing = {}
  /\ \A r, s \in Existing : r = s

LEMMA InitSerial == Init => SerialInv
  BY DraftAssumption DEF Init, SerialInv, TypeOK, Existing, Status, Active

\* While nothing is hidden, what exists is listed.
LEMMA ListedIsAll == SerialInv => Matches = Existing
  BY DEF SerialInv, TypeOK, Status, Matches, Existing

LEMMA NextSerial ==
  ASSUME serial, ~lag, SerialInv, [Next]_vars
  PROVE  SerialInv'
<1>1. TypeOK /\ TypeOK'
  BY NextTypes DEF SerialInv
<1>2. CASE Call
  <2>1. PICK c \in Calls : Begin(c) \/ Step(c) \/ Break(c)
    BY <1>2 DEF Call
  <2>2. ASSUME UNCHANGED remote, pc[c] \in Active,
               NEW l, pc' = [pc EXCEPT ![c] = l], l = "post" => Existing = {}
        PROVE  SerialInv'
    <3>1. Existing' = Existing
      BY <2>2 DEF Existing
    <3>2. \A d \in Calls : pc'[d] = IF d = c THEN l ELSE pc[d]
      BY <1>1, <2>2 DEF TypeOK
    <3>3. \A d \in Calls : pc'[d] \in Active => d = c
      BY <2>2, <3>2 DEF SerialInv
    <3>4. \A d \in Calls : pc'[d] = "post" => Existing' = {}
      BY <2>2, <3>1, <3>2 DEF SerialInv
    <3> QED
      BY <1>1, <2>2, <3>1, <3>3, <3>4 DEF SerialInv
  <2>3. ASSUME Return(c), UNCHANGED remote, pc[c] \in Active PROVE SerialInv'
    BY <2>2, <2>3 DEF Return, Fail, Goto
  <2>4. CASE Begin(c)
    <3>1. \A d \in Calls : pc[d] \notin Active
      BY <2>4 DEF Begin
    <3>2. UNCHANGED remote /\ pc' = [pc EXCEPT ![c] = "list"]
      BY <2>4 DEF Begin, Goto
    <3>3. Existing' = Existing
      BY <3>2 DEF Existing
    <3>4. \A d \in Calls : pc'[d] = IF d = c THEN "list" ELSE pc[d]
      BY <1>1, <3>2 DEF TypeOK
    <3>5. \A d \in Calls : pc'[d] \in Active => d = c
      BY <3>1, <3>4
    <3>6. \A d \in Calls : pc'[d] # "post"
      BY <3>1, <3>4 DEF Active
    <3> QED
      BY <1>1, <3>2, <3>3, <3>5, <3>6 DEF SerialInv
  <2>5. CASE Break(c)
    BY <2>2, <2>5 DEF Break, Fail
  <2>6. CASE List(c)
    <3>1. UNCHANGED remote /\ pc[c] \in Active
      BY <2>6 DEF List, Active
    <3>2. CASE Return(c)
      BY <2>3, <3>1, <3>2
    <3>3. CASE Matches = {} /\ Goto(c, "post")
      BY <2>2, <3>1, <3>3, ListedIsAll DEF Goto
    <3> QED
      BY <2>6, <3>2, <3>3 DEF List
  <2>7. CASE Post(c)
    <3>1. pc[c] = "post" /\ pc[c] \in Active /\ Existing = {}
      BY <2>7 DEF Post, Active, SerialInv
    <3>2. PICK l \in {"created", "lost", "refused"} : pc' = [pc EXCEPT ![c] = l]
      BY <2>7 DEF Post, Goto
    <3>3. CASE UNCHANGED remote
      BY <2>2, <3>1, <3>2, <3>3
    <3>4. CASE Create
      <4>1. PICK r \in Releases : remote' = [remote EXCEPT ![r] = "draft"]
        BY <3>4 DEF Create
      <4>2. Existing' = {r} /\ \A s \in Releases : remote'[s] # "hidden"
        BY <1>1, <3>1, <4>1 DEF Existing, SerialInv, TypeOK
      <4>3. \A d \in Calls : pc'[d] # "post"
        BY <1>1, <3>1, <3>2 DEF SerialInv, TypeOK, Active
      <4>4. \A d, e \in Calls : pc'[d] \in Active /\ pc'[e] \in Active => d = e
        BY <1>1, <3>1, <3>2 DEF SerialInv, TypeOK
      <4> QED
        BY <1>1, <4>2, <4>3, <4>4 DEF SerialInv
    <3> QED
      BY <2>7, <3>3, <3>4 DEF Post
  <2>8. CASE Reconcile(c)
    <3>1. UNCHANGED remote /\ pc[c] \in Active
      BY <2>8 DEF Reconcile, Active
    <3>2. CASE Return(c)
      BY <2>3, <3>1, <3>2
    <3>3. CASE \E l \in {"failed", "list"} : pc' = [pc EXCEPT ![c] = l]
      BY <2>2, <3>1, <3>3
    <3> QED
      BY <2>8, <3>2, <3>3 DEF Reconcile, Fail, Goto
  <2>9. CASE Poll(c)
    <3>1. UNCHANGED remote /\ pc[c] \in Active
      BY <2>9 DEF Poll, Active
    <3>2. CASE Return(c)
      BY <2>3, <3>1, <3>2
    <3>3. CASE pc' = [pc EXCEPT ![c] = "failed"]
      BY <2>2, <3>1, <3>3
    <3>4. CASE UNCHANGED pc
      BY <1>1, <3>1, <3>4 DEF SerialInv, Existing
    <3> QED
      BY <2>9, <3>2, <3>3, <3>4 DEF Poll, Fail
  <2> QED
    BY <2>1, <2>4, <2>5, <2>6, <2>7, <2>8, <2>9 DEF Step
<1>3. CASE GitHub
  <2>1. PICK r \in Releases : PublishByHand(r)
    BY <1>3 DEF GitHub, Appear, SerialInv
  <2>2. UNCHANGED pc /\ remote[r] = "draft" /\ remote' = [remote EXCEPT ![r] = "published"]
    BY <2>1 DEF PublishByHand
  <2>3. \A s \in Releases : remote'[s] = IF s = r THEN "published" ELSE remote[s]
    BY <1>1, <2>2 DEF TypeOK
  <2>4. Existing' = Existing
    BY <2>2, <2>3 DEF Existing
  <2>5. \A s \in Releases : remote'[s] # "hidden"
    BY <2>3 DEF SerialInv
  <2> QED
    BY <1>1, <2>2, <2>4, <2>5 DEF SerialInv
<1>4. CASE UNCHANGED vars
  BY <1>1, <1>4 DEF vars, SerialInv, Existing
<1> QED
  BY <1>2, <1>3, <1>4 DEF Next

\* Behind the release group, and with prompt listings, ensure_draft never makes
\* a second release of a tag, whatever answers get lost and jobs are killed.
THEOREM TagHasOneRelease == Spec => []OneRelease
<1> DEFINE Inv == serial /\ ~lag => SerialInv
<1>1. Init => Inv
  BY InitSerial
<1>2. Inv /\ [Next]_vars => Inv'
  BY NextSerial, SettingIsConstant DEF setting
<1>3. Inv => OneRelease
  BY DEF SerialInv, OneRelease
<1> QED
  BY <1>1, <1>2, <1>3, PTL DEF Spec
=============================================================================
