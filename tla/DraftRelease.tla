---------------------------- MODULE DraftRelease ----------------------------
(***************************************************************************)
(* GitHubReleaseBackend.ensure_draft: every publication of a half-month    *)
(* finds the draft release of its tag, or creates it.  A tag of a draft is *)
(* not unique for GitHub: two creations make two releases, and no run can  *)
(* publish to the tag any more.  The calls of one tag are usually          *)
(* serialised by the release concurrency group of the workflows; two local *)
(* runs are not.  GitHub may list a release only some time after creating  *)
(* it.  serial and lag say which of this holds, and never change.          *)
(***************************************************************************)
EXTENDS Naturals, FiniteSets

CONSTANTS
  Calls,      \* the calls of ensure_draft for one tag
  Releases,   \* the identifiers GitHub may give
  Delays,     \* Len(RETRY_DELAYS)
  None

ASSUME DraftAssumption ==
  /\ Delays \in Nat
  /\ None \notin Releases

VARIABLES
  serial,     \* do the calls hold the release concurrency group?
  lag,        \* may a created release be listed only later?
  remote,     \* what GitHub has under each identifier
  pc, reason, \* where a call is, and why it failed
  attempt,    \* the creation it is at
  polls,      \* its listings after a creation that was answered
  result      \* the identifier it returned, or None

setting == <<serial, lag>>
vars    == <<setting, remote, pc, reason, attempt, polls, result>>

\* A hidden release exists and is not listed yet.
Status == {"absent", "hidden", "draft", "published"}
Active == {"list", "post", "lost", "refused", "created"}

Init ==
  /\ serial \in BOOLEAN /\ lag \in BOOLEAN
  /\ remote = [r \in Releases |-> "absent"]
  /\ pc = [c \in Calls |-> "idle"] /\ reason = [c \in Calls |-> "none"]
  /\ attempt = [c \in Calls |-> 0] /\ polls = [c \in Calls |-> 0]
  /\ result = [c \in Calls |-> None]

-----------------------------------------------------------------------------
\* _releases_by_tag
Matches == {r \in Releases : remote[r] \in {"draft", "published"}}
Existing == {r \in Releases : remote[r] # "absent"}

Goto(c, l) == pc' = [pc EXCEPT ![c] = l] /\ UNCHANGED reason
Fail(c, why) ==
  /\ pc' = [pc EXCEPT ![c] = "failed"] /\ reason' = [reason EXCEPT ![c] = why]
  /\ UNCHANGED result

\* Mutant of Return: the first match.
ReturnFirst(c) ==
  \E r \in Matches :
    /\ result' = [result EXCEPT ![c] = r] /\ Goto(c, "done")

\* _single_draft_id
Return(c) ==
  \/ Cardinality(Matches) > 1 /\ Fail(c, "multiple")
  \/ \E r \in Matches :
       /\ Matches = {r}
       /\ \/ remote[r] # "draft" /\ Fail(c, "not draft")
          \/ /\ remote[r] = "draft"
             /\ result' = [result EXCEPT ![c] = r] /\ Goto(c, "done")

Begin(c) ==
  /\ pc[c] = "idle"
  /\ serial => \A d \in Calls : pc[d] \notin Active
  /\ Goto(c, "list")
  /\ UNCHANGED <<setting, remote, attempt, polls, result>>

\* The listing before a creation, at once or after a delay.
List(c) ==
  /\ pc[c] = "list"
  /\ \/ Matches # {} /\ Return(c)
     \/ Matches = {} /\ Goto(c, "post") /\ UNCHANGED result
  /\ UNCHANGED <<setting, remote, attempt, polls>>

\* A release is created, and listed at once unless GitHub lags.
Create ==
  \E r \in Releases, s \in {"hidden", "draft"} :
    /\ remote[r] = "absent" /\ (s = "hidden" => lag)
    /\ remote' = [remote EXCEPT ![r] = s]

\* Mutant of Post: a lost answer is not followed by a listing.
PostBlindly(c) ==
  /\ pc[c] = "post"
  /\ \/ Create /\ Goto(c, "created") /\ UNCHANGED attempt
     \/ /\ Create \/ UNCHANGED remote
        /\ attempt[c] < Delays
        /\ attempt' = [attempt EXCEPT ![c] = @ + 1] /\ Goto(c, "post")
     \/ Goto(c, "refused") /\ UNCHANGED <<remote, attempt>>
  /\ UNCHANGED <<setting, polls, result>>

\* The POST, which _request sends once: it is answered, lost with or without
\* effect, or refused for good.
Post(c) ==
  /\ pc[c] = "post"
  /\ \/ Create /\ Goto(c, "created")
     \/ (Create \/ UNCHANGED remote) /\ Goto(c, "lost")
     \/ UNCHANGED remote /\ Goto(c, "refused")
  /\ UNCHANGED <<setting, attempt, polls, result>>

\* Mutant of Reconcile: attempts are not counted.
ReconcileForever(c) ==
  /\ pc[c] \in {"lost", "refused"}
  /\ \/ Matches # {} /\ Return(c)
     \/ Matches = {} /\ pc[c] = "refused" /\ Fail(c, "refused")
     \/ Matches = {} /\ pc[c] = "lost" /\ Goto(c, "list") /\ UNCHANGED result
  /\ UNCHANGED <<setting, remote, attempt, polls>>

\* The listing after a POST without an answer.
Reconcile(c) ==
  /\ pc[c] \in {"lost", "refused"}
  /\ \/ Matches # {} /\ Return(c) /\ UNCHANGED attempt
     \/ /\ Matches = {} /\ pc[c] = "refused"
        /\ Fail(c, "refused") /\ UNCHANGED attempt
     \/ /\ Matches = {} /\ pc[c] = "lost" /\ attempt[c] = Delays
        /\ Fail(c, "exhausted") /\ UNCHANGED attempt
     \/ /\ Matches = {} /\ pc[c] = "lost" /\ attempt[c] < Delays
        /\ attempt' = [attempt EXCEPT ![c] = @ + 1]
        /\ Goto(c, "list") /\ UNCHANGED result
  /\ UNCHANGED <<setting, remote, polls>>

\* The listings after a POST that was answered: one, and one after each delay.
Poll(c) ==
  /\ pc[c] = "created"
  /\ \/ Matches # {} /\ Return(c) /\ UNCHANGED polls
     \/ Matches = {} /\ polls[c] = Delays /\ Fail(c, "absent") /\ UNCHANGED polls
     \/ /\ Matches = {} /\ polls[c] < Delays
        /\ polls' = [polls EXCEPT ![c] = @ + 1]
        /\ UNCHANGED <<pc, reason, result>>
  /\ UNCHANGED <<setting, remote, attempt>>

\* A listing fails after its own retries, or the job is killed.
Break(c) ==
  /\ pc[c] \in Active
  /\ Fail(c, "broken")
  /\ UNCHANGED <<setting, remote, attempt, polls>>

\* GitHub lists a release at last.
Appear(r) ==
  /\ remote[r] = "hidden"
  /\ remote' = [remote EXCEPT ![r] = "draft"]
  /\ UNCHANGED <<setting, pc, reason, attempt, polls, result>>

\* Somebody publishes the draft by hand.
PublishByHand(r) ==
  /\ remote[r] = "draft"
  /\ remote' = [remote EXCEPT ![r] = "published"]
  /\ UNCHANGED <<setting, pc, reason, attempt, polls, result>>

Step(c) == List(c) \/ Post(c) \/ Reconcile(c) \/ Poll(c)
Call == \E c \in Calls : Begin(c) \/ Step(c) \/ Break(c)
GitHub == \E r \in Releases : Appear(r) \/ PublishByHand(r)

Next == Call \/ GitHub

Spec == Init /\ [][Next]_vars

\* A job that runs goes on, and the group admits the next one.
FairSpec == Spec /\ \A c \in Calls : WF_vars(Begin(c)) /\ WF_vars(Step(c))

-----------------------------------------------------------------------------
(***************************************************************************)
(* Properties.                                                             *)
(***************************************************************************)
TypeOK ==
  /\ serial \in BOOLEAN /\ lag \in BOOLEAN
  /\ remote \in [Releases -> Status]
  /\ pc \in [Calls -> Active \cup {"idle", "done", "failed"}]
  /\ reason \in [Calls -> {"none", "multiple", "not draft", "refused", "exhausted", "absent", "broken"}]
  /\ attempt \in [Calls -> 0..Delays] /\ polls \in [Calls -> 0..Delays]
  /\ result \in [Calls -> Releases \cup {None}]

\* ensure_draft: two publications never go to different releases of a tag, even
\* when their calls overlap, answers get lost and the listing lags.
Agreement ==
  \A c, d \in Calls : None \notin {result[c], result[d]} => result[c] = result[d]

\* The listing before each creation: while the calls are serialised and the
\* listing does not lag, lost answers never make a second release.
OneRelease == serial /\ ~lag => \A r, s \in Existing : r = s

\* The retry loop: a call comes to an end, with an identifier or a reason.
EveryCallEnds == \A c \in Calls : pc[c] = "list" ~> pc[c] \in {"done", "failed"}
=============================================================================
