------------------------------- MODULE Canary -------------------------------
(***************************************************************************)
(* command_canary of scripts/actions_backend.py, and the gate every        *)
(* production job passes first (_require_canary_receipt).                  *)
(*                                                                         *)
(* The canary asks Gamma about every market start of each proof an earlier *)
(* canary left, and reuses the proof if nothing has changed.  For the      *)
(* assets without a proof it goes through the rounds of the production     *)
(* plan, each one UTC day of frozen market starts: a start at which Gamma  *)
(* knows a resolved market of every uncovered asset is a candidate, a      *)
(* child run publishes the candidates in a release of their own, and an    *)
(* asset of which a market was accepted is covered.  In the end it writes  *)
(* the receipt that the gate judges.                                       *)
(*                                                                         *)
(* Gamma, the archive and the child are the environment.  A market is an   *)
(* asset and its start; starts are counted in 15-minute windows.  Bytes,   *)
(* wall time, disk and digests are left out: exceeding their bounds is one *)
(* of the ways to Abort, and the receipt is only written within them.      *)
(***************************************************************************)
EXTENDS Integers, FiniteSets, Sequences, SequencesExt

CONSTANTS
  Assets,
  Rank,           \* the position of an asset in authority.assets
  Configured,     \* the assets config/canary-prior-evidence.json has a proof of
  PriorRank,      \* the position of its proof in the file
  PriorStarts,    \* asset -> the market starts its proof qualified
  PriorAccepted,  \* asset -> those of them its remote partition accepted
  PriorExcluded,  \* the assets whose remote partition has exclusions
  Rounds,         \* canary_rounds: a sequence of sets of market starts
  MaxCandidates,  \* CANARY_MAX_CANDIDATES: the starts of each round
  MaxObjects,     \* CANARY_MAX_SOURCE_OBJECTS: the hourly objects of a round
  Windows,        \* the windows of an hour (4)
  Missing,        \* PMXT_MISSING_OBJECT_URLS, as hours
  Reuses,         \* the pairs of markets that may have one identity in Gamma
  None

\* The hourly objects for the markets that start in lo..hi, one hour of warm-up
\* included: pmxt_hourly_objects(lo - 1 hour, hi + 15 minutes).
Objects(lo, hi) == ((lo - Windows) \div Windows)..(hi \div Windows)

RoundStarts == UNION {Rounds[i] : i \in 1..Len(Rounds)}
PriorMarkets == UNION {PriorStarts[a] : a \in Configured}
Starts == RoundStarts \cup PriorMarkets

\* load_authority and _load_prior_canary_evidence.
ASSUME CanaryAssumption ==
  /\ IsFiniteSet(Assets) /\ Assets # {}
  /\ Rank \in [Assets -> Nat]
  /\ \A a, b \in Assets : Rank[a] = Rank[b] => a = b
  /\ Windows \in Nat \ {0} /\ MaxCandidates \in Nat \ {0} /\ MaxObjects \in Nat
  /\ Rounds \in Seq(SUBSET Nat)
  /\ \A i \in 1..Len(Rounds) :
       /\ IsFiniteSet(Rounds[i]) /\ Cardinality(Rounds[i]) = MaxCandidates
       /\ \E lo, hi \in Rounds[i] :
            Rounds[i] \subseteq lo..hi /\ Cardinality(Objects(lo, hi)) <= MaxObjects
       /\ \A j \in 1..Len(Rounds) : i # j => Rounds[i] \cap Rounds[j] = {}
  /\ Configured \subseteq Assets /\ PriorRank \in [Configured -> Nat]
  /\ PriorExcluded \subseteq Configured
  /\ DOMAIN PriorStarts = Configured /\ DOMAIN PriorAccepted = Configured
  /\ \A a \in Configured :
       /\ PriorStarts[a] \subseteq Nat /\ IsFiniteSet(PriorStarts[a])
       /\ PriorAccepted[a] \subseteq PriorStarts[a] /\ PriorAccepted[a] # {}
  /\ {} \in Reuses /\ Reuses \subseteq SUBSET (Assets \X Starts)

VARIABLES
  pc,
  reuse,          \* the markets that have one identity
  unchecked,      \* the prior proofs still to revalidate
  asset,          \* the one being revalidated
  left,           \* the starts of it, or of the round, still to ask for
  known,          \* the starts of it, or of the round, whose markets are known
  reused,         \* reused_prior_assets
  invalidated,    \* invalidated prior assets
  seen,           \* the markets whose identities are taken
  gamma,          \* gamma_requests, those of a finished phase
  asked,          \* gamma_requests of the current qualification
  round,          \* executed_rounds
  candidates,     \* the candidates of the current round
  probed,         \* source_identities of the current round
  heads,          \* source_requests, those of finished rounds
  probes,         \* source_requests of the current qualification
  objects,        \* source_objects
  qualified,      \* qualified_starts
  fresh,          \* qualified_new_starts
  usable,         \* usable_by_start, as pairs of an asset and a start
  proof,          \* proofs_by_asset: the accepted starts, {} if there is none
  receipt         \* config/canary-receipt.json, or None

priorVars == <<unchecked, asset, reused, invalidated>>
askVars   == <<left, known, candidates, probed, probes, asked>>
sumVars   == <<gamma, heads, objects, round>>
bookVars  == <<seen, qualified, fresh, usable, proof>>
vars == <<pc, reuse, priorVars, askVars, sumVars, bookVars, receipt>>

Ended == {"passed", "failed", "exceeded"}

\* Where the canary is still at work.
Working == {"prior", "ask", "search", "qualify", "execute", "select"}

Init ==
  /\ pc = "prior" /\ reuse \in Reuses
  /\ unchecked = Configured /\ asset = None
  /\ reused = {} /\ invalidated = {}
  /\ left = {} /\ known = {} /\ candidates = {} /\ probed = {}
  /\ probes = 0 /\ asked = 0
  /\ gamma = 0 /\ heads = 0 /\ objects = 0 /\ round = 0
  /\ seen = {} /\ qualified = {} /\ fresh = {} /\ usable = {}
  /\ proof = [a \in Assets |-> {}]
  /\ receipt = None

-----------------------------------------------------------------------------
Goto(l) == pc' = l

\* Gamma gives a market of M the identity of another one of M or of seen.
Repeats(M) == reuse # {} /\ reuse \subseteq seen \cup M /\ reuse \cap M # {}

Uncovered == {a \in Assets : proof[a] = {}}

Of(a, S) == {a} \X S

\* CANARY_PRIOR_GAMMA_REQUESTS, which _load_prior_canary_evidence checks to be
\* the number of starts of all the prior proofs.
PriorRequests == Cardinality({m \in Configured \X PriorMarkets : m[2] \in PriorStarts[m[1]]})

\* Mutant of MaxGammaRequests: the budget of the rounds only.
MaxRoundRequests == MaxCandidates * Len(Rounds) * Cardinality(Assets)

\* CANARY_MAX_GAMMA_REQUESTS_TOTAL and CANARY_MAX_SOURCE_OBJECTS_TOTAL.
MaxGammaRequests == MaxCandidates * Len(Rounds) * Cardinality(Assets) + PriorRequests
MaxObjectsTotal  == MaxObjects * Len(Rounds)

-----------------------------------------------------------------------------
(***************************************************************************)
(* _revalidate_prior_canary_evidence.                                      *)
(***************************************************************************)

\* The next proof of the file: its remote partition is downloaded and verified.
BeginPrior(a) ==
  /\ pc = "prior" /\ a \in unchecked
  /\ \A b \in unchecked : PriorRank[a] <= PriorRank[b]
  /\ asset' = a
  /\ unchecked' = unchecked \ {a}
  /\ left' = PriorStarts[a] /\ known' = {}
  /\ Goto("ask")
  /\ UNCHANGED <<reuse, reused, invalidated, candidates, probed, probes, asked,
                 sumVars, bookVars, receipt>>

\* One Gamma request for the next of its starts.  A market that is missing or
\* not resolved invalidates the proof without asking for the other starts.
AskPrior ==
  LET s == Min(left) IN
  /\ pc = "ask" /\ left # {}
  /\ gamma' = gamma + 1
  /\ \/ /\ invalidated' = invalidated \cup {asset}
        /\ Goto("prior")
        /\ UNCHANGED <<left, known>>
     \/ /\ Repeats(Of(asset, known \cup {s}))
        /\ Goto("failed")
        /\ UNCHANGED <<invalidated, left, known>>
     \/ /\ ~Repeats(Of(asset, known \cup {s}))
        /\ left' = left \ {s} /\ known' = known \cup {s}
        /\ UNCHANGED <<pc, invalidated>>
  /\ UNCHANGED <<reuse, unchecked, asset, reused, candidates, probed, probes,
                 asked, heads, objects, round, bookVars, receipt>>

\* Mutant of EndPrior: the identities of a reused proof are not kept.
EndPriorForgets ==
  /\ pc = "ask" /\ left = {}
  /\ Goto("prior")
  /\ \/ /\ invalidated' = invalidated \cup {asset}
        /\ UNCHANGED <<reused, bookVars>>
     \/ /\ reused' = reused \cup {asset}
        /\ qualified' = qualified \cup PriorStarts[asset]
        /\ usable' = usable \cup Of(asset, PriorAccepted[asset])
        /\ proof' = [proof EXCEPT ![asset] = PriorAccepted[asset]]
        /\ UNCHANGED <<invalidated, seen, fresh>>
  /\ UNCHANGED <<reuse, unchecked, asset, askVars, sumVars, receipt>>

\* All its markets are resolved: the proof is reused unless the authority of an
\* accepted one has drifted.
EndPrior ==
  /\ pc = "ask" /\ left = {}
  /\ Goto("prior")
  /\ \/ /\ invalidated' = invalidated \cup {asset}
        /\ UNCHANGED <<reused, bookVars>>
     \/ /\ reused' = reused \cup {asset}
        /\ seen' = seen \cup Of(asset, PriorStarts[asset])
        /\ qualified' = qualified \cup PriorStarts[asset]
        /\ usable' = usable \cup Of(asset, PriorAccepted[asset])
        /\ proof' = [proof EXCEPT ![asset] = PriorAccepted[asset]]
        /\ UNCHANGED <<invalidated, fresh>>
  /\ UNCHANGED <<reuse, unchecked, asset, askVars, sumVars, receipt>>

\* Every proof is revalidated.
BeginSearch ==
  /\ pc = "prior" /\ unchecked = {}
  /\ Goto(CASE gamma > PriorRequests -> "exceeded"
            [] gamma <= PriorRequests /\ qualified \cap RoundStarts # {} -> "failed"
            [] OTHER -> "search")
  /\ UNCHANGED <<reuse, priorVars, askVars, sumVars, bookVars, receipt>>

-----------------------------------------------------------------------------
(***************************************************************************)
(* The rounds: qualify_canary_candidates and _execute_canary_round.        *)
(***************************************************************************)

BeginRound ==
  /\ pc = "search" /\ Uncovered # {} /\ round < Len(Rounds)
  /\ left' = Rounds[round + 1] /\ known' = {} /\ candidates' = {}
  /\ probed' = {} /\ probes' = 0 /\ asked' = 0
  /\ Goto("qualify")
  /\ UNCHANGED <<reuse, priorVars, sumVars, bookVars, receipt>>

\* HEAD requests for the objects not probed yet.
Probe(hours) ==
  /\ probed' = probed \cup hours
  /\ probes' = probes + Cardinality(hours \ probed)

\* On to l, within the budgets of a round.
Within(l) ==
  Goto(IF asked' > MaxCandidates * Cardinality(Uncovered) \/ probes' > MaxObjects
       THEN "exceeded" ELSE l)

\* The position among the uncovered assets: the requests made for a start that
\* is rejected at asset a.
Position(a) == Cardinality({b \in Uncovered : Rank[b] <= Rank[a]})

\* The latest start of the round that is left.  Gamma is asked for one uncovered
\* asset after the other, up to the first without a resolved market.
Reject(a) ==
  /\ pc = "qualify" /\ left # {} /\ a \in Uncovered
  /\ left' = left \ {Max(left)}
  /\ asked' = asked + Position(a)
  /\ UNCHANGED probes
  /\ Within("qualify")
  /\ UNCHANGED <<reuse, priorVars, known, candidates, probed, sumVars, bookVars, receipt>>

\* A start of which every uncovered asset has a resolved market becomes a
\* candidate, unless the archive misses one of its objects.
Accept ==
  LET s == Max(left) IN
  /\ pc = "qualify" /\ left # {}
  /\ left' = left \ {s}
  /\ known' = known \cup {s}
  /\ asked' = asked + Cardinality(Uncovered)
  /\ \/ /\ Repeats(Uncovered \X known')
        /\ UNCHANGED <<candidates, probed, probes>>
        /\ Within("failed")
     \/ /\ ~Repeats(Uncovered \X known')
        /\ Objects(s, s) \cap Missing # {}
        /\ UNCHANGED <<candidates, probed, probes>>
        /\ Within("qualify")
     \/ /\ ~Repeats(Uncovered \X known')
        /\ Objects(s, s) \cap Missing = {}
        /\ candidates' = candidates \cup {s}
        /\ Probe(Objects(s, s))
        /\ Within("qualify")
  /\ UNCHANGED <<reuse, priorVars, sumVars, bookVars, receipt>>

\* The objects between the earliest and the latest candidate.
Bundle == Objects(Min(candidates), Max(candidates))

\* Without candidates, or with a missing object between them, a round cannot be
\* executed.
Unusable == candidates = {} \/ (candidates # {} /\ Bundle \cap Missing # {})

\* The end of a qualification, and the aggregate bounds.
CloseQualification ==
  /\ pc = "qualify" /\ left = {}
  /\ \/ /\ Unusable = TRUE
        /\ Goto("failed")
        /\ UNCHANGED <<probed, probes, gamma, heads, objects, seen>>
     \/ /\ Unusable = FALSE
        /\ Probe(Bundle)
        /\ gamma' = gamma + asked
        /\ heads' = heads + probes'
        /\ objects' = objects + Cardinality(probed')
        /\ seen' = seen \cup (Uncovered \X candidates)
        /\ Goto(IF \/ probes' > MaxObjects
                   \/ gamma' > MaxGammaRequests
                   \/ heads' > MaxObjectsTotal
                   \/ objects' > MaxObjectsTotal
                THEN "exceeded" ELSE "execute")
  /\ UNCHANGED <<reuse, priorVars, left, known, candidates, asked, round,
                 qualified, fresh, usable, proof, receipt>>

\* The child run publishes a partition of the candidates for each uncovered
\* asset, and its remote copy is verified: acc has the markets it accepted.
Execute(acc) ==
  /\ pc = "execute"
  /\ round' = round + 1
  /\ qualified' = qualified \cup candidates
  /\ fresh' = fresh \cup candidates
  /\ usable' = usable \cup {m \in Uncovered \X candidates : m[2] \in acc[m[1]]}
  /\ proof' = [a \in Assets |-> IF a \in Uncovered THEN acc[a] ELSE proof[a]]
  /\ Goto("search")
  /\ UNCHANGED <<reuse, priorVars, askVars, gamma, heads, objects, seen, receipt>>

\* The rounds are over, because nothing is left to cover or no round is left.
EndSearch ==
  /\ pc = "search"
  /\ \/ Uncovered = {} /\ Goto("select")
     \/ Uncovered # {} /\ round = Len(Rounds) /\ Goto("failed")
  /\ UNCHANGED <<reuse, priorVars, askVars, sumVars, bookVars, receipt>>

-----------------------------------------------------------------------------
(***************************************************************************)
(* minimum_canary_cover.                                                   *)
(***************************************************************************)

\* Mutant of Better: of two covers of one length the first found is kept.
BetterIfShorter(x, y) == Len(x) < Len(y) \/ (Len(x) = Len(y) /\ x[Len(x)] < y[Len(y)])

\* Shorter, or of the same length and with the later starts.
Better(x, y) ==
  \/ Len(x) < Len(y)
  \/ /\ Len(x) = Len(y)
     /\ \E i \in 1..Len(x) : x[i] > y[i] /\ \A j \in 1..i - 1 : x[j] = y[j]

\* The assets that the starts of x cover.
CoveredBy(x, pairs) == {a \in Assets : \E i \in DOMAIN x : <<a, x[i]>> \in pairs}

\* best_by_mask, as the set of its selections, after one more start: the best
\* one for each set of covered assets.
Extend(best, s, pairs) ==
  LET found == best \cup {Append(x, s) : x \in best} IN
  {x \in found : \A y \in found :
     CoveredBy(y, pairs) = CoveredBy(x, pairs) => x = y \/ Better(x, y)}

\* One start after the other, from the latest to the earliest.
BestByMask(pairs) ==
  LET starts == {m[2] : m \in pairs}
      best[S \in SUBSET starts] ==
        IF S = {} THEN {<<>>} ELSE Extend(best[S \ {Min(S)}], Min(S), pairs)
  IN best[starts]

MinimumCover(pairs) ==
  CHOOSE x \in BestByMask(pairs) : CoveredBy(x, pairs) = Assets

-----------------------------------------------------------------------------
(***************************************************************************)
(* The receipt and its gate.                                               *)
(***************************************************************************)

\* checked_exclusion_assets: reused proofs that have exclusions, and every
\* asset a round has executed.
ExclusionChecked ==
  (reused \cap PriorExcluded) \cup {a \in Assets \ reused : round > 0}

WriteReceipt ==
  LET selected == MinimumCover(usable) IN
  /\ pc = "select"
  /\ receipt' =
       [prior       |-> reused,
        invalidated |-> invalidated,
        rounds      |-> round,
        qualified   |-> qualified,
        fresh       |-> Cardinality(fresh),
        total       |-> Cardinality(qualified),
        gamma       |-> gamma,
        heads       |-> heads,
        objects     |-> objects,
        exclusions  |-> Cardinality(ExclusionChecked),
        usable      |-> usable,
        proof       |-> proof,
        selected    |-> selected,
        starts      |-> [a \in Assets |->
                           Max({s \in ToSet(selected) : <<a, s>> \in usable})]]
  /\ Goto("passed")
  /\ UNCHANGED <<reuse, priorVars, askVars, sumVars, bookVars>>

\* _require_canary_receipt, the dispositions of prior evidence.
PriorIsDisposed(r) ==
  /\ r.prior \cup r.invalidated = Configured
  /\ r.prior \cap r.invalidated = {}

\* Its counts: rounds, qualified starts, requests, objects.
CountsAgree(r) ==
  LET prior == UNION {PriorStarts[a] : a \in r.prior} IN
  /\ r.rounds \in 0..Len(Rounds)
  /\ r.rounds = 0 => r.prior = Assets /\ r.invalidated = {} /\ r.heads = 0
  /\ r.rounds <= r.fresh /\ r.fresh <= r.rounds * MaxCandidates
  /\ r.total = r.fresh + Cardinality(prior)
  /\ Cardinality(r.qualified) = r.total
  /\ r.qualified \subseteq RoundStarts \cup prior
  /\ RoundStarts \cap prior = {}
  /\ r.gamma <= MaxGammaRequests
  /\ r.rounds = 0 => r.gamma = PriorRequests
  /\ r.heads \in 0..MaxObjectsTotal
  /\ r.objects = r.heads
  /\ r.rounds > 0 => r.heads >= 1
  /\ r.exclusions = Cardinality(Assets)

\* Its lower bound on Gamma requests.
EnoughRequests(r) == PriorRequests <= r.gamma

\* _validate_receipt_coverage: usable starts are those of the proofs, with
\* distinct identities, and the cover is recomputed from them.
CoverageIsBound(r) ==
  /\ \A a \in Assets :
       /\ r.proof[a] # {} /\ r.proof[a] \subseteq r.qualified
       /\ r.proof[a] = {s \in Starts : <<a, s>> \in r.usable}
  /\ reuse = {} \/ \E m \in reuse : m[2] \notin r.proof[m[1]]
  /\ r.selected = MinimumCover(r.usable)
  /\ Len(r.selected) \in 1..Cardinality(Assets)
  /\ ToSet(r.selected) \subseteq r.qualified
  /\ \A a \in Assets : r.starts[a] \in r.proof[a] \cap ToSet(r.selected)

GateAccepts(r) ==
  PriorIsDisposed(r) /\ CountsAgree(r) /\ EnoughRequests(r) /\ CoverageIsBound(r)

-----------------------------------------------------------------------------
\* A deadline, a failed request or child, a proof whose immutable identity has
\* changed, a byte or disk bound.
Abort ==
  /\ pc \in Working
  /\ Goto("failed")
  /\ UNCHANGED <<reuse, priorVars, askVars, sumVars, bookVars, receipt>>

Proceed ==
  \/ \E a \in Configured : BeginPrior(a)
  \/ AskPrior \/ EndPrior \/ BeginSearch
  \/ BeginRound \/ (\E a \in Assets : Reject(a)) \/ Accept \/ CloseQualification
  \/ \E acc \in [Uncovered -> SUBSET candidates] : Execute(acc)
  \/ EndSearch \/ WriteReceipt

Next == Proceed \/ Abort

Spec == Init /\ [][Next]_vars

-----------------------------------------------------------------------------
(***************************************************************************)
(* Properties.                                                             *)
(***************************************************************************)

\* The frozen budgets are never what stops a canary: whatever Gamma and the
\* archive answer, the requests of the prior proofs and of all the rounds fit
\* into them (load_authority and _load_prior_canary_evidence check the numbers
\* of starts only).
BudgetsSuffice == pc # "exceeded"

\* Whatever happened on the way, the receipt that command_canary writes opens
\* the gate of the production jobs -- unless the canary made fewer requests than
\* the prior evidence has starts, or reused a proof without exclusions.
ReceiptOpensGate ==
  receipt # None =>
    \/ GateAccepts(receipt)
    \/ ~EnoughRequests(receipt)
    \/ ~(receipt.prior \subseteq PriorExcluded)

\* A set of starts at which every asset is usable.
Covers(S, pairs) == \A a \in Assets : \E s \in S : <<a, s>> \in pairs

\* S has the later starts: the latest start in which they differ is in S.
Later(S, T) == S # T => Max((S \ T) \cup (T \ S)) \in S

\* The starts the receipt selects cover all assets, no smaller set does, and of
\* the smallest ones they are the latest (README.md:8 "preferring a common
\* resolved 15-minute window and otherwise using the minimum qualifying windows").
CoverIsMinimum ==
  receipt # None =>
    LET chosen == ToSet(receipt.selected) IN
    /\ Covers(chosen, receipt.usable)
    /\ \A T \in SUBSET {m[2] : m \in receipt.usable} :
         Covers(T, receipt.usable) =>
           \/ Cardinality(chosen) < Cardinality(T)
           \/ Cardinality(chosen) = Cardinality(T) /\ Later(chosen, T)
=============================================================================
