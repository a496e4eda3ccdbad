---------------------------- MODULE PublicCheck ----------------------------
(***************************************************************************)
(* The public checker (evaluation-target/src/bin/check-public-completion): *)
(* from the files a ceremony published and a runtime identity the caller   *)
(* names, it verifies the roster, the setup, the close and every needed    *)
(* ballot, evaluates the target, and then takes votes and releases in      *)
(* position order.  The directory is not trusted: any file may be changed  *)
(* or missing, a vote or a submission may be filed under the name of       *)
(* another, and the index, which nobody signs, may be rewritten.  Before   *)
(* the completion what does not verify refuses the whole check; a vote or  *)
(* a release that does not is left out.                                    *)
(***************************************************************************)
EXTENDS ProtocolRules, FiniteSets, Sequences, SequencesExt

CONSTANTS
  N,           \* participants
  Selected,    \* positions of the certified selection, in order
  Lists,       \* the envelopes each named response lists, by responder
  Index,       \* the stored submissions, in the index's order
  ValidSets,   \* the sets of authors whose bodies may prove valid
  Selectors,   \* "target" without a completion directory, or a completion stage
  MaxFaults    \* deviations of the directory; one more within its stored
               \* submissions or within its completion (bound)

Positions == 0..(N - 1)
Q == InventoryThreshold(N)
D == ReleaseThreshold(N)
Named == DOMAIN Lists
Ordinals == 1..Len(Index)

Of(kind, numbers) == {<<kind, i>> : i \in numbers}
Files ==
  Of("context", {0}) \cup Of("registration", Positions) \cup Of("roster", {0})
  \cup Of("certificate", {0}) \cup Of("offer", ToSet(Selected))
  \cup Of("intent", {0}) \cup Of("proposal", {0})
  \cup Of("response", Named) \cup Of("copy", Named)
  \cup Of("index", {0}) \cup Of("submission", Ordinals) \cup Of("body", Ordinals)
  \cup Of("target", {0}) \cup Of("vote", Positions)
  \cup Of("envelope", Positions) \cup Of("release", Positions)
\* Files that are read by what is in them, and under whose name another
\* published item of the kind verifies as well.
Movable == Of("vote", Positions) \cup Of("submission", Ordinals)
Filed(f) == IF f[1] = "vote" THEN Positions ELSE Ordinals

AtMost(k, S) == UNION {{ToSet(s) : s \in [1..j -> S]} : j \in 0..k}

VARIABLES
  files,     \* "genuine", "changed" or "absent"
  holds,     \* whose item a movable file has, by position or ordinal
  index,     \* the body file that each line of the index names; 0 is a path
             \* outside the ceremony directory
  valid,     \* authors whose body's proof verifies
  selector,
  stage, at, \* where the check is, and the item of its loop
  scratch,   \* ordinals of the partial aggregates on disk
  needed, envelopes, bodies, \* listed, authenticated and read submissions
  accepted,  \* accepted authors of the evaluated target
  votes, noVotes, badVotes,
  shares, noShares, badShares,
  outcome    \* "none" while the check runs

progress == <<scratch, needed, envelopes, bodies, accepted>>
collected == <<votes, noVotes, badVotes, shares, noShares, badShares>>
directory == <<files, holds, index>>
vars == <<directory, valid, selector, stage, at, progress, collected, outcome>>

Genuine(kind, i) == files[<<kind, i>>] = "genuine"
Present(kind, i) == files[<<kind, i>>] # "absent"

\* The index as it was published, and the ones that differ from it by the lines
\* after some or by the body that one line names.
Published == [k \in Ordinals |-> k]
Rewritten ==
  {SubSeq(Published, 1, k) : k \in 0..(Len(Index) - 1)}
  \cup {[Published EXCEPT ![k] = b] : k \in Ordinals, b \in {0} \cup Ordinals}

\* The kinds of the files that may deviate together.
Whole == {f[1] : f \in Files}
Stored == {"index", "submission", "body"}
Completing == {"vote", "envelope", "release"}

Directory(kinds, bound) ==
  \E damaged \in AtMost(bound, {f \in Files : f[1] \in kinds}),
     moved \in AtMost(bound, {f \in Movable : f[1] \in kinds}) :
    /\ index \in (IF "index" \in kinds THEN Rewritten ELSE {}) \cup {Published}
    /\ Cardinality(damaged) + Cardinality(moved) + (IF index = Published THEN 0 ELSE 1) <= bound
    /\ \E damage \in [damaged -> {"changed", "absent"}] :
         files = [f \in Files |-> IF f \in damaged THEN damage[f] ELSE "genuine"]
    /\ \E place \in [moved -> Positions \cup Ordinals] :
         /\ \A f \in moved : place[f] \in Filed(f)
         /\ holds = [f \in Movable |-> IF f \in moved THEN place[f] ELSE f[2]]

\* The stored submissions are read before the selector is looked at, and the
\* completion only when there is one.
Init ==
  /\ selector \in Selectors
  /\ \/ Directory(Whole, MaxFaults)
     \/ selector = "target" /\ Directory(Stored, MaxFaults + 1)
     \/ selector # "target" /\ Directory(Completing, MaxFaults + 1)
  /\ valid \in ValidSets
  /\ stage = "context" /\ at = 0
  /\ scratch = {} /\ needed = {} /\ envelopes = {} /\ bodies = {} /\ accepted = {}
  /\ votes = {} /\ noVotes = {} /\ badVotes = {}
  /\ shares = {} /\ noShares = {} /\ badShares = {}
  /\ outcome = "none"

End(result) ==
  /\ outcome' = result
  /\ UNCHANGED <<stage, at>>

\* The next item of a loop, or the next stage.
Continue(s, i) ==
  /\ stage' = s
  /\ at' = i
  /\ UNCHANGED outcome

\* A mandatory item: the check ends unless it verifies.
Require(verified, s, i) == IF verified THEN Continue(s, i) ELSE End("refused")

At(s) == outcome = "none" /\ stage = s

----
(* Roster and setup. *)

\* The participants are the directories from position zero on.
Count == Cardinality({p \in Positions : \A r \in 0..p : Present("registration", r)})

\* The definition verifies under the named runtime and its own poll identity.
ReadContext ==
  /\ At("context")
  /\ Require(Genuine("context", 0) /\ Count >= 3, "proposed", 0)
  /\ UNCHANGED <<directory, valid, selector, progress, collected>>

\* The proposed record identities, for exactly the participants found.  They
\* grant nothing before the rebuilt proposal equals them.
ReadProposed ==
  /\ At("proposed")
  /\ Require(Present("roster", 0) /\ Count = N, "registration", 0)
  /\ UNCHANGED <<directory, valid, selector, progress, collected>>

ReadRegistration ==
  /\ At("registration")
  /\ Require(Genuine("registration", at),
             IF at + 1 < N THEN "registration" ELSE "roster", IF at + 1 < N THEN at + 1 ELSE 0)
  /\ UNCHANGED <<directory, valid, selector, progress, collected>>

\* The rebuilt proposal is the published one, signed by the organizer.
AuthenticateRoster ==
  /\ At("roster")
  /\ Require(Genuine("roster", 0), "certificate", 0)
  /\ UNCHANGED <<directory, valid, selector, progress, collected>>

AuthenticateCertificate ==
  /\ At("certificate")
  /\ Require(Genuine("certificate", 0), "offer", 1)
  /\ UNCHANGED <<directory, valid, selector, progress, collected>>

\* The complete offer of each selected author.
VerifyOffer ==
  /\ At("offer")
  /\ Require(Genuine("offer", Selected[at]),
             IF at < Len(Selected) THEN "offer" ELSE "aggregate",
             IF at < Len(Selected) THEN at + 1 ELSE 1)
  /\ UNCHANGED <<directory, valid, selector, progress, collected>>

\* Each offer is added to the partial aggregate before it, which stays on disk
\* while the next one is written.
AddOffer ==
  /\ At("aggregate")
  /\ scratch' = scratch \cup {at}
  /\ Require(at > 1 => at - 1 \in scratch, "retire", at)
  /\ UNCHANGED <<directory, valid, selector, needed, envelopes, bodies, accepted, collected>>

\* Mutant: the finished partial is retired instead of the one before it.
OwnRetired(partials) == IF at > 1 THEN partials \ {at} ELSE partials

\* A finished partial aggregate retires the one before it.
Retired(partials) == partials \ {at - 1}

RetirePartial ==
  /\ At("retire")
  /\ scratch' = Retired(scratch)
  /\ Continue(IF at < Len(Selected) THEN "aggregate" ELSE "intent",
              IF at < Len(Selected) THEN at + 1 ELSE 0)
  /\ UNCHANGED <<directory, valid, selector, needed, envelopes, bodies, accepted, collected>>

----
(* The close. *)

AuthenticateIntent ==
  /\ At("intent")
  /\ Require(Genuine("intent", 0), "proposal", 0)
  /\ UNCHANGED <<directory, valid, selector, progress, collected>>

\* The named responses decide what else is read; the signature of the proposal
\* is verified at the end.  What was changed may not parse.
ReadProposal ==
  /\ At("proposal")
  /\ \/ Require(Present("proposal", 0), "response", 0)
     \/ ~Genuine("proposal", 0) /\ End("refused")
  /\ UNCHANGED <<directory, valid, selector, progress, collected>>

NextNamed(p) == {r \in Named : r > p}

\* The organizer's copy under the named identity, or else the responder's own.
ResponseFile(p) == IF Present("copy", p) THEN <<"copy", p>> ELSE <<"response", p>>

ReadResponse ==
  /\ At("response")
  /\ needed' = needed \cup Lists[at]
  /\ Require(files[ResponseFile(at)] # "absent",
             IF NextNamed(at) # {} THEN "response" ELSE "index",
             IF NextNamed(at) # {} THEN CHOOSE r \in NextNamed(at) : \A t \in NextNamed(at) : r <= t
             ELSE 0)
  /\ UNCHANGED <<directory, valid, selector, scratch, envelopes, bodies, accepted, collected>>

ToResponses(k) == k >= Len(index)

\* Mutant: the index must be the one that the driver wrote.
OwnIndex == index = Published

\* The index is well formed and names its submissions in order.
WellFormed == Genuine("index", 0)

ReadIndex ==
  /\ At("index")
  /\ Require(WellFormed, IF ToResponses(0) THEN "responses" ELSE "submission",
             IF ToResponses(0) THEN 0 ELSE 1)
  /\ UNCHANGED <<directory, valid, selector, progress, collected>>

Submitted(k) == Index[holds[<<"submission", k>>]]

\* Every submission of the index authenticates, whoever's it is; the needed ones
\* are kept, each with the path of the first line that has it.
ReadSubmission ==
  LET e == Submitted(at)
  IN  /\ At("submission")
      /\ envelopes' = envelopes \cup ({e} \cap needed)
      /\ Require(/\ Genuine("submission", at)
                 /\ e \in needed \ envelopes => index[at] # 0,
                 IF ToResponses(at) THEN "responses" ELSE "submission",
                 IF ToResponses(at) THEN 0 ELSE at + 1)
      /\ UNCHANGED <<directory, valid, selector, scratch, needed, bodies, accepted, collected>>

BodyFile(e) == index[Min({k \in DOMAIN index : Submitted(k) = e})]

AuthenticateResponses ==
  /\ At("responses")
  /\ Require(/\ \A p \in Named : files[ResponseFile(p)] = "genuine"
             /\ needed \subseteq envelopes,
             "body", 0)
  /\ UNCHANGED <<directory, valid, selector, progress, collected>>

\* The bodies of the usable slots: one listed envelope.
Required == {e \in needed : \A d \in needed : d.author = e.author => d = e}

\* The required body of each position authenticates and is classified under the
\* aggregate's key; no other is read.
ReadBody ==
  LET own == {e \in Required : e.author = at}
  IN  /\ At("body")
      /\ bodies' = bodies \cup own
      /\ Require(\A e \in own :
                   /\ Genuine("body", BodyFile(e)) /\ Index[BodyFile(e)] = e
                   /\ Len(Selected) \in scratch,
                 IF at + 1 < N THEN "body" ELSE "evaluate", IF at + 1 < N THEN at + 1 ELSE 0)
      /\ UNCHANGED <<directory, valid, selector, scratch, needed, envelopes, accepted, collected>>

HasResult == Cardinality(accepted) >= MinimumTurnout(N)

\* Mutant: every required body is accepted.
TrustingAccepted(read) == {e.author : e \in read}

\* The accepted authors of the classified inventory.
Accepted(read) == {e.author : e \in read} \cap valid

\* The proposal verifies, and the classified inventory is evaluated; only then
\* does the selector matter.
Evaluate ==
  /\ At("evaluate")
  /\ accepted' = Accepted(bodies)
  /\ IF selector = "target" /\ Genuine("proposal", 0) /\ Required \subseteq bodies
     THEN End("target")
     ELSE Require(Genuine("proposal", 0) /\ Required \subseteq bodies, "target", 0)
  /\ UNCHANGED <<directory, valid, selector, scratch, needed, envelopes, bodies, collected>>

----
(* The completion. *)

CompareTarget ==
  /\ At("target")
  /\ Require(Genuine("target", 0), "vote", 0)
  /\ UNCHANGED <<directory, valid, selector, progress, collected>>

Enough == Cardinality(votes) >= Q

\* Mutant: the author of a vote is the position its file is named for.
NamedVoter(p) == p

\* The author of a vote is in its packet.
Voter(p) == holds[<<"vote", p>>]

\* Files in position order until there are votes enough; a missing one and an
\* invalid one are noted and passed over.  A vote that was already taken under
\* another name changes nothing.
ReadVote ==
  /\ At("vote") /\ at < N /\ ~Enough
  /\ votes' = IF Genuine("vote", at) THEN votes \cup {Voter(at)} ELSE votes
  /\ noVotes' = IF Present("vote", at) THEN noVotes ELSE noVotes \cup {at}
  /\ badVotes' = IF Present("vote", at) /\ ~Genuine("vote", at) THEN badVotes \cup {at} ELSE badVotes
  /\ Continue("vote", at + 1)
  /\ UNCHANGED <<directory, valid, selector, progress, shares, noShares, badShares>>

\* The certificate, and the outcomes that need no release.
Certificate ==
  /\ At("vote") /\ (at = N \/ Enough)
  /\ CASE ~Enough -> End("blocked")
       [] Enough /\ selector = "certificate" -> End("certified")
       [] Enough /\ selector # "certificate" /\ ~HasResult ->
            End(IF selector = "release" THEN "refused" ELSE "no-result")
       [] OTHER -> Continue("release", 0)
  /\ UNCHANGED <<directory, valid, selector, progress, collected>>

\* Whether a published release proves its share.
Share(p) == Genuine("envelope", p) /\ Genuine("release", p)

Missing(p) ==
  ~Present("envelope", p) \/ (Genuine("envelope", p) /\ ~Present("release", p))

\* Releases in position order; the first share, or enough of them, end it.
ReadRelease ==
  /\ At("release")
  /\ IF at = N
     THEN /\ End("blocked")
          /\ UNCHANGED <<shares, noShares, badShares>>
     ELSE /\ shares' = IF Share(at) THEN shares \cup {at} ELSE shares
          /\ noShares' = IF ~Share(at) /\ Missing(at) THEN noShares \cup {at} ELSE noShares
          /\ badShares' = IF ~Share(at) /\ ~Missing(at) THEN badShares \cup {at} ELSE badShares
          /\ CASE Share(at) /\ selector = "release" -> End("released")
               [] selector = "terminal" /\ Cardinality(shares') >= D -> End("result")
               [] OTHER -> Continue("release", at + 1)
  /\ UNCHANGED <<directory, valid, selector, progress, votes, noVotes, badVotes>>

Stop == outcome # "none" /\ UNCHANGED vars

Next ==
  \/ ReadContext \/ ReadProposed \/ ReadRegistration \/ AuthenticateRoster
  \/ AuthenticateCertificate \/ VerifyOffer \/ AddOffer \/ RetirePartial
  \/ AuthenticateIntent \/ ReadProposal \/ ReadResponse \/ ReadIndex
  \/ ReadSubmission \/ AuthenticateResponses \/ ReadBody \/ Evaluate
  \/ CompareTarget \/ ReadVote \/ Certificate \/ ReadRelease
  \/ Stop

Spec == Init /\ [][Next]_vars

----
TypeOK ==
  /\ files \in [Files -> {"genuine", "changed", "absent"}]
  /\ \A f \in Movable : holds[f] \in Filed(f)
  /\ index \in Seq({0} \cup Ordinals)
  /\ scratch \subseteq 1..Len(Selected)
  /\ UNION {votes, noVotes, badVotes, shares, noShares, badShares} \subseteq Positions
  /\ accepted \subseteq Positions
  /\ outcome \in {"none", "refused", "blocked", "target", "certified", "no-result", "released", "result"}

Done == outcome # "none"

\* The listed envelopes of slots with one, and what a check may not do without.
Usable == {e \in UNION {Lists[p] : p \in Named} :
             \A d \in UNION {Lists[p] : p \in Named} : d.author = e.author => d = e}

\* The submissions that the lines of the index lead to, and the first line of each.
Reachable == {Submitted(k) : k \in DOMAIN index}

Evaluable ==
  /\ \A f \in Files : f[1] \in {"context", "registration", "roster", "certificate", "offer", "intent",
                                "proposal", "index"} => files[f] = "genuine"
  /\ \A p \in Named : Genuine("copy", p) \/ (~Present("copy", p) /\ Genuine("response", p))
  /\ \A k \in DOMAIN index : Genuine("submission", k)
  /\ UNION {Lists[p] : p \in Named} \subseteq Reachable
  /\ \A p \in Named : \A e \in Lists[p] : BodyFile(e) # 0
  /\ \A e \in Usable : Genuine("body", BodyFile(e)) /\ Index[BodyFile(e)] = e

GenuineVotes == {holds[<<"vote", p>>] : p \in {p \in Positions : Genuine("vote", p)}}
GenuineShares == {p \in Positions : Genuine("envelope", p) /\ Genuine("release", p)}
ResultExpected == Cardinality({e.author : e \in Usable} \cap valid) >= MinimumTurnout(N)

\* The outcome as a function of the directory alone: what the target depends on
\* refuses, too few votes or shares block, and the rest never matters.  An index
\* that still leads to every listed submission is as good as the published one;
\* the bodies of conflicting and unlisted submissions are not read; a vote
\* counts once, under whatever names it is filed.
OutcomeExact ==
  Done =>
    outcome =
      CASE ~Evaluable -> "refused"
        [] Evaluable /\ selector = "target" -> "target"
        [] Evaluable /\ selector # "target" /\ ~Genuine("target", 0) -> "refused"
        [] Evaluable /\ selector # "target" /\ Genuine("target", 0)
           /\ Cardinality(GenuineVotes) < Q -> "blocked"
        [] OTHER ->
             CASE selector = "certificate" -> "certified"
               [] selector = "release" /\ ~ResultExpected -> "refused"
               [] selector = "terminal" /\ ~ResultExpected -> "no-result"
               [] selector = "release" /\ ResultExpected ->
                    IF GenuineShares # {} THEN "released" ELSE "blocked"
               [] OTHER -> IF Cardinality(GenuineShares) >= D THEN "result" ELSE "blocked"

\* A target the check evaluates accepts the valid authors of the usable slots,
\* whatever else the directory holds.
TargetSound == stage \in {"target", "vote", "release"} => accepted = {e.author : e \in Usable} \cap valid

\* The report accounts for the certificate: a file is reported as missing or as
\* invalid, never as both, or else its vote is in the certificate; and every
\* certificate author's vote is in a file that is not reported, although a file
\* named for that author may be.  The shares partition the positions read, and no
\* vote is taken after the first q.
ReportsAccount ==
  LET reported == noVotes \cup badVotes
  IN  /\ noVotes \cap badVotes = {}
      /\ stage = "vote" => \A p \in 0..(at - 1) : p \in reported \/ holds[<<"vote", p>>] \in votes
      /\ votes \subseteq {holds[<<"vote", p>>] : p \in Positions \ reported}
      /\ Cardinality(votes) <= Q
      /\ shares \cap noShares = {} /\ shares \cap badShares = {} /\ noShares \cap badShares = {}
      /\ stage = "release" /\ outcome = "none" => shares \cup noShares \cup badShares = 0..(at - 1)
====
