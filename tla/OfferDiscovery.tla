-------------------------- MODULE OfferDiscovery --------------------------
(***************************************************************************)
(* The organizer's discovery of contribution offers                        *)
(* (worker/relay/offer-discovery.ts, called by selectSetup): operations    *)
(* that each have a download budget, are cut when it is used up, may crash *)
(* between two awaits, and share a durable routing record: the position    *)
(* that comes next and how far each author's announcement list was read.   *)
(*                                                                         *)
(* An announcement is TRUE when collectOffer accepts the offer it names    *)
(* and FALSE when it does not.  Anybody may announce at any position.      *)
(***************************************************************************)
EXTENDS Integers, Sequences, FiniteSets, Functions

CONSTANTS
    Authors,        \* eligibleContributorCount
    Needed,         \* setupContributorCount
    PageEntries,    \* offerDiscoveryPageEntries
    MaxList,        \* bound on a list's length and on the total a page claims
    MaxFaults,      \* bound on crashes and unavailable pages together
    Budgets,        \* offers an operation's download budget admits
    HonestRelay     \* whether a page read answers from the stored lists

DiscoveryAssumption ==
    /\ Authors \in Nat \ {0}
    /\ Needed \in 1 .. Authors
    /\ PageEntries \in Nat \ {0}
    /\ MaxList \in Nat
    /\ MaxFaults \in Nat
    /\ Budgets \subseteq Nat \ {0}
    /\ HonestRelay \in BOOLEAN

VARIABLES
    list,       \* the relay's append-only announcements of each position
    offers,     \* the collection cache: positions of the collected offers
    saved,      \* the cache's 'discovery' record
    op,         \* the running operation, or Idle
    faults,     \* crashes and unavailable pages so far
    failed,     \* positions with an unavailable page in this scan
    promised    \* positions with an acceptable offer when the scan began

vars == <<list, offers, saved, op, faults, failed, promised>>

Positions == 0 .. Authors - 1

NoTotal == -1

Least(a, b) == IF a < b THEN a ELSE b

Most(a, b) == IF a > b THEN a ELSE b

Announcements == UNION {[1 .. n -> BOOLEAN] : n \in 0 .. MaxList}

\* No record: the scan starts at the first position of every list's start.
NoProgress ==
    [next |-> 0, authors |-> [p \in Positions |-> [offset |-> 0, total |-> NoTotal]]]

Idle ==
    [stage |-> "idle", start |-> 0, turn |-> 0, budget |-> 0,
     readers |-> [p \in Positions |->
        [offset |-> 0, total |-> NoTotal, left |-> <<>>,
         exhausted |-> FALSE, accepted |-> FALSE]]]

TypeOK ==
    /\ list \in [Positions -> Announcements]
    /\ offers \in UNION {[1 .. n -> Positions] : n \in 0 .. Needed}
    /\ saved \in [next : Positions,
                  authors : [Positions -> [offset : 0 .. MaxList, total : NoTotal .. MaxList]]]
    /\ op \in [stage : {"idle", "round", "turn", "page", "save"}, start : Positions,
               turn : 0 .. Authors, budget : Nat,
               readers : [Positions -> [offset : 0 .. MaxList, total : NoTotal .. MaxList,
                                        left : Announcements, exhausted : BOOLEAN,
                                        accepted : BOOLEAN]]]
    /\ faults \in 0 .. MaxFaults
    /\ failed \subseteq Positions
    /\ promised \subseteq Positions

Holding == {p \in Positions : TRUE \in Range(list[p])}

Init ==
    /\ list \in [Positions -> IF HonestRelay THEN {<<>>, <<TRUE>>, <<FALSE, TRUE>>}
                              ELSE {<<>>}]
    /\ offers = <<>>
    /\ saved = NoProgress
    /\ op = Idle
    /\ faults = 0
    /\ failed = {}
    /\ promised = {}

\* completed.some: the author's offer is in the collection already.
Completed(p) == p \in Range(offers)

(***************************************************************************)
(* Each reader resumes from the saved progress of its author.              *)
(***************************************************************************)
ResumedReader(p) ==
    [offset |-> saved.authors[p].offset,
     total |-> saved.authors[p].total,
     left |-> <<>>,
     exhausted |-> saved.authors[p].offset = saved.authors[p].total,
     accepted |-> Completed(p)]

\* Mutant: every operation starts its rounds at the first position.
StartAtFirst == 0

StartPosition == saved.next

(***************************************************************************)
(* selectSetup starts a discovery while the collection is incomplete.      *)
(***************************************************************************)
Start(budget) ==
    /\ op = Idle
    /\ Len(offers) < Needed
    /\ op' = [stage |-> "round", start |-> StartPosition, turn |-> 0, budget |-> budget,
              readers |-> [p \in Positions |-> ResumedReader(p)]]
    /\ promised' = IF saved = NoProgress THEN Holding ELSE promised
    /\ UNCHANGED <<list, offers, saved, faults, failed>>

\* The position whose turn it is in the rotated order.
OnTurn == (op.start + op.turn) % Authors

Reader == op.readers[OnTurn]

Unresolved(p) ==
    /\ ~op.readers[p].accepted
    /\ ~op.readers[p].exhausted \/ op.readers[p].left # <<>>

BeginRound ==
    /\ op.stage = "round"
    /\ \E p \in Positions : Unresolved(p)
    /\ op' = [op EXCEPT !.stage = "turn", !.turn = 0]
    /\ UNCHANGED <<list, offers, saved, faults, failed, promised>>

(***************************************************************************)
(* Too few complete offers: the operation fails and selectSetup deletes    *)
(* the record, so that the next operation scans the lists anew.            *)
(***************************************************************************)
Refuse ==
    /\ op.stage = "round"
    /\ \A p \in Positions : ~Unresolved(p)
    /\ op' = Idle
    /\ saved' = NoProgress
    /\ failed' = {}
    /\ UNCHANGED <<list, offers, faults, promised>>

\* The operation o goes on to the next position, or ends its round.
Advanced(o) ==
    IF o.turn + 1 = Authors THEN [o EXCEPT !.stage = "round"]
                            ELSE [o EXCEPT !.stage = "turn", !.turn = @ + 1]

Skip ==
    /\ op.stage = "turn"
    /\ \/ Reader.accepted
       \/ op.budget > 0 /\ Reader.left = <<>> /\ Reader.exhausted
    /\ op' = Advanced(op)
    /\ UNCHANGED <<list, offers, saved, faults, failed, promised>>

(***************************************************************************)
(* mayContinue: the next offer does not fit the operation's budget.  The   *)
(* record stays, and a later operation goes on from it.                    *)
(***************************************************************************)
Cut ==
    /\ op.stage = "turn"
    /\ ~Reader.accepted
    /\ op.budget = 0
    /\ op' = Idle
    /\ UNCHANGED <<list, offers, saved, faults, failed, promised>>

AskPage ==
    /\ op.stage = "turn"
    /\ ~Reader.accepted
    /\ op.budget > 0
    /\ Reader.left = <<>>
    /\ ~Reader.exhausted
    /\ op' = [op EXCEPT !.stage = "page"]
    /\ UNCHANGED <<list, offers, saved, faults, failed, promised>>

PageAnswers(p, offset) ==
    IF HonestRelay
    THEN {[total |-> Len(list[p]),
           identities |-> SubSeq(list[p], offset + 1,
                                 Least(offset + PageEntries, Len(list[p])))]}
    ELSE [total : 0 .. MaxList,
          identities : UNION {[1 .. n -> BOOLEAN] : n \in 0 .. PageEntries}]

\* fillsDiscoveryPage: a page holds every entry it can.
FillsPage(count, total, offset) ==
    count = Least(PageEntries, Most(0, total - offset))

FrozenTotal(page) == IF Reader.total = NoTotal THEN page.total ELSE Reader.total

AtEnd(offset, total) == offset = total

(***************************************************************************)
(* The page is cut to the total of the author's first page.                *)
(***************************************************************************)
PageRead(page) ==
    LET total == FrozenTotal(page)
        entries == SubSeq(page.identities, 1,
                          Least(Len(page.identities), total - Reader.offset))
    IN  [Reader EXCEPT !.total = total,
                       !.left = entries,
                       !.offset = @ + Len(entries),
                       !.exhausted = AtEnd(Reader.offset + Len(entries), total)]

ReadPage ==
    /\ op.stage = "page"
    /\ \E page \in PageAnswers(OnTurn, Reader.offset) :
         /\ FillsPage(Len(page.identities), page.total, Reader.offset)
         /\ page.total >= FrozenTotal(page)
         /\ LET read == [op EXCEPT !.readers[OnTurn] = PageRead(page)]
            IN  op' = IF PageRead(page).left = <<>> THEN Advanced(read)
                      ELSE [read EXCEPT !.stage = "turn"]
    /\ UNCHANGED <<list, offers, saved, faults, failed, promised>>

(***************************************************************************)
(* An unavailable, malformed or shrunken page: the author is done for this *)
(* operation only, since the record keeps its total.                       *)
(***************************************************************************)
PageFails ==
    /\ op.stage = "page"
    /\ faults < MaxFaults
    /\ faults' = faults + 1
    /\ failed' = failed \cup {OnTurn}
    /\ op' = [op EXCEPT !.stage = "save", !.readers[OnTurn].exhausted = TRUE]
    /\ UNCHANGED <<list, offers, saved, promised>>

(***************************************************************************)
(* verify is collectOffer: it streams the offer and, when it is complete   *)
(* and valid, puts it in the collection.                                   *)
(***************************************************************************)
Verify ==
    /\ op.stage = "turn"
    /\ ~Reader.accepted
    /\ op.budget > 0
    /\ Reader.left # <<>>
    /\ offers' = IF Head(Reader.left) THEN Append(offers, OnTurn) ELSE offers
    /\ op' = [op EXCEPT !.stage = "save", !.budget = @ - 1,
                        !.readers[OnTurn].left = Tail(@),
                        !.readers[OnTurn].accepted = Head(Reader.left)]
    /\ UNCHANGED <<list, saved, faults, failed, promised>>

\* How far the running operation has read the author's list.
Cursor(p) == op.readers[p].offset - Len(op.readers[p].left)

(***************************************************************************)
(* remember: the routing record after every visited position.              *)
(***************************************************************************)
Record ==
    [next |-> (OnTurn + 1) % Authors,
     authors |-> [p \in Positions |-> [offset |-> Cursor(p), total |-> op.readers[p].total]]]

Save ==
    /\ op.stage = "save"
    /\ saved' = Record
    /\ op' = IF Len(offers) = Needed THEN Idle ELSE Advanced(op)
    /\ UNCHANGED <<list, offers, faults, failed, promised>>

(***************************************************************************)
(* The worker ends between two awaits; the cache keeps its records.        *)
(***************************************************************************)
Crash ==
    /\ op # Idle
    /\ faults < MaxFaults
    /\ faults' = faults + 1
    /\ op' = Idle
    /\ UNCHANGED <<list, offers, saved, failed, promised>>

Announce(p, a) ==
    /\ HonestRelay
    /\ Len(list[p]) < MaxList
    /\ list' = [list EXCEPT ![p] = Append(@, a)]
    /\ UNCHANGED <<offers, saved, op, faults, failed, promised>>

OperationStep ==
    \/ BeginRound \/ Refuse \/ Skip \/ Cut \/ AskPage \/ ReadPage \/ PageFails
    \/ Verify \/ Save

Next ==
    \/ \E budget \in Budgets : Start(budget)
    \/ OperationStep
    \/ Crash
    \/ \E p \in Positions, a \in BOOLEAN : Announce(p, a)

Spec == Init /\ [][Next]_vars

\* The organizer tries again.
StartAgain == \E budget \in Budgets : Start(budget)

----

\* How far the scan has read an author's list, in an operation or between.
Reached(p) == IF op = Idle THEN saved.authors[p].offset ELSE Cursor(p)

Total(p) == IF op = Idle THEN saved.authors[p].total ELSE op.readers[p].total

(***************************************************************************)
(* Fair across operation cuts and crashes: no author's list is read two    *)
(* entries further than that of an author whose list is not read to its    *)
(* end, whose offer is not collected and whose pages were available.       *)
(***************************************************************************)
FairAcrossCuts ==
    \A p, q \in Positions :
        (~Completed(p) /\ p \notin failed /\ Reached(p) # Total(p))
            => Reached(q) <= Reached(p) + 1

(***************************************************************************)
(* Each author supplies at most one offer of the collection, over all      *)
(* operations and crashes.                                                 *)
(***************************************************************************)
OneOfferPerAuthor == Cardinality(Range(offers)) = Len(offers)

(***************************************************************************)
(* A refusal missed nothing: with every page available, the authors that   *)
(* had an acceptable offer announced when the scan began are all collected *)
(* before "too few" is reported, however the scan was cut.                 *)
(***************************************************************************)
RefusalMissesNothing ==
    (op.stage = "round" /\ \A p \in Positions : ~Unresolved(p))
        => promised \subseteq Range(offers) \cup failed

\* What operations and the collection are to come to.
OperationRuns == op # Idle
EnoughHolding == Cardinality(Holding) >= Needed
Collected == Len(offers) = Needed
====
