-------------------------- MODULE OfferAggregator --------------------------
(* The sum of the selected contribution offers                               *)
(* (crates/setup-aggregate/src/verified.rs).  Between two offers the sums    *)
(* are kept by the host, which is not trusted: the aggregator keeps digests  *)
(* only, hashes what it reads back while it adds the next offer to it, and   *)
(* checks the digests when helpers have finished them, some polynomials      *)
(* later.                                                                    *)
(*                                                                           *)
(* A chunk is one residue modulo Modulus, and the digest of a polynomial is  *)
(* its content: equal digests are equal contents.                            *)
EXTENDS Naturals, Sequences, SequencesExt, FiniteSets, FiniteSetsExt

CONSTANTS
  Contributors,  \* setup_contributors(), the number of selected offers
  Polynomials,   \* number of polynomials of a body
  Chunks,        \* chunks of a polynomial (bound)
  Modulus,       \* residues of a chunk (bound)
  Windows        \* the values of parallel_work::window()

AggregatorAssumption ==
  /\ {Contributors, Polynomials, Chunks, Modulus} \subseteq Nat \ {0}
  /\ Windows \subseteq Nat \ {0}

OfferPositions == 1..Contributors
Residues == 0..(Modulus - 1)

\* Chunk c of polynomial p in the body that the selection names for offer o.
Chunk(o, p, c) == (o * p + c) % Modulus
Body(o, p) == [c \in 1..Chunks |-> Chunk(o, p, c)]

\* PolynomialAdder::add_into, of one chunk.
Add(x, y) == (x + y) % Modulus

VARIABLES
  window,    \* parallel_work::window()
  offers,    \* selected offers held as verified
  accepted,  \* offers summed
  previous,  \* digests of the sums
  pending,   \* the offer being added, or NoOffer
  failed,
  honest     \* history: the host always supplied the right chunks

vars == <<window, offers, accepted, previous, pending, failed, honest>>

NoOffer == [offer |-> 0]

\* An offer in progress.  A verified one is compared with its known digests; one
\* still verifying passes its bytes to an OfferVerifier, which refuses a body
\* other than the selected one when it finishes.
Pending(o, isVerified) ==
  [offer |-> o, verified |-> isVerified, ordinal |-> 1, incoming |-> <<>>, read |-> <<>>,
   output |-> <<>>, finishing |-> <<>>, outputs |-> <<>>, foreign |-> FALSE, proved |-> FALSE]

Init ==
  /\ window \in Windows
  /\ offers \in SUBSET OfferPositions
  /\ accepted = 0 /\ previous = <<>>
  /\ pending = NoOffer
  /\ failed = FALSE
  /\ honest = TRUE

CanBegin == ~failed /\ pending = NoOffer /\ accepted < Contributors

\* The next selected offer, already verified.
Begin ==
  /\ CanBegin
  /\ accepted + 1 \in offers
  /\ pending' = Pending(accepted + 1, TRUE)
  /\ UNCHANGED <<window, offers, accepted, previous, failed, honest>>

BeginVerification ==
  /\ CanBegin
  /\ pending' = Pending(accepted + 1, FALSE)
  /\ UNCHANGED <<window, offers, accepted, previous, failed, honest>>

\* Mutant: of the identities that are due only the newest is compared.
LazySettle(p, kept) ==
  LET k == Max({0, Len(p.finishing) - kept})
      settled == SubSeq(p.finishing, 1, k)
  IN [ok |-> k = 0 \/ settled[k].read = settled[k].expected,
      pending |-> [p EXCEPT !.finishing = SubSeq(@, k + 1, Len(@)),
                            !.outputs = @ \o [i \in 1..k |-> settled[i].output]]]

\* Checks the oldest completed polynomials until at most kept are unchecked.
Settle(p, kept) ==
  LET k == Max({0, Len(p.finishing) - kept})
      settled == SubSeq(p.finishing, 1, k)
  IN [ok |-> \A i \in 1..k : settled[i].read = settled[i].expected,
      pending |-> [p EXCEPT !.finishing = SubSeq(@, k + 1, Len(@)),
                            !.outputs = @ \o [i \in 1..k |-> settled[i].output]]]

\* A complete polynomial: its digests are finished later, by helpers.
Completed(p) ==
  [p EXCEPT !.ordinal = @ + 1, !.incoming = <<>>, !.read = <<>>, !.output = <<>>,
            !.finishing = Append(@, [read |-> p.read, output |-> p.output,
                                     expected |-> IF accepted = 0 THEN p.read
                                                  ELSE previous[p.ordinal]])]

\* The next chunk of the offer, with the sum so far as the host read it back.
Polynomial(incoming, read) ==
  /\ ~failed /\ pending # NoOffer /\ pending.ordinal <= Polynomials
  /\ LET at == Len(pending.incoming) + 1
         base == IF accepted = 0 THEN 0 ELSE read
         right == incoming = Chunk(pending.offer, pending.ordinal, at)
         p == [pending EXCEPT !.incoming = Append(@, incoming),
                              !.read = Append(@, base),
                              !.output = Append(@, Add(incoming, base)),
                              !.foreign = @ \/ (~pending.verified /\ ~right)]
         settled == Settle(Completed(p), window)
     IN /\ honest' = (/\ honest /\ right
                      /\ accepted > 0 => read = previous[pending.ordinal][at])
        /\ \/ /\ at < Chunks
              /\ pending' = p /\ failed' = FALSE
           \/ /\ at = Chunks
              /\ pending.verified => p.incoming = Body(pending.offer, pending.ordinal)
              /\ pending' = settled.pending
              /\ failed' = ~settled.ok
           \/ /\ at = Chunks
              /\ pending.verified /\ p.incoming # Body(pending.offer, pending.ordinal)
              /\ pending' = p /\ failed' = TRUE
  /\ UNCHANGED <<window, offers, accepted, previous>>

\* The proof of an offer still verifying, after its last polynomial.
Proof ==
  /\ ~failed /\ pending # NoOffer /\ ~pending.verified /\ ~pending.proved
  /\ pending.ordinal = Polynomials + 1
  /\ pending' = [pending EXCEPT !.proved = TRUE]
  /\ UNCHANGED <<window, offers, accepted, previous, failed, honest>>

\* A call out of order: another polynomial or offset, a source or a proof at the
\* wrong place, or a finish without an offer in progress.
OutOfOrder ==
  /\ ~failed
  /\ failed' = TRUE /\ honest' = FALSE
  /\ UNCHANGED <<window, offers, accepted, previous, pending>>

FinishContribution ==
  /\ ~failed /\ pending # NoOffer
  /\ LET complete == pending.ordinal = Polynomials + 1
         settled == Settle(pending, 0)
         good == /\ complete /\ settled.ok
                 /\ pending.verified \/ (pending.proved /\ ~pending.foreign)
     IN /\ failed' = ~good
        /\ honest' = (honest /\ complete /\ (pending.verified \/ pending.proved))
        /\ \/ /\ good
              /\ previous' = settled.pending.outputs
              /\ accepted' = accepted + 1
              /\ offers' = offers \cup {pending.offer}
           \/ /\ ~good
              /\ UNCHANGED <<previous, accepted, offers>>
  /\ pending' = NoOffer
  /\ UNCHANGED window

\* The host drops the progress and replays from the first selected offer.
DiscardProgress ==
  /\ pending # NoOffer \/ accepted > 0 \/ failed
  /\ pending' = NoOffer /\ previous' = <<>> /\ accepted' = 0 /\ failed' = FALSE
  /\ honest' = TRUE
  /\ UNCHANGED <<window, offers>>

Next ==
  \/ Begin \/ BeginVerification
  \/ \E incoming, read \in Residues : Polynomial(incoming, read)
  \/ Proof \/ OutOfOrder \/ FinishContribution \/ DiscardProgress

Spec == Init /\ [][Next]_vars

----
\* The sum of the first k selected bodies.
SumOf(k, p) == [c \in 1..Chunks |-> FoldSet(LAMBDA o, sum : Add(Chunk(o, p, c), sum), 0, 1..k)]

\* The digests kept after each contribution are those of the sum of exactly the
\* first accepted selected bodies, whatever the host read back and whenever the
\* helpers finished the digests: a wrong read is found before it is accepted.
PrefixIsSum ==
  previous = IF accepted = 0 THEN <<>> ELSE [p \in 1..Polynomials |-> SumOf(accepted, p)]

\* An aggregation whose host is faithful never fails, so that a failure shows a
\* damaged cache or a wrong body and a replay can succeed.
FaithfulHostSucceeds == honest => ~failed

\* Identities are left unchecked for at most a window of polynomials.
UncheckedBounded == pending # NoOffer /\ ~failed => Len(pending.finishing) <= window
====
