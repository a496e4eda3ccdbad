--------------------------- MODULE OfferVerifier ---------------------------
(* The streaming verifier of one contribution offer                          *)
(* (crates/setup-aggregate/src/offer-verifier.rs), fed chunk by chunk by an  *)
(* untrusted host.                                                           *)
(*                                                                           *)
(* A chunk's content is "a" when it is the content that the envelope, the    *)
(* registration and the proof of the offer were made for, and "b" otherwise. *)
(* A hash matches exactly when everything it absorbed matches.  A position   *)
(* of Layout is one polynomial of the setup statement and says who supplies  *)
(* it: the offer's body ("streamed"), the public oracle ("committed"), a     *)
(* registered recipient key ("recipient") or the verifier itself             *)
(* ("common").                                                               *)
EXTENDS Naturals, Sequences, SequencesExt, FiniteSets, FiniteSetsExt

CONSTANTS
  Gadgets,       \* gadget_length()
  Recipients,    \* participants()
  Windows,       \* the values of parallel_work::window()
  CommonAhead,   \* COMMON_AHEAD
  Chunks,        \* chunks of a polynomial (bound)
  SourceChunks,  \* chunks of the source ciphertext (bound)
  HeaderChunks,  \* chunks of the proof header (bound)
  ProofChunks    \* chunks of the whole proof (bound)

OfferVerifierAssumption ==
  /\ Windows \subseteq Nat \ {0}
  /\ {Gadgets, Recipients, CommonAhead, Chunks, SourceChunks, HeaderChunks} \subseteq Nat \ {0}
  /\ ProofChunks \in Nat /\ HeaderChunks <= ProofChunks

VARIABLES
  exact,      \* EXACT: whether the committed polynomials are supplied and checked
  window,     \* parallel_work::window()
  lookahead,  \* content of proof_header
  source,     \* chunks of the source taken, and their contents
  index,      \* statement_index
  ordinal,    \* polynomials of the body completed
  offset,     \* polynomial_offset, in chunks
  computing,  \* common polynomials whose records helpers compute
  common,     \* common polynomials not yet started
  statement,  \* polynomials pushed to the word verifier, in order
  body,       \* contents absorbed by the body hash
  public,     \* contents absorbed by the public oracle
  proofOffset,
  done,       \* statement_done
  failed,
  outcome,    \* what finish returned, or "open"
  honest      \* history: the host always supplied the expected next chunk

setting == <<exact, window, lookahead>>
vars == <<setting, source, index, ordinal, offset, computing, common, statement,
          body, public, proofOffset, done, failed, outcome, honest>>

Contents == {"a", "b"}

\* The polynomials of the setup statement: seven for each gadget coordinate, of
\* which four are keys, then the common share polynomial and three for each
\* recipient.  The keys other than the registration-bound one are committed.
Layout ==
  LET gadget(g) == <<"common", IF g = 1 THEN "streamed" ELSE "committed", "committed",
                     "common", "committed", "common", "committed">>
  IN FlattenSeq([g \in 1..Gadgets |-> gadget(g)]) \o <<"common">>
       \o FlattenSeq([r \in 1..Recipients |-> <<"recipient", "streamed", "streamed">>])

Indices(kinds) == SelectSeq([i \in 1..Len(Layout) |-> i], LAMBDA i : Layout[i] \in kinds)
Owned == Indices(IF exact THEN {"streamed", "committed"} ELSE {"streamed"})
NextOwned(o) == IF o < Len(Owned) THEN Owned[o + 1] ELSE Len(Layout) + 1
CommonPolynomials == Indices({"common"})
\* Everything the word verifier receives; committed polynomials go to the oracle.
FullStatement == Indices({"streamed", "recipient", "common"})

\* Mutant: as many records as the window has jobs.
WindowCommon(ahead) ==
  LET k == Min({window - Len(ahead.computing), Len(ahead.common)})
  IN IF k <= 0 THEN ahead
     ELSE [ahead EXCEPT !.computing = @ \o SubSeq(ahead.common, 1, k),
                        !.common = SubSeq(@, k + 1, Len(@))]

\* Starts the records of the next common polynomials.
ComputeCommon(ahead) ==
  LET room == Min({window, CommonAhead}) - Len(ahead.computing)
      k == Min({room, Len(ahead.common)})
  IN IF room <= 0 THEN ahead
     ELSE [ahead EXCEPT !.computing = @ \o SubSeq(ahead.common, 1, k),
                        !.common = SubSeq(@, k + 1, Len(@))]

\* One turn of the loop of fixed_inputs, at statement polynomial i.
FixedInput(state, i) ==
  CASE ~state.ok -> state
    [] Layout[i] = "committed" -> state
    [] Layout[i] = "recipient" -> [state EXCEPT !.statement = Append(@, i)]
    [] OTHER ->
         IF state.computing = <<>> \/ Head(state.computing) # i
         THEN [state EXCEPT !.ok = FALSE]
         ELSE ComputeCommon([state EXCEPT !.statement = Append(@, i),
                                          !.computing = Tail(@)])

\* Supplies every statement polynomial from i up to the next one of the body.
FixedInputs(state, i, o) ==
  FoldLeft(FixedInput, state, [k \in 1..(NextOwned(o) - i) |-> i + k - 1])

Init ==
  /\ exact \in BOOLEAN /\ window \in Windows
  /\ lookahead \in Contents
  /\ source = [taken |-> 0, seen |-> {}]
  /\ index = 1 /\ ordinal = 0 /\ offset = 0
  /\ computing = <<>> /\ common = CommonPolynomials
  /\ statement = <<>> /\ body = {} /\ public = {}
  /\ proofOffset = 0
  /\ done = FALSE /\ failed = FALSE /\ outcome = "open"
  /\ honest = (lookahead = "a")

Fail ==
  /\ failed' = TRUE
  /\ honest' = FALSE
  /\ UNCHANGED <<setting, source, index, ordinal, offset, computing, common, statement,
                 body, public, proofOffset, done, outcome>>

\* Applies the fixed inputs after the source or a body polynomial completed.
Advance(i, o, from) ==
  LET state == FixedInputs(from, i, o)
  IN /\ index' = NextOwned(o)
     /\ ordinal' = o
     /\ computing' = state.computing
     /\ common' = state.common
     /\ statement' = state.statement
     /\ done' = (state.ok /\ o = Len(Owned))
     /\ failed' = ~state.ok

Ahead == [ok |-> TRUE, computing |-> computing, common |-> common, statement |-> statement]

Source(content) ==
  /\ outcome = "open" /\ ~failed
  /\ source.taken < SourceChunks
  /\ LET seen == source.seen \cup {content}
         last == source.taken + 1 = SourceChunks
     IN /\ source' = [taken |-> source.taken + 1, seen |-> seen]
        /\ honest' = (honest /\ content = "a")
        /\ \/ /\ ~last
              /\ UNCHANGED <<index, ordinal, computing, common, statement, done, failed>>
           \/ /\ last /\ seen # {"a"}
              /\ failed' = TRUE
              /\ UNCHANGED <<index, ordinal, computing, common, statement, done>>
           \/ /\ last /\ seen = {"a"}
              /\ Advance(1, 0, ComputeCommon(Ahead))
  /\ UNCHANGED <<setting, offset, body, public, proofOffset, outcome>>

\* More source bytes than remain are refused for good.
ExcessSource ==
  /\ outcome = "open" /\ ~failed /\ source.taken = SourceChunks
  /\ Fail

Streaming == outcome = "open" /\ ~failed /\ ~done /\ source.taken = SourceChunks

Polynomial(content) ==
  /\ Streaming
  /\ honest' = (honest /\ content = "a")
  /\ IF Layout[index] = "committed"
     THEN public' = public \cup {content} /\ UNCHANGED body
     ELSE body' = body \cup {content} /\ UNCHANGED public
  /\ \/ /\ offset + 1 < Chunks
        /\ offset' = offset + 1
        /\ UNCHANGED <<index, ordinal, computing, common, statement, done, failed>>
     \/ /\ offset + 1 = Chunks
        /\ offset' = 0
        /\ Advance(index + 1, ordinal + 1,
                   IF Layout[index] = "committed" THEN Ahead
                   ELSE [Ahead EXCEPT !.statement = Append(@, index)])
  /\ UNCHANGED <<setting, source, proofOffset, outcome>>

\* A chunk of another polynomial or at another offset.
MisplacedPolynomial == Streaming /\ Fail

Proof(content) ==
  /\ outcome = "open" /\ ~failed /\ done
  /\ proofOffset < ProofChunks
  /\ proofOffset < HeaderChunks => content = lookahead
  /\ body' = body \cup {content}
  /\ proofOffset' = proofOffset + 1
  /\ honest' = (honest /\ content = "a")
  /\ UNCHANGED <<setting, source, index, ordinal, offset, computing, common, statement,
                 public, done, failed, outcome>>

\* A chunk at another offset, past the end, or other than the header read ahead.
MisplacedProof ==
  /\ outcome = "open" /\ ~failed /\ done
  /\ Fail

\* The word verifier accepts a complete statement with the whole proof made for it.
ProofVerifies ==
  /\ statement = FullStatement /\ proofOffset = ProofChunks
  /\ Cardinality(body \cup {lookahead} \cup (IF exact THEN public ELSE {})) = 1

\* The body hash has taken every polynomial of the body and the whole proof.
BodyComplete == ordinal = Len(Owned) /\ proofOffset = ProofChunks

\* The root of the committed polynomials is the one the proof header names.
RootMatches == ~exact \/ Indices({"committed"}) = <<>> \/ public = {lookahead}

Finish ==
  /\ outcome = "open"
  /\ outcome' = IF /\ ~failed /\ done /\ offset = 0
                   /\ RootMatches
                   /\ BodyComplete
                   /\ body = {"a"}
                   /\ ProofVerifies
                THEN "verified" ELSE "refused"
  /\ honest' = (honest /\ done /\ proofOffset = ProofChunks)
  /\ UNCHANGED <<setting, source, index, ordinal, offset, computing, common, statement,
                 body, public, proofOffset, done, failed>>

Next ==
  \/ \E content \in Contents : Source(content) \/ Polynomial(content) \/ Proof(content)
  \/ ExcessSource \/ MisplacedPolynomial \/ MisplacedProof
  \/ Finish

Spec == Init /\ [][Next]_vars

----
\* An offer is verified only from the registered source, the body its envelope
\* names, the committed polynomials of its proof header and the whole statement
\* in index order: what finish may return for any sequence of calls.
VerifiedIsAuthentic ==
  outcome = "verified" =>
    /\ source.seen = {"a"}
    /\ body = {"a"} /\ lookahead = "a"
    /\ exact => public \subseteq {"a"}
    /\ statement = FullStatement
    /\ ordinal = Len(Owned) /\ proofOffset = ProofChunks

\* The supply of fixed inputs never refuses a host that sends the offer as it
\* is: the records computed ahead always are the next ones of the statement,
\* whatever the window, and a body and proof sent completely are accepted.
HonestHostAccepted == honest => ~failed /\ outcome # "refused"

\* The host holds the records of at most COMMON_AHEAD common polynomials, and
\* none is dropped or started twice.
RecordsAhead ==
  /\ Len(computing) <= CommonAhead
  /\ ~failed /\ source.taken = SourceChunks =>
       Indices({"common"}) = SelectSeq(statement, LAMBDA i : Layout[i] = "common")
                               \o computing \o common
====
