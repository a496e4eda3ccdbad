--------------------------- MODULE Publication ----------------------------
(***************************************************************************)
(* The publication of a candidate (worker/relay/publication.ts): a file's  *)
(* fixed chunks first, each read back, or the chunks another candidate     *)
(* already names once each equals the retained bytes, then the manifest.   *)
(* Every request runs as a guarded transfer (worker/storage/delivery.ts):  *)
(* the participant's retained authority is inspected after it, whether it  *)
(* succeeded or failed.                                                    *)
(*                                                                         *)
(* The file's byte i is the number i.  The relay keeps what it stored, may *)
(* lose an answer or store something else, and the chunks it lists for     *)
(* another candidate are untrusted.                                        *)
(***************************************************************************)
EXTENDS Integers, Sequences, FiniteSets

CONSTANTS
    Length,         \* length of the file
    Chunk,          \* candidateChunkBytes
    MaxFaults,      \* bound on lost answers and wrongly stored chunks
    MaxStore,       \* bound on the chunks the relay holds
    Hints           \* manifests the source key may list

PublicationAssumption ==
    /\ Length \in Nat
    /\ Chunk \in Nat \ {0}
    /\ MaxFaults \in Nat
    /\ MaxStore \in Nat

VARIABLES
    store,      \* the relay's immutable chunks, by locator
    hints,      \* the candidates the source key lists
    posted,     \* manifests appended to the publication's key
    stage,      \* "read", "send", "inspect", "manifest", "done", "failed", "stopped"
    hint,       \* the candidate being compared, 0 when the file is uploaded
    received,   \* bytes the reader delivered
    buffer,     \* bytes kept for the next chunk
    sending,    \* the chunk of the transfer, or <<>> for the manifest
    sent,       \* whether the transfer succeeded
    out,        \* locators of the file's chunks so far
    faults,
    authority,  \* whether the retained authority is still this operation's
    late        \* transfers begun after the authority changed

vars == <<store, hints, posted, stage, hint, received, buffer, sending, sent, out,
          faults, authority, late>>

publication == <<stage, hint, received, buffer, sending, sent, out>>

Least(a, b) == IF a < b THEN a ELSE b

ChunkCount == (Length + Chunk - 1) \div Chunk

SourceRange(from, to) == [i \in 1 .. to - from + 1 |-> from + i - 1]

\* Chunk k of the file as a publisher that cuts it correctly stores it.
SourceChunk(k) == SourceRange((k - 1) * Chunk + 1, Least(k * Chunk, Length))

Wrong(bytes) == [i \in DOMAIN bytes |-> 0]

TypeOK ==
    /\ store \in Seq(Seq(Nat))
    /\ Len(store) <= MaxStore
    /\ hints \in Seq(Seq(Nat))
    /\ posted \subseteq Seq(Nat)
    /\ stage \in {"read", "send", "inspect", "manifest", "done", "failed", "stopped"}
    /\ hint \in 0 .. Len(hints)
    /\ received \in 0 .. Length
    /\ buffer \in Seq(Nat)
    /\ sending \in Seq(Nat)
    /\ sent \in BOOLEAN
    /\ out \in Seq(Nat)
    /\ faults \in 0 .. MaxFaults
    /\ authority \in BOOLEAN
    /\ late \in Nat

\* The first candidate of the source key, or the upload when there is none.
FirstHint == IF hints = <<>> THEN 0 ELSE 1

Init ==
    /\ store \in {[k \in 1 .. ChunkCount |-> SourceChunk(k)],
                  [k \in 1 .. ChunkCount |-> IF k = ChunkCount THEN Wrong(SourceChunk(k))
                                             ELSE SourceChunk(k)]}
    /\ hints \in {<<>>} \cup {<<a>> : a \in Hints} \cup {<<a, b>> : a, b \in Hints}
    /\ posted = {}
    /\ stage = "read"
    /\ hint = FirstHint
    /\ received = 0
    /\ buffer = <<>>
    /\ sending = <<>>
    /\ sent = FALSE
    /\ out = <<>>
    /\ faults = 0
    /\ authority = TRUE
    /\ late = 0

----
(* publicationChunks: the reader's fragments become fixed chunks.           *)

Sends(chunk) == stage' = "send" /\ sending' = chunk

\* A full or last fragment goes out as it is when nothing is kept before it.
Direct(n) == buffer = <<>> /\ (n = Chunk \/ received + n = Length)

AcceptDirect(n) ==
    /\ stage = "read"
    /\ n \in 0 .. Least(Chunk, Length - received)
    /\ Direct(n)
    /\ received' = received + n
    /\ IF n > 0 THEN Sends(SourceRange(received + 1, received + n))
                ELSE UNCHANGED <<stage, sending>>
    /\ UNCHANGED <<store, hints, posted, hint, buffer, sent, out, faults, authority, late>>

\* The buffer has the length of a chunk, or of a file that is shorter.
BufferBytes == Least(Chunk, Length)

AcceptBuffered(n) ==
    LET kept == buffer \o SourceRange(received + 1, received + n)
    IN  /\ stage = "read"
        /\ n \in 1 .. Least(Chunk, Length - received)
        /\ ~Direct(n)
        /\ received' = received + n
        /\ IF Len(kept) >= BufferBytes
           THEN /\ Sends(SubSeq(kept, 1, BufferBytes))
                /\ buffer' = SubSeq(kept, BufferBytes + 1, Len(kept))
           ELSE /\ buffer' = kept
                /\ UNCHANGED <<stage, sending>>
        /\ UNCHANGED <<store, hints, posted, hint, sent, out, faults, authority, late>>

\* The last bytes kept are a shorter chunk.
Flush ==
    /\ stage = "read"
    /\ received = Length
    /\ buffer # <<>>
    /\ Sends(buffer)
    /\ buffer' = <<>>
    /\ UNCHANGED <<store, hints, posted, hint, received, sent, out, faults, authority, late>>

----
(* A guarded transfer: the request, then the inspection.                    *)

Transferred(ok) ==
    /\ stage' = "inspect"
    /\ sent' = ok
    /\ late' = IF authority THEN late ELSE late + 1

\* equalBytes(bytes, stored): the chunk is what the relay returns for it.
ReadbackEqual(locator) == store'[locator] = sending

(***************************************************************************)
(* The upload of a chunk and its readback; the relay may have stored       *)
(* something else.                                                         *)
(***************************************************************************)
UploadChunk(wrong) ==
    /\ stage = "send"
    /\ hint = 0
    /\ Len(store) < MaxStore
    /\ wrong => faults < MaxFaults
    /\ faults' = IF wrong THEN faults + 1 ELSE faults
    /\ store' = Append(store, IF wrong THEN Wrong(sending) ELSE sending)
    /\ Transferred(ReadbackEqual(Len(store) + 1))
    /\ out' = IF ReadbackEqual(Len(store) + 1) THEN Append(out, Len(store) + 1) ELSE out
    /\ UNCHANGED <<hints, posted, hint, received, buffer, sending, authority>>

\* An answer of the relay is lost.
LoseAnswer ==
    /\ stage = "send"
    /\ faults < MaxFaults
    /\ faults' = faults + 1
    /\ Transferred(FALSE)
    /\ UNCHANGED <<store, hints, posted, hint, received, buffer, sending, out, authority>>

SameAsListed(locator) == locator \in 1 .. Len(store) /\ store[locator] = sending

\* The comparison of one listed chunk with the retained bytes.
CompareChunk ==
    /\ stage = "send"
    /\ hint > 0
    /\ LET locator == hints[hint][Len(out) + 1]
       IN  /\ Transferred(SameAsListed(locator))
           /\ out' = Append(out, locator)
    /\ UNCHANGED <<store, hints, posted, hint, received, buffer, sending, faults, authority>>

\* The file is read again from its start, for the next candidate or the upload.
Again(h) ==
    /\ hint' = h
    /\ received' = 0
    /\ buffer' = <<>>
    /\ out' = <<>>
    /\ stage' = "read"

NextHint == IF hint < Len(hints) THEN hint + 1 ELSE 0

Inspected == authority

InspectPasses ==
    /\ stage = "inspect"
    /\ Inspected
    /\ \/ /\ sent
          /\ stage' = IF sending = <<>> THEN "done" ELSE "read"
          /\ UNCHANGED <<hint, received, buffer, out>>
       \/ /\ ~sent
          /\ hint > 0
          /\ sending # <<>>
          /\ Again(NextHint)
       \/ /\ ~sent
          /\ hint = 0 \/ sending = <<>>
          /\ stage' = "failed"
          /\ UNCHANGED <<hint, received, buffer, out>>
    /\ UNCHANGED <<store, hints, posted, sending, sent, faults, authority, late>>

\* A failed inspection ends the delivery whatever the transfer gave.
InspectRefuses ==
    /\ stage = "inspect"
    /\ ~Inspected
    /\ stage' = "stopped"
    /\ UNCHANGED <<store, hints, posted, hint, received, buffer, sending, sent, out,
                   faults, authority, late>>

----
(* finish: the manifest follows the file's last chunk.                      *)

FileReady == stage = "read" /\ received = Length /\ buffer = <<>>

FinishFile ==
    /\ FileReady
    /\ stage' = "manifest"
    /\ sending' = <<>>
    /\ UNCHANGED <<store, hints, posted, hint, received, buffer, sent, out, faults,
                   authority, late>>

\* The manifest is appended; its answer or its readback may be lost.
PostManifest(lost) ==
    /\ stage = "manifest"
    /\ lost => faults < MaxFaults
    /\ faults' = IF lost THEN faults + 1 ELSE faults
    /\ posted' = posted \cup {out}
    /\ Transferred(~lost)
    /\ UNCHANGED <<store, hints, hint, received, buffer, sending, out, authority>>

\* A later operation publishes the same retained bytes again.
Retry ==
    /\ stage = "failed"
    /\ authority
    /\ Again(FirstHint)
    /\ UNCHANGED <<store, hints, posted, sending, sent, faults, authority, late>>

\* Another context replaces or stops the participant's retained state.
LoseAuthority ==
    /\ authority
    /\ authority' = FALSE
    /\ UNCHANGED <<store, hints, posted, stage, hint, received, buffer, sending, sent,
                   out, faults, late>>

PublisherStep ==
    \/ \E n \in 0 .. Chunk : AcceptDirect(n)
    \/ \E n \in 1 .. Chunk : AcceptBuffered(n)
    \/ Flush
    \/ \E wrong \in BOOLEAN : UploadChunk(wrong)
    \/ LoseAnswer
    \/ CompareChunk
    \/ InspectPasses
    \/ InspectRefuses
    \/ FinishFile
    \/ \E lost \in BOOLEAN : PostManifest(lost)
    \/ Retry

Next == PublisherStep \/ LoseAuthority

Spec == Init /\ [][Next]_vars

----

\* Byte i of a file with these chunks, as streamCandidateFile reads it.
ReadsBack(chunks, i) ==
    LET k == (i - 1) \div Chunk + 1
    IN  /\ k <= Len(chunks)
        /\ Len(store[chunks[k]]) = Least(Chunk, Length - (k - 1) * Chunk)
        /\ store[chunks[k]][((i - 1) % Chunk) + 1] = i

(***************************************************************************)
(* Every manifest that reaches the relay, confirmed or not, names exactly  *)
(* the chunks a reader needs to get the file's bytes in order, whatever    *)
(* fragments the source gave and whichever candidates were compared.       *)
(***************************************************************************)
ManifestsReadBack ==
    \A chunks \in posted :
        Len(chunks) = ChunkCount /\ \A i \in 1 .. Length : ReadsBack(chunks, i)

(***************************************************************************)
(* After the retained authority changes at most the transfer under way is  *)
(* sent, succeed or fail: nothing is read or sent after its inspection.    *)
(***************************************************************************)
OneTransferAfterLoss == late <= 1

\* The file is published, or the authority is no longer this operation's.
Published == stage = "done" \/ ~authority
====
