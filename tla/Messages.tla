------------------------------ MODULE Messages ------------------------------
(***************************************************************************)
(* The protocol's signed messages: how each is laid out, read and signed.  *)
(* A message is encoded and signed, its bytes are damaged, and every       *)
(* reader is offered them under the signature.  A listing's meaning is a   *)
(* set; its bytes are ordered.                                             *)
(*                                                                         *)
(* The canonical tuple codec is over cells: one cell stands for a schema   *)
(* identifier, a count, a type code, a length, a u16 or one byte of a      *)
(* value, so a six-byte header is two cells and a four-byte length one.  A *)
(* value that is refused is None.                                          *)
(***************************************************************************)
EXTENDS Integers, Sequences, SequencesExt, FiniteSets, ProtocolRules

CONSTANTS Participants, SetupContributors, SetupEligible, SupportedParticipants,
          SupportedOptions,          \* Profile::participant_range, option_range
          Families,                  \* maximum_fhe_key_family_count
          BodyLengths,               \* the body lengths of an offer, a ballot and a release
          Organizer,                 \* the organizer's position
          Runtime, Poll, RosterIdentity, Own,  \* what a reader already holds; Own is its position and body
          Fields(_),                 \* the messages of each kind
          MaxFaults, Noise,
          HashCells, U64Cells,      \* the widths of a hash and of a u64
          ABSOLUTE_MAXIMUM_NESTING_DEPTH, ITEM_ALLOCATION,
          Encoding,                 \* CanonicalDecodeLimits::default
          MaximumBytes,             \* MAXIMUM_POLL_BYTES, MAXIMUM_PROPOSAL_BYTES and so on, by kind
          MAXIMUM_USERNAME_BYTES,
          Printable,                \* the cells of 0x20..=0x7e
          Letter, Mark, Composed,   \* a letter, a combining mark and the two as one
          None

VARIABLES kind, fields, wire, faults

vars == <<kind, fields, wire, faults>>

Listed == 2          \* MAXIMUM_LISTED_ENVELOPES_PER_SLOT
EntryCells == 1 + HashCells
TimeCells == U64Cells

Cost(work, allocation) == [work |-> work, allocation |-> allocation]

----
(* Values.                                                                 *)

RawBytes == 1
Ascii == 2
Unsigned16 == 3
Unsigned64 == 5
Hash512 == 6
NestedTuple == 9
DisplayText == 12
HomogeneousList == 14

CanonicalItemType == {RawBytes, Ascii, Unsigned16, Unsigned64, Hash512,
                      NestedTuple, DisplayText, HomogeneousList}

Item(type, bytes) == [type |-> type, bytes |-> bytes]

CanonicalTupleOf(schema, items) == [schema |-> schema, items |-> items]

\* Canonical composition, which the text's own library computes.
nfc(text) ==
    FoldLeft(LAMBDA done, cell :
                 IF cell = Mark /\ done # <<>> /\ done[Len(done)] = Letter
                 THEN Append(Front(done), Composed) ELSE Append(done, cell),
             <<>>, text)

Assigned == Printable \cup {Letter, Mark, Composed}

validate_assigned_scalar_values(text) == \A i \in DOMAIN text : text[i] \in Assigned

from_canonical_utf8(text) == validate_assigned_scalar_values(text) /\ nfc(text) = text

encode_variable_value(value) == <<Len(value)>> \o value

decode_variable_value(bytes) == Len(bytes) >= 1 /\ bytes[1] = Len(bytes) - 1

fixed_bytes(bytes) == Item(RawBytes, bytes)
variable_bytes(bytes) == Item(RawBytes, encode_variable_value(bytes))
ascii(text) == Item(Ascii, encode_variable_value(text))
display_text(text) == Item(DisplayText, encode_variable_value(text))
unsigned16(value) == Item(Unsigned16, <<value>>)
unsigned64(value) == Item(Unsigned64, [i \in 1..U64Cells |-> IF i = 1 THEN value ELSE 0])
hash512(hash) == Item(Hash512, hash)
hash512_list(hashes) == Item(HomogeneousList, <<Hash512, Len(hashes)>> \o FlattenSeq(hashes))

----
(* Encoding and decoding.                                                  *)

Charge(budget, cost) == [work |-> budget.work - cost.work,
                         allocation |-> budget.allocation - cost.allocation]

\* Charging more than remains is a refusal.
Within(budget) == budget.work >= 0 /\ budget.allocation >= 0

NewBudget(limits) == Cost(limits.work, limits.allocation)

Refused == [ok |-> FALSE]

Slice(bytes, from, length) == SubSeq(bytes, from + 1, from + length)

ExpectedLength(type, length) ==
    /\ type = Unsigned16 => length = 1
    /\ type = Unsigned64 => length = U64Cells
    /\ type = Hash512 => length = HashCells

NestingAllowed(depth, limits) ==
    depth <= limits.nesting_depth /\ depth <= ABSOLUTE_MAXIMUM_NESTING_DEPTH

RECURSIVE decode_tuple_at(_, _, _, _), decode_items(_, _, _, _, _),
          validate_item_bytes(_, _, _, _, _), validate_list_payload(_, _, _, _, _)

decode_tuple_at(bytes, limits, budget, depth) ==
    LET count == bytes[2]
        minimum == 2 * count + 2
        charged == Charge(budget, Cost(minimum, count * ITEM_ALLOCATION))
    IN IF \/ ~NestingAllowed(depth, limits)
          \/ Len(bytes) > limits.tuple_length
          \/ Len(bytes) < 2
       THEN Refused
       ELSE IF count > limits.item_count \/ minimum > Len(bytes) \/ ~Within(charged)
       THEN Refused
       ELSE decode_items([ok |-> TRUE, schema |-> bytes[1], items |-> <<>>, used |-> 2, budget |-> charged],
                         count, bytes, limits, depth)

\* The items left to read of the tuple that opens the bytes.
decode_items(done, count, bytes, limits, depth) ==
    LET header == done.used
        type == bytes[header + 1]
        length == bytes[header + 2]
        value == Slice(bytes, header + 2, length)
        checked == validate_item_bytes(type, value, limits, done.budget, depth)
    IN IF Len(done.items) = count THEN done
       ELSE IF \/ header + 2 > Len(bytes)
               \/ type \notin CanonicalItemType
               \/ length > limits.item_length
               \/ header + 2 + length > Len(bytes)
       THEN Refused
       ELSE IF ~checked.ok \/ ~Within(Charge(checked.budget, Cost(0, length))) THEN Refused
       ELSE decode_items([done EXCEPT !.items = Append(@, Item(type, value)),
                                      !.used = header + 2 + length,
                                      !.budget = Charge(checked.budget, Cost(0, length))],
                         count, bytes, limits, depth)

\* Whether the bytes are a value of their type, and the budget left.
validate_item_bytes(type, bytes, limits, budget, depth) ==
    LET text == IF type = DisplayText THEN Len(bytes) - 1 ELSE 0
        charged == Charge(budget, Cost(Len(bytes), text))
        nested == decode_tuple_at(bytes, limits, charged, depth + 1)
    IN IF \/ ~NestingAllowed(depth, limits)
          \/ ~ExpectedLength(type, Len(bytes))
          \/ type \in {Ascii, DisplayText} /\ ~decode_variable_value(bytes)
          \/ type = Ascii /\ \E i \in 2..Len(bytes) : bytes[i] \notin Printable
          \/ type = DisplayText /\ ~from_canonical_utf8(Tail(bytes))
          \/ ~Within(charged)
       THEN Refused
       ELSE CASE type = NestedTuple ->
                     IF nested.ok /\ nested.used = Len(bytes) THEN [ok |-> TRUE, budget |-> nested.budget] ELSE Refused
              [] type = HomogeneousList ->
                     IF Len(bytes) < 2 THEN Refused
                     ELSE IF bytes[2] > limits.item_count THEN Refused
                     ELSE validate_list_payload(bytes, bytes[2], limits, [used |-> 2, budget |-> charged], depth)
              [] OTHER -> [ok |-> TRUE, budget |-> charged]

\* A list holds exactly its count of hashes or of nested tuples.
validate_list_payload(bytes, left, limits, done, depth) ==
    LET rest == Slice(bytes, done.used, Len(bytes) - done.used)
        next == decode_tuple_at(rest, limits, done.budget, depth + 1)
    IN CASE bytes[1] = Hash512 ->
                IF left * HashCells = Len(rest) THEN [ok |-> TRUE, budget |-> done.budget] ELSE Refused
         [] bytes[1] = NestedTuple ->
                IF left = 0
                THEN IF rest = <<>> THEN [ok |-> TRUE, budget |-> done.budget] ELSE Refused
                ELSE IF next.ok
                THEN validate_list_payload(bytes, left - 1, limits,
                                           [used |-> done.used + next.used, budget |-> next.budget], depth)
                ELSE Refused
         [] OTHER -> Refused

Header(items) == FlattenSeq([i \in DOMAIN items |-> <<items[i].type, Len(items[i].bytes)>> \o items[i].bytes])

\* The encoding; its items are valid, and fit one budget of the default limits.
EncodedBytes(t) == <<t.schema, Len(t.items)>> \o Header(t.items)

ItemsValid(items, limits) ==
    FoldLeft(LAMBDA budget, item :
                 IF budget = None THEN None
                 ELSE LET checked == validate_item_bytes(item.type, item.bytes, limits, budget, 0)
                      IN IF checked.ok THEN checked.budget ELSE None,
             NewBudget(limits), items) # None

encode(t) ==
    IF /\ Len(t.items) <= Encoding.item_count
       /\ \A i \in DOMAIN t.items : Len(t.items[i].bytes) <= Encoding.item_length
       /\ ItemsValid(t.items, Encoding)
       /\ Len(EncodedBytes(t)) <= Encoding.tuple_length
    THEN EncodedBytes(t) ELSE None

decode_prefix(bytes, limits) == decode_tuple_at(bytes, limits, NewBudget(limits), 0)

\* A tuple is decoded when nothing follows it.
Whole(read, bytes) ==
    IF read.ok /\ read.used = Len(bytes) THEN CanonicalTupleOf(read.schema, read.items) ELSE None

decode(bytes, limits) == Whole(decode_prefix(bytes, limits), bytes)

nested_tuple_list(tuples) ==
    LET encoded == [i \in DOMAIN tuples |-> encode(tuples[i])]
    IN Item(HomogeneousList, <<NestedTuple, Len(tuples)>> \o FlattenSeq(encoded))

----
(* Identities.                                                             *)

CANONICAL_TUPLE_SCHEMA_IDENTIFIER == 1

\* The preimage of hash_foundation_tuple_512.
canonical_foundation_tuple_hash_preimage(domain, items) ==
    encode(CanonicalTupleOf(CANONICAL_TUPLE_SCHEMA_IDENTIFIER, <<ascii(domain)>> \o items))

----
(* Layouts.                                                                *)

\* The messages that are canonical tuples, each opened by its purpose.
Tuples == <<"registration-header", "poll-definition", "roster-proposal", "contribution-offer",
            "setup-selection", "close-intent", "close-response", "close-proposal", "evaluation-target",
            "setup-selection-endorsement", "setup-contribution">>

Envelopes == {"ballot-envelope", "release-envelope"}

\* The reader of these holds every field and encodes the message again.
Rebuilt == {"setup-selection-endorsement", "setup-contribution"}

Kinds == ToSet(Tuples) \cup Envelopes

Purpose(k) == <<30 + CHOOSE i \in DOMAIN Tuples : Tuples[i] = k>>

Types(k) ==
    CASE k = "registration-header" -> <<Ascii, Hash512, RawBytes, Hash512, DisplayText, HomogeneousList>>
      [] k = "poll-definition" -> <<Ascii, Hash512, RawBytes, RawBytes, RawBytes, Unsigned16, Unsigned16>>
      [] k \in {"roster-proposal", "setup-selection"} -> <<Ascii, Hash512, RawBytes>>
      [] k = "contribution-offer" -> <<Ascii, Hash512, Unsigned16, Unsigned64, Hash512>>
      [] k = "close-intent" -> <<Ascii, Hash512, Hash512, Unsigned64>>
      [] k = "close-response" -> <<Ascii, Hash512, Hash512, Hash512, Unsigned16, RawBytes>>
      [] k = "close-proposal" -> <<Ascii, Hash512, Hash512, Hash512, RawBytes>>
      [] k = "evaluation-target" -> <<Ascii, Hash512, Hash512, Hash512, RawBytes, Hash512>>

Less(a, b) == \/ a[1] < b[1]
              \/ a[1] = b[1] /\ \E i \in 1..HashCells : /\ a[2][i] < b[2][i]
                                                        /\ \A j \in 1..i - 1 : a[2][j] = b[2][j]

Entries(listing) ==
    [i \in 1..Cardinality(listing) |-> CHOOSE e \in listing : Cardinality({d \in listing : Less(d, e)}) = i - 1]

encode_entries(listing) ==
    variable_bytes(FlattenSeq([i \in 1..Len(Entries(listing)) |-> <<Entries(listing)[i][1]>> \o Entries(listing)[i][2]]))

WithCount(bytes, count) == variable_bytes(<<count>> \o bytes)

MANIFEST_SCHEMA_IDENTIFIER == 16
OPTION_DEFINITION_SCHEMA_IDENTIFIER == 17

Manifest(f) ==
    CanonicalTupleOf(MANIFEST_SCHEMA_IDENTIFIER,
        <<display_text(f.title),
          nested_tuple_list([i \in DOMAIN f.options |->
              CanonicalTupleOf(OPTION_DEFINITION_SCHEMA_IDENTIFIER,
                  <<unsigned16(i - 1), ascii(f.options[i].identifier), display_text(f.options[i].label)>>)])>>)

header_items(f) ==
    <<hash512(f.poll), fixed_bytes(f.signing_public), hash512(f.recipient_key_hash),
      display_text(f.username), hash512_list(f.source_bindings)>>

poll_items(f) ==
    <<hash512(f.runtime), fixed_bytes(f.nonce), fixed_bytes(f.organizer),
      variable_bytes(encode(Manifest(f))), unsigned16(f.top_count), unsigned16(f.maximum_participants)>>

roster_items(f) == <<hash512(f.poll), WithCount(FlattenSeq(f.bodies), Len(f.bodies))>>

offer_items(f) ==
    <<hash512(f.roster), unsigned16(f.position), unsigned64(f.body_length), hash512(f.body_identity)>>

selection_items(f) == <<hash512(f.roster), WithCount(Tail(encode_entries(f.selected).bytes), SetupContributors)>>

endorsement_items(f) == <<hash512(f.selection), unsigned16(f.position)>>

intent_items(f) == <<hash512(f.poll), hash512(f.setup), Item(Unsigned64, f.close_time)>>

response_items(f) ==
    <<hash512(f.poll), hash512(f.setup), hash512(f.intent), unsigned16(f.responder), encode_entries(f.listed)>>

proposal_items(f) == <<hash512(f.poll), hash512(f.setup), hash512(f.intent), encode_entries(f.responses)>>

target_items(f) ==
    <<hash512(f.poll), hash512(f.setup), hash512(f.proposal), variable_bytes(f.classifications)>>
    \o (IF f.ciphertext = None THEN <<>> ELSE <<hash512(f.ciphertext)>>)

role_items(f) == <<ascii(f.participant), hash512(f.poll), hash512(f.proposal), unsigned16(f.position)>>

\* The items after the purpose.
Items(k, f) ==
    CASE k = "registration-header" -> header_items(f)
      [] k = "poll-definition" -> poll_items(f)
      [] k = "roster-proposal" -> roster_items(f)
      [] k = "contribution-offer" -> offer_items(f)
      [] k = "setup-selection" -> selection_items(f)
      [] k = "setup-selection-endorsement" -> endorsement_items(f)
      [] k = "close-intent" -> intent_items(f)
      [] k = "close-response" -> response_items(f)
      [] k = "close-proposal" -> proposal_items(f)
      [] k = "evaluation-target" -> target_items(f)
      [] k = "setup-contribution" -> role_items(f)

U64(value) == unsigned64(value).bytes

Number(cells) == FoldRight(LAMBDA cell, sum : cell + 100 * sum, cells, 0)

ballot_envelope(f) ==
    f.poll \o f.setup \o <<f.position>> \o f.ballot_time \o U64(f.body_length) \o f.body_identity

release_envelope(f) ==
    f.poll \o f.setup \o f.target \o <<f.position>> \o U64(f.body_length) \o f.body_identity

\* What the encoder of a header refuses to write.
header_fits(f) ==
    Len(f.username) \in 1..MAXIMUM_USERNAME_BYTES /\ Len(f.source_bindings) \in 1..Families

Body(k, f) ==
    CASE k = "ballot-envelope" -> ballot_envelope(f)
      [] k = "registration-header" /\ ~header_fits(f) -> None
      [] k = "release-envelope" -> release_envelope(f)
      [] OTHER -> encode(CanonicalTupleOf(CANONICAL_TUPLE_SCHEMA_IDENTIFIER, <<ascii(Purpose(k))>> \o Items(k, f)))

----
(* Readers.                                                                *)

close_prefix_bytes == 2 + (2 + 1 + 1) + 2 * (2 + HashCells)

\* The exact length of the longest message of a purpose.
maximum_close_message_bytes(k) ==
    CASE k = "close-intent" -> close_prefix_bytes + 2 + TimeCells
      [] k = "close-response" ->
             close_prefix_bytes + (2 + HashCells) + (2 + 1) + (2 + 1 + Listed * Participants * EntryCells)
      [] k = "close-proposal" ->
             close_prefix_bytes + (2 + HashCells) + (2 + 1 + InventoryThreshold(Participants) * EntryCells)

\* The longest message a reader takes, which outside the close is a constant.
maximum_bytes(k) == IF k \in DOMAIN MaximumBytes THEN MaximumBytes[k] ELSE maximum_close_message_bytes(k)

\* The longest item of a header: its key, its username or its list of bindings.
maximum_header_item == Max({HashCells, 1 + MAXIMUM_USERNAME_BYTES, 2 + HashCells * Families})

\* Each reader's own limits; a header, a poll and a roster bound the work of a decoding too.
Limits(k) ==
    LET maximum == maximum_bytes(k)
        bounds == [Encoding EXCEPT !.tuple_length = maximum, !.item_length = maximum,
                                   !.item_count = Len(Types(k)), !.nesting_depth = 0]
    IN CASE k = "registration-header" ->
                [bounds EXCEPT !.item_length = maximum_header_item,
                              !.item_count = IF Families > @ THEN Families ELSE @,
                              !.work = 4 * maximum, !.allocation = 2 * maximum]
         [] k = "poll-definition" ->
                [bounds EXCEPT !.nesting_depth = Encoding.nesting_depth,
                              !.work = 4 * maximum, !.allocation = 4 * maximum]
         [] k = "roster-proposal" ->
                [bounds EXCEPT !.nesting_depth = 1, !.work = 4 * maximum, !.allocation = 4 * maximum]
         [] OTHER -> bounds

\* Mutant: a listing may repeat an author's entry.
Repeating(bytes, per_author) ==
    LET values == [i \in 1..Len(bytes) \div EntryCells |->
                      <<Slice(bytes, (i - 1) * EntryCells, 1)[1], Slice(bytes, (i - 1) * EntryCells + 1, HashCells)>>]
    IN IF /\ Len(bytes) % EntryCells = 0
          /\ \A i \in DOMAIN values : values[i][1] < Participants
          /\ \A i \in 2..Len(values) : ~Less(values[i], values[i - 1])
       THEN ToSet(values) ELSE None

\* The listing the bytes hold: ascending, with at most per_author entries of an author.
entries(bytes, per_author) ==
    LET values == [i \in 1..Len(bytes) \div EntryCells |->
                      <<Slice(bytes, (i - 1) * EntryCells, 1)[1], Slice(bytes, (i - 1) * EntryCells + 1, HashCells)>>]
    IN IF /\ Len(bytes) % EntryCells = 0
          /\ \A i \in DOMAIN values : values[i][1] < Participants
          /\ \A i \in 2..Len(values) : Less(values[i - 1], values[i])
          /\ \A i \in per_author + 1..Len(values) : values[i - per_author][1] # values[i][1]
       THEN ToSet(values) ELSE None

OptionsOf(tuples) ==
    [i \in DOMAIN tuples |-> [identifier |-> Tail(tuples[i].items[2].bytes), label |-> Tail(tuples[i].items[3].bytes)]]

RECURSIVE NestedTuples(_, _)

NestedTuples(bytes, count) ==
    LET read == decode_prefix(bytes, Encoding)
    IN IF count = 0 THEN <<>>
       ELSE <<CanonicalTupleOf(read.schema, read.items)>>
            \o NestedTuples(Slice(bytes, read.used, Len(bytes) - read.used), count - 1)

OptionShaped(t) ==
    /\ t.schema = OPTION_DEFINITION_SCHEMA_IDENTIFIER
    /\ Len(t.items) = 3
    /\ t.items[1].type = Unsigned16 /\ t.items[2].type = Ascii /\ t.items[3].type = DisplayText
    /\ Len(t.items[2].bytes) > 1 /\ Len(t.items[3].bytes) > 1

\* The title and options of a manifest: indexed in order, distinctly named and labelled.
ManifestWith(title, tuples) ==
    LET options == OptionsOf(tuples)
    IN IF \/ Len(tuples) \notin SupportedOptions
          \/ \E i \in DOMAIN tuples : ~OptionShaped(tuples[i])
       THEN None
       ELSE IF \/ \E i \in DOMAIN tuples : tuples[i].items[1].bytes # <<i - 1>>
               \/ \E i, j \in DOMAIN options : i # j /\ ( \/ options[i].identifier = options[j].identifier
                                                          \/ options[i].label = options[j].label )
       THEN None
       ELSE [title |-> title, options |-> options]

ManifestIn(read) ==
    LET title == read.items[1]
        list == read.items[2]
    IN IF read = None THEN None
       ELSE IF \/ read.schema # MANIFEST_SCHEMA_IDENTIFIER
               \/ Len(read.items) # 2
       THEN None
       ELSE IF \/ title.type # DisplayText \/ Len(title.bytes) = 1
               \/ list.type # HomogeneousList \/ list.bytes[1] # NestedTuple
       THEN None
       ELSE ManifestWith(Tail(title.bytes), NestedTuples(Slice(list.bytes, 2, Len(list.bytes) - 2), list.bytes[2]))

ManifestOf(bytes) == ManifestIn(decode(bytes, Encoding))

validate_fields(manifest, top, maximum) ==
    top # 0 /\ top <= Len(manifest.options) /\ maximum \in SupportedParticipants

\* A tuple of the kind's header, purpose and item types.
Shaped(k, t) ==
    /\ t.schema = CANONICAL_TUPLE_SCHEMA_IDENTIFIER
    /\ Len(t.items) = Len(Types(k)) \/ (k = "evaluation-target" /\ Len(t.items) = Len(Types(k)) - 1)
    /\ \A i \in DOMAIN t.items : t.items[i].type = Types(k)[i]
    /\ Tail(t.items[1].bytes) = Purpose(k)

Value(item) == Tail(item.bytes)

read_header(i) ==
    LET list == i[6].bytes
    IN IF /\ Len(i[3].bytes) = HashCells
          /\ Len(Value(i[5])) \in 1..MAXIMUM_USERNAME_BYTES
          /\ list[1] = Hash512 /\ list[2] \in 1..Families
       THEN [poll |-> i[2].bytes, signing_public |-> i[3].bytes, recipient_key_hash |-> i[4].bytes,
             username |-> Value(i[5]),
             source_bindings |-> [j \in 1..list[2] |-> Slice(list, 2 + (j - 1) * HashCells, HashCells)]]
       ELSE None

PollWith(i, manifest) ==
    IF manifest = None THEN None
    ELSE IF validate_fields(manifest, i[6].bytes[1], i[7].bytes[1])
    THEN [runtime |-> Runtime, nonce |-> i[3].bytes, organizer |-> i[4].bytes,
          title |-> manifest.title, options |-> manifest.options,
          top_count |-> i[6].bytes[1], maximum_participants |-> i[7].bytes[1]]
    ELSE None

read_poll(i) ==
    IF /\ i[2].bytes = Runtime
       /\ Len(i[3].bytes) = 1
       /\ Len(i[4].bytes) = HashCells
       /\ decode_variable_value(i[5].bytes)
    THEN PollWith(i, ManifestOf(Value(i[5]))) ELSE None

\* A retained proposal is read by a member that finds its own body at its position.
read_roster(i) ==
    LET count == Value(i[3])[1]
        bodies == Tail(Value(i[3]))
    IN IF decode_variable_value(i[3].bytes) /\ i[2].bytes = Poll /\ Len(Value(i[3])) > 0
       THEN IF /\ count \in SupportedParticipants
               /\ Len(bodies) = count * HashCells
               /\ Own.position < count
               /\ Slice(bodies, Own.position * HashCells, HashCells) = Own.body
            THEN [poll |-> Poll, bodies |-> [j \in 1..count |-> Slice(bodies, (j - 1) * HashCells, HashCells)]]
            ELSE None
       ELSE None

read_offer(i) ==
    IF /\ i[2].bytes = RosterIdentity
       /\ i[3].bytes[1] < SetupEligible
       /\ Number(i[4].bytes) \in BodyLengths
    THEN [roster |-> i[2].bytes, position |-> i[3].bytes[1], body_length |-> Number(i[4].bytes), body_identity |-> i[5].bytes]
    ELSE None

read_selection(i) ==
    LET bytes == Value(i[3])
        selected == entries(Tail(bytes), 1)
    IN IF /\ decode_variable_value(i[3].bytes)
          /\ i[2].bytes = RosterIdentity
          /\ Len(bytes) = 1 + SetupContributors * EntryCells
       THEN IF bytes[1] # SetupContributors \/ selected = None THEN None
            ELSE IF \A entry \in selected : entry[1] < SetupEligible
            THEN [roster |-> RosterIdentity, selected |-> selected] ELSE None
       ELSE None

read_intent(i) == [poll |-> i[2].bytes, setup |-> i[3].bytes, close_time |-> i[4].bytes]

read_response(i) ==
    LET listed == entries(Value(i[6]), Listed)
    IN IF i[5].bytes[1] < Participants /\ decode_variable_value(i[6].bytes)
       THEN IF listed = None THEN None
            ELSE [poll |-> i[2].bytes, setup |-> i[3].bytes, intent |-> i[4].bytes,
                  responder |-> i[5].bytes[1], listed |-> listed]
       ELSE None

read_proposal(i) ==
    LET responses == entries(Value(i[5]), 1)
    IN IF decode_variable_value(i[5].bytes)
       THEN IF responses = None THEN None
            ELSE IF /\ Cardinality(responses) = InventoryThreshold(Participants)
                    /\ \E entry \in responses : entry[1] = Organizer
            THEN [poll |-> i[2].bytes, setup |-> i[3].bytes, intent |-> i[4].bytes, responses |-> responses]
            ELSE None
       ELSE None

\* The classifications select the branch: a ciphertext follows a sufficient turnout only.
read_target(i) ==
    LET classifications == Value(i[5])
        accepted == {p \in DOMAIN classifications : classifications[p] = 2}
        evaluated == Cardinality(accepted) >= MinimumTurnout(Participants)
    IN IF /\ decode_variable_value(i[5].bytes)
          /\ Len(classifications) = Participants
          /\ \A p \in DOMAIN classifications : classifications[p] <= 3
          /\ (Len(i) = 6) = evaluated
       THEN [poll |-> i[2].bytes, setup |-> i[3].bytes, proposal |-> i[4].bytes, classifications |-> classifications,
             ciphertext |-> IF evaluated THEN i[6].bytes ELSE None]
       ELSE None

read_ballot(bytes) ==
    LET at(from, length) == Slice(bytes, from, length)
        position == bytes[2 * HashCells + 1]
        length == Number(at(2 * HashCells + 1 + TimeCells, U64Cells))
    IN IF Len(bytes) # 3 * HashCells + 1 + TimeCells + U64Cells THEN None
       ELSE IF position >= Participants \/ length \notin BodyLengths THEN None
       ELSE [poll |-> at(0, HashCells), setup |-> at(HashCells, HashCells), position |-> position,
             ballot_time |-> at(2 * HashCells + 1, TimeCells), body_length |-> length,
             body_identity |-> at(2 * HashCells + 1 + TimeCells + U64Cells, HashCells)]

read_release(bytes) ==
    LET at(from, length) == Slice(bytes, from, length)
        position == bytes[3 * HashCells + 1]
        length == Number(at(3 * HashCells + 1, U64Cells))
    IN IF Len(bytes) # 4 * HashCells + 1 + U64Cells THEN None
       ELSE IF position >= Participants \/ length \notin BodyLengths THEN None
       ELSE [poll |-> at(0, HashCells), setup |-> at(HashCells, HashCells), target |-> at(2 * HashCells, HashCells),
             position |-> position, body_length |-> length, body_identity |-> at(3 * HashCells + 1 + U64Cells, HashCells)]

ReadItems(k, i) ==
    CASE k = "registration-header" -> read_header(i)
      [] k = "poll-definition" -> read_poll(i)
      [] k = "roster-proposal" -> read_roster(i)
      [] k = "contribution-offer" -> read_offer(i)
      [] k = "setup-selection" -> read_selection(i)
      [] k = "close-intent" -> read_intent(i)
      [] k = "close-response" -> read_response(i)
      [] k = "close-proposal" -> read_proposal(i)
      [] k = "evaluation-target" -> read_target(i)

ReadTuple(k, tuple) ==
    IF tuple = None THEN None
    ELSE IF Shaped(k, tuple) THEN ReadItems(k, tuple.items) ELSE None

\* What a reader of the kind takes the bytes to say.
Read(k, bytes) ==
    LET again == {f \in Fields(k) : Body(k, f) = bytes}
    IN CASE k = "ballot-envelope" -> read_ballot(bytes)
         [] k = "release-envelope" -> read_release(bytes)
         [] k \in Rebuilt -> IF again = {} THEN None ELSE CHOOSE f \in again : TRUE
         [] OTHER -> ReadTuple(k, decode(bytes, Limits(k)))

----
(* Signatures.                                                             *)

\* The signature context of a kind; for most it is the purpose.
Context(k) == CASE k = "ballot-envelope" -> <<60>>
                [] k = "release-envelope" -> <<61>>
                [] k = "setup-selection" -> <<62>>
                [] k = "evaluation-target" -> <<63>>
                [] OTHER -> Purpose(k)

\* The domain of a message's identity; the close messages hash under their purpose.
Domain(k) == IF k \in {"close-intent", "close-response", "close-proposal"} THEN Purpose(k) ELSE <<Purpose(k)[1] + 20>>

\* What a signature covers: an envelope's bytes, or the identity of a body's.
SignedMessage(k, bytes) ==
    IF k \in Envelopes THEN bytes
    ELSE canonical_foundation_tuple_hash_preimage(Domain(k), <<variable_bytes(bytes)>>)

Signature(k, bytes) == [context |-> Context(k), message |-> SignedMessage(k, bytes)]

----
(* A message is sent and its bytes are damaged.                            *)

Init ==
    /\ kind \in Kinds
    /\ fields \in Fields(kind)
    /\ wire = None
    /\ faults = 0

Send == wire = None /\ wire' = Body(kind, fields) /\ UNCHANGED <<kind, fields, faults>>

Damage(damaged) ==
    /\ faults < MaxFaults
    /\ wire' = damaged
    /\ wire' # wire
    /\ faults' = faults + 1
    /\ UNCHANGED <<kind, fields>>

Alter(cell) == wire # None /\ \E i \in DOMAIN wire : Damage([wire EXCEPT ![i] = cell])

\* Two neighbouring runs of cells change places.
Swap == wire # None /\ \E i \in 1..Len(wire) - 2 * EntryCells + 1 :
            Damage(SubSeq(wire, 1, i - 1) \o SubSeq(wire, i + EntryCells, i + 2 * EntryCells - 1)
                   \o SubSeq(wire, i, i + EntryCells - 1) \o SubSeq(wire, i + 2 * EntryCells, Len(wire)))

Extend(cell) == wire # None /\ Damage(Append(wire, cell))

Truncate == wire # None /\ wire # <<>> /\ Damage(Front(wire))

Next ==
    \/ Send
    \/ \E cell \in Noise : Alter(cell) \/ Extend(cell)
    \/ Swap
    \/ Truncate

Spec == Init /\ [][Next]_vars

TypeOK ==
    /\ kind \in Kinds /\ fields \in Fields(kind)
    /\ wire # None => wire \in Seq(Nat)
    /\ faults \in 0..MaxFaults

----
(* Properties.                                                             *)

\* Every message a participant can send is read by its reader, as what was
\* meant: the bounds each reader computes admit the longest message.
SentReads == wire # None /\ faults = 0 => Read(kind, wire) = fields

\* What a reader took is spelled in the bytes, or means what was signed.
Respells(k, taken) == taken # None => Body(k, taken) = wire
MeansSent(k, taken, signature) ==
    taken # None /\ Signature(k, wire) = signature => k = kind /\ taken = fields

\* What a reader takes has one spelling, so one identity: no reordered listing,
\* no other length and no trailing cell says the same thing again.
OneSpelling == wire # None => \A k \in Kinds : Respells(k, Read(k, wire))

\* A reader that accepts a signature takes exactly what the signer meant by
\* it, whichever reader it is and whatever happened to the bytes.
SignedMeaning ==
    wire # None => \A k \in Kinds : MeansSent(k, Read(k, wire), Signature(kind, Body(kind, fields)))

====
