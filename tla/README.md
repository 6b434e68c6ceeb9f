# A verification project for oxa

oxa translates between the wire formats of LLM providers (Chat Completions,
Anthropic Messages, OpenAI Responses, Jev) by way of one intermediate
representation, the IR. The repository holds the same library in Rust, Go,
TypeScript, Python and C++, written to one specification (`src/spec`). This
project models the **Rust** crates under `src/rust/crates` and, in them, the
code where order matters: the **stream converters** of the three protocols, the
**stream validator**, the **SSE framing**, and the translation of **Responses
requests**.

All paths below are relative to `src/rust/crates` unless they start with `src/`.

## 1. The system

### Components

| Component | State it keeps | Operations | Correct when | Module |
|---|---|---|---|---|
| IR events (`oxa-ir/src/event.rs`, `request.rs`) | none | | the grammar of a stream: INV-5, INV-6, section 5.2 of `src/spec/01` | `IrStream` |
| Stream validator (`oxa-ir/src/checker.rs`) | phase, next index, open block with the fragments gathered | one pass over a stream, strict or lenient | it accepts exactly the grammar | `IrChecker` |
| Chat Completions decoder (`oxa-chatcompletions/src/streamin.rs`) | two channels, IR index, tool calls by native index, usage, finish | `feed`, `flush` | contract of a decoder; no fragment lost, tool calls whole | `CcStreamDecoder` |
| Chat Completions encoder (`oxa-chatcompletions/src/streamout.rs`) | active block, pending tool chunks, degradation flags | `apply` | accepts the grammar; the client rebuilds everything, gaps are reported | `CcStreamEncoder` |
| Anthropic decoder (`oxa-anthropic/src/streamin.rs`) | two index counters, open block, buffered tool, skipped indexes, terminal values | `feed`, `flush` | contract of a decoder; block by block what came in | `AnStreamDecoder` |
| Anthropic encoder (`oxa-anthropic/src/streamout.rs`) | two index counters, open block, what it started with, what was sent | `apply` | accepts the grammar; every block rendered at its index, gaps reported | `AnStreamEncoder` |
| Responses decoder (`oxa-responses/src/streamin.rs`) | open item and part, skipped item and part, call under construction, calls completed, three index counters | `feed`, `flush` | contract of a decoder; item by item what came in; the terminal response agrees | `ReStreamDecoder` |
| Responses encoder (`oxa-responses/src/streamout.rs`) | open item with its parts, open block, items completed | `apply` | done and terminal events repeat what was streamed; the decoder reads it back | `ReStreamEncoder`, `ReRoundTrip` |
| SSE framing (`oxa-sse/src/lib.rs`) | buffered bytes, line, end of file | `next_frame`, its loop, `encode` | frames independent of how the bytes are cut; the loop ends | `SseFrames` |
| Responses requests (`oxa-responses/src/decode.rs`, `normalize.rs`, `encode.rs`) | the request under construction | `decode_request`, `encode_request` | nothing lost unsaid, order kept, patches paired, tools change in place | `ReRequestDecoder`, `ReRequestEncoder`, `ReRequestTrip` |
| Whole messages of the other faces and responses, audit, Jev, model map | none | pure functions | | not modelled |

Components interact by calls only. A gateway cuts the provider's bytes into
frames, reads them with the decoder of one protocol, hands the events one by one
to the encoder of another and writes what comes back to its client; requests
take the same way in the other direction, whole. The validator is called by
tests and by callers that want to be sure. No component starts a thread or
persists anything: **a converter is a library object that its caller owns**.
The environment of every model is therefore the caller together with the
provider: it may send any event in any order, stop at any point, and go on
calling after an error.

### What is hard

- *Order.* Legal streams are defined by long-range conditions (contiguous
  indexes, one open block, deltas that fit the block, terminal pair last), which
  every converter keeps with a handful of flags of its own.
- *Two index spaces.* A block without a counterpart takes an index on one side
  only; from there on the two counters differ. Responses has three: items,
  parts and blocks.
- *Buffering.* Tool calls are held back until they are complete, and arrive
  interleaved in Chat Completions, while text passes them.
- *Repetition.* Responses says everything three times: in deltas, in done
  events, in the terminal response. The encoder has to repeat, the decoder to
  compare.
- *Regrouping.* A message of the IR is several items of a Responses request, and
  a run of items is one message, sorted by what they are; pairs of calls and
  results and changes of the tools have to survive that.
- *Partial failure.* Several handlers return an error after they changed the
  struct; the caller may go on. Reads and writes may fail inside a frame.
- *Silence.* Whatever cannot be carried over has to be reported, once, in order.

## 2. The modules

| Module | Role |
|---|---|
| `IrStream` | events, blocks, deltas; the grammar, declaratively |
| `IrChecker` | the validator as a state machine |
| `IrProducer` | abstract specification: what a decoder promises |
| `CcWire`, `AnWire`, `ReWire` | the wire formats of the streams, as far as the converters tell values apart |
| `CcStreamDecoder`, `CcStreamEncoder` | Chat Completions converters |
| `AnStreamDecoder`, `AnStreamEncoder` | Anthropic converters |
| `ReStreamDecoder`, `ReStreamEncoder` | Responses converters |
| `ReRoundTrip` | the Responses encoder composed with the Responses decoder |
| `SseFrames` | a server that writes, a reader that cuts, the frame decoder, the client's loop |
| `ReItems` | whole Responses messages, and the messages and tools of the IR |
| `ReRequestDecoder`, `ReRequestEncoder` | `decode_request` and `encode_request` |
| `ReRequestTrip` | both composed: request, IR, request, IR, request |
| `MC*` | bounded instances: the sets of inputs, no definition of the model |
| `IrStream_proofs`, `IrChecker_proofs`, `CcStreamDecoder_proofs`, `CcStreamEncoder_proofs`, `AnStreamDecoder_proofs`, `AnStreamEncoder_proofs`, `ReStreamDecoder_proofs`, `ReStreamEncoder_proofs` | theorems and lemmas |

### How they correspond to the code

**`IrStream`.** The grammar is stated by *adjacency*: `Follows(e, f)` says which
events may be next to each other. Since every event carries the index of its
block this local relation is enough to say everything INV-5 and INV-6 say, and
no state machine is needed; the validator's state machine can then be compared
with it. Tool inputs (`ToolInputsExact`) relate a start to the deltas up to its
stop. A text is a sequence of opaque characters, so that "empty" and
"concatenated" mean what they mean in the code.

**`IrChecker`.** `stream` is what `validate_with` has read so far, `phase`,
`next_index` and `open` are its locals, `lenient` is `allow_synthesized`. There
is one action per arm of the match that goes on (`ReadBlockStart`, ...), one for
every early return (`Violate`) and one for the code after the loop
(`EndOfStream`).

**Stream decoders.** `dec` is the struct, with one more field `events`: everything
handed to the caller so far. `fed` is a history of the input and `failed` says
that some call returned an error; both exist for the properties only and no
guard reads them, except the bounds. One disjunct per way out of `feed` and
`flush`. `CcStreamDecoder!Fails` keeps the changes made before the error and
drops the events, as `?` does in the code. `AnStreamDecoder` merges `block_open`
and the three `open_*` flags, of which at most one variant is open, into `open`.
`ReStreamDecoder` keeps the fields of the struct one by one; most of its errors
come before any change, some after one (a block counted, a loss recorded, an item
opened), and `Rejects(d)` names the struct the error leaves.

**Stream encoders.** `enc` is the struct with what the caller received (`chunks` or
`wire`, and `losses`); `applied` is the history. One action per arm of `apply`,
refusals included. The Chat Completions encoder changes state before several of
its errors (`Counted`, `Indexed`, a stop that has taken `active`), the other
two in few cases only.

**`ReRoundTrip`** extends both Responses converters: `Encode` is a step of the
encoder, `Deliver` feeds the decoder with the next event on the wire, `Confirm`
flushes it. The two run at their own pace.

**`SseFrames`.** A byte is a character. The server's side (`Write`, `WriteFails`,
`WriteLine`, `Close`) appends to `sent`; `Refill` hands any allowed number of
bytes to the `BufReader`. One call of `next_frame` is a loop that blocks inside
`read_until`, so it is modelled step by step: `at` is where it is, and the
local variables `frame`, `have` and `data_lines` are fields of `dec`.

**Requests.** `decode_request` is one call and nothing interleaves with it; its
steps are the turns of its loops: the head (tools, tool choice, settings), one
turn of `precheck_apply_patch_pairs`, one item or run of items, the checks at
the end. `encode_request` is the head, one message per step with the changes of
the tools that stand before and in it, and the tail. Every text of a request is
a number that tells its item and its place in it, so that "lost", "doubled" and
"out of order" can be read off the result. `ReRequestTrip` starts from a
Responses request or, in the second round, from an IR request with what only
other faces put into one.

**Abstractions.** Names, ids and texts are opaque; a dotted name is the sequence of
its segments. Details of usage beyond two counters, ids and models of messages,
the wording of losses and errors are left out; of a loss its place is kept. Of
`choices` only the first is looked at, as in the code. `{"input": text}`, the
wrapping of a custom tool's input, is one character before and one after the
text (`AnWire!Wrap`), so that it can be split over fragments at every position
the decoder distinguishes. The form of a value (`form`) stands for the cases a
converter tells apart: a valid image reference, one it cannot carry, and so on.
`NestedTypes` names the event types nobody knows that begin like a known one: inside
a patch item the code refuses these by their prefix and skips other unknown types. A
citation delta whose value is no JSON has a source nobody knows. `feed_json`, which
parses JSON and adds losses of its own, is not part of the models.

## 3. What the runs check

| Run | Shows | States |
|---|---|---|
| `ir_checker` | the validator is exact for the grammar: every stream of at most 8 events over one block of every open kind, both modes | 0.2 M |
| `cc_decoder` | implements `IrProducer`; text and reasoning in order; tool calls whole at flush whatever the interleaving, with the last usage; one loss per unsupported call; indexes and terminal pair right even after errors | 2.0 M |
| `cc_encoder` | accepts the grammar only, refuses for a reason only, client rebuilds texts and calls, every gap in the losses but for the text a block starts with | 3.1 M |
| `an_decoder` | implements `IrProducer`; output is block by block the input, with the last terminal values, losses in order | 1.2 M |
| `an_encoder` | output is block by block the input at its native index, losses in order, what it accepts beyond the grammar is named exactly | 0.9 M |
| `re_decoder` | implements `IrProducer`; items do not interleave; output is item by item the input; losses in order; a terminal response that contradicts the stream is refused | 0.16 M |
| `re_round_trip` | done and terminal events repeat the stream; the encoder accepts little else than the grammar and refuses for a reason only; the decoder takes what it sends and reads the same blocks | 0.6 M |
| `sse` | the frames do not depend on the cuts, line ends, comments, unknown fields; what was written arrives; the client's loop ends | 0.3 M |
| `messages` | texts lost only with a loss and never doubled or moved, patches paired, tool changes in place, and what was translated once is stable when translated again | 0.6 M |

`HonoursContract` is the refinement: `Promised == INSTANCE IrProducer WITH
stream <- dec.events` (and `failed`), checked as a `PROPERTY` of all three
decoders and proved for each (section 4). The contract says what a step may do: hand over a batch that continues
the stream legally, with tool blocks whole and exact and the terminal pair
complete; or fail and hand over nothing. After a failure nothing is promised by
the contract; for the Chat Completions decoder, whose errors leave changes
behind, `NothingAfterTheEnd` says what still holds.

The other properties compare the histories, input and output, and do not look at
the struct: `CallsReplayedAtFlush`, `OutputIsBlockwise`, `OutputIsItemwise`,
`FramesIndependentOfCuts` and the rest *recompute* what should have come out from
what went in, in the terms of the whole message rather than of the stream.
`AcceptsLittleElse` names what an encoder lets through beyond the grammar:
an accepted stream without these relaxations is in the grammar.

**Mutants.** Every property has one definition of the model that, replaced by
its mutated form, breaks it. The mutants are in the modules right above the
definition they stand for and are marked as such.

**Bounds.** `MaxEvents`, `MaxFeeds`, `MaxApplied` bound the number of calls,
`MaxRefused` and `MaxResumed` the number of errors after which a caller goes on,
`MaxUnits` the blocks counted and losses recorded by the Responses decoder, which
repeated errors of `feed` could raise without end.
The events of the `MC` modules cover every arm and every error path of the code:
TLC's coverage shows that each action is taken. The shortest complete stream has
4 events, two blocks with a delta each take 9; the state of a converter between
two blocks consists of counters and flags, so two blocks reach each combination
of an earlier and a later block. The Chat Completions decoder keeps more from
one chunk to the next (tool calls, channels) but each chunk may carry a call,
reasoning, content and finish at once; five chunks give two calls with two
fragments each and a finish, one of them a call that turns custom late. A Responses item takes up to seven events where the
others take three; `MCReStreamDecoder` therefore has few values per event and
more feeds. `MaxInt` is a small `i64::MAX`: the only use of the width is the
checked addition of two counters.

`sse`: three writes, pieces of one and of three bytes: a piece ends before, in
and behind every line end, field name and two-byte character. Frames have no,
one or two lines of data; foreign lines have either line end, or none before the
end of the stream. `messages`: all sequences of up to three items of every kind
(a call, its result and something between or around them), up to five of the
kinds that pair and interleave; heads with each tool choice, tool form and
setting; IR messages of up to three foreign blocks.

**Fairness** is stated for `SseFrames` only. `WF_vars(Decode)`: the client's loop
runs, each step of `next_frame` being straight-line code. `WF_vars(Refill)`: a
blocking read returns when there are bytes. Nothing is assumed of the server: it
may leave the stream open for ever, so `LoopEnds` starts from its end; and
nothing of failing reads: they may happen or not, once, since an error is sticky.
The converters do nothing by themselves, what a call must do it does before it
returns, so there is no step of theirs whose fairness the code could justify.

**Deadlock** is checked for the Chat Completions, Anthropic and Responses
decoders, where `flush` is always possible, and switched off where the system
really stops: the validator and a translated request end, a caller of an encoder
may stop, a client has read its stream.

### Disagreements between the code and its documents

Three runs check one documented statement each and expect TLC to violate it.

| Run | The code | The document |
|---|---|---|
| `cc_encoder_start_text` | ignores the text a text block starts with, without a loss; the Anthropic decoder does produce such blocks | `src/README.md:93`, gaps are never silent |
| `re_namespace` | compares the calls of the terminal response, in wire form, with saved names in IR form: a stream with a namespaced custom tool call is refused at its end, the one its own encoder writes included | `src/spec/11-mapping-openai-responses.md:358` and 376, such calls have a namespace |
| `re_tools` | rebuilds nested containers from the path of the first tool: a tool beside the inner container is left out | `src/spec/11-mapping-openai-responses.md:373`, the hierarchy is reconstructed |

The properties of the passing runs exclude these cases, and others of this section,
by name:

- `LossesAccountForGaps` (Chat Completions encoder) counts a text or thinking block that starts
  with text as a gap, `StartTextGaps`, and lets exactly these gaps be silent;
- `OutputIsBlockwise` (Anthropic encoder) says nothing of a stream with
  `ThinkingComesLate`;
- `LossesInOrderOfGaps` (Responses decoder) lets the losses have or lack, at its place,
  what is `Disputed`: the ciphertext an item is announced with, and the text a summary
  part is added with, which is dropped without a loss;
- `ReadBack` has `CustomNamesPlain`, `WrittenRequestIsStable` has `ToolsShallow`.

Further disagreements with a document, seen while modelling. The models have the
code's behaviour; no run is spent on them:

- The Anthropic decoder hands over a citation put on a buffered `tool_use` block
  before the block (`oxa-anthropic/src/streamin.rs:343`;
  `src/spec/20-streaming-semantics.md:459`). `AnStreamDecoder` has the constant
  `CitesTools` to keep the case apart: the runs have it FALSE, and with TRUE
  `HonoursContract` fails.
- The Anthropic encoder accepts a block after `message_delta`, `message_done`
  inside a block, and a custom input delta in a text block
  (`oxa-anthropic/src/streamout.rs:115`; `src/spec/20-streaming-semantics.md:71`);
  `AcceptsLittleElse` says exactly how far this goes.
- It sends the thinking a block starts with behind the signature when only a
  signature delta came (`oxa-anthropic/src/streamout.rs:559`;
  `src/spec/20-streaming-semantics.md:417` and 441): `ThinkingComesLate`.
- The Responses decoder records a loss for the ciphertext a reasoning item is
  announced with, and hands it over when the item is done
  (`oxa-responses/src/streamin.rs:197`; `src/spec/20-streaming-semantics.md:447`
  and 432): `Disputed`.
- It takes a text delta in a reasoning part and a summary
  delta in a text part (`oxa-responses/src/streamin.rs:442`). The constant
  `MixesParts` keeps these apart: the runs have it FALSE; with TRUE
  `HonoursContract` fails and `ItemsDoNotInterleave` still holds.
- `prompt_cache_breakpoint` on a text of the assistant is dropped without a loss
  (`src/spec/15-native-request-options.md:184`); no text depends on it.

Seen, and not claimed against a document: the Chat Completions encoder sends a
thinking block that follows a tool call before it and, unlike for text, reports
no reordering; the Anthropic decoder accepts several `message_delta` and blocks
between them; the Anthropic encoder drops the thinking of a start when thinking
deltas follow; a function call whose input happens to be `{"input":
"<string>"}` is taken for a custom call; the Responses decoder drops the text a
summary part is added with (`StartsEmpty`, `Disputed`); the stream encoder puts thinking that
follows a cipher into the item of the cipher, where the request encoder begins a
new one (`ThinkingGoesFirst`); a tool named `a.a.b` comes back as `a.b`
(`NamesDoNotRepeat`, in requests and in streams); an unknown field in the action of a
web search is written back and so reported at every decoding (`OddSearches`,
`SearchLosses`); a change of the tools that cannot be sent still cuts its
message in two (`ChangesSendable`); assistant messages on both sides of an item
that is left out become one on the second translation (`MessagesApart`); a
message without content comes back with an empty text (`Worded`).

## 4. What is proved

TLC checks the instances above; TLAPS checks the following for **every** set of
events and **every** bound. The modules `X_proofs` hold the theorems about `X`;
`IrStream_proofs` holds what they share.

| Theorem | Says |
|---|---|
| `IrChecker_proofs!TypeCorrect` | the validator's variables keep their types; the open block is the one started last |
| `IrChecker_proofs!CheckerSound` | it reads on only while the stream is in grammar order, and accepts only complete streams |
| `IrChecker_proofs!CheckerExact` | tool inputs of what it reads are exact, and a complete exact stream never gets a violation: it accepts exactly the grammar |
| `CcStreamDecoder_proofs!DecoderTypeCorrect`, `AnStreamDecoder_proofs!`..., `ReStreamDecoder_proofs!`... | counters, flags, open blocks and buffers of a decoder agree with each other at all times, after an error too |
| `CcStreamDecoder_proofs!DecoderHonoursContract`, `AnStreamDecoder_proofs!`..., `ReStreamDecoder_proofs!`... | the decoder implements `IrProducer`: every successful call continues the stream legally, with whole and exact tool blocks and a complete terminal pair |
| `CcStreamDecoder_proofs!EndIsTheEnd` | also for a caller that goes on after errors: indexes rise, and nothing follows the terminal pair |
| `AnStreamDecoder_proofs!DecoderTellsLosses`, `ReStreamDecoder_proofs!`... | until the first error, the losses are those of the gaps, in their order: a skipped block, item or part counts once, whatever is inside (in Responses, what is `Disputed` may be among them) |
| `CcStreamDecoder_proofs!FragmentsArrive` | until the first error, the text and reasoning that were handed over are the fragments that came, in their order |
| `CcStreamDecoder_proofs!UnsupportedCallsLostOnce` | until the first error, one loss per call of an unsupported kind, however many fragments of it came |
| `CcStreamDecoder_proofs!CallsReplayed` | until the first error, `flush` replays the supported calls in index order, each with the id, kind, name and input its own fragments spell, and ends with the last usage; no call is handed over before |
| `AnStreamDecoder_proofs!DecoderIsBlockwise` | until the first error, everything handed over is, block by block and in native order, what came in: IR indexes without gaps, each delta in its block, tool blocks whole at their stop, the last terminal values at `message_stop` |
| `ReStreamDecoder_proofs!ItemsInOrder` | until the first error, what names an item came between its start and its end, under its index and its id; items and parts are numbered without gaps |
| `ReStreamDecoder_proofs!DecoderIsItemwise` | until the first error, everything handed over is, event by event, what came in: a block for every part and item the IR can carry, indexes without gaps, text in the block of its part, calls whole when their item is done, and at the end the reason and the usage of the response |
| `ReStreamDecoder_proofs!TerminalIsFaithful` | until the first error, the final response agrees with the stream: its custom calls are those handed over, each patch in it ended as repeated and was handed over or recorded as lost, and the stop reason says whether there was a call |
| `CcStreamEncoder_proofs!EncoderTypeCorrect`, `AnStreamEncoder_proofs!`... | the struct keeps its types, after an error too |
| `CcStreamEncoder_proofs!EncoderAcceptsGrammar` | until the first error, whatever was accepted is in grammar order, with the exact input of every tool |
| `AnStreamEncoder_proofs!EncoderAcceptsLittleElse`, `ReStreamEncoder_proofs!`... | what the encoder accepts beyond the grammar contains one of the named stray events |
| `CcStreamEncoder_proofs!EncoderRefusesForCause`, `AnStreamEncoder_proofs!`..., `ReStreamEncoder_proofs!`... | the first call refused breaks the grammar, or asks for something the protocol cannot say |
| `CcStreamEncoder_proofs!ContentPasses` | until the first error, what the chunks say is what the text and thinking deltas said, in their order |
| `CcStreamEncoder_proofs!ClientRebuildsCalls` | until the first error, a client puts every tool block together from the chunks, with its id, kind, name and exact input; none is sent before the end |
| `CcStreamEncoder_proofs!LossesAreAccounted` | until the first error, the losses are those of the events and of the message, each once; no gap is silent but the text a block starts with |
| `AnStreamEncoder_proofs!EncoderIsBlockwise` | until the first error, everything handed over is, event by event and in its own block, what came in: native indexes over the blocks with a native form, what no fragment brought sent once at the stop, a stop reason that fits the blocks; in grammar order or not, as long as no thinking comes late |
| `ReStreamEncoder_proofs!TerminalRepeats` | until the first error, the terminal event repeats the stream: exactly the items that were announced, in their order, each as its one end brought it, each part with the text and each call with the input that the deltas spelled; in grammar order or not |
| `AnStreamEncoder_proofs!EncoderTellsLosses`, `ReStreamEncoder_proofs!`... | the losses are those of the gaps, in their order: none silent, none doubled |

**Assumptions.** The constants are sets of inputs and bounds. `EventsAssumption`
of `IrChecker` says that a started block and a delta carry texts;
`DecoderAssumption` of the decoders, that a provider's events have the shape the
deserializers let through (in Responses also that the item of a `function_call` has
arguments, perhaps empty ones: `arguments` is a `String` with a default, not an `Option`, and that the names in
`NestedTypes` are of unknown events);
`EncoderAssumption` of the encoders, that events are
events of the IR, where only a text block has a field for citations (Anthropic and
Responses) and only a thinking block one for a signature (Responses). Nothing is
assumed of kinds, indexes, identifiers or order: the provider and the caller do
what they like. TLC evaluates each assumption in the run of its module. Three
theorems have a hypothesis: `CitesTools = FALSE` for the contract and the output of the
Anthropic decoder and `MixesParts = FALSE` for the contract of the Responses decoder, the
two inputs for which the contract does fail (section 3); the type invariants and the
other theorems need neither. `Tokens` in
`IrStream` lists the literal strings that the converters write; the provers know
of no string that it is in `STRING`.

**The validator.** `ReadsOnlyLegalPrefixes` is not inductive: the grammar speaks of
adjacent events, the validator of a phase, an open block and an index. The
strengthening `IInv` adds `Linked`, what these remember of the last event (five
cases: nothing read, between blocks, in a block, after `message_delta`, done), and
that what was read so far is well formed. `LegalIsAdmitted` then shows that an event
the validator accepts is one that may follow the last event, and `WellFormedAppend`
(the grammar is local) does the rest.

For exactness the invariant has to look back further than one event. `Gathered` says
that for an open block there is a position `k` where it started, that everything
after `k` is a delta, and that the text the validator collected is the concatenation
of these fragments; `StartGathers`, `DeltaGathers` and `StopIsExact` are its three
interesting steps. `Refused` says that a stream with a violation is not a
complete stream with exact inputs; `AdmittedIsLegal` is the converse of `LegalIsAdmitted`, and needs
`Gathered` at the stop of a tool block, where the validator compares the input with
what it collected. `ExactInv` is the conjunction.

**Concatenation.** `Concat` is `FlattenSeq` of the community modules, a function
defined by recursion with `CHOOSE`. The first section of `IrStream_proofs` shows
that the function exists, that any two agree on the texts they share, and from that
`ConcatAppend` and `ConcatText`. Induction over data is stated for *sets* of numbers
(`SetInduction`, from well-foundedness), since the library's principle takes an
operator. The loops of the Chat Completions decoder, recursive functions over the
calls of a chunk and over the calls kept for `flush`, are treated in the same way
(`Recurs`: the function exists and satisfies its equation; then induction on the
set of turns after which the claim holds).

**The decoders' contract.** `TypeOK` is inductive for each decoder; `Sound` states it
for any value of the struct, each helper that changes the struct has a lemma that it
keeps `Sound`, and the theorem goes through the handlers. The delicate steps are
the errors that come after a change.

The contract needs to know where in the grammar the stream stands. `IrStream_proofs`
has the part that all three share: `Kept(s)` (well formed, tool blocks whole,
inputs exact), `AtBoundary(s, i)` and `InsideBlock(s, i, family, signed)`, which
say this of the last event alone, and `LegalBatch(u)`, a batch of whole blocks that
is legal in itself. `KeptBatch` and `TerminalBatch` show that a legal batch continues
a stream that stands at its beginning, `UnitOfTexts` that a buffered tool block is
such a batch. `Placed(d)` of a proof module says what the flags of the struct mean:
a fresh decoder has handed over nothing, an open text or thinking block is the
last block of the stream, with this index, and everything else is a boundary at
the next index. `ContractInv`, the inductive invariant, is `Kept`, not terminated, and
`Placed` until the end or the first error. One lemma per handler shows that a call
is *honest*, that is, a step of `IrProducer`, and keeps it; `PromisedMeans` puts
the steps together.

The Chat Completions decoder hands over several batches in one call, and its error
paths change the struct. Its lemmas are therefore about two structs: `Advances(c, d)`
says that, if `c` stands well (`Standing`), so does `d`, and that the events of `d`
are those of `c` and more; it is transitive, and each helper has it.
`CountInv`, that indexes rise and stay below the next one and nothing follows the
terminal event, does not depend on success and gives `EndIsTheEnd`.

**The encoders.** Here the stream is the input. `IrStream_proofs` defines the least an
encoder has to remember of it: a *view* has a place (fresh, between blocks, within
one, ended, done), the next index, and of the open block its index, family, input and
fragments. `Tracks(s, v)` says that the view `v` fits the stream `s`; `TrackedAdmits`,
that then exactly the events `Allowed(v, e)` may follow; `TrackedMoves`, that a view
that `Moves` goes on tracking. What is left per encoder is a projection `View(enc)` and,
for each action, an *outcome*: accepted, and then the event was allowed and the view
moves (or the event is one of the named stray ones), or refused, and then it was not
allowed or is `Unfit` for the protocol. The inductive invariant `EncInv` is the
types, the consistency of the flags, `Tracks` as long as nothing was refused, and the
reason of the first refusal.

The Chat Completions encoder refuses everything else, so that is all. The Anthropic
encoder does not: the invariant keeps tracking *while the stream is in order*, and
says separately that indexes are new, that the block held open is open in the
stream, and that a stream without a stray event (`Wandering`) is in order. `BlockOf`, a
`CHOOSE`, is the right block because indexes are unique. The Responses encoder does
not know whether the signature of a thinking block has come: its view has this bit as a
parameter, and the invariant says that the stream is tracked with *some* value of
it, which is what lets a delta after a signature through. `Settled` says that the
item under way fits the open block, so that no accepted event ever meets an item
it cannot join or end.

**Losses.** `EncoderTellsLosses` compares the losses with gaps that are read off the
whole stream. `GapsStay` shows that the gap at an event does not change when the
stream goes on, `LastGap` that the gap at the last event is what the struct reports
(`Lost`), and `LossesGrow` adds the two by `ConcatAppend`. For that the invariant says
what the struct remembers. In Responses the losses carry the number of the event, and
`event_ordinal` is the length of the stream. In Anthropic (`Told`) the next native
index is the number of blocks with a native form, `tool_seen` and `custom_seen` are
the kinds that came, and of an open text block `citation_loss_seen` says whether a
citation of OpenAI came since it started. This holds while the stream is in order;
the theorem states no more. `NothingStartsLate` closes a difference of meaning: the
property speaks of the tools of the whole message, the struct of those up to the
terminal event.

For the decoders the gap at an event depends on whether it comes inside something
that is being skipped, which the struct remembers in one or two flags. `GapOf(e, ...)`
is the gap by the flags, and the invariant says that the flags are what the history
says: `SkippedAt` of the Anthropic decoder (a start that was skipped, with no stop
since), `ItemSkippedIn` and `PartSkippedIn` of the Responses decoder. One lemma per
handler shows that an accepted event is recorded as `GapOf` says and moves the
flags; `SkippedStays` shows that what is skipped is settled by the events before,
`GapsGrow` adds the last gap by `ConcatGrows`, and `GapsMean` shows that these gaps
are, with the ciphertext `Recorded`, ones the property reads off the history.

Chat Completions states its losses as sets, so the invariants compare a set with
the struct in both directions. In the decoder `Slotted` says that every native index that was
named has a slot and that a slot is skipped just when its call `Lacks` a
supported kind; `NotedOnce`, that each of these has a loss, and one only. A call
of a chunk fills a slot, or opens one and may note it, which is where "once" comes
from. In the encoder `Noted` is the property for the events read so far. A new loss
is new because its ordinal is the length of the stream, and those of the message
come with the `message_delta`, of which a stream in order has one. `Marked` ties
what decides about losses to the history: `tool_seen`, `custom_seen` and
`ordering_degrade` to the blocks started, `citation_loss_seen` to the citations of
the open block; `MarksGrow` carries it over a step.

**Content.** Both Chat Completions converters hand text over as it comes. The decoder's
`HistoryInv` says that the fragments in the events handed over are those of the
chunks fed; opening and closing blocks adds none, and an empty reasoning fragment, which
opens no block, counts for none. In the encoder every chunk says one thing; the
calls that are held back must be known to say no text (`Speaks`), since `message_delta`
sends them all at once. `JoinOf` is a concatenation over a sequence of what a
function says of its elements, with the lemmas that every such sum needs
(`JoinOfMore`, `JoinOfBoth`, `JoinOfNone`).

**Calls.** `CallsRebuiltByClient` reads names and inputs out of the whole output, by
native index; the encoder sees one fragment at a time. `Ledger` says that what is
queued (and after `message_delta`, what was sent) is a `Line`, calls one behind the
other with indexes from 0, and that it `Answers` the tool blocks read: the active one is held by
the struct, and what was sent of it so far is what its fragments spell; every other
one can be rebuilt. `OthersKept` is the reason why a block that was once rebuilt stays so: a
piece of one call changes no other. A block without fragments is queued at its stop
with the whole input, so the queue is one call short while such a block is active
(`QueuedCalls`); its stop, which compares input and fragments, gives the last
equality.

In the decoder it is the other way round: `CallsReplayedAtFlush` reads the deltas of
one index out of all that were fed, the struct has one record per index. `Filled` says that
each record is what the deltas of its index tell (`FilledWith`): the first id, if
any came; the category, custom from the first delta that says so; the name and the
fragments, of the payloads under the category of their moment. A record that is
skipped need not be filled. `NewCallFilled` and `FillsUp` are the two steps, a
delta that opens a slot and one that reaches an old one; each is a sum over the deltas
(`Spelled`) that grows by one term, and a delta of one index leaves the sums of all the
others. `CallsInv` speaks of `flush`: the tool blocks handed over are those `Told` by
the records, none before it, and each replayed record has an id. That native indexes are
`0..n-1` follows from the slots being numbered without gaps, so the order of the
records is the order of the indexes. The usage is in the struct until `flush` puts it into the
`message_delta`, whatever came between.

**Blocks.** `OutputIsBlockwise` of the Anthropic decoder says of the whole history what
each event has come to (`OutputOf`); the struct knows one open block. `Known(d, s)` ties
the two. `OpenedAt`: the open block is the one that started at some `p`, every
other supported block started before and is closed, and for a tool block the
buffered fragments are those that came since. `EndKnown`: the terminal values are those
of the last `message_delta`, and the usage the last that one of them carried. `Said`: the events
handed over are the outputs of the events fed, one after the other. An event of the history
is then one of three things: it adds an output of its own (`KnownStays`, `KnownOpens`),
or it adds to the output of `p`, which is the last that is not empty
(`KnownGrows`, `KnownCloses`; `ConcatLate` is the law of concatenation behind it). A tool
block has no output until its stop, where `ToolReadings` shows that what the struct builds
from its buffer is what the whole message says of the block. That a skipped block does not
disturb the open one is `TypeOK`: a skipped block excludes an open one.
Without the hypothesis the theorem is false: a citation on a tool block comes out at once,
before the start of its block.

The encoder's `OutputIsBlockwise` says of every event what stands for it (`OutputOf`), and needs
no order of the stream. `Speaks` says of each handler what it hands over, in terms of the event
and of what the struct holds of the open block (`Remembers`: the text and signature of the start,
whether a fragment came); `EveryCallSpeaks` goes through them. `Spoken` ties the struct to
the history: the next native index and `tool_seen`, as for the losses, and `BlockKnown`, the
block that is open, its native index and the types of the deltas since its start. What stands for
an earlier event does not change (`OutputStays`): it depends only on the block before it, and each
delta and stop has one (`Owned`). So `OutputGrows` is one more `ConcatAppend`. Unlike the
losses this needs no order: a foreign fragment in a block says nothing, an event
after the terminal one is said like any other, and after `message_done` nothing is accepted.

**Items in order.** `ItemsDoNotInterleave` speaks of the last item among the first
events and counts items and parts by their positions; the struct has an open item,
an id and three counters. `Linked(s, d)` of `ReStreamDecoder_proofs` is what these
remember of the history, `Fits(s, k, e)` what the property asks of an event that
comes after the first `k`. `MovesPlace(d, e, o)` names the five things an accepted event
does: it opens an item, closes it, starts a part, stays within what is open or
belongs to no item. `FeedAccepted` shows of every handler that it fails or does one
of the five; `MovesFit`, that the event then fits and `Linked` goes on; `FitsStays`,
that an event that fitted when it came fits for ever. An unknown item has a part
counter and an id like any other, so the theorem covers what is inside skipped
items too. The invariant needs `Holds` besides: an open item of a patch kind has its
patch, so that its end is recorded as the end of a patch.

**Items as output.** `OutputIsItemwise` says of every event what comes out because of it
(`OutputOf`), in terms of the items and parts around it; the handlers say it in terms of the
struct. `Output(e, i, kept, open, p, call, called)` is the text they share: both are this
operator, with the number of blocks, the open part and the call read off the history
(`Said`) or taken from the struct (`OutputNow`). `FeedSpeaks` shows of every handler
that it fails or hands over `OutputNow` and moves the counters as `MovesBlocks` says.
`Gathered` is what these remember of the history: the next index is the number of blocks
so far, a block is open exactly if the last part was kept and is not done, under the index
it was given, and the call that is buffered is the one of the last item, with the fragments
that have come since (`CallFits`). `GatheredMoves` carries it over an event; `SaidNow` shows that
then the two readings of the event agree, `CallReads` for the call, where a `function_call` starts
with the arguments of its item and a custom call without fragments sends its final
input; `SaidStays`, that what was said of an event is settled; `SaidMeans`, that it is what the
property says. `HeldCall` is needed besides `Holds`: an open item of a call kind has its call.

**The end and the stream.** The final response repeats what was streamed, and the struct
keeps three things to compare it with: the custom calls, the patches that ended and
`tool_use_seen`. `StoryInv` says what each stands for in the history: the calls kept are
the custom blocks of the events (`CallsTold`, `CustomsOf`), the flag is set exactly if
there is a calling block, and every patch kept ended at a position of the input, and
was told there (`EndedAt`): as a block or as a loss under that item's index. `FeedTells`
shows of every handler that it fails or does one of four things: it adds no block of
these kinds (`QuietStep`), a calling block (`CallStep`), the end of a patch (`PatchStep`)
or the end of the response (`EndStep`). What was told stays told (`ToldStays`), so only the last
needs what the code compares, in `EndAgrees`.

**The stream as a ledger.** `TerminalRepeatsStream` compares the last event with the whole
stream, while the struct keeps only the items it completed, the one under way and the
block that is open. `Ledger(w, done, open)` of `ReStreamEncoder_proofs` is what connects them: in
the stream `w` every item of `done` was announced, told and ended once, the item `open` was announced
and told but not ended, and nothing was said of an index not yet announced (`Untold`),
without which a later item could start with foreign text. The item under way is not the one the
struct holds: the text of an open part and the input of an open call are still in the block
(`ToldAs`: `ContentTold`, `InputSoFar`), and the item gets them only at the stop, which
is where the code could lose or double a fragment. A call with an exact start input that
no fragment brought sends it at its stop, so `SentInput` decides which of the two is
told. One lemma per kind of sent event says how it changes the ledger
(`LedgerHush`, `LedgerInput`, ...), one per handler that it is refused or keeps it (`Keeps`). Nothing in
this needs grammar order: `RepeatInv` holds until the first refusal.

**Only model-checked.** `ReadBack`, SSE framing and requests. Out of the prover's reach: liveness (`LoopEnds`) and `ENABLED`, and
`ReRequestDecoder` and `ReRequestEncoder`, whose containers of tools are recursive
operators.

## 5. Not modelled, and why

- **Responses requests, in part.** Descriptions, schemas and strictness of tools,
  `cache_control` and the other annotations of Anthropic, compaction items,
  removals and texts in a change of the tools (a tool of another provider stands
  for the part that cannot be sent), the string form of the input, a
  `response_format` without a name: fields that are copied or reported on their
  own, without influence on what the properties speak of.
- **Responses responses** (`decode_response`, `encode_response`): the same runs
  of items as in a request, without pairing or changes of the tools.
- **Whole messages of Chat Completions and Anthropic** (`encode.rs`, `decode.rs`,
  `normalize.rs`): functions of whole messages like those for Responses. The
  ones the stream converters call (stop reasons, usage checks, citations, custom
  input) are modelled where they are called.
- `audit.rs`, `rawjson.rs`, `codec.rs`, `native.rs`: recursion over JSON text,
  without control that a model could say more about than the code does.
- Jev, the model map, the test harness: stateless, a table, tests.
- The ports in other languages: same specification, separate code.

## 6. Plan

Done: the grammar and the validator with its proofs; both converters of all
three protocols; the contract of each decoder, checked and proved; what each
encoder accepts and refuses, checked and proved; the losses of all six
converters proved; content in order and calls put together for both Chat Completions converters, and the
order of items and the final response in Responses, proved; the whole output of the Responses decoder and of
both Anthropic converters and the terminal event of the Responses encoder proved; the Responses round trip; SSE framing with its liveness;
Responses requests and their round trip.

Next, in this order:

1. `ReadBack` of the Responses round trip, from what is proved of its two converters.
2. A composition of a decoder with an encoder of *another* protocol, where the
   dropped start text and the relaxations of `AcceptsLittleElse` meet.
