----------------------- MODULE AnStreamDecoder_proofs ------------------------
(***************************************************************************)
(* Theorems about AnStreamDecoder, for every set of provider events.       *)
(***************************************************************************)
EXTENDS AnStreamDecoder, IrStream_proofs, FiniteSetTheorems, TLAPS

-----------------------------------------------------------------------------
(* Types *)

(* The type invariant of one decoder. *)
Sound(d) ==
  /\ d \in Decoders
  /\ d.next_ir_index \in 0..d.next_index
  /\ d.skipped_open <=> d.skipped # {}
  /\ d.skipped \subseteq {d.next_index - 1}
  /\ d.skipped_open => d.open = "none"
  /\ d.open # "none" => /\ d.open_index = d.next_index - 1
                        /\ d.open_ir_index = d.next_ir_index - 1
  /\ d.thinking_signature_seen => d.open = "thinking"
  /\ d.delta_seen <=> d.stop # "none"
  /\ d.flushed => d.stopped
  /\ d.stopped => d.open = "none" /\ d.delta_seen

(* TypeOK says that the decoder is sound. *)
LEMMA TypeOKIsSound == TypeOK <=> Sound(dec) /\ failed \in BOOLEAN
BY DEF TypeOK, Sound

(* What the provider sends has the form of the wire. *)
LEMMA WireTypes ==
  ASSUME NEW e \in Events
  PROVE  /\ e.kind = "content_block_start" => e.index \in Int /\ e.block \in Option(NativeBlocks)
         /\ e.kind = "content_block_delta" => e.index \in Int /\ e.delta \in Option(NativeDeltas)
         /\ e.kind = "content_block_stop" => e.index \in Int
         /\ e.kind = "message_delta" => /\ e.delta \in Option(Terminals)
                                        /\ e.usage \in Option(Usages)
BY DecoderAssumption DEF WireEvents, KnownEvents, Usages

(* The value of an Option that is not None. *)
LEMMA SomeTypes ==
  ASSUME NEW S, NEW o \in Option(S), o # None
  PROVE  o[1] \in S
BY DEF Option, None

(* A successful call that hands over events leaves a sound decoder. *)
LEMMA YieldsSound ==
  ASSUME TypeOK, NEW e, NEW d, Sound(d), NEW events \in Seq(IrEvents), Yields(e, d, events)
  PROVE  TypeOK'
<1>1. d \in Decoders /\ d.events \o events \in Seq(IrEvents)
  BY DEF Sound, Decoders
<1>2. dec' \in Decoders  BY <1>1 DEF Yields, Decoders
<1>. QED BY <1>1, <1>2, ZenonT(60) DEF Yields, Sound, TypeOK, Decoders

(* So does a call that fails. *)
LEMMA RejectsSound ==
  ASSUME TypeOK, NEW d, Sound(d), Rejects(d)
  PROVE  TypeOK'
BY DEF Rejects, Sound, TypeOK

(* Recording a loss changes nothing else. *)
LEMMA LoseSound ==
  ASSUME NEW d, Sound(d), NEW what \in LossKinds \X Int
  PROVE  Sound(Lose(d, what))
<1>1. d.losses \in Seq(LossKinds \X Int)  BY DEF Sound, Decoders
<1>2. Append(d.losses, what) \in Seq(LossKinds \X Int)  BY <1>1
<1>3. Lose(d, what) \in Decoders  BY <1>2 DEF Sound, Decoders, Lose
<1>. QED BY <1>3 DEF Sound, Decoders, Lose

(* Opening a block takes both indexes. *)
LEMMA OpenSound ==
  ASSUME NEW d, Sound(d), BetweenBlocks(d), ~d.stopped,
         NEW kind \in {"text", "thinking", "redacted", "tool"}
  PROVE  Sound(Open(d, kind)) /\ Open(d, kind).open = kind /\ ~Open(d, kind).skipped_open
<1>1. PICK i, j : i = d.next_index /\ j = d.next_ir_index  OBVIOUS
<1>2. d \in Decoders /\ i \in Nat /\ j \in Nat /\ j \in 0..i
  BY <1>1 DEF Sound, Decoders
<1>3. PICK i1, j1 : i1 = i + 1 /\ j1 = j + 1  OBVIOUS
<1>4. i1 \in Nat /\ j1 \in Nat /\ j1 \in 0..i1 /\ i = i1 - 1 /\ j = j1 - 1
  BY <1>2, <1>3
<1>5. PICK o : o = [d EXCEPT !.next_index = i1, !.next_ir_index = j1, !.open = kind,
                             !.open_index = i, !.open_ir_index = j]
  OBVIOUS
<1>6. o = Open(d, kind)  BY <1>1, <1>3, <1>5 DEF Open
<1>7. o \in Decoders  BY <1>2, <1>4, <1>5, ZenonT(60) DEF Decoders
<1>8. /\ o.next_index = i1 /\ o.next_ir_index = j1 /\ o.open = kind
      /\ o.open_index = i /\ o.open_ir_index = j
      /\ o.skipped_open = d.skipped_open /\ o.skipped = d.skipped
      /\ o.thinking_signature_seen = d.thinking_signature_seen
      /\ o.flushed = d.flushed /\ o.stopped = d.stopped
      /\ o.delta_seen = d.delta_seen /\ o.stop = d.stop
  BY <1>2, <1>5 DEF Decoders
<1>9. ~d.skipped_open /\ d.skipped = {} /\ ~d.thinking_signature_seen /\ ~d.flushed
  BY DEF Sound, BetweenBlocks
<1>10. Sound(o)  BY <1>4, <1>7, <1>8, <1>9 DEF Sound
<1>. QED BY <1>6, <1>8, <1>9, <1>10

(* The buffer of a tool block and the flag of a thinking block. *)
LEMMA BufferSound ==
  ASSUME NEW d, Sound(d), NEW id \in Tokens, NEW name \in Text, NEW input \in Text,
         NEW parts \in Seq(Text)
  PROVE  Sound([d EXCEPT !.tool_id = id, !.tool_name = name, !.tool_input = input,
                         !.tool_parts = parts])
<1>1. PICK o : o = [d EXCEPT !.tool_id = id, !.tool_name = name, !.tool_input = input,
                             !.tool_parts = parts]
  OBVIOUS
<1>2. o \in Decoders  BY <1>1, ZenonT(60) DEF Sound, Decoders
<1>3. /\ o.open = d.open /\ o.next_index = d.next_index /\ o.next_ir_index = d.next_ir_index
      /\ o.open_index = d.open_index /\ o.open_ir_index = d.open_ir_index
      /\ o.skipped_open = d.skipped_open /\ o.skipped = d.skipped
      /\ o.thinking_signature_seen = d.thinking_signature_seen
      /\ o.flushed = d.flushed /\ o.stopped = d.stopped
      /\ o.delta_seen = d.delta_seen /\ o.stop = d.stop
  BY <1>1 DEF Sound, Decoders
<1>4. Sound(o)  BY <1>2, <1>3 DEF Sound
<1>. QED BY <1>1, <1>4

(* A signature is remembered for an open thinking block only. *)
LEMMA SignatureSound ==
  ASSUME NEW d, Sound(d), NEW seen \in BOOLEAN, seen => d.open = "thinking"
  PROVE  Sound([d EXCEPT !.thinking_signature_seen = seen])
<1>1. [d EXCEPT !.thinking_signature_seen = seen] \in Decoders
  BY DEF Sound, Decoders
<1>. QED BY <1>1 DEF Sound, Decoders

(* Closing the open block, with its buffer if it is a tool block. *)
LEMMA CloseSound ==
  ASSUME NEW d, Sound(d)
  PROVE  /\ Sound([d EXCEPT !.open = "none", !.thinking_signature_seen = FALSE])
         /\ d.open = "tool" =>
              Sound([d EXCEPT !.open = "none", !.tool_id = "", !.tool_name = <<>>,
                              !.tool_input = <<>>, !.tool_parts = <<>>])
<1>0. PICK empty, none : empty = <<>> /\ none = <<>>  OBVIOUS
<1>1. PICK o, b : /\ o = [d EXCEPT !.open = "none", !.thinking_signature_seen = FALSE]
                  /\ b = [d EXCEPT !.open = "none", !.tool_id = "", !.tool_name = empty,
                                   !.tool_input = empty, !.tool_parts = none]
  OBVIOUS
<1>2. o \in Decoders  BY <1>1 DEF Sound, Decoders
<1>3. empty \in Text /\ none \in Seq(Text)  BY <1>0 DEF Text
<1>4. b \in Decoders
  <2>1. d \in Decoders /\ "" \in Tokens  BY DEF Sound, Tokens
  <2>. QED BY <1>1, <1>3, <2>1 DEF Decoders
<1>5. Sound(o)  BY <1>1, <1>2, SMTT(60) DEF Sound, Decoders
<1>6. /\ b.open = "none" /\ b.next_index = d.next_index /\ b.next_ir_index = d.next_ir_index
      /\ b.skipped_open = d.skipped_open /\ b.skipped = d.skipped
      /\ b.thinking_signature_seen = d.thinking_signature_seen
      /\ b.flushed = d.flushed /\ b.stopped = d.stopped
      /\ b.delta_seen = d.delta_seen /\ b.stop = d.stop
  BY <1>1 DEF Sound, Decoders
<1>7. d.open = "tool" => Sound(b)  BY <1>4, <1>6 DEF Sound
<1>. QED BY <1>0, <1>1, <1>5, <1>7

(* A skipped block takes the native index only. *)
LEMMA SkipSound ==
  ASSUME NEW d, Sound(d), BetweenBlocks(d), ~d.stopped
  PROVE  Sound([d EXCEPT !.next_index = @ + 1, !.skipped_open = TRUE,
                         !.skipped = @ \union {d.next_index}])
<1>1. PICK i, k : i = d.next_index + 1 /\ k = d.skipped \union {d.next_index}
  OBVIOUS
<1>2. d \in Decoders /\ d.next_index \in Nat /\ i \in Nat /\ d.skipped = {} /\ i - 1 = d.next_index
  BY <1>1 DEF Sound, BetweenBlocks, Decoders
<1>3. k = {i - 1} /\ k \in SUBSET Nat  BY <1>1, <1>2
<1>4. PICK o : o = [d EXCEPT !.next_index = i, !.skipped_open = TRUE, !.skipped = k]
  OBVIOUS
<1>5. o \in Decoders  BY <1>2, <1>3, <1>4 DEF Decoders
<1>6. /\ o.next_index = i /\ o.skipped = k /\ o.skipped_open /\ o.open = d.open
      /\ o.next_ir_index = d.next_ir_index
      /\ o.thinking_signature_seen = d.thinking_signature_seen
      /\ o.flushed = d.flushed /\ o.stopped = d.stopped
      /\ o.delta_seen = d.delta_seen /\ o.stop = d.stop
  BY <1>2, <1>4 DEF Decoders
<1>7. o.next_ir_index \in 0..i  BY <1>2, <1>6, <1>1 DEF Sound, Decoders
<1>8. Sound(o)  BY <1>3, <1>5, <1>6, <1>7 DEF Sound, BetweenBlocks
<1>. QED BY <1>1, <1>4, <1>8

(* The stop of a skipped block leaves none skipped. *)
LEMMA UnskipSound ==
  ASSUME NEW d, Sound(d), NEW i \in d.skipped
  PROVE  Sound([d EXCEPT !.skipped = @ \ {i}, !.skipped_open = FALSE])
<1>1. PICK k : k = d.skipped \ {i}  OBVIOUS
<1>2. k = {}
  <2>1. d.skipped \subseteq {d.next_index - 1}  BY DEF Sound
  <2>. QED BY <1>1, <2>1
<1>3. PICK o : o = [d EXCEPT !.skipped = k, !.skipped_open = FALSE]  OBVIOUS
<1>4. o \in Decoders  BY <1>2, <1>3 DEF Sound, Decoders
<1>5. /\ o.open = d.open /\ o.next_index = d.next_index /\ o.next_ir_index = d.next_ir_index
      /\ o.open_index = d.open_index /\ o.open_ir_index = d.open_ir_index
      /\ ~o.skipped_open /\ o.skipped = {}
      /\ o.thinking_signature_seen = d.thinking_signature_seen
      /\ o.flushed = d.flushed /\ o.stopped = d.stopped
      /\ o.delta_seen = d.delta_seen /\ o.stop = d.stop
  BY <1>2, <1>3 DEF Sound, Decoders
<1>6. Sound(o)  BY <1>4, <1>5 DEF Sound
<1>. QED BY <1>1, <1>3, <1>6

(* A message_delta sets a stop reason of the IR. *)
LEMMA TerminalSound ==
  ASSUME NEW d, Sound(d), NEW e,
         e.delta # None, e.delta \in Option(Terminals), e.usage \in Option(Usages)
  PROVE  Sound(TakeTerminal(d, e))
<1>1. PICK stop, sequence, usage :
        /\ stop = StopOf(e.delta[1].stop_reason)
        /\ sequence = e.delta[1].stop_sequence
        /\ usage = (IF e.usage = None THEN d.usage ELSE e.usage[1])
  OBVIOUS
<1>2. e.delta[1] \in Terminals /\ (e.usage # None => e.usage[1] \in Usages)
  BY SomeTypes
<1>3. d \in Decoders /\ d.usage \in Usages  BY DEF Sound, Decoders
<1>4. stop \in StopReasons /\ sequence \in Text /\ usage \in Usages
  <2>1. e.delta[1].stop_sequence \in Text  BY <1>2 DEF Terminals
  <2>2. stop \in StopReasons  BY <1>1 DEF StopOf, KnownStops, StopReasons
  <2>. QED BY <1>1, <1>2, <1>3, <2>1, <2>2
<1>5. PICK o : o = [d EXCEPT !.stop = stop, !.stop_seq = sequence, !.usage = usage,
                             !.delta_seen = TRUE]
  OBVIOUS
<1>6. o \in Decoders  BY <1>3, <1>4, <1>5 DEF Decoders
<1>7. /\ o.next_index = d.next_index /\ o.next_ir_index = d.next_ir_index /\ o.open = d.open
      /\ o.open_index = d.open_index /\ o.open_ir_index = d.open_ir_index
      /\ o.skipped_open = d.skipped_open /\ o.skipped = d.skipped
      /\ o.thinking_signature_seen = d.thinking_signature_seen
      /\ o.flushed = d.flushed /\ o.stopped = d.stopped /\ o.delta_seen /\ o.stop = stop
  BY <1>3, <1>5 DEF Decoders
<1>8. Sound(o)  BY <1>4, <1>6, <1>7 DEF Sound, StopReasons
<1>. QED BY <1>1, <1>5, <1>8 DEF TakeTerminal

(* The message ends between blocks; flush confirms an ended one. *)
LEMMA EndSound ==
  ASSUME NEW d, Sound(d)
  PROVE  /\ BetweenBlocks(d) /\ d.delta_seen => Sound([d EXCEPT !.stopped = TRUE])
         /\ d.stopped => Sound([d EXCEPT !.flushed = TRUE])
<1>1. [d EXCEPT !.stopped = TRUE] \in Decoders /\ [d EXCEPT !.flushed = TRUE] \in Decoders
  BY DEF Sound, Decoders
<1>. QED BY <1>1, ZenonT(60) DEF Sound, Decoders, BetweenBlocks

-----------------------------------------------------------------------------
(* The events that are handed over *)

(* The sources of citations are texts. *)
LEMMA SourcesType == \A c : SourcesOf(c) \in Text
<1>1. PICK a : a = "anthropic"  OBVIOUS
<1>2. a \in Tokens  BY <1>1 DEF Tokens
<1>3. <<a>> \in Seq(Tokens) /\ <<>> \in Seq(Tokens)  BY <1>2
<1>. QED BY <1>1, <1>3 DEF SourcesOf, Text

(* A wrapped input has a middle. *)
LEMMA UnwrapText ==
  ASSUME NEW raw \in Text, IsWrapped(raw)
  PROVE  Unwrap(raw) \in Text
<1>1. Len(raw) \in Nat /\ Len(raw) >= 2 /\ raw \in Seq(Tokens)
  BY DEF Text, IsWrapped
<1>2. \A i \in 2..(Len(raw) - 1) : i \in 1..Len(raw)  BY <1>1
<1>3. SubSeq(raw, 2, Len(raw) - 1) \in Seq(Tokens)  BY <1>1, <1>2
<1>. QED BY <1>3 DEF Unwrap, Text

(* The full input of a tool block is a text. *)
LEMMA FullInputText ==
  ASSUME NEW d \in Decoders
  PROVE  FullInput(d) \in Text
<1>1. d.tool_input \in Text /\ d.tool_parts \in Seq(Seq(Tokens))
  BY DEF Decoders, Text
<1>2. Concat(d.tool_parts) \in Seq(Tokens)  BY <1>1, ConcatText
<1>. QED BY <1>1, <1>2 DEF FullInput, Text

(* A tool block is handed over as events. *)
LEMMA ToolUnitType ==
  ASSUME NEW d \in Decoders
  PROVE  ToolUnit(d) \in Seq(IrEvents)
<1>1. PICK i, input, parts :
        /\ i = d.open_ir_index /\ input = FullInput(d)
        /\ parts = IF d.tool_parts = <<>> THEN <<input>> ELSE d.tool_parts
  OBVIOUS
<1>2. i \in Nat /\ input \in Text /\ d.tool_id \in Tokens /\ d.tool_name \in Text
      /\ d.tool_parts \in Seq(Text)
  BY <1>1, FullInputText DEF Decoders
<1>3. parts \in Seq(Text)  BY <1>1, <1>2
<1>4. CASE IsWrapped(input)
  <2>1. PICK text : text = Unwrap(input)  OBVIOUS
  <2>2. text \in Text  BY <1>2, <1>4, <2>1, UnwrapText
  <2>3. CustomToolUseBlock(d.tool_id, d.tool_name, text) \in Blocks
    BY <1>2, <2>2, NoToken, BlockTypes
    DEF CustomToolUseBlock, StreamedKinds, ToolKinds
  <2>4. Delta("custom_tool_input_delta", text) \in Deltas
    BY <2>2 DEF Delta, Deltas, DeltaTypes
  <2>5. PICK a, b, c : /\ a = BlockStart(i, CustomToolUseBlock(d.tool_id, d.tool_name, text))
                       /\ b = BlockDelta(i, Delta("custom_tool_input_delta", text))
                       /\ c = BlockStop(i)
    OBVIOUS
  <2>6. a \in IrEvents /\ b \in IrEvents /\ c \in IrEvents
    BY <1>2, <2>3, <2>4, <2>5, EventTypes
  <2>7. ToolUnit(d) = <<a, b, c>>  BY <1>1, <1>4, <2>1, <2>5 DEF ToolUnit
  <2>. QED BY <2>6, <2>7
<1>5. CASE ~IsWrapped(input)
  <2>1. ToolUseBlock(d.tool_id, d.tool_name, input) \in Blocks
    BY <1>2, NoToken, BlockTypes DEF ToolUseBlock, StreamedKinds, ToolKinds
  <2>2. PICK a, c : /\ a = BlockStart(i, ToolUseBlock(d.tool_id, d.tool_name, input))
                    /\ c = BlockStop(i)
    OBVIOUS
  <2>3. a \in IrEvents /\ c \in IrEvents  BY <1>2, <2>1, <2>2, EventTypes
  <2>4. PICK bs : bs = [k \in 1..Len(parts) |-> BlockDelta(i, Delta("input_json_delta", parts[k]))]
    OBVIOUS
  <2>5. ASSUME NEW k \in 1..Len(parts)
        PROVE  BlockDelta(i, Delta("input_json_delta", parts[k])) \in IrEvents
    <3>1. parts[k] \in Text  BY <1>3
    <3>2. Delta("input_json_delta", parts[k]) \in Deltas
      BY <3>1 DEF Delta, Deltas, DeltaTypes
    <3>. QED BY <1>2, <3>2, EventTypes
  <2>6. bs \in Seq(IrEvents)  BY <1>3, <2>4, <2>5
  <2>7. ToolUnit(d) = <<a>> \o bs \o <<c>>
    BY <1>1, <1>5, <2>2, <2>4 DEF ToolUnit
  <2>. QED BY <2>3, <2>6, <2>7
<1>. QED BY <1>4, <1>5

-----------------------------------------------------------------------------
(* Steps *)

(* No handler breaks the type invariant: one case per handler. *)
LEMMA FeedTypeOK ==
  ASSUME TypeOK, NEW e \in Events, Feed(e)
  PROVE  TypeOK'
<1>. USE TypeOKIsSound
<1>1. Sound(dec) /\ dec \in Decoders /\ dec.next_ir_index \in Nat /\ dec.open_ir_index \in Nat
  BY DEF Sound, Decoders
<1>2. PICK none : none = <<>> /\ none \in Seq(IrEvents)
  <2>1. <<>> \in Seq(IrEvents)  OBVIOUS
  <2>. QED BY <2>1
<1>3. \A x \in IrEvents : <<x>> \in Seq(IrEvents)  OBVIOUS
<1>4. CASE FeedAfterEnd  BY <1>1, <1>4, RejectsSound DEF FeedAfterEnd
<1>5. CASE FeedMessageStart(e)
  <2>1. CASE Rejects(dec)  BY <1>1, <2>1, RejectsSound
  <2>2. CASE Yields(e, [dec EXCEPT !.started = TRUE], <<MessageStart>>)
    <3>1. PICK d : d = [dec EXCEPT !.started = TRUE]  OBVIOUS
    <3>2. d \in Decoders  BY <1>1, <3>1 DEF Decoders
    <3>3. Sound(d)  BY <1>1, <3>1, <3>2, ZenonT(60) DEF Sound, Decoders
    <3>. QED BY <1>3, <2>2, <3>1, <3>3, EventTypes, YieldsSound
  <2>. QED BY <1>5, <2>1, <2>2 DEF FeedMessageStart
<1>6. CASE FeedBlockStart(e)
  <2>1. CASE FeedBlockStartRejected(e)
    BY <1>1, <2>1, RejectsSound DEF FeedBlockStartRejected
  <2>2. CASE FeedSkippedStart(e)
    <3>1. /\ BetweenBlocks(dec) /\ ~dec.stopped /\ e.index = dec.next_index
      BY <2>2 DEF FeedSkippedStart, StartRejected, Receives, Ended
    <3>2. PICK d : d = [dec EXCEPT !.next_index = @ + 1, !.skipped_open = TRUE,
                                   !.skipped = @ \union {dec.next_index}]
      OBVIOUS
    <3>3. Sound(d)  BY <1>1, <3>1, <3>2, SkipSound
    <3>4. PICK l : l = <<"block", e.index>> /\ l \in LossKinds \X Int
      <4>1. <<"block", e.index>> \in LossKinds \X Int
        BY <1>1, <3>1 DEF LossKinds, Decoders
      <4>. QED BY <4>1
    <3>5. Sound(Lose(d, l))  BY <3>3, <3>4, LoseSound
    <3>6. Yields(e, Lose(d, l), none)
      BY <1>2, <2>2, <3>1, <3>2, <3>4 DEF FeedSkippedStart
    <3>. QED BY <1>2, <3>5, <3>6, YieldsSound
  <2>3. ASSUME NEW kind \in SupportedKinds, Starting(e, kind)
        PROVE  /\ BetweenBlocks(dec) /\ ~dec.stopped
               /\ e.block[1] \in NativeBlocks
               /\ e.index \in Int
    BY <2>3, WireTypes, SomeTypes DEF Starting, StartRejected, Receives, Ended
  <2>4. CASE FeedToolStart(e)
    <3>1. BetweenBlocks(dec) /\ ~dec.stopped /\ e.block[1] \in NativeBlocks
      BY <2>3, <2>4 DEF FeedToolStart, SupportedKinds
    <3>2. PICK b : b = e.block[1]  OBVIOUS
    <3>3. b.id \in Tokens /\ b.name \in Text /\ b.text \in Text
      BY <3>1, <3>2 DEF NativeBlocks
    <3>4. PICK parts : parts = <<>> /\ parts \in Seq(Text)
      <4>1. <<>> \in Seq(Text)  OBVIOUS
      <4>. QED BY <4>1
    <3>5. Sound(Open(dec, "tool"))  BY <1>1, <3>1, OpenSound
    <3>6. PICK d : d = [Open(dec, "tool") EXCEPT !.tool_id = b.id, !.tool_name = b.name,
                                                 !.tool_input = b.text, !.tool_parts = parts]
      OBVIOUS
    <3>7. Sound(d)  BY <3>3, <3>4, <3>5, <3>6, BufferSound
    <3>8. Yields(e, d, none)  BY <1>2, <2>4, <3>2, <3>4, <3>6 DEF FeedToolStart
    <3>. QED BY <1>2, <3>7, <3>8, YieldsSound
  <2>5. CASE FeedThinkingStart(e)
    <3>1. BetweenBlocks(dec) /\ ~dec.stopped /\ e.block[1] \in NativeBlocks
      BY <2>3, <2>5 DEF FeedThinkingStart, SupportedKinds
    <3>2. e.block[1].text \in Text /\ e.block[1].signature \in Text
      BY <3>1 DEF NativeBlocks
    <3>3. Sound(Open(dec, "thinking"))  BY <1>1, <3>1, OpenSound
    <3>4. PICK d : d = [Open(dec, "thinking") EXCEPT !.thinking_signature_seen = FALSE]
      OBVIOUS
    <3>5. Sound(d)  BY <3>3, <3>4, SignatureSound
    <3>6. [Block("thinking", "", <<>>, e.block[1].text) EXCEPT
             !.signature = e.block[1].signature] \in Blocks
      BY <3>2, NoToken, BlockTypes DEF StreamedKinds
    <3>7. PICK x : /\ x = BlockStart(dec.next_ir_index,
                           [Block("thinking", "", <<>>, e.block[1].text) EXCEPT
                              !.signature = e.block[1].signature])
                   /\ x \in IrEvents
      BY <1>1, <3>6, EventTypes
    <3>8. Yields(e, d, <<x>>)  BY <2>5, <3>4, <3>7 DEF FeedThinkingStart
    <3>. QED BY <1>3, <3>5, <3>7, <3>8, YieldsSound
  <2>6. CASE FeedRedactedStart(e)
    <3>1. BetweenBlocks(dec) /\ ~dec.stopped /\ e.block[1] \in NativeBlocks
      BY <2>3, <2>6 DEF FeedRedactedStart, SupportedKinds
    <3>2. e.block[1].text \in Text  BY <3>1 DEF NativeBlocks
    <3>3. Sound(Open(dec, "redacted"))  BY <1>1, <3>1, OpenSound
    <3>4. Block("redacted_thinking", "", <<>>, e.block[1].text) \in Blocks
      BY <3>2, NoToken, BlockTypes DEF StreamedKinds, AtomicKinds
    <3>5. PICK x : /\ x = BlockStart(dec.next_ir_index,
                           Block("redacted_thinking", "", <<>>, e.block[1].text))
                   /\ x \in IrEvents
      BY <1>1, <3>4, EventTypes
    <3>6. Yields(e, Open(dec, "redacted"), <<x>>)
      BY <2>6, <3>5 DEF FeedRedactedStart
    <3>. QED BY <1>3, <3>3, <3>5, <3>6, YieldsSound
  <2>7. CASE FeedTextStart(e)
    <3>1. BetweenBlocks(dec) /\ ~dec.stopped /\ e.block[1] \in NativeBlocks /\ e.index \in Int
      BY <2>3, <2>7 DEF FeedTextStart, SupportedKinds
    <3>2. e.block[1].text \in Text  BY <3>1 DEF NativeBlocks
    <3>3. Sound(Open(dec, "text"))  BY <1>1, <3>1, OpenSound
    <3>4. PICK l : l = <<"citation", e.index>> /\ l \in LossKinds \X Int
      <4>1. <<"citation", e.index>> \in LossKinds \X Int  BY <3>1 DEF LossKinds
      <4>. QED BY <4>1
    <3>5. Sound(Lose(Open(dec, "text"), l))  BY <3>3, <3>4, LoseSound
    <3>6. PICK d : d = IF e.block[1].citations = "unknown" THEN Lose(Open(dec, "text"), l)
                       ELSE Open(dec, "text")
      OBVIOUS
    <3>7. Sound(d)  BY <3>3, <3>5, <3>6
    <3>8. [Block("text", "", <<>>, e.block[1].text) EXCEPT
             !.citations = SourcesOf(e.block[1].citations)] \in Blocks
      BY <3>2, NoToken, SourcesType, BlockTypes DEF StreamedKinds
    <3>9. PICK x : /\ x = BlockStart(dec.next_ir_index,
                           [Block("text", "", <<>>, e.block[1].text) EXCEPT
                              !.citations = SourcesOf(e.block[1].citations)])
                   /\ x \in IrEvents
      BY <1>1, <3>8, EventTypes
    <3>10. Yields(e, d, <<x>>)  BY <2>7, <3>4, <3>6, <3>9 DEF FeedTextStart
    <3>. QED BY <1>3, <3>7, <3>9, <3>10, YieldsSound
  <2>8. CASE FeedTextStartMalformed(e)
    <3>1. BetweenBlocks(dec) /\ ~dec.stopped
      BY <2>3, <2>8 DEF FeedTextStartMalformed, SupportedKinds
    <3>2. Sound(Open(dec, "text"))  BY <1>1, <3>1, OpenSound
    <3>. QED BY <2>8, <3>2, RejectsSound DEF FeedTextStartMalformed
  <2>. QED BY <1>6, <2>1, <2>2, <2>4, <2>5, <2>6, <2>7, <2>8 DEF FeedBlockStart
<1>7. CASE FeedBlockDelta(e)
  <2>1. CASE FeedDeltaRejected(e)
    BY <1>1, <2>1, RejectsSound DEF FeedDeltaRejected
  <2>2. CASE FeedSkippedDelta(e)
    BY <1>1, <1>2, <2>2, YieldsSound DEF FeedSkippedDelta
  <2>3. ASSUME Continuing(e)
        PROVE  /\ e.delta[1] \in NativeDeltas /\ e.index \in Int
               /\ TextGiven(e.delta[1].text) \in Text
               /\ e.delta[1].type = "signature_delta" => dec.open = "thinking"
    <3>1. /\ e.kind = "content_block_delta" /\ e.delta # None
          /\ ~DeltaRejected(dec, e.delta[1])
      BY <2>3 DEF Continuing, DeltaAccepted, Receives
    <3>2. e.delta[1] \in NativeDeltas /\ e.index \in Int
      BY <3>1, WireTypes, SomeTypes
    <3>3. e.delta[1].text \in Option(Text)  BY <3>2 DEF NativeDeltas
    <3>4. TextGiven(e.delta[1].text) \in Text
      BY <3>3, SomeTypes, NoToken DEF TextGiven
    <3>5. e.delta[1].type = "signature_delta" => dec.open = "thinking"
      BY <1>1, <3>1 DEF DeltaRejected, ThinkingDeltas, Decoders
    <3>. QED BY <3>2, <3>4, <3>5
  <2>4. CASE FeedInputJsonDelta(e)
    <3>1. PICK text : text = TextGiven(e.delta[1].text) /\ text \in Text
      BY <2>3, <2>4 DEF FeedInputJsonDelta
    <3>2. dec.tool_parts \in Seq(Text)  BY <1>1 DEF Decoders
    <3>3. PICK parts : parts = Append(dec.tool_parts, text) /\ parts \in Seq(Text)
      <4>1. Append(dec.tool_parts, text) \in Seq(Text)  BY <3>1, <3>2
      <4>. QED BY <4>1
    <3>4. PICK d : d = [dec EXCEPT !.tool_parts = parts]  OBVIOUS
    <3>5. d \in Decoders  BY <1>1, <3>3, <3>4 DEF Decoders
    <3>6. Sound(d)  BY <1>1, <3>4, <3>5, ZenonT(60) DEF Sound, Decoders
    <3>7. Yields(e, d, none)
      BY <1>2, <2>4, <3>1, <3>3, <3>4 DEF FeedInputJsonDelta
    <3>. QED BY <1>2, <3>6, <3>7, YieldsSound
  <2>5. CASE FeedPassedDelta(e)
    <3>1. /\ TextGiven(e.delta[1].text) \in Text
          /\ e.delta[1].type \in DeltaTypes
          /\ e.delta[1].type = "signature_delta" => dec.open = "thinking"
      BY <2>3, <2>5 DEF FeedPassedDelta, ThinkingDeltas, DeltaTypes
    <3>2. PICK x : /\ x = BlockDelta(dec.open_ir_index,
                                     Delta(e.delta[1].type, TextGiven(e.delta[1].text)))
                   /\ x \in IrEvents
      <4>1. Delta(e.delta[1].type, TextGiven(e.delta[1].text)) \in Deltas
        BY <3>1 DEF Delta, Deltas
      <4>. QED BY <1>1, <4>1, EventTypes
    <3>3. PICK seen : /\ seen = (dec.thinking_signature_seen \/ e.delta[1].type = "signature_delta")
                      /\ seen \in BOOLEAN
      OBVIOUS
    <3>4. seen => dec.open = "thinking"  BY <1>1, <3>1, <3>3 DEF Sound
    <3>5. PICK d : d = [dec EXCEPT !.thinking_signature_seen = seen]  OBVIOUS
    <3>6. Sound(d)  BY <1>1, <3>3, <3>4, <3>5, SignatureSound
    <3>7. Yields(e, d, <<x>>)  BY <2>5, <3>2, <3>3, <3>5 DEF FeedPassedDelta
    <3>. QED BY <1>3, <3>2, <3>6, <3>7, YieldsSound
  <2>6. CASE FeedCitation(e)
    <3>1. PICK x : /\ x = BlockDelta(dec.open_ir_index,
                                     Delta("citation_delta", SourcesOf("valid")))
                   /\ x \in IrEvents
      <4>1. Delta("citation_delta", SourcesOf("valid")) \in Deltas
        BY SourcesType DEF Delta, Deltas, DeltaTypes
      <4>. QED BY <1>1, <4>1, EventTypes
    <3>2. PICK l : l = <<"citation", e.index>> /\ l \in LossKinds \X Int
      <4>1. <<"citation", e.index>> \in LossKinds \X Int
        BY <2>3, <2>6 DEF FeedCitation, LossKinds
      <4>. QED BY <4>1
    <3>3. Sound(Lose(dec, l))  BY <1>1, <3>2, LoseSound
    <3>4. Yields(e, dec, <<x>>) \/ Yields(e, Lose(dec, l), none)
      BY <1>2, <2>6, <3>1, <3>2 DEF FeedCitation
    <3>. QED BY <1>1, <1>2, <1>3, <3>1, <3>3, <3>4, YieldsSound
  <2>7. CASE FeedUnknownDelta(e)
    <3>1. PICK l : l = <<"delta", e.index>> /\ l \in LossKinds \X Int
      <4>1. <<"delta", e.index>> \in LossKinds \X Int
        BY <2>3, <2>7 DEF FeedUnknownDelta, LossKinds
      <4>. QED BY <4>1
    <3>2. Sound(Lose(dec, l))  BY <1>1, <3>1, LoseSound
    <3>3. Yields(e, Lose(dec, l), none)
      BY <1>2, <2>7, <3>1 DEF FeedUnknownDelta
    <3>. QED BY <1>2, <3>2, <3>3, YieldsSound
  <2>. QED BY <1>7, <2>1, <2>2, <2>4, <2>5, <2>6, <2>7 DEF FeedBlockDelta
<1>8. CASE FeedBlockStop(e)
  <2>1. CASE FeedStopRejected(e)
    BY <1>1, <2>1, RejectsSound DEF FeedStopRejected
  <2>2. CASE FeedSkippedStop(e)
    <3>1. PICK d : d = [dec EXCEPT !.skipped = @ \ {e.index}, !.skipped_open = FALSE]
      OBVIOUS
    <3>2. Sound(d)  BY <1>1, <2>2, <3>1, UnskipSound DEF FeedSkippedStop
    <3>3. Yields(e, d, none)  BY <1>2, <2>2, <3>1 DEF FeedSkippedStop
    <3>. QED BY <1>2, <3>2, <3>3, YieldsSound
  <2>3. CASE FeedToolStop(e)
    <3>1. PICK d : d = [dec EXCEPT !.open = "none", !.tool_id = "", !.tool_name = <<>>,
                                   !.tool_input = <<>>, !.tool_parts = <<>>]
      OBVIOUS
    <3>2. Sound(d)  BY <1>1, <2>3, <3>1, CloseSound DEF FeedToolStop
    <3>3. Yields(e, d, ToolUnit(dec))  BY <2>3, <3>1 DEF FeedToolStop
    <3>. QED BY <1>1, <3>2, <3>3, ToolUnitType, YieldsSound
  <2>4. CASE FeedPlainStop(e)
    <3>1. PICK d : d = [dec EXCEPT !.open = "none", !.thinking_signature_seen = FALSE]
      OBVIOUS
    <3>2. Sound(d)  BY <1>1, <3>1, CloseSound
    <3>3. PICK x : x = BlockStop(dec.open_ir_index) /\ x \in IrEvents
      BY <1>1, EventTypes
    <3>4. Yields(e, d, <<x>>)  BY <2>4, <3>1, <3>3 DEF FeedPlainStop
    <3>. QED BY <1>3, <3>2, <3>3, <3>4, YieldsSound
  <2>. QED BY <1>8, <2>1, <2>2, <2>3, <2>4 DEF FeedBlockStop
<1>9. CASE FeedMessageDelta(e)
  <2>1. CASE Rejects(dec)  BY <1>1, <2>1, RejectsSound
  <2>2. CASE ~Rejects(dec)
    <3>1. /\ TerminalAccepted(dec, e) /\ e.kind = "message_delta"
          /\ Yields(e, IF StopOf(e.delta[1].stop_reason) = "other"
                       THEN Lose(TakeTerminal(dec, e), <<"stop_reason", -1>>)
                       ELSE TakeTerminal(dec, e), <<>>)
      BY <1>9, <2>2 DEF FeedMessageDelta, Receives
    <3>2. e.delta # None /\ e.delta \in Option(Terminals) /\ e.usage \in Option(Usages)
      BY <3>1, WireTypes DEF TerminalAccepted
    <3>3. Sound(TakeTerminal(dec, e))  BY <1>1, <3>2, TerminalSound
    <3>4. PICK l : l = <<"stop_reason", -1>> /\ l \in LossKinds \X Int
      <4>1. <<"stop_reason", -1>> \in LossKinds \X Int  BY DEF LossKinds
      <4>. QED BY <4>1
    <3>5. Sound(Lose(TakeTerminal(dec, e), l))  BY <3>3, <3>4, LoseSound
    <3>6. Yields(e, Lose(TakeTerminal(dec, e), l), none) \/ Yields(e, TakeTerminal(dec, e), none)
      BY <1>2, <3>1, <3>4
    <3>. QED BY <1>2, <3>3, <3>5, <3>6, YieldsSound
  <2>. QED BY <2>1, <2>2
<1>10. CASE FeedMessageStop(e)
  <2>1. CASE Rejects(dec)  BY <1>1, <2>1, RejectsSound
  <2>2. CASE ~Rejects(dec)
    <3>1. PICK sequence : sequence = IF dec.stop = "stop_sequence" THEN dec.stop_seq ELSE <<>>
      OBVIOUS
    <3>2. PICK x, y, d : /\ x = MessageDelta(dec.stop, sequence, dec.usage)
                         /\ y = MessageDone
                         /\ d = [dec EXCEPT !.stopped = TRUE]
      OBVIOUS
    <3>3. BetweenBlocks(dec) /\ dec.delta_seen /\ Yields(e, d, <<x, y>>)
      BY <1>10, <2>2, <3>1, <3>2 DEF FeedMessageStop
    <3>4. Sound(d)  BY <1>1, <3>2, <3>3, EndSound
    <3>5. dec.stop \in StopReasons /\ sequence \in Text /\ dec.usage \in Usages
      BY <1>1, <3>1, <3>3, NoToken DEF Sound, Decoders
    <3>6. x \in IrEvents /\ y \in IrEvents  BY <3>2, <3>5, EventTypes
    <3>7. <<x, y>> \in Seq(IrEvents)  BY <3>6
    <3>. QED BY <3>3, <3>4, <3>7, YieldsSound
  <2>. QED BY <2>1, <2>2
<1>11. CASE FeedUnknownEvent(e)
  <2>1. PICK l : l = <<"event", -1>> /\ l \in LossKinds \X Int
    <3>1. <<"event", -1>> \in LossKinds \X Int  BY DEF LossKinds
    <3>. QED BY <3>1
  <2>2. Sound(Lose(dec, l))  BY <1>1, <2>1, LoseSound
  <2>3. Yields(e, Lose(dec, l), none)  BY <1>2, <1>11, <2>1 DEF FeedUnknownEvent
  <2>. QED BY <1>2, <2>2, <2>3, YieldsSound
<1>. QED BY <1>4, <1>5, <1>6, <1>7, <1>8, <1>9, <1>10, <1>11 DEF Feed

(* flush keeps the type invariant. *)
LEMMA FlushTypeOK ==
  ASSUME TypeOK, Flush
  PROVE  TypeOK'
<1>1. CASE FlushRefused  BY <1>1 DEF FlushRefused, TypeOK
<1>2. CASE FlushConfirmed
  <2>1. Sound([dec EXCEPT !.flushed = TRUE])
    BY <1>2, TypeOKIsSound, EndSound DEF FlushConfirmed
  <2>. QED BY <1>2, <2>1 DEF FlushConfirmed, Sound, TypeOK
<1>. QED BY <1>1, <1>2 DEF Flush

(* The type invariant holds initially. *)
LEMMA InitTypeOK ==
  ASSUME Init
  PROVE  TypeOK
<1>1. PICK empty, none, nothing, text : /\ empty = {} /\ none = <<>> /\ nothing = <<>>
                                       /\ text = <<>>
  OBVIOUS
<1>2. /\ empty \in SUBSET Nat /\ none \in Seq(LossKinds \X Int) /\ nothing \in Seq(IrEvents)
      /\ text \in Text /\ none \in Seq(Text) /\ "" \in Tokens
  <2>1. none \in Seq(LossKinds \X Int) /\ nothing \in Seq(IrEvents) /\ none \in Seq(Text)
    BY <1>1
  <2>2. text \in Text /\ "" \in Tokens  BY <1>1, NoToken
  <2>. QED BY <1>1, <2>1, <2>2
<1>3. NoUsage \in Usages  BY DEF NoUsage, Usage, Usages
<1>4. PICK usage : usage = NoUsage /\ usage \in Usages  BY <1>3
<1>5. dec = [started |-> FALSE, next_index |-> 0, next_ir_index |-> 0, open |-> "none",
             open_index |-> 0, open_ir_index |-> 0, thinking_signature_seen |-> FALSE,
             tool_id |-> "", tool_name |-> text, tool_input |-> text, tool_parts |-> none,
             skipped_open |-> FALSE, skipped |-> empty, delta_seen |-> FALSE,
             stop |-> "none", stop_seq |-> text, usage |-> usage, stopped |-> FALSE,
             flushed |-> FALSE, losses |-> none, events |-> nothing]
  BY <1>1, <1>4 DEF Init, NewDecoder
<1>6. dec \in Decoders  BY <1>2, <1>4, <1>5 DEF Decoders
<1>7. /\ dec.next_ir_index = 0 /\ dec.next_index = 0 /\ ~dec.skipped_open /\ dec.skipped = {}
      /\ dec.open = "none" /\ ~dec.thinking_signature_seen /\ ~dec.flushed /\ ~dec.stopped
      /\ ~dec.delta_seen /\ dec.stop = "none"
  BY <1>1, <1>5
<1>. QED
  <2>1. Sound(dec)  BY <1>6, <1>7 DEF Sound
  <2>2. failed \in BOOLEAN  BY DEF Init
  <2>. QED BY <2>1, <2>2, TypeOKIsSound

(* For every set of provider events and however the calls are ordered, the
   decoder of feed and flush keeps its books in order: the IR index never
   runs ahead of the native one, at most one block is open and it is the
   last one started, a skipped block excludes an open one, a signature is
   remembered only while its thinking block is open, and the stream ends
   between blocks and with a stop reason; also after an error. *)
THEOREM DecoderTypeCorrect == Spec => []TypeOK
<1>1. Init => TypeOK  BY InitTypeOK
<1>2. TypeOK /\ [Next]_vars => TypeOK'
  <2>1. SUFFICES ASSUME TypeOK, [Next]_vars
                 PROVE  TypeOK'
    OBVIOUS
  <2>2. ASSUME NEW e \in Events, Feed(e)
        PROVE  TypeOK'
    BY <2>1, <2>2, FeedTypeOK
  <2>3. CASE Flush  BY <2>1, <2>3, FlushTypeOK
  <2>4. CASE UNCHANGED vars  BY <2>1, <2>4 DEF vars, TypeOK
  <2>. QED BY <2>1, <2>2, <2>3, <2>4 DEF Next
<1>. QED BY <1>1, <1>2, PTL DEF Spec

-----------------------------------------------------------------------------
(* The contract *)

(* The family of deltas that the open block takes. *)
FamilyOf(open) ==
  CASE open = "text" -> "text" [] open = "thinking" -> "thinking" [] OTHER -> "atomic"

(* What the decoder remembers of the last event it handed over.  A tool
   block is open in the decoder only: the stream is still before it. *)
Placed(d) ==
  /\ ~d.started => d.events = <<>> /\ d.open = "none" /\ d.next_ir_index = 0
  /\ d.started /\ ~d.stopped /\ d.open = "none" => AtBoundary(d.events, d.next_ir_index)
  /\ d.open = "tool" => AtBoundary(d.events, d.open_ir_index) /\ Identified(d.tool_id, d.tool_name)
  /\ d.open \in {"text", "thinking", "redacted"} =>
       InsideBlock(d.events, d.open_ir_index, FamilyOf(d.open), d.thinking_signature_seen)

(* The inductive invariant: until a call fails, what was handed over is
   legal, ends where the decoder thinks it ends, and is complete exactly
   when the decoder has stopped. *)
ContractInv ==
  ~failed =>
    /\ Kept(dec.events)
    /\ Placed(dec)
    /\ dec.stopped => Complete(dec.events)
    /\ ~dec.stopped => ~Terminated(dec.events)

(* The contract of IrProducer speaks of the grammar of IrStream. *)
LEMMA PromisedMeans ==
  ASSUME NEW s
  PROVE  /\ Promised!Promise(s) <=> Promise(s)
         /\ Promised!Terminated(s) <=> Terminated(s)
<1>1. \A e : /\ Promised!IsStart(e) <=> IsStart(e)
             /\ Promised!IsDelta(e) <=> IsDelta(e)
             /\ Promised!IsStop(e) <=> IsStop(e)
  BY DEF Promised!IsStart, Promised!IsDelta, Promised!IsStop, IsStart, IsDelta, IsStop
<1>2. \A e, f : Promised!Follows(e, f) <=> Follows(e, f)
  <2>1. \A d : Promised!DeltaFamily(d) = DeltaFamily(d)
    BY DEF Promised!DeltaFamily, DeltaFamily
  <2>2. \A b : Promised!BlockFamily(b) = BlockFamily(b)
    BY DEF Promised!BlockFamily, BlockFamily
  <2>3. \A f, i, fam : Promised!Continues(f, i, fam) <=> Continues(f, i, fam)
    BY <1>1, <2>1 DEF Promised!Continues, Continues
  <2>4. \A f, i : Promised!OpensAt(f, i) <=> OpensAt(f, i)
    BY <1>1 DEF Promised!OpensAt, OpensAt
  <2>. QED BY <1>1, <2>1, <2>2, <2>3, <2>4 DEF Promised!Follows, Follows
<1>3. \A e : Promised!EventOK(e) <=> EventOK(e)
  BY <1>1 DEF Promised!EventOK, EventOK, Promised!StreamedKinds, StreamedKinds,
              Promised!ApplyPatchKinds, ApplyPatchKinds, Promised!AtomicKinds, AtomicKinds,
              Promised!ToolKinds, ToolKinds
<1>4. Promised!WellFormed(s) <=> WellFormed(s)
  BY <1>2, <1>3 DEF Promised!WellFormed, WellFormed, Promised!InOrder, InOrder
<1>5. \A k, m : Promised!IsToolUnit(s, k, m) <=> IsToolUnit(s, k, m)
  BY <1>1 DEF Promised!IsToolUnit, IsToolUnit, Promised!ToolKinds, ToolKinds
<1>6. \A input, fs, lax : Promised!InputExact(input, fs, lax) <=> InputExact(input, fs, lax)
  <2>1. \A ss : Promised!Concat(ss) = Concat(ss)
    BY DEF Promised!Concat, Concat, Promised!FlattenSeq, FlattenSeq
  <2>. QED BY <2>1 DEF Promised!InputExact, InputExact
<1>7. Promised!ToolInputsExact(s, FALSE) <=> ToolInputsExact(s, FALSE)
  <2>1. \A k, m : Promised!Fragments(s, k, m) = Fragments(s, k, m)
    BY DEF Promised!Fragments, Fragments
  <2>. QED BY <1>5, <1>6, <2>1 DEF Promised!ToolInputsExact, ToolInputsExact
<1>8. Promised!ToolBlocksWhole(s) <=> ToolBlocksWhole(s)
  BY <1>1, <1>5 DEF Promised!ToolBlocksWhole, ToolBlocksWhole, Promised!ToolKinds, ToolKinds
<1>9. Promised!Terminated(s) <=> Terminated(s)
  BY DEF Promised!Terminated, Terminated
<1>. QED BY <1>4, <1>7, <1>8, <1>9 DEF Promised!Promise, Promise, Promised!Complete, Complete

(* A step of the contract, and the invariant after it. *)
Honest == ContractInv' /\ [Promised!Next]_<<dec.events, failed>>

(* The fields of the decoder after a successful call. *)
LEMMA YieldsFields ==
  ASSUME TypeOK', NEW e, NEW d, NEW u, Yields(e, d, u)
  PROVE  /\ dec'.events = d.events \o u /\ failed' = failed
         /\ dec'.started = d.started /\ dec'.stopped = d.stopped /\ dec'.open = d.open
         /\ dec'.next_ir_index = d.next_ir_index /\ dec'.open_ir_index = d.open_ir_index
         /\ dec'.thinking_signature_seen = d.thinking_signature_seen
         /\ dec'.tool_id = d.tool_id /\ dec'.tool_name = d.tool_name
BY DEF Yields, TypeOK, Decoders

(* A call that fails hands nothing over. *)
LEMMA RejectsHonest ==
  ASSUME NEW d, d.events = dec.events, Rejects(d)
  PROVE  Honest
BY DEF Rejects, Honest, ContractInv, Promised!Next, Promised!Fail

(* A call that hands over a batch within the message. *)
LEMMA YieldsHonest ==
  ASSUME TypeOK, TypeOK', ContractInv, ~failed, ~dec.stopped,
         NEW e, NEW d, NEW u \in Seq(IrEvents), Yields(e, d, u),
         d.events = dec.events, ~d.stopped,
         Kept(dec.events \o u), ~Terminated(u), Placed(dec')
  PROVE  Honest
<1>1. dec.events \in Seq(IrEvents) /\ ~Terminated(dec.events)
  BY DEF TypeOK, Decoders, ContractInv
<1>2. dec'.events = dec.events \o u /\ failed' = failed /\ ~dec'.stopped
  BY YieldsFields, ZenonT(60)
<1>3. ~Terminated(dec'.events)  BY <1>1, <1>2, TerminatedBatch
<1>4. ContractInv'  BY <1>2, <1>3 DEF ContractInv
<1>5. IsPrefix(dec.events, dec'.events)  BY <1>1, <1>2, BatchPrefix
<1>6. Promise(dec'.events)  BY <1>2, <1>3 DEF Promise, Kept
<1>7. Promised!IsPrefix(dec.events, dec'.events)
  BY <1>5 DEF IsPrefix, Promised!IsPrefix
<1>8. Promised!Deliver
  BY <1>1, <1>2, <1>6, <1>7, PromisedMeans DEF Promised!Deliver
<1>. QED BY <1>4, <1>8 DEF Honest, Promised!Next

(* A call that hands over nothing and moves no block. *)
LEMMA QuietHonest ==
  ASSUME TypeOK, TypeOK', ContractInv, ~failed, ~dec.stopped,
         NEW e, NEW d, Yields(e, d, <<>>),
         d.events = dec.events, d.started = dec.started, d.stopped = dec.stopped,
         d.open = dec.open, d.next_ir_index = dec.next_ir_index,
         d.open_ir_index = dec.open_ir_index,
         d.thinking_signature_seen = dec.thinking_signature_seen,
         d.tool_id = dec.tool_id, d.tool_name = dec.tool_name
  PROVE  Honest
<1>1. PICK u : u = <<>>  OBVIOUS
<1>2. u \in Seq(IrEvents) /\ ~Terminated(u)  BY <1>1 DEF Terminated
<1>3. dec.events \in Seq(IrEvents) /\ dec.events \o u = dec.events
  BY <1>1 DEF TypeOK, Decoders
<1>4. Placed(dec')
  <2>1. Yields(e, d, u)  BY <1>1
  <2>2. /\ dec'.events = dec.events /\ dec'.started = dec.started
        /\ dec'.stopped = dec.stopped /\ dec'.open = dec.open
        /\ dec'.next_ir_index = dec.next_ir_index
        /\ dec'.open_ir_index = dec.open_ir_index
        /\ dec'.thinking_signature_seen = dec.thinking_signature_seen
        /\ dec'.tool_id = dec.tool_id /\ dec'.tool_name = dec.tool_name
    BY <1>3, <2>1, YieldsFields
  <2>3. Placed(dec)  BY DEF ContractInv
  <2>. QED BY <2>2, <2>3 DEF Placed
<1>. QED BY <1>1, <1>2, <1>3, <1>4, YieldsHonest DEF ContractInv

(* The events of a buffered block are one whole tool block, with the input
   that its fragments spell. *)
LEMMA ToolUnitLegal ==
  ASSUME NEW d \in Decoders, Identified(d.tool_id, d.tool_name)
  PROVE  WholeBatch(ToolUnit(d), d.open_ir_index)
<1>1. PICK i, input, parts :
        /\ i = d.open_ir_index /\ input = FullInput(d)
        /\ parts = IF d.tool_parts = <<>> THEN <<input>> ELSE d.tool_parts
  OBVIOUS
<1>2. i \in Nat /\ input \in Text /\ d.tool_id \in Tokens /\ d.tool_name \in Text
      /\ d.tool_parts \in Seq(Text)
  BY <1>1, FullInputText DEF Decoders
<1>3. CASE IsWrapped(input)
  <2>1. PICK text, b : /\ text = Unwrap(input)
                       /\ b = CustomToolUseBlock(d.tool_id, d.tool_name, text)
    OBVIOUS
  <2>2. text \in Text  BY <1>2, <1>3, <2>1, UnwrapText
  <2>3. b \in Blocks
    BY <1>2, <2>1, <2>2, BlockTypes DEF CustomToolUseBlock, StreamedKinds, ToolKinds
  <2>4. /\ b.kind = "custom_tool_use" /\ b.text = text
        /\ b.id = d.tool_id /\ b.name = d.tool_name
    BY <2>1, Zenon DEF CustomToolUseBlock, Block
  <2>5. ToolUnit(d) = BlockUnit(i, b, DeltasOf("custom_tool_input_delta", <<text>>))
    <3>1. ToolUnit(d) = <<BlockStart(i, b), BlockDelta(i, Delta("custom_tool_input_delta", text)),
                          BlockStop(i)>>
      BY <1>1, <1>3, <2>1 DEF ToolUnit
    <3>. QED BY <2>2, <3>1, UnitOfText
  <2>6. PICK texts : texts = <<text>>  OBVIOUS
  <2>7. texts \in Seq(Text) /\ texts # <<>> /\ Concat(texts) = b.text
    BY <2>2, <2>4, <2>6, ConcatSingle DEF Text
  <2>8. \A t \in Text : DeltaFamily(Delta("custom_tool_input_delta", t)) = BlockFamily(b)
    BY <2>4 DEF DeltaFamily, BlockFamily, Delta
  <2>9. "custom_tool_input_delta" \in DeltaTypes /\ b.kind \in ToolKinds
    BY <2>4 DEF DeltaTypes, ToolKinds
  <2>10. EventOK(BlockStart(i, b))
    <3>1. PICK x : x = BlockStart(i, b)  OBVIOUS
    <3>2. IsStart(x) /\ x.block = b  BY <3>1 DEF BlockStart, IsStart
    <3>. QED BY <2>4, <3>1, <3>2, StartOK
  <2>11. WholeBatch(BlockUnit(i, b, DeltasOf("custom_tool_input_delta", texts)), i)
    BY <1>2, <2>3, <2>7, <2>8, <2>9, <2>10, TextsUnit
  <2>. QED BY <1>1, <2>5, <2>6, <2>11
<1>4. CASE ~IsWrapped(input)
  <2>1. PICK b : b = ToolUseBlock(d.tool_id, d.tool_name, input)  OBVIOUS
  <2>2. b \in Blocks
    BY <1>2, <2>1, BlockTypes DEF ToolUseBlock, StreamedKinds, ToolKinds
  <2>3. b.kind = "tool_use" /\ b.text = input
    BY <2>1, Zenon DEF ToolUseBlock, Block
  <2>4. parts \in Seq(Text) /\ parts # <<>>  BY <1>1, <1>2
  <2>5. Concat(parts) = input
    <3>1. CASE d.tool_parts = <<>>  BY <1>1, <1>2, <3>1, ConcatSingle DEF Text
    <3>2. CASE d.tool_parts # <<>>  BY <1>1, <3>2 DEF FullInput
    <3>. QED BY <3>1, <3>2
  <2>6. \A t \in Text : DeltaFamily(Delta("input_json_delta", t)) = BlockFamily(b)
    BY <2>3 DEF DeltaFamily, BlockFamily, Delta
  <2>7. ToolUnit(d) = BlockUnit(i, b, DeltasOf("input_json_delta", parts))
    <3>1. ToolUnit(d) = <<BlockStart(i, b)>>
            \o [k \in 1..Len(parts) |-> BlockDelta(i, Delta("input_json_delta", parts[k]))]
            \o <<BlockStop(i)>>
      BY <1>1, <1>4, <2>1 DEF ToolUnit
    <3>. QED BY <2>4, <3>1, UnitOfTexts
  <2>8. "input_json_delta" \in DeltaTypes /\ b.kind \in ToolKinds
    BY <2>3 DEF DeltaTypes, ToolKinds
  <2>9. EventOK(BlockStart(i, b))
    <3>1. PICK x : x = BlockStart(i, b)  OBVIOUS
    <3>2. IsStart(x) /\ x.block = b  BY <3>1 DEF BlockStart, IsStart
    <3>. QED
      BY <2>3, <3>1, <3>2, StartOK
      DEF StreamedKinds, ToolKinds, AtomicKinds, ApplyPatchKinds
  <2>10. WholeBatch(BlockUnit(i, b, DeltasOf("input_json_delta", parts)), i)
    BY <1>2, <2>2, <2>3, <2>4, <2>5, <2>6, <2>8, <2>9, TextsUnit
  <2>. QED BY <1>1, <2>7, <2>10
<1>. QED BY <1>3, <1>4
(* What opening a block changes. *)
LEMMA OpenFields ==
  ASSUME NEW d \in Decoders, NEW kind \in {"text", "thinking", "redacted", "tool"}
  PROVE  /\ Open(d, kind) \in Decoders
         /\ Open(d, kind).open = kind /\ Open(d, kind).open_ir_index = d.next_ir_index
         /\ Open(d, kind).started = d.started /\ Open(d, kind).stopped = d.stopped
         /\ Open(d, kind).events = d.events
         /\ Open(d, kind).thinking_signature_seen = d.thinking_signature_seen
<1>1. PICK i, j : i = d.next_index /\ j = d.next_ir_index  OBVIOUS
<1>2. PICK i1, j1 : i1 = i + 1 /\ j1 = j + 1  OBVIOUS
<1>3. i \in Nat /\ j \in Nat /\ i1 \in Nat /\ j1 \in Nat
  BY <1>1, <1>2 DEF Decoders
<1>4. PICK o : o = [d EXCEPT !.next_index = i1, !.next_ir_index = j1, !.open = kind,
                             !.open_index = i, !.open_ir_index = j]
  OBVIOUS
<1>5. o = Open(d, kind)  BY <1>1, <1>2, <1>4 DEF Open
<1>6. o \in Decoders  BY <1>3, <1>4 DEF Decoders
<1>7. /\ o.open = kind /\ o.open_ir_index = j
      /\ o.started = d.started /\ o.stopped = d.stopped /\ o.events = d.events
      /\ o.thinking_signature_seen = d.thinking_signature_seen
  BY <1>4 DEF Decoders
<1>. QED BY <1>1, <1>5, <1>6, <1>7

(* A call that hands over one event. *)
LEMMA SingleHonest ==
  ASSUME TypeOK, TypeOK', ContractInv, ~failed, ~dec.stopped,
         NEW e, NEW d, NEW x \in IrEvents, Yields(e, d, <<x>>),
         d.events = dec.events, ~d.stopped, x.type # "message_delta",
         Admits(dec.events, x), EventOK(x), IsStart(x) => x.block.kind \notin ToolKinds,
         Placed(dec')
  PROVE  Honest
<1>1. PICK u : u = <<x>>  OBVIOUS
<1>2. u \in Seq(IrEvents) /\ ~Terminated(u)  BY <1>1 DEF Terminated
<1>3. dec.events \in Seq(IrEvents) /\ Kept(dec.events)
  BY DEF TypeOK, Decoders, ContractInv
<1>4. Kept(dec.events \o <<x>>)  BY <1>3, KeptSingle
<1>5. Yields(e, d, u) /\ Kept(dec.events \o u)  BY <1>1, <1>4
<1>. QED BY <1>2, <1>5, YieldsHonest

(* A block that is handed over as it starts. *)
LEMMA StartHonest ==
  ASSUME TypeOK, TypeOK', ContractInv, ~failed, BetweenBlocks(dec), ~dec.stopped,
         NEW e, NEW d, NEW b \in Blocks, Yields(e, d, <<BlockStart(dec.next_ir_index, b)>>),
         b.kind \in {"text", "thinking", "redacted_thinking"},
         d.events = dec.events, d.started, ~d.stopped, ~d.thinking_signature_seen,
         d.open \in {"text", "thinking", "redacted"}, BlockFamily(b) = FamilyOf(d.open),
         d.open_ir_index = dec.next_ir_index
  PROVE  Honest
<1>1. PICK i, x : i = dec.next_ir_index /\ x = BlockStart(i, b)  OBVIOUS
<1>2. i \in Nat /\ dec.events \in Seq(IrEvents)  BY <1>1 DEF TypeOK, Decoders
<1>3. /\ x \in IrEvents /\ IsStart(x) /\ x.index = i /\ x.block = b
      /\ x.type # "message_delta"
  BY <1>1, <1>2, EventTypes DEF BlockStart, IsStart
<1>4. EventOK(x)
  BY <1>3, StartOK
  DEF StreamedKinds, ToolKinds, AtomicKinds, ApplyPatchKinds
<1>5. AtBoundary(dec.events, i)  BY <1>1 DEF ContractInv, Placed, BetweenBlocks
<1>6. Admits(dec.events, x)  BY <1>3, <1>5, BoundaryAdmits DEF OpensAt
<1>7. x.block.kind \notin ToolKinds  BY <1>3 DEF ToolKinds
<1>8. PICK u : u = <<x>>  OBVIOUS
<1>9. Yields(e, d, u)  BY <1>1, <1>8
<1>10. InsideBlock(dec.events \o u, i, FamilyOf(d.open), FALSE)
  BY <1>2, <1>3, <1>8, AfterSingle
<1>11. Placed(dec')
  <2>1. /\ dec'.events = dec.events \o u /\ dec'.started /\ dec'.open = d.open
        /\ dec'.open_ir_index = i /\ dec'.thinking_signature_seen = d.thinking_signature_seen
    BY <1>1, <1>9, YieldsFields, ZenonT(60)
  <2>2. d.thinking_signature_seen = FALSE
    BY <1>9, YieldsFields DEF TypeOK, Decoders
  <2>. QED BY <1>10, <2>1, <2>2 DEF Placed
<1>. QED BY <1>1, <1>3, <1>4, <1>6, <1>7, <1>11, SingleHonest

(* A delta that is passed on to the open block. *)
LEMMA DeltaHonest ==
  ASSUME TypeOK, TypeOK', ContractInv, ~failed, ~dec.stopped,
         NEW e, NEW d, NEW delta \in Deltas,
         Yields(e, d, <<BlockDelta(dec.open_ir_index, delta)>>),
         dec.open \in {"text", "thinking"}, ~dec.thinking_signature_seen,
         DeltaFamily(delta) = FamilyOf(dec.open),
         d.events = dec.events, d.started = dec.started, d.stopped = dec.stopped,
         d.open = dec.open, d.open_ir_index = dec.open_ir_index,
         d.thinking_signature_seen <=> delta.type = "signature_delta"
  PROVE  Honest
<1>1. PICK i, x : i = dec.open_ir_index /\ x = BlockDelta(i, delta)  OBVIOUS
<1>2. i \in Nat /\ dec.events \in Seq(IrEvents)  BY <1>1 DEF TypeOK, Decoders
<1>3. /\ x \in IrEvents /\ IsDelta(x) /\ x.index = i /\ x.delta = delta
      /\ x.type # "message_delta" /\ ~IsStart(x) /\ EventOK(x)
  BY <1>1, <1>2, EventTypes DEF BlockDelta, IsDelta, IsStart, EventOK
<1>4. InsideBlock(dec.events, i, FamilyOf(dec.open), FALSE)
  <2>1. dec.thinking_signature_seen = FALSE  BY DEF TypeOK, Decoders
  <2>2. InsideBlock(dec.events, i, FamilyOf(dec.open), dec.thinking_signature_seen)
    BY <1>1 DEF ContractInv, Placed
  <2>. QED BY <2>1, <2>2
<1>5. Admits(dec.events, x)  BY <1>3, <1>4, InsideAdmits DEF Continues
<1>6. PICK u : u = <<x>>  OBVIOUS
<1>7. Yields(e, d, u)  BY <1>1, <1>6
<1>8. InsideBlock(dec.events \o u, i, FamilyOf(dec.open), delta.type = "signature_delta")
  BY <1>2, <1>3, <1>6, AfterSingle
<1>9. Placed(dec')
  <2>1. /\ dec'.events = dec.events \o u /\ dec'.started = dec.started
        /\ dec'.open = dec.open /\ dec'.open_ir_index = i
        /\ dec'.thinking_signature_seen = d.thinking_signature_seen
    BY <1>1, <1>7, YieldsFields, ZenonT(60)
  <2>2. dec'.thinking_signature_seen = (delta.type = "signature_delta")
    <3>1. dec'.thinking_signature_seen \in BOOLEAN  BY DEF TypeOK, Decoders
    <3>. QED BY <2>1, <3>1
  <2>3. dec.started  BY DEF ContractInv, Placed
  <2>. QED BY <1>8, <2>1, <2>2, <2>3 DEF Placed
<1>. QED BY <1>1, <1>3, <1>5, <1>9, SingleHonest
(* A message starts once, and before its first block. *)
LEMMA MessageStartHonest ==
  ASSUME TypeOK, TypeOK', ContractInv, ~failed, NEW e, FeedMessageStart(e)
  PROVE  Honest
<1>1. CASE Rejects(dec)  BY <1>1, RejectsHonest
<1>2. CASE ~dec.started /\ Yields(e, [dec EXCEPT !.started = TRUE], <<MessageStart>>)
  <2>1. PICK d, x : d = [dec EXCEPT !.started = TRUE] /\ x = MessageStart
    OBVIOUS
  <2>2. /\ d.started /\ d.stopped = dec.stopped /\ d.open = dec.open
        /\ d.next_ir_index = dec.next_ir_index /\ d.events = dec.events
    BY <2>1 DEF TypeOK, Decoders
  <2>3. /\ x \in IrEvents /\ x.type = "message_start" /\ EventOK(x) /\ ~IsStart(x)
        /\ x.type # "message_delta"
    BY <2>1, EventTypes DEF MessageStart, EventOK, IsStart
  <2>4. dec.events = <<>> /\ dec.open = "none" /\ dec.next_ir_index = 0 /\ ~dec.stopped
    BY <1>2, FeedMessageStart(e) DEF ContractInv, Placed, FeedMessageStart, Receives, Ended
  <2>5. Admits(dec.events, x)  BY <2>3, <2>4 DEF Admits
  <2>6. PICK u : u = <<x>>  OBVIOUS
  <2>7. Yields(e, d, u)  BY <1>2, <2>1, <2>6
  <2>8. AtBoundary(dec.events \o u, 0)
    <3>1. dec.events \in Seq(IrEvents)  BY DEF TypeOK, Decoders
    <3>. QED BY <2>3, <2>6, <3>1, AfterSingle
  <2>9. Placed(dec')
    <3>1. /\ dec'.events = dec.events \o u /\ dec'.started = d.started
          /\ dec'.open = d.open /\ dec'.next_ir_index = d.next_ir_index
      BY <2>2, <2>7, YieldsFields
    <3>. QED BY <2>2, <2>4, <2>8, <3>1 DEF Placed
  <2>. QED BY <2>2, <2>3, <2>4, <2>5, <2>6, <2>7, <2>9, SingleHonest
<1>. QED BY <1>1, <1>2 DEF FeedMessageStart

(* A block starts where the stream stands: one case per kind of block. *)
LEMMA BlockStartHonest ==
  ASSUME TypeOK, TypeOK', ContractInv, ~failed, NEW e \in Events, FeedBlockStart(e)
  PROVE  Honest
<1>. DEFINE b == e.block[1]
<1>1. dec \in Decoders /\ ~dec.stopped
  BY DEF TypeOK, FeedBlockStart, FeedBlockStartRejected, FeedSkippedStart, FeedToolStart,
         FeedThinkingStart, FeedRedactedStart, FeedTextStart, FeedTextStartMalformed,
         Starting, Receives, Ended
<1>2. ASSUME NEW kind \in SupportedKinds, Starting(e, kind)
      PROVE  /\ BetweenBlocks(dec) /\ b \in NativeBlocks /\ b.kind = kind
             /\ kind = "tool_use" => Identified(b.id, b.name)
  <2>1. BetweenBlocks(dec) /\ b \in NativeBlocks /\ b.kind = kind
    BY <1>2, WireTypes, SomeTypes DEF Starting, StartRejected, Receives
  <2>2. kind = "tool_use" => Identified(b.id, b.name)
    BY <1>2, Zenon DEF Starting, StartRejected, Identified, HasId
  <2>. QED BY <2>1, <2>2
<1>3. ASSUME BetweenBlocks(dec)
      PROVE  /\ dec.started /\ dec.open = "none" /\ ~dec.thinking_signature_seen
             /\ AtBoundary(dec.events, dec.next_ir_index)
  BY <1>1, <1>3 DEF BetweenBlocks, ContractInv, Placed, TypeOK
<1>4. CASE FeedBlockStartRejected(e)
  BY <1>4, RejectsHonest DEF FeedBlockStartRejected
<1>5. CASE FeedSkippedStart(e)
  <2>1. PICK d, what : /\ what = <<"block", e.index>>
                       /\ d = Lose([dec EXCEPT !.next_index = @ + 1, !.skipped_open = TRUE,
                                               !.skipped = @ \union {e.index}], what)
    OBVIOUS
  <2>2. Yields(e, d, <<>>)  BY <1>5, <2>1 DEF FeedSkippedStart
  <2>3. /\ d.events = dec.events /\ d.started = dec.started /\ d.stopped = dec.stopped
        /\ d.open = dec.open /\ d.next_ir_index = dec.next_ir_index
        /\ d.open_ir_index = dec.open_ir_index
        /\ d.thinking_signature_seen = dec.thinking_signature_seen
        /\ d.tool_id = dec.tool_id /\ d.tool_name = dec.tool_name
    BY <1>1, <2>1 DEF Lose, Decoders
  <2>. QED BY <1>1, <2>2, <2>3, QuietHonest
<1>6. CASE FeedToolStart(e)
  <2>1. BetweenBlocks(dec) /\ b \in NativeBlocks /\ Identified(b.id, b.name)
    BY <1>2, <1>6 DEF FeedToolStart, SupportedKinds
  <2>2. PICK o, none : o = Open(dec, "tool") /\ none = <<>>  OBVIOUS
  <2>3. PICK d : d = [o EXCEPT !.tool_id = b.id, !.tool_name = b.name,
                               !.tool_input = b.text, !.tool_parts = none]
    OBVIOUS
  <2>4. Yields(e, d, none)  BY <1>6, <2>2, <2>3 DEF FeedToolStart
  <2>5. /\ o \in Decoders /\ o.open = "tool" /\ o.open_ir_index = dec.next_ir_index
        /\ o.started = dec.started /\ o.stopped = dec.stopped /\ o.events = dec.events
    BY <1>1, <2>2, OpenFields
  <2>6. /\ d.open = "tool" /\ d.open_ir_index = dec.next_ir_index
        /\ d.started = dec.started /\ d.stopped = dec.stopped /\ d.events = dec.events
        /\ d.tool_id = b.id /\ d.tool_name = b.name
    BY <2>3, <2>5 DEF Decoders
  <2>7. none \in Seq(IrEvents) /\ ~Terminated(none) /\ dec.events \o none = dec.events
    BY <1>1, <2>2 DEF Terminated, Decoders
  <2>8. Placed(dec')
    <3>1. /\ dec'.events = dec.events /\ dec'.started /\ dec'.open = "tool"
          /\ dec'.open_ir_index = dec.next_ir_index
          /\ dec'.tool_id = b.id /\ dec'.tool_name = b.name
      BY <1>3, <2>1, <2>4, <2>6, <2>7, YieldsFields, ZenonT(60)
    <3>. QED BY <1>3, <2>1, <3>1 DEF Placed
  <2>9. Kept(dec.events \o none)  BY <2>7 DEF ContractInv
  <2>. QED BY <1>1, <2>4, <2>6, <2>7, <2>8, <2>9, YieldsHonest
<1>7. CASE FeedThinkingStart(e)
  <2>1. BetweenBlocks(dec) /\ b \in NativeBlocks
    BY <1>2, <1>7 DEF FeedThinkingStart, SupportedKinds
  <2>2. PICK o, d, block :
          /\ o = Open(dec, "thinking") /\ d = [o EXCEPT !.thinking_signature_seen = FALSE]
          /\ block = [Block("thinking", "", <<>>, b.text) EXCEPT !.signature = b.signature]
    OBVIOUS
  <2>3. Yields(e, d, <<BlockStart(dec.next_ir_index, block)>>)
    BY <1>7, <2>2 DEF FeedThinkingStart
  <2>4. block \in Blocks
    <3>1. b.text \in Text /\ b.signature \in Text  BY <2>1 DEF NativeBlocks
    <3>. QED BY <2>2, <3>1, NoToken, BlockTypes DEF StreamedKinds
  <2>5. block.kind = "thinking" /\ BlockFamily(block) = FamilyOf("thinking")
    <3>1. block.kind = "thinking"  BY <2>2, Zenon DEF Block
    <3>. QED BY <3>1 DEF BlockFamily, FamilyOf
  <2>6. /\ o \in Decoders /\ o.open = "thinking" /\ o.open_ir_index = dec.next_ir_index
        /\ o.started = dec.started /\ o.stopped = dec.stopped /\ o.events = dec.events
    BY <1>1, <2>2, OpenFields
  <2>7. /\ d.open = "thinking" /\ d.open_ir_index = dec.next_ir_index
        /\ d.started /\ ~d.stopped /\ d.events = dec.events /\ ~d.thinking_signature_seen
    BY <1>1, <1>3, <2>1, <2>2, <2>6 DEF Decoders
  <2>. QED BY <1>1, <2>1, <2>3, <2>4, <2>5, <2>7, StartHonest
<1>8. CASE FeedRedactedStart(e)
  <2>1. BetweenBlocks(dec) /\ b \in NativeBlocks
    BY <1>2, <1>8 DEF FeedRedactedStart, SupportedKinds
  <2>2. PICK d, block : /\ d = Open(dec, "redacted")
                        /\ block = Block("redacted_thinking", "", <<>>, b.text)
    OBVIOUS
  <2>3. Yields(e, d, <<BlockStart(dec.next_ir_index, block)>>)
    BY <1>8, <2>2 DEF FeedRedactedStart
  <2>4. block \in Blocks
    <3>1. b.text \in Text  BY <2>1 DEF NativeBlocks
    <3>. QED BY <2>2, <3>1, NoToken, BlockTypes DEF StreamedKinds, AtomicKinds
  <2>5. block.kind = "redacted_thinking" /\ BlockFamily(block) = FamilyOf("redacted")
    <3>1. block.kind = "redacted_thinking"  BY <2>2, Zenon DEF Block
    <3>. QED BY <3>1 DEF BlockFamily, FamilyOf
  <2>6. /\ d.open = "redacted" /\ d.open_ir_index = dec.next_ir_index
        /\ d.started /\ ~d.stopped /\ d.events = dec.events /\ ~d.thinking_signature_seen
    BY <1>1, <1>3, <2>1, <2>2, OpenFields
  <2>. QED BY <1>1, <2>1, <2>3, <2>4, <2>5, <2>6, StartHonest
<1>9. CASE FeedTextStart(e)
  <2>1. BetweenBlocks(dec) /\ b \in NativeBlocks
    BY <1>2, <1>9 DEF FeedTextStart, SupportedKinds
  <2>2. PICK o, what, d, block :
          /\ o = Open(dec, "text") /\ what = <<"citation", e.index>>
          /\ d = IF b.citations = "unknown" THEN Lose(o, what) ELSE o
          /\ block = [Block("text", "", <<>>, b.text) EXCEPT !.citations = SourcesOf(b.citations)]
    OBVIOUS
  <2>3. Yields(e, d, <<BlockStart(dec.next_ir_index, block)>>)
    BY <1>9, <2>2 DEF FeedTextStart
  <2>4. block \in Blocks
    <3>1. b.text \in Text  BY <2>1 DEF NativeBlocks
    <3>. QED BY <2>2, <3>1, NoToken, SourcesType, BlockTypes DEF StreamedKinds
  <2>5. block.kind = "text" /\ BlockFamily(block) = FamilyOf("text")
    <3>1. block.kind = "text"  BY <2>2, Zenon DEF Block
    <3>. QED BY <3>1 DEF BlockFamily, FamilyOf
  <2>6. /\ o \in Decoders /\ o.open = "text" /\ o.open_ir_index = dec.next_ir_index
        /\ o.started /\ ~o.stopped /\ o.events = dec.events /\ ~o.thinking_signature_seen
    BY <1>1, <1>3, <2>1, <2>2, OpenFields
  <2>7. /\ d.open = "text" /\ d.open_ir_index = dec.next_ir_index
        /\ d.started /\ ~d.stopped /\ d.events = dec.events /\ ~d.thinking_signature_seen
    BY <2>2, <2>6 DEF Lose, Decoders
  <2>. QED BY <1>1, <2>1, <2>3, <2>4, <2>5, <2>7, StartHonest
<1>10. CASE FeedTextStartMalformed(e)
  <2>1. Open(dec, "text").events = dec.events  BY <1>1, OpenFields
  <2>. QED BY <1>10, <2>1, RejectsHonest DEF FeedTextStartMalformed
<1>. QED BY <1>4, <1>5, <1>6, <1>7, <1>8, <1>9, <1>10 DEF FeedBlockStart

(* A delta goes to the open block, or nowhere: one case per kind of delta. *)
LEMMA BlockDeltaHonest ==
  ASSUME TypeOK, TypeOK', ContractInv, ~failed, NEW e \in Events, FeedBlockDelta(e),
         ~CitesOpenTool(e)
  PROVE  Honest
<1>. DEFINE delta == e.delta[1]
<1>1. /\ dec \in Decoders /\ ~dec.stopped /\ e.kind = "content_block_delta"
      /\ dec.thinking_signature_seen => dec.open = "thinking"
  BY DEF TypeOK, FeedBlockDelta, FeedDeltaRejected, FeedSkippedDelta, FeedInputJsonDelta,
         FeedPassedDelta, FeedCitation, FeedUnknownDelta, Continuing, Receives, Ended
<1>2. ASSUME Continuing(e)
      PROVE  /\ e.delta # None /\ delta \in NativeDeltas /\ ~DeltaRejected(dec, delta)
  BY <1>2, WireTypes, SomeTypes DEF Continuing, DeltaAccepted, Receives
<1>3. ASSUME NEW what, Yields(e, Lose(dec, what), <<>>)
      PROVE  Honest
  <2>1. PICK d : d = Lose(dec, what)  OBVIOUS
  <2>2. /\ d.events = dec.events /\ d.started = dec.started /\ d.stopped = dec.stopped
        /\ d.open = dec.open /\ d.next_ir_index = dec.next_ir_index
        /\ d.open_ir_index = dec.open_ir_index
        /\ d.thinking_signature_seen = dec.thinking_signature_seen
        /\ d.tool_id = dec.tool_id /\ d.tool_name = dec.tool_name
    BY <1>1, <2>1 DEF Lose, Decoders
  <2>. QED BY <1>1, <1>3, <2>1, <2>2, QuietHonest
<1>4. CASE FeedDeltaRejected(e)  BY <1>4, RejectsHonest DEF FeedDeltaRejected
<1>5. CASE FeedSkippedDelta(e)  BY <1>1, <1>5, QuietHonest DEF FeedSkippedDelta
<1>6. CASE FeedInputJsonDelta(e)
  <2>1. PICK d, parts : /\ parts = Append(dec.tool_parts, TextGiven(delta.text))
                        /\ d = [dec EXCEPT !.tool_parts = parts]
    OBVIOUS
  <2>2. Yields(e, d, <<>>)  BY <1>6, <2>1 DEF FeedInputJsonDelta
  <2>3. /\ d.events = dec.events /\ d.started = dec.started /\ d.stopped = dec.stopped
        /\ d.open = dec.open /\ d.next_ir_index = dec.next_ir_index
        /\ d.open_ir_index = dec.open_ir_index
        /\ d.thinking_signature_seen = dec.thinking_signature_seen
        /\ d.tool_id = dec.tool_id /\ d.tool_name = dec.tool_name
    BY <1>1, <2>1 DEF Decoders
  <2>. QED BY <1>1, <2>2, <2>3, QuietHonest
<1>7. CASE FeedPassedDelta(e)
  <2>1. /\ delta \in NativeDeltas /\ ~DeltaRejected(dec, delta)
        /\ delta.type \in {"text_delta"} \union ThinkingDeltas
    BY <1>2, <1>7 DEF FeedPassedDelta
  <2>2. PICK type, text, seen, d, x :
          /\ type = delta.type /\ text = TextGiven(delta.text) /\ x = Delta(type, text)
          /\ seen = (dec.thinking_signature_seen \/ type = "signature_delta")
          /\ d = [dec EXCEPT !.thinking_signature_seen = seen]
    OBVIOUS
  <2>3. Yields(e, d, <<BlockDelta(dec.open_ir_index, x)>>)
    BY <1>7, <2>2 DEF FeedPassedDelta
  <2>4. \/ dec.open = "text" /\ type = "text_delta" /\ ~dec.thinking_signature_seen
        \/ dec.open = "thinking" /\ type \in ThinkingDeltas /\ ~dec.thinking_signature_seen
    BY <1>1, <2>1, <2>2 DEF DeltaRejected, ThinkingDeltas, Decoders
  <2>5. x.type = type /\ x \in Deltas
    <3>1. text \in Text
      <4>1. delta.text \in Option(Text)  BY <2>1 DEF NativeDeltas
      <4>. QED BY <2>2, <4>1, SomeTypes, NoToken DEF TextGiven
    <3>2. type \in DeltaTypes  BY <2>1, <2>2 DEF DeltaTypes, ThinkingDeltas
    <3>. QED BY <2>2, <3>1, <3>2 DEF Delta, Deltas
  <2>6. DeltaFamily(x) = FamilyOf(dec.open)
    BY <2>4, <2>5 DEF DeltaFamily, FamilyOf, ThinkingDeltas
  <2>7. /\ d.events = dec.events /\ d.started = dec.started /\ d.stopped = dec.stopped
        /\ d.open = dec.open /\ d.open_ir_index = dec.open_ir_index
        /\ d.thinking_signature_seen <=> x.type = "signature_delta"
    BY <1>1, <2>2, <2>4, <2>5 DEF Decoders
  <2>. QED BY <1>1, <2>3, <2>4, <2>5, <2>6, <2>7, DeltaHonest
<1>8. CASE FeedCitation(e)
  <2>1. CASE Yields(e, Lose(dec, <<"citation", e.index>>), <<>>)  BY <1>3, <2>1
  <2>2. CASE Yields(e, dec, <<BlockDelta(dec.open_ir_index,
                                         Delta("citation_delta", SourcesOf("valid")))>>)
    <3>1. PICK x : x = Delta("citation_delta", SourcesOf("valid"))  OBVIOUS
    <3>2. x.type = "citation_delta" /\ x \in Deltas
      BY <3>1, SourcesType DEF Delta, Deltas, DeltaTypes
    <3>3. dec.open = "text"
      <4>1. ~DeltaRejected(dec, delta) /\ delta.type = "citations_delta" /\ e.delta # None
        BY <1>2, <1>8 DEF FeedCitation
      <4>2. dec.open # "tool"  BY <1>1, <4>1 DEF CitesOpenTool
      <4>. QED BY <1>1, <4>1, <4>2 DEF DeltaRejected, ThinkingDeltas, Decoders
    <3>4. DeltaFamily(x) = FamilyOf(dec.open)
      BY <3>2, <3>3 DEF DeltaFamily, FamilyOf
    <3>5. ~dec.thinking_signature_seen  BY <1>1, <3>3
    <3>. QED BY <1>1, <2>2, <3>1, <3>2, <3>3, <3>4, <3>5, DeltaHonest
  <2>. QED BY <1>8, <2>1, <2>2 DEF FeedCitation
<1>9. CASE FeedUnknownDelta(e)  BY <1>3, <1>9 DEF FeedUnknownDelta
<1>. QED BY <1>4, <1>5, <1>6, <1>7, <1>8, <1>9 DEF FeedBlockDelta
(* A block stops where it is open; a tool block comes whole. *)
LEMMA BlockStopHonest ==
  ASSUME TypeOK, TypeOK', ContractInv, ~failed, NEW e \in Events, FeedBlockStop(e)
  PROVE  Honest
<1>1. /\ dec \in Decoders /\ ~dec.stopped
      /\ dec.open # "none" => dec.open_ir_index = dec.next_ir_index - 1
  BY DEF TypeOK, FeedBlockStop, FeedStopRejected, FeedSkippedStop, FeedToolStop,
         FeedPlainStop, Stopping, Receives, Ended
<1>2. PICK i : i = dec.open_ir_index  OBVIOUS
<1>3. /\ i \in Nat /\ dec.next_ir_index \in Nat /\ dec.events \in Seq(IrEvents)
      /\ dec.open # "none" => i + 1 = dec.next_ir_index
  BY <1>1, <1>2 DEF Decoders
<1>4. dec.open # "none" => dec.started  BY DEF ContractInv, Placed
<1>5. CASE FeedStopRejected(e)  BY <1>5, RejectsHonest DEF FeedStopRejected
<1>6. CASE FeedSkippedStop(e)
  <2>1. PICK d : d = [dec EXCEPT !.skipped = @ \ {e.index}, !.skipped_open = FALSE]
    OBVIOUS
  <2>2. Yields(e, d, <<>>)  BY <1>6, <2>1 DEF FeedSkippedStop
  <2>3. /\ d.events = dec.events /\ d.started = dec.started /\ d.stopped = dec.stopped
        /\ d.open = dec.open /\ d.next_ir_index = dec.next_ir_index
        /\ d.open_ir_index = dec.open_ir_index
        /\ d.thinking_signature_seen = dec.thinking_signature_seen
        /\ d.tool_id = dec.tool_id /\ d.tool_name = dec.tool_name
    BY <1>1, <2>1 DEF Decoders
  <2>. QED BY <1>1, <2>2, <2>3, QuietHonest
<1>7. CASE FeedToolStop(e)
  <2>1. PICK d, u, none, empty :
          /\ none = <<>> /\ empty = "" /\ u = ToolUnit(dec)
          /\ d = [dec EXCEPT !.open = "none", !.tool_id = empty, !.tool_name = none,
                             !.tool_input = none, !.tool_parts = none]
    OBVIOUS
  <2>2. Yields(e, d, u)  BY <1>7, <2>1, Zenon DEF FeedToolStop
  <2>3. dec.open = "tool"  BY <1>7 DEF FeedToolStop
  <2>4. AtBoundary(dec.events, i) /\ Identified(dec.tool_id, dec.tool_name)
    BY <1>2, <2>3 DEF ContractInv, Placed
  <2>5. WholeBatch(u, i)
    <3>1. WholeBatch(ToolUnit(dec), dec.open_ir_index)
      BY <1>1, <2>4, ToolUnitLegal
    <3>. QED BY <1>2, <2>1, <3>1
  <2>6. /\ LegalBatch(u) /\ ~Terminated(u) /\ u \in Seq(IrEvents) /\ u # <<>>
        /\ IsStart(u[1]) /\ u[1].index = i /\ IsStop(Last(u)) /\ Last(u).index = i
    BY <2>5 DEF WholeBatch
  <2>7. Kept(dec.events \o u)
    <3>1. Admits(dec.events, u[1])  BY <2>4, <2>6, BoundaryAdmits DEF OpensAt
    <3>2. Kept(dec.events)  BY DEF ContractInv
    <3>. QED BY <1>3, <2>6, <3>1, <3>2, KeptBatch
  <2>8. AtBoundary(dec.events \o u, i + 1)  BY <1>3, <2>6, AfterBatch
  <2>9. /\ d.events = dec.events /\ d.started = dec.started /\ d.stopped = dec.stopped
        /\ d.open = "none" /\ d.next_ir_index = dec.next_ir_index
    BY <1>1, <2>1 DEF Decoders
  <2>10. Placed(dec')
    <3>1. /\ dec'.events = dec.events \o u /\ dec'.started /\ dec'.open = "none"
          /\ dec'.next_ir_index = dec.next_ir_index
      BY <1>4, <2>2, <2>3, <2>9, YieldsFields, ZenonT(60)
    <3>. QED BY <1>3, <2>3, <2>8, <3>1 DEF Placed
  <2>. QED BY <1>1, <2>2, <2>6, <2>7, <2>9, <2>10, YieldsHonest
<1>8. CASE FeedPlainStop(e)
  <2>1. PICK d, x : /\ d = [dec EXCEPT !.open = "none", !.thinking_signature_seen = FALSE]
                    /\ x = BlockStop(i)
    OBVIOUS
  <2>2. Yields(e, d, <<x>>)  BY <1>2, <1>8, <2>1 DEF FeedPlainStop
  <2>3. dec.open \in {"text", "thinking", "redacted"}
    BY <1>1, <1>8 DEF FeedPlainStop, Stopping, StopRejected, Decoders
  <2>4. InsideBlock(dec.events, i, FamilyOf(dec.open), dec.thinking_signature_seen)
    BY <1>2, <2>3 DEF ContractInv, Placed
  <2>5. /\ x \in IrEvents /\ IsStop(x) /\ x.index = i /\ x.type # "message_delta"
        /\ ~IsStart(x) /\ EventOK(x)
    BY <1>3, <2>1, EventTypes DEF BlockStop, IsStop, IsStart, EventOK
  <2>6. Admits(dec.events, x)
    <3>1. dec.thinking_signature_seen \in BOOLEAN  BY <1>1 DEF Decoders
    <3>. QED BY <2>4, <2>5, <3>1, InsideAdmits DEF Continues
  <2>7. PICK u : u = <<x>>  OBVIOUS
  <2>8. AtBoundary(dec.events \o u, i + 1)  BY <1>3, <2>5, <2>7, AfterSingle
  <2>9. /\ d.events = dec.events /\ d.started = dec.started /\ d.stopped = dec.stopped
        /\ d.open = "none" /\ d.next_ir_index = dec.next_ir_index
    BY <1>1, <2>1 DEF Decoders
  <2>10. Placed(dec')
    <3>1. Yields(e, d, u)  BY <2>2, <2>7
    <3>2. /\ dec'.events = dec.events \o u /\ dec'.started /\ dec'.open = "none"
          /\ dec'.next_ir_index = dec.next_ir_index
      BY <1>4, <2>3, <2>9, <3>1, YieldsFields
    <3>. QED BY <1>3, <2>3, <2>8, <3>2 DEF Placed
  <2>. QED BY <1>1, <2>2, <2>5, <2>6, <2>9, <2>10, SingleHonest
<1>. QED BY <1>5, <1>6, <1>7, <1>8 DEF FeedBlockStop

(* The terminal values are remembered. *)
LEMMA MessageDeltaHonest ==
  ASSUME TypeOK, TypeOK', ContractInv, ~failed, NEW e, FeedMessageDelta(e)
  PROVE  Honest
<1>1. dec \in Decoders /\ ~dec.stopped
  BY DEF TypeOK, FeedMessageDelta, Receives, Ended
<1>2. CASE Rejects(dec)  BY <1>2, RejectsHonest
<1>3. ASSUME NEW d, d \in {TakeTerminal(dec, e), Lose(TakeTerminal(dec, e), <<"stop_reason", -1>>)},
             Yields(e, d, <<>>)
      PROVE  Honest
  <2>1. PICK stop, sequence, usage, what :
          /\ stop = StopOf(e.delta[1].stop_reason)
          /\ sequence = e.delta[1].stop_sequence
          /\ usage = (IF e.usage = None THEN dec.usage ELSE e.usage[1])
          /\ what = <<"stop_reason", -1>>
    OBVIOUS
  <2>2. PICK t : t = [dec EXCEPT !.stop = stop, !.stop_seq = sequence, !.usage = usage,
                                 !.delta_seen = TRUE]
    OBVIOUS
  <2>3. t = TakeTerminal(dec, e)  BY <2>1, <2>2 DEF TakeTerminal
  <2>4. d = t \/ d = Lose(t, what)  BY <1>3, <2>1, <2>3
  <2>5. /\ d.events = dec.events /\ d.started = dec.started /\ d.stopped = dec.stopped
        /\ d.open = dec.open /\ d.next_ir_index = dec.next_ir_index
        /\ d.open_ir_index = dec.open_ir_index
        /\ d.thinking_signature_seen = dec.thinking_signature_seen
        /\ d.tool_id = dec.tool_id /\ d.tool_name = dec.tool_name
    BY <1>1, <2>2, <2>4, ZenonT(60) DEF Lose, Decoders
  <2>. QED BY <1>1, <1>3, <2>5, QuietHonest
<1>. QED BY <1>2, <1>3 DEF FeedMessageDelta

(* The terminal pair comes in one batch, and last. *)
LEMMA MessageStopHonest ==
  ASSUME TypeOK, TypeOK', ContractInv, ~failed, NEW e, FeedMessageStop(e)
  PROVE  Honest
<1>1. /\ dec \in Decoders /\ ~dec.stopped /\ dec.events \in Seq(IrEvents)
      /\ dec.stop = "none" => ~dec.delta_seen
  BY DEF TypeOK, FeedMessageStop, Receives, Ended, Decoders
<1>2. CASE Rejects(dec)  BY <1>2, RejectsHonest
<1>3. CASE ~Rejects(dec)
  <2>1. PICK d, sequence, x, y :
          /\ sequence = (IF dec.stop = "stop_sequence" THEN dec.stop_seq ELSE <<>>)
          /\ d = [dec EXCEPT !.stopped = TRUE]
          /\ x = MessageDelta(dec.stop, sequence, dec.usage) /\ y = MessageDone
    OBVIOUS
  <2>2. PICK u : u = <<x, y>>  OBVIOUS
  <2>3. BetweenBlocks(dec) /\ dec.delta_seen /\ Yields(e, d, u)
    BY <1>3, <2>1, <2>2 DEF FeedMessageStop
  <2>4. x \in IrEvents /\ y \in IrEvents
    <3>1. dec.stop \in StopReasons /\ dec.usage \in Usages
      BY <1>1, <2>3 DEF Decoders
    <3>2. sequence \in Text  BY <1>1, <2>1, NoToken DEF Decoders
    <3>. QED BY <2>1, <3>1, <3>2, EventTypes
  <2>5. /\ x.type = "message_delta" /\ y.type = "message_done"
        /\ x.stop_sequence # <<>> => x.stop_reason = "stop_sequence"
    BY <2>1 DEF MessageDelta, MessageDone
  <2>6. AtBoundary(dec.events, dec.next_ir_index)
    BY <1>1, <2>3 DEF BetweenBlocks, ContractInv, Placed
  <2>7. Admits(dec.events, x)  BY <2>5, <2>6, BoundaryAdmits DEF OpensAt
  <2>8. Kept(dec.events) /\ ~Terminated(dec.events)  BY <1>1 DEF ContractInv
  <2>9. Promise(dec.events \o <<x, y>>) /\ Terminated(dec.events \o <<x, y>>)
    BY <1>1, <2>4, <2>5, <2>7, <2>8, TerminalBatch
  <2>10. /\ dec'.events = dec.events \o u /\ failed' = failed
         /\ dec'.started /\ dec'.stopped /\ dec'.open = "none"
    <3>1. d.events = dec.events /\ d.started /\ d.stopped /\ d.open = "none"
      BY <1>1, <2>1, <2>3 DEF BetweenBlocks, Decoders
    <3>. QED BY <2>3, <3>1, YieldsFields
  <2>11. Promise(dec'.events) /\ Terminated(dec'.events)  BY <2>2, <2>9, <2>10
  <2>12. ContractInv'  BY <2>10, <2>11 DEF ContractInv, Placed, Promise, Kept
  <2>13. IsPrefix(dec.events, dec'.events)
    <3>1. u \in Seq(IrEvents)  BY <2>2, <2>4
    <3>. QED BY <1>1, <2>10, <3>1, BatchPrefix
  <2>14. Promised!IsPrefix(dec.events, dec'.events)
    BY <2>13 DEF IsPrefix, Promised!IsPrefix
  <2>15. Promised!Deliver
    BY <2>8, <2>10, <2>11, <2>14, PromisedMeans DEF Promised!Deliver
  <2>. QED BY <2>12, <2>15 DEF Honest, Promised!Next
<1>. QED BY <1>2, <1>3

(* Every call of feed keeps the contract until one fails. *)
LEMMA FeedHonest ==
  ASSUME TypeOK, TypeOK', ContractInv, ~failed, NEW e \in Events, Feed(e), ~CitesOpenTool(e)
  PROVE  Honest
<1>1. CASE FeedAfterEnd  BY <1>1, RejectsHonest DEF FeedAfterEnd
<1>2. CASE FeedUnknownEvent(e)
  <2>1. PICK d, what : what = <<"event", -1>> /\ d = Lose(dec, what)  OBVIOUS
  <2>2. Yields(e, d, <<>>) /\ ~dec.stopped /\ dec \in Decoders
    BY <1>2, <2>1 DEF FeedUnknownEvent, Ended, TypeOK
  <2>3. /\ d.events = dec.events /\ d.started = dec.started /\ d.stopped = dec.stopped
        /\ d.open = dec.open /\ d.next_ir_index = dec.next_ir_index
        /\ d.open_ir_index = dec.open_ir_index
        /\ d.thinking_signature_seen = dec.thinking_signature_seen
        /\ d.tool_id = dec.tool_id /\ d.tool_name = dec.tool_name
    BY <2>1, <2>2 DEF Lose, Decoders
  <2>. QED BY <2>2, <2>3, QuietHonest
<1>. QED
  BY <1>1, <1>2, MessageStartHonest, BlockStartHonest, BlockDeltaHonest, BlockStopHonest,
     MessageDeltaHonest, MessageStopHonest DEF Feed

(* flush hands nothing over. *)
LEMMA FlushHonest ==
  ASSUME TypeOK, ContractInv, ~failed, Flush
  PROVE  Honest
<1>1. CASE FlushRefused
  BY <1>1 DEF FlushRefused, Honest, ContractInv, Promised!Next, Promised!Fail
<1>2. CASE FlushConfirmed
  <2>1. /\ failed' = failed /\ dec'.events = dec.events /\ dec'.started = dec.started
        /\ dec'.stopped = dec.stopped /\ dec'.open = dec.open
        /\ dec'.next_ir_index = dec.next_ir_index
        /\ dec'.open_ir_index = dec.open_ir_index
        /\ dec'.thinking_signature_seen = dec.thinking_signature_seen
        /\ dec'.tool_id = dec.tool_id /\ dec'.tool_name = dec.tool_name
    BY <1>2 DEF FlushConfirmed, TypeOK, Decoders
  <2>2. ContractInv'  BY <2>1 DEF ContractInv, Placed
  <2>. QED BY <2>1, <2>2 DEF Honest
<1>. QED BY <1>1, <1>2 DEF Flush

(* An error is not forgotten. *)
LEMMA StaysFailed ==
  ASSUME failed, [Next]_vars
  PROVE  failed'
<1>1. /\ \A e, d, u : Yields(e, d, u) => failed'
      /\ \A d : Rejects(d) => failed'
  BY DEF Yields, Rejects
<1>2. ASSUME NEW e \in Events, Feed(e)
      PROVE  failed'
  <2>1. FeedBlockStart(e) => failed'
    BY <1>1 DEF FeedBlockStart, FeedBlockStartRejected, FeedSkippedStart, FeedToolStart,
                FeedThinkingStart, FeedRedactedStart, FeedTextStart, FeedTextStartMalformed
  <2>2. FeedBlockDelta(e) => failed'
    BY <1>1 DEF FeedBlockDelta, FeedDeltaRejected, FeedSkippedDelta, FeedInputJsonDelta,
                FeedPassedDelta, FeedCitation, FeedUnknownDelta
  <2>3. FeedBlockStop(e) => failed'
    BY <1>1 DEF FeedBlockStop, FeedStopRejected, FeedSkippedStop, FeedToolStop, FeedPlainStop
  <2>4. FeedAfterEnd \/ FeedMessageStart(e) \/ FeedMessageDelta(e) \/ FeedMessageStop(e)
          \/ FeedUnknownEvent(e) => failed'
    BY <1>1 DEF FeedAfterEnd, FeedMessageStart, FeedMessageDelta, FeedMessageStop,
                FeedUnknownEvent
  <2>. QED BY <1>2, <2>1, <2>2, <2>3, <2>4 DEF Feed
<1>3. CASE Flush  BY <1>3 DEF Flush, FlushRefused, FlushConfirmed
<1>. QED BY <1>2, <1>3 DEF Next, vars

(* A provider that puts no citation on a tool_use block, and whatever else
   it sends: what feed hands over honours the contract of IrProducer.  The
   events are a legal beginning of a stream, each tool block comes whole
   with the input its fragments spell, the terminal pair comes last and in
   one batch, and nothing that was handed over is taken back. *)
THEOREM DecoderHonoursContract ==
  ASSUME CitesTools = FALSE
  PROVE  Spec => HonoursContract
<1>1. Init => TypeOK /\ ContractInv /\ Promised!Init
  <2>1. SUFFICES ASSUME Init
                 PROVE  TypeOK /\ ContractInv /\ Promised!Init
    OBVIOUS
  <2>2. PICK s : s = dec.events  OBVIOUS
  <2>3. /\ s = <<>> /\ ~failed /\ ~dec.started /\ ~dec.stopped /\ dec.open = "none"
        /\ dec.next_ir_index = 0
    BY <2>1, <2>2 DEF Init, NewDecoder
  <2>4. Kept(s) /\ ~Terminated(s)
    BY <2>3 DEF Kept, WellFormed, InOrder, ToolBlocksWhole, ToolInputsExact, Terminated
  <2>5. ContractInv  BY <2>2, <2>3, <2>4 DEF ContractInv, Placed
  <2>6. Promised!Init  BY <2>1, <2>2, <2>3 DEF Promised!Init, Init
  <2>. QED BY <2>1, <2>5, <2>6, InitTypeOK
<1>2. TypeOK /\ [Next]_vars => TypeOK'
  BY FeedTypeOK, FlushTypeOK DEF Next, vars, TypeOK
<1>3. TypeOK /\ TypeOK' /\ ContractInv /\ [Next]_vars => Honest
  <2>1. SUFFICES ASSUME TypeOK, TypeOK', ContractInv, [Next]_vars
                 PROVE  Honest
    OBVIOUS
  <2>2. CASE failed
    <3>1. failed'  BY <2>1, <2>2, StaysFailed
    <3>. QED BY <2>2, <3>1 DEF Honest, ContractInv, Promised!Next, Promised!AfterFailure
  <2>3. CASE ~failed
    <3>1. ASSUME NEW e \in Events, Feed(e), CitesOpenTool(e) => CitesTools
          PROVE  Honest
      BY <2>1, <2>3, <3>1, FeedHonest
    <3>2. CASE Flush  BY <2>1, <2>3, <3>2, FlushHonest
    <3>3. CASE UNCHANGED vars
      BY <2>1, <3>3 DEF vars, Honest, ContractInv, Placed
    <3>. QED BY <2>1, <3>1, <3>2, <3>3 DEF Next
  <2>. QED BY <2>2, <2>3
<1>. QED BY <1>1, <1>2, <1>3, PTL DEF Spec, HonoursContract, Promised!Spec, Honest

-----------------------------------------------------------------------------
(* Losses *)

(* A block without payload or of another kind starts. *)
SkipsBlock(e) ==
  e.kind = "content_block_start" /\ (e.block # None => e.block[1].kind \notin SupportedKinds)

(* When event k comes, a block that was skipped has not stopped yet. *)
SkippedAt(s, k) ==
  \E j \in 1..(k - 1) :
    SkipsBlock(s[j]) /\ \A m \in (j + 1)..(k - 1) : s[m].kind # "content_block_stop"

(* What is lost of an event, within a skipped block or outside. *)
GapOf(e, skipped) ==
  CASE e.kind = "content_block_start" ->
         IF SkipsBlock(e) THEN <<<<"block", e.index>>>>
         ELSE IF e.block[1].kind = "text" /\ e.block[1].citations = "unknown"
         THEN <<<<"citation", e.index>>>> ELSE <<>>
    [] e.kind = "content_block_delta" ->
         IF skipped THEN <<>>
         ELSE IF e.delta[1].type \notin KnownDeltas THEN <<<<"delta", e.index>>>>
         ELSE IF e.delta[1].type = "citations_delta" /\ e.delta[1].citation = "unknown"
         THEN <<<<"citation", e.index>>>> ELSE <<>>
    [] e.kind = "message_delta" ->
         IF e.delta[1].stop_reason \in KnownStops THEN <<>> ELSE <<<<"stop_reason", -1>>>>
    [] e.kind \in {"message_start", "content_block_stop", "message_stop"} -> <<>>
    [] OTHER -> <<<<"event", -1>>>>

Gap(s, k) == GapOf(s[k], SkippedAt(s, k))

AllGaps(s) == [k \in 1..Len(s) |-> Gap(s, k)]

(* GapOf, kind by kind. *)
LEMMA GapForms ==
  ASSUME NEW e, NEW skipped
  PROVE  /\ e.kind = "content_block_start" =>
              GapOf(e, skipped) =
                IF SkipsBlock(e) THEN <<<<"block", e.index>>>>
                ELSE IF e.block[1].kind = "text" /\ e.block[1].citations = "unknown"
                THEN <<<<"citation", e.index>>>> ELSE <<>>
         /\ e.kind = "content_block_delta" =>
              GapOf(e, skipped) =
                IF skipped THEN <<>>
                ELSE IF e.delta[1].type \notin KnownDeltas THEN <<<<"delta", e.index>>>>
                ELSE IF e.delta[1].type = "citations_delta" /\ e.delta[1].citation = "unknown"
                THEN <<<<"citation", e.index>>>> ELSE <<>>
         /\ e.kind = "message_delta" =>
              GapOf(e, skipped) =
                IF e.delta[1].stop_reason \in KnownStops THEN <<>> ELSE <<<<"stop_reason", -1>>>>
         /\ e.kind \in {"message_start", "content_block_stop", "message_stop"} =>
              GapOf(e, skipped) = <<>>
         /\ e.kind \notin KnownEvents => GapOf(e, skipped) = <<<<"event", -1>>>>
<1>1. CASE e.kind = "content_block_start"  BY <1>1 DEF GapOf, KnownEvents
<1>2. CASE e.kind = "content_block_delta"  BY <1>2 DEF GapOf, KnownEvents
<1>3. CASE e.kind = "message_delta"  BY <1>3 DEF GapOf, KnownEvents
<1>4. CASE e.kind \in {"message_start", "content_block_stop", "message_stop"}
  BY <1>4 DEF GapOf, KnownEvents
<1>5. CASE e.kind \notin KnownEvents  BY <1>5 DEF GapOf, KnownEvents
<1>. QED BY <1>1, <1>2, <1>3, <1>4, <1>5 DEF KnownEvents

(* Losses name a kind and a native index. *)
LEMMA GapType ==
  ASSUME NEW e \in Events, NEW skipped
  PROVE  GapOf(e, skipped) \in Seq(LossKinds \X Int)
<1>1. PICK none : none = <<>> /\ none \in Seq(LossKinds \X Int)
  <2>1. <<>> \in Seq(LossKinds \X Int)  OBVIOUS
  <2>. QED BY <2>1
<1>2. \A kind \in LossKinds : \A i \in Int : <<<<kind, i>>>> \in Seq(LossKinds \X Int)
  OBVIOUS
<1>3. {"block", "delta", "citation", "stop_reason", "event"} \subseteq LossKinds /\ -1 \in Int
  BY DEF LossKinds
<1>4. CASE e.kind = "content_block_start"
  <2>1. e.index \in Int  BY <1>4, WireTypes
  <2>. QED BY <1>1, <1>2, <1>3, <1>4, <2>1, GapForms
<1>5. CASE e.kind = "content_block_delta"
  <2>1. e.index \in Int  BY <1>5, WireTypes
  <2>. QED BY <1>1, <1>2, <1>3, <1>5, <2>1, GapForms
<1>6. CASE e.kind = "message_delta"  BY <1>1, <1>2, <1>3, <1>6, GapForms
<1>7. CASE e.kind \in {"message_start", "content_block_stop", "message_stop"}
  BY <1>1, <1>7, GapForms
<1>8. CASE e.kind \notin KnownEvents  BY <1>2, <1>3, <1>8, GapForms
<1>. QED BY <1>4, <1>5, <1>6, <1>7, <1>8 DEF KnownEvents

(* Whether a block is being skipped is settled by the events before. *)
LEMMA SkippedStays ==
  ASSUME NEW s \in Seq(Events), NEW e \in Events, NEW k \in 1..(Len(s) + 1)
  PROVE  SkippedAt(Append(s, e), k) <=> SkippedAt(s, k)
<1>1. PICK t, l : t = Append(s, e) /\ l = Len(s)  OBVIOUS
<1>2. l \in Nat /\ \A j \in 1..l : t[j] = s[j]  BY <1>1
<1>3. \A j \in 1..(k - 1) : t[j] = s[j]  BY <1>1, <1>2
<1>4. \A j \in 1..(k - 1) : \A m \in (j + 1)..(k - 1) : t[m] = s[m]
  BY <1>1, <1>2, <1>3
<1>. QED BY <1>1, <1>3, <1>4 DEF SkippedAt

(* A block is skipped from its start to the next stop. *)
LEMMA SkippedGoesOn ==
  ASSUME NEW s \in Seq(Events), NEW e \in Events
  PROVE  SkippedAt(Append(s, e), Len(s) + 2) <=>
           SkipsBlock(e) \/ (SkippedAt(s, Len(s) + 1) /\ e.kind # "content_block_stop")
<1>1. PICK t, l : t = Append(s, e) /\ l = Len(s)  OBVIOUS
<1>2. l \in Nat /\ t[l + 1] = e /\ \A j \in 1..l : t[j] = s[j]  BY <1>1
<1>3. (l + 2) - 1 = l + 1 /\ (l + 1) - 1 = l /\ \A j \in 1..(l + 1) : j \in 1..l \/ j = l + 1
  BY <1>2
<1>4. ASSUME NEW j \in 1..l
      PROVE  (\A m \in (j + 1)..(l + 1) : t[m].kind # "content_block_stop") <=>
             (\A m \in (j + 1)..l : s[m].kind # "content_block_stop")
               /\ e.kind # "content_block_stop"
  <2>1. \A m \in (j + 1)..(l + 1) : m \in (j + 1)..l \/ m = l + 1  BY <1>2
  <2>2. \A m \in (j + 1)..l : m \in 1..l /\ m \in (j + 1)..(l + 1)  BY <1>2
  <2>3. l + 1 \in (j + 1)..(l + 1)  BY <1>2
  <2>. QED BY <1>2, <2>1, <2>2, <2>3
<1>5. \A m : m \notin ((l + 1) + 1)..(l + 1)  BY <1>2
<1>6. SkippedAt(t, l + 2) <=>
        SkipsBlock(e) \/ \E j \in 1..l : SkipsBlock(s[j]) /\
                           \A m \in (j + 1)..(l + 1) : t[m].kind # "content_block_stop"
  <2>1. l + 1 \in 1..(l + 1)  BY <1>2
  <2>2. \A j \in 1..l : j \in 1..(l + 1)  BY <1>2
  <2>. QED BY <1>2, <1>3, <1>5, <2>1, <2>2 DEF SkippedAt
<1>7. SkippedAt(s, l + 1) <=>
        \E j \in 1..l : SkipsBlock(s[j]) /\
                        \A m \in (j + 1)..l : s[m].kind # "content_block_stop"
  BY <1>3 DEF SkippedAt
<1>. QED BY <1>1, <1>4, <1>6, <1>7

(* The gaps grow by that of the last event. *)
LEMMA GapsGrow ==
  ASSUME NEW s \in Seq(Events), NEW e \in Events
  PROVE  Concat(AllGaps(Append(s, e)))
           = Concat(AllGaps(s)) \o GapOf(e, SkippedAt(s, Len(s) + 1))
<1>1. PICK t, l, f, g : t = Append(s, e) /\ l = Len(s) /\ f = AllGaps(s) /\ g = AllGaps(t)
  OBVIOUS
<1>2. /\ l \in Nat /\ Len(t) = l + 1 /\ t[l + 1] = e /\ \A j \in 1..l : t[j] = s[j]
      /\ \A j \in 1..l : s[j] \in Events
  BY <1>1
<1>3. f = [k \in 1..l |-> Gap(s, k)] /\ g = [k \in 1..(l + 1) |-> Gap(t, k)]
  BY <1>1, <1>2 DEF AllGaps
<1>4. \A k \in 1..l : f[k] = GapOf(s[k], SkippedAt(s, k)) /\ f[k] \in Seq(LossKinds \X Int)
  BY <1>2, <1>3, GapType DEF Gap
<1>5. \A k \in 1..l : g[k] = f[k]
  <2>1. SUFFICES ASSUME NEW k \in 1..l
                 PROVE  g[k] = f[k]
    OBVIOUS
  <2>2. k \in 1..(l + 1) /\ t[k] = s[k]  BY <1>2
  <2>3. SkippedAt(t, k) = SkippedAt(s, k)
    <3>1. SkippedAt(t, k) <=> SkippedAt(s, k)  BY <1>1, <2>2, SkippedStays
    <3>. QED BY <3>1 DEF SkippedAt
  <2>. QED BY <1>3, <2>2, <2>3 DEF Gap
<1>6. g[l + 1] = GapOf(e, SkippedAt(s, l + 1)) /\ g[l + 1] \in Seq(LossKinds \X Int)
  <2>1. l + 1 \in 1..(l + 1)  BY <1>2
  <2>2. SkippedAt(t, l + 1) = SkippedAt(s, l + 1)
    <3>1. SkippedAt(t, l + 1) <=> SkippedAt(s, l + 1)
      BY <1>1, <2>1, SkippedStays
    <3>. QED BY <3>1 DEF SkippedAt
  <2>. QED BY <1>2, <1>3, <2>1, <2>2, GapType DEF Gap
<1>7. PICK E : E = LossKinds \X Int  OBVIOUS
<1>8. f \in [1..l -> Seq(E)] /\ g \in [1..(l + 1) -> Seq(E)]
  <2>1. \A k \in 1..(l + 1) : k \in 1..l \/ k = l + 1  BY <1>2
  <2>. QED BY <1>3, <1>4, <1>5, <1>6, <1>7, <2>1
<1>9. Concat(g) = Concat(f) \o g[l + 1]  BY <1>2, <1>5, <1>8, ConcatGrows
<1>. QED BY <1>1, <1>6, <1>9

(* The gaps are those the property reads off the history. *)
LEMMA GapsMean ==
  ASSUME fed \in Seq(Events), NEW k \in 1..Len(fed)
  PROVE  GapsAt(k) = Gap(fed, k)
<1>1. Len(fed) \in Nat  OBVIOUS
<1>2. \A j \in 1..Len(fed) :
        /\ fed[j].kind = "content_block_start"
        /\ j \notin StartPositions(SupportedKinds)
      <=> SkipsBlock(fed[j])
  BY DEF StartPositions, SkipsBlock
<1>3. InSkippedBlock(k) = SkippedAt(fed, k)
  <2>1. \A j \in 1..(k - 1) : j \in 1..Len(fed)  BY <1>1
  <2>2. ASSUME NEW j \in 1..(k - 1)
        PROVE  (~\E m \in StopsAfter(j) : m < k) <=>
               \A m \in (j + 1)..(k - 1) : fed[m].kind # "content_block_stop"
    <3>1. \A m \in (j + 1)..(k - 1) : m \in (j + 1)..Len(fed) /\ m < k  BY <1>1
    <3>2. \A m \in (j + 1)..Len(fed) : m < k => m \in (j + 1)..(k - 1)  BY <1>1
    <3>. QED BY <3>1, <3>2 DEF StopsAfter
  <2>. QED BY <1>2, <2>1, <2>2 DEF InSkippedBlock, SkippedAt
<1>4. fed[k].kind = "content_block_start" =>
        (k \notin StartPositions(SupportedKinds) <=> SkipsBlock(fed[k]))
  BY <1>2
<1>. QED BY <1>3, <1>4 DEF GapsAt, Gap, GapOf

(* What the struct remembers of the gaps. *)
LossInv ==
  /\ fed \in Seq(Events)
  /\ ~failed => /\ dec.losses = Concat(AllGaps(fed))
                /\ dec.skipped_open <=> SkippedAt(fed, Len(fed) + 1)

(* An event was accepted and its gap recorded. *)
Records(e) ==
  /\ fed' = Append(fed, e) /\ failed' = failed
  /\ dec'.losses = dec.losses \o GapOf(e, dec.skipped_open)
  /\ dec'.skipped_open <=>
       SkipsBlock(e) \/ (dec.skipped_open /\ e.kind # "content_block_stop")

Fails == fed' = fed /\ failed'

(* Recording a loss appends it. *)
LEMMA LoseFields ==
  ASSUME NEW d \in Decoders, NEW what
  PROVE  /\ Lose(d, what).losses = d.losses \o <<what>>
         /\ Lose(d, what).skipped_open = d.skipped_open
<1>1. PICK l : l = Append(d.losses, what)  OBVIOUS
<1>2. l = d.losses \o <<what>>  BY <1>1 DEF Decoders
<1>3. PICK o : o = [d EXCEPT !.losses = l]  OBVIOUS
<1>4. o = Lose(d, what)  BY <1>1, <1>3 DEF Lose
<1>5. o.losses = l /\ o.skipped_open = d.skipped_open  BY <1>3 DEF Decoders
<1>. QED BY <1>2, <1>4, <1>5

(* An accepted event whose gap the changed struct has recorded. *)
LEMMA YieldsRecords ==
  ASSUME TypeOK', NEW e, NEW d, NEW u, Yields(e, d, u),
         d.losses = dec.losses \o GapOf(e, dec.skipped_open),
         d.skipped_open <=>
           SkipsBlock(e) \/ (dec.skipped_open /\ e.kind # "content_block_stop")
  PROVE  Records(e)
<1>1. /\ fed' = Append(fed, e) /\ failed' = failed
      /\ dec'.losses = d.losses /\ dec'.skipped_open = d.skipped_open
  BY DEF Yields, TypeOK, Decoders
<1>. QED BY <1>1 DEF Records

(* An accepted event that loses nothing and touches no skipped block. *)
LEMMA NothingLost ==
  ASSUME TypeOK, TypeOK', NEW e, NEW d, NEW u, Yields(e, d, u),
         d.losses = dec.losses, d.skipped_open = dec.skipped_open,
         GapOf(e, dec.skipped_open) = <<>>, ~SkipsBlock(e),
         dec.skipped_open => e.kind # "content_block_stop"
  PROVE  Records(e)
<1>1. dec.losses \o <<>> = dec.losses  BY DEF TypeOK, Decoders
<1>. QED BY <1>1, YieldsRecords

(* An accepted event that loses one thing and touches no skipped block. *)
LEMMA OneLost ==
  ASSUME TypeOK, TypeOK', NEW e, NEW d, NEW u, NEW what, Yields(e, Lose(d, what), u),
         d \in Decoders, d.losses = dec.losses, d.skipped_open = dec.skipped_open,
         GapOf(e, dec.skipped_open) = <<what>>, ~SkipsBlock(e),
         dec.skipped_open => e.kind # "content_block_stop"
  PROVE  Records(e)
<1>1. PICK o : o = Lose(d, what)  OBVIOUS
<1>2. o.losses = dec.losses \o <<what>> /\ o.skipped_open = dec.skipped_open
  BY <1>1, LoseFields
<1>. QED BY <1>1, <1>2, YieldsRecords

(* A block that opens or is skipped. *)
LEMMA BlockStartRecords ==
  ASSUME TypeOK, TypeOK', NEW e \in Events, FeedBlockStart(e)
  PROVE  Fails \/ Records(e)
<1>1. dec \in Decoders /\ e.kind = "content_block_start"
  BY DEF TypeOK, FeedBlockStart, FeedBlockStartRejected, FeedSkippedStart, FeedToolStart,
         FeedThinkingStart, FeedRedactedStart, FeedTextStart, FeedTextStartMalformed, Starting,
         Receives
<1>2. \A kind : Open(dec, kind).losses = dec.losses /\ Open(dec, kind).skipped_open = dec.skipped_open
  BY <1>1 DEF Open, Decoders
<1>3. ASSUME NEW kind \in SupportedKinds, Starting(e, kind)
      PROVE  ~SkipsBlock(e) /\ e.block[1].kind = kind /\ ~dec.skipped_open
             /\ dec.next_index \in Nat
  BY <1>1, <1>3 DEF Starting, SkipsBlock, StartRejected, BetweenBlocks, Decoders
<1>4. {"text", "thinking", "redacted_thinking", "tool_use"} = SupportedKinds
  BY DEF SupportedKinds
<1>5. CASE FeedBlockStartRejected(e) \/ FeedTextStartMalformed(e)
  BY <1>5 DEF FeedBlockStartRejected, FeedTextStartMalformed, Rejects, Fails
<1>6. CASE FeedSkippedStart(e)
  <2>1. PICK d, what : /\ d = [dec EXCEPT !.next_index = @ + 1, !.skipped_open = TRUE,
                                          !.skipped = @ \union {e.index}]
                       /\ what = <<"block", e.index>>
    OBVIOUS
  <2>2. SkipsBlock(e) /\ Yields(e, Lose(d, what), <<>>) /\ e.index = dec.next_index
    BY <1>1, <1>6, <2>1 DEF FeedSkippedStart, SkipsBlock, StartRejected
  <2>3. d \in Decoders /\ d.losses = dec.losses /\ d.skipped_open
    <3>1. BetweenBlocks(dec) /\ ~dec.stopped
      BY <1>6 DEF FeedSkippedStart, StartRejected, Receives, Ended
    <3>2. d \in Decoders
      BY <2>1, <2>2, <3>1, TypeOKIsSound, SkipSound DEF Sound
    <3>. QED BY <1>1, <2>1, <3>2 DEF Decoders
  <2>4. GapOf(e, dec.skipped_open) = <<what>>  BY <1>1, <2>1, <2>2, GapForms
  <2>5. PICK o : o = Lose(d, what)  OBVIOUS
  <2>6. o.losses = dec.losses \o <<what>> /\ o.skipped_open
    BY <2>3, <2>5, LoseFields
  <2>. QED BY <2>2, <2>4, <2>5, <2>6, YieldsRecords
<1>7. CASE FeedToolStart(e)
  <2>1. PICK d : d = [Open(dec, "tool") EXCEPT
                        !.tool_id = e.block[1].id, !.tool_name = e.block[1].name,
                        !.tool_input = e.block[1].text, !.tool_parts = <<>>]
    OBVIOUS
  <2>2. Starting(e, "tool_use") /\ Yields(e, d, <<>>)
    BY <1>7, <2>1 DEF FeedToolStart
  <2>3. d.losses = dec.losses /\ d.skipped_open = dec.skipped_open
    BY <1>1, <2>1 DEF Open, Decoders
  <2>4. ~SkipsBlock(e) /\ e.block[1].kind # "text"  BY <1>3, <1>4, <2>2
  <2>5. GapOf(e, dec.skipped_open) = <<>>  BY <1>1, <2>4, GapForms
  <2>. QED BY <1>1, <2>2, <2>3, <2>4, <2>5, NothingLost
<1>8. CASE FeedThinkingStart(e)
  <2>1. PICK d : d = [Open(dec, "thinking") EXCEPT !.thinking_signature_seen = FALSE]
    OBVIOUS
  <2>2. Starting(e, "thinking") /\ \E u : Yields(e, d, u)
    BY <1>8, <2>1 DEF FeedThinkingStart
  <2>3. d.losses = dec.losses /\ d.skipped_open = dec.skipped_open
    BY <1>1, <2>1 DEF Open, Decoders
  <2>4. ~SkipsBlock(e) /\ e.block[1].kind # "text"  BY <1>3, <1>4, <2>2
  <2>5. GapOf(e, dec.skipped_open) = <<>>  BY <1>1, <2>4, GapForms
  <2>. QED BY <1>1, <2>2, <2>3, <2>4, <2>5, NothingLost
<1>9. CASE FeedRedactedStart(e)
  <2>2. Starting(e, "redacted_thinking") /\ \E u : Yields(e, Open(dec, "redacted"), u)
    BY <1>9 DEF FeedRedactedStart
  <2>4. ~SkipsBlock(e) /\ e.block[1].kind # "text"  BY <1>3, <1>4, <2>2
  <2>5. GapOf(e, dec.skipped_open) = <<>>  BY <1>1, <2>4, GapForms
  <2>. QED BY <1>1, <1>2, <2>2, <2>4, <2>5, NothingLost
<1>10. CASE FeedTextStart(e)
  <2>1. PICK d, what, unknown :
          /\ d = Open(dec, "text") /\ what = <<"citation", e.index>>
          /\ unknown = (e.block[1].citations = "unknown")
    OBVIOUS
  <2>2. Starting(e, "text") /\ \E u : Yields(e, IF unknown THEN Lose(d, what) ELSE d, u)
    BY <1>10, <2>1 DEF FeedTextStart
  <2>3. d.losses = dec.losses /\ d.skipped_open = dec.skipped_open
    BY <1>2, <2>1
  <2>4. ~SkipsBlock(e) /\ e.block[1].kind = "text" /\ dec.next_index \in Nat
    BY <1>3, <1>4, <2>2
  <2>5. GapOf(e, dec.skipped_open) = IF unknown THEN <<what>> ELSE <<>>
    BY <1>1, <2>1, <2>4, GapForms
  <2>6. d \in Decoders
    <3>1. BetweenBlocks(dec) /\ ~dec.stopped
      BY <2>2 DEF Starting, StartRejected, Receives, Ended
    <3>. QED BY <2>1, <3>1, TypeOKIsSound, OpenSound DEF Sound
  <2>7. CASE unknown  BY <1>1, <2>2, <2>3, <2>4, <2>5, <2>6, <2>7, OneLost
  <2>8. CASE ~unknown  BY <1>1, <2>2, <2>3, <2>4, <2>5, <2>8, NothingLost
  <2>. QED BY <2>7, <2>8
<1>. QED BY <1>5, <1>6, <1>7, <1>8, <1>9, <1>10 DEF FeedBlockStart

(* A delta is absorbed, passed on or lost. *)
LEMMA BlockDeltaRecords ==
  ASSUME TypeOK, TypeOK', NEW e \in Events, FeedBlockDelta(e)
  PROVE  Fails \/ Records(e)
<1>1. /\ dec \in Decoders /\ Sound(dec) /\ e.kind = "content_block_delta" /\ ~SkipsBlock(e)
      /\ e.kind # "content_block_stop"
  BY TypeOKIsSound
  DEF Sound, FeedBlockDelta, FeedDeltaRejected, FeedSkippedDelta, FeedInputJsonDelta,
      FeedPassedDelta, FeedCitation, FeedUnknownDelta, Continuing, Receives, SkipsBlock
<1>2. ASSUME Continuing(e)
      PROVE  ~dec.skipped_open
  <2>1. ~DeltaRejected(dec, e.delta[1])  BY <1>2 DEF Continuing, DeltaAccepted
  <2>. QED BY <1>1, <2>1 DEF DeltaRejected, Sound
<1>3. CASE FeedDeltaRejected(e)  BY <1>3 DEF FeedDeltaRejected, Rejects, Fails
<1>4. CASE FeedSkippedDelta(e)
  <2>1. e.index \in dec.skipped /\ Yields(e, dec, <<>>)
    BY <1>4 DEF FeedSkippedDelta
  <2>2. dec.skipped_open  BY <1>1, <2>1 DEF Sound
  <2>3. GapOf(e, dec.skipped_open) = <<>>  BY <1>1, <2>2, GapForms
  <2>. QED BY <1>1, <2>1, <2>3, NothingLost
<1>5. CASE FeedInputJsonDelta(e)
  <2>1. PICK d : d = [dec EXCEPT !.tool_parts = Append(@, TextGiven(e.delta[1].text))]
    OBVIOUS
  <2>2. Yields(e, d, <<>>) /\ ~dec.skipped_open /\ e.delta[1].type = "input_json_delta"
    BY <1>2, <1>5, <2>1 DEF FeedInputJsonDelta
  <2>3. d.losses = dec.losses /\ d.skipped_open = dec.skipped_open
    BY <1>1, <2>1 DEF Decoders
  <2>4. GapOf(e, dec.skipped_open) = <<>>
    BY <1>1, <2>2, GapForms DEF KnownDeltas
  <2>. QED BY <1>1, <2>2, <2>3, <2>4, NothingLost
<1>6. CASE FeedPassedDelta(e)
  <2>1. PICK d : d = [dec EXCEPT !.thinking_signature_seen =
                                   @ \/ e.delta[1].type = "signature_delta"]
    OBVIOUS
  <2>2. /\ ~dec.skipped_open /\ e.delta[1].type \in {"text_delta"} \union ThinkingDeltas
        /\ \E u : Yields(e, d, u)
    BY <1>2, <1>6, <2>1 DEF FeedPassedDelta
  <2>3. d.losses = dec.losses /\ d.skipped_open = dec.skipped_open
    BY <1>1, <2>1 DEF Decoders
  <2>4. e.delta[1].type \in KnownDeltas /\ e.delta[1].type # "citations_delta"
    BY <2>2 DEF KnownDeltas, ThinkingDeltas
  <2>5. GapOf(e, dec.skipped_open) = <<>>  BY <1>1, <2>2, <2>4, GapForms
  <2>. QED BY <1>1, <2>2, <2>3, <2>5, NothingLost
<1>7. CASE FeedCitation(e)
  <2>1. PICK what : what = <<"citation", e.index>>  OBVIOUS
  <2>2. /\ ~dec.skipped_open /\ e.delta[1].type = "citations_delta"
        /\ \/ e.delta[1].citation = "valid" /\ \E u : Yields(e, dec, u)
           \/ e.delta[1].citation = "unknown" /\ Yields(e, Lose(dec, what), <<>>)
    BY <1>2, <1>7, <2>1 DEF FeedCitation
  <2>3. e.delta[1].type \in KnownDeltas  BY <2>2 DEF KnownDeltas
  <2>4. CASE e.delta[1].citation = "valid" /\ \E u : Yields(e, dec, u)
    <3>1. GapOf(e, dec.skipped_open) = <<>>  BY <1>1, <2>2, <2>3, <2>4, GapForms
    <3>. QED BY <1>1, <2>4, <3>1, NothingLost
  <2>5. CASE e.delta[1].citation = "unknown" /\ Yields(e, Lose(dec, what), <<>>)
    <3>1. GapOf(e, dec.skipped_open) = <<what>>
      BY <1>1, <2>1, <2>2, <2>3, <2>5, GapForms
    <3>. QED BY <1>1, <2>5, <3>1, OneLost
  <2>. QED BY <2>2, <2>4, <2>5
<1>8. CASE FeedUnknownDelta(e)
  <2>1. PICK what : what = <<"delta", e.index>>  OBVIOUS
  <2>2. ~dec.skipped_open /\ e.delta[1].type \notin KnownDeltas /\ Yields(e, Lose(dec, what), <<>>)
    BY <1>2, <1>8, <2>1 DEF FeedUnknownDelta
  <2>3. GapOf(e, dec.skipped_open) = <<what>>  BY <1>1, <2>1, <2>2, GapForms
  <2>. QED BY <1>1, <2>2, <2>3, OneLost
<1>. QED BY <1>3, <1>4, <1>5, <1>6, <1>7, <1>8 DEF FeedBlockDelta

(* A stop ends the block that was skipped, if there is one. *)
LEMMA BlockStopRecords ==
  ASSUME TypeOK, TypeOK', NEW e \in Events, FeedBlockStop(e)
  PROVE  Fails \/ Records(e)
<1>1. dec \in Decoders /\ Sound(dec) /\ e.kind = "content_block_stop" /\ ~SkipsBlock(e)
  BY TypeOKIsSound
  DEF Sound, FeedBlockStop, FeedStopRejected, FeedSkippedStop, FeedToolStop, FeedPlainStop,
      Stopping, Receives, SkipsBlock
<1>2. GapOf(e, dec.skipped_open) = <<>> /\ dec.losses \o <<>> = dec.losses
  BY <1>1, GapForms DEF Decoders
<1>3. ASSUME Stopping(e), e.index \notin dec.skipped
      PROVE  ~dec.skipped_open
  BY <1>1, <1>3 DEF Stopping, StopRejected, Sound
<1>4. CASE FeedStopRejected(e)  BY <1>4 DEF FeedStopRejected, Rejects, Fails
<1>5. CASE FeedSkippedStop(e)
  <2>1. PICK d : d = [dec EXCEPT !.skipped = @ \ {e.index}, !.skipped_open = FALSE]
    OBVIOUS
  <2>2. Yields(e, d, <<>>)  BY <1>5, <2>1 DEF FeedSkippedStop
  <2>3. d.losses = dec.losses /\ ~d.skipped_open  BY <1>1, <2>1 DEF Decoders
  <2>. QED BY <1>1, <1>2, <2>2, <2>3, YieldsRecords
<1>6. CASE FeedToolStop(e)
  <2>1. PICK d : d = [dec EXCEPT !.open = "none", !.tool_id = "", !.tool_name = <<>>,
                                 !.tool_input = <<>>, !.tool_parts = <<>>]
    OBVIOUS
  <2>2. ~dec.skipped_open /\ Yields(e, d, ToolUnit(dec))
    BY <1>3, <1>6, <2>1 DEF FeedToolStop
  <2>3. d.losses = dec.losses /\ d.skipped_open = dec.skipped_open
    BY <1>1, <2>1 DEF Decoders
  <2>. QED BY <1>1, <1>2, <2>2, <2>3, YieldsRecords
<1>7. CASE FeedPlainStop(e)
  <2>1. PICK d : d = [dec EXCEPT !.open = "none", !.thinking_signature_seen = FALSE]
    OBVIOUS
  <2>2. ~dec.skipped_open /\ \E u : Yields(e, d, u)
    BY <1>3, <1>7, <2>1 DEF FeedPlainStop
  <2>3. d.losses = dec.losses /\ d.skipped_open = dec.skipped_open
    BY <1>1, <2>1 DEF Decoders
  <2>. QED BY <1>1, <1>2, <2>2, <2>3, YieldsRecords
<1>. QED BY <1>4, <1>5, <1>6, <1>7 DEF FeedBlockStop

(* Every call of feed records the gap of its event, or fails. *)
LEMMA FeedRecords ==
  ASSUME TypeOK, TypeOK', NEW e \in Events, Feed(e)
  PROVE  Fails \/ Records(e)
<1>1. dec \in Decoders  BY DEF TypeOK
<1>2. CASE FeedAfterEnd  BY <1>2 DEF FeedAfterEnd, Rejects, Fails
<1>3. CASE FeedMessageStart(e)
  <2>1. PICK d : d = [dec EXCEPT !.started = TRUE]  OBVIOUS
  <2>2. Fails \/ Yields(e, d, <<MessageStart>>)
    BY <1>3, <2>1 DEF FeedMessageStart, Rejects, Fails
  <2>3. e.kind = "message_start" /\ ~SkipsBlock(e) /\ e.kind # "content_block_stop"
    BY <1>3 DEF FeedMessageStart, Receives, SkipsBlock
  <2>4. GapOf(e, dec.skipped_open) = <<>>  BY <2>3, GapForms
  <2>5. d.losses = dec.losses /\ d.skipped_open = dec.skipped_open
    BY <1>1, <2>1 DEF Decoders
  <2>. QED BY <2>2, <2>3, <2>4, <2>5, NothingLost
<1>4. CASE FeedMessageDelta(e)
  <2>1. PICK d, what : d = TakeTerminal(dec, e) /\ what = <<"stop_reason", -1>>
    OBVIOUS
  <2>2. \/ Fails
        \/ /\ TerminalAccepted(dec, e)
           /\ Yields(e, IF StopOf(e.delta[1].stop_reason) = "other" THEN Lose(d, what) ELSE d, <<>>)
    BY <1>4, <2>1 DEF FeedMessageDelta, Rejects, Fails
  <2>3. e.kind = "message_delta" /\ ~SkipsBlock(e) /\ e.kind # "content_block_stop"
    BY <1>4 DEF FeedMessageDelta, Receives, SkipsBlock
  <2>4. StopOf(e.delta[1].stop_reason) = "other" <=> e.delta[1].stop_reason \notin KnownStops
    BY DEF StopOf, KnownStops
  <2>5. GapOf(e, dec.skipped_open)
          = IF StopOf(e.delta[1].stop_reason) = "other" THEN <<what>> ELSE <<>>
    BY <2>1, <2>3, <2>4, GapForms
  <2>6. d.losses = dec.losses /\ d.skipped_open = dec.skipped_open
    BY <1>1, <2>1 DEF TakeTerminal, Decoders
  <2>7. TerminalAccepted(dec, e) => d \in Decoders
    <3>1. TerminalAccepted(dec, e) => e.delta # None /\ e.delta \in Option(Terminals)
      BY <2>3, WireTypes DEF TerminalAccepted
    <3>2. e.usage \in Option(Usages)  BY <2>3, WireTypes
    <3>. QED BY <2>1, <3>1, <3>2, TypeOKIsSound, TerminalSound DEF Sound
  <2>8. CASE StopOf(e.delta[1].stop_reason) = "other"
    BY <2>2, <2>3, <2>5, <2>6, <2>7, <2>8, OneLost
  <2>9. CASE StopOf(e.delta[1].stop_reason) # "other"
    BY <2>2, <2>3, <2>5, <2>6, <2>9, NothingLost
  <2>. QED BY <2>8, <2>9
<1>5. CASE FeedMessageStop(e)
  <2>1. PICK d : d = [dec EXCEPT !.stopped = TRUE]  OBVIOUS
  <2>2. Fails \/ \E u : Yields(e, d, u)
    BY <1>5, <2>1 DEF FeedMessageStop, Rejects, Fails
  <2>3. e.kind = "message_stop" /\ ~SkipsBlock(e) /\ e.kind # "content_block_stop"
    BY <1>5 DEF FeedMessageStop, Receives, SkipsBlock
  <2>4. GapOf(e, dec.skipped_open) = <<>>  BY <2>3, GapForms
  <2>5. d.losses = dec.losses /\ d.skipped_open = dec.skipped_open
    BY <1>1, <2>1 DEF Decoders
  <2>. QED BY <2>2, <2>3, <2>4, <2>5, NothingLost
<1>6. CASE FeedUnknownEvent(e)
  <2>1. PICK what : what = <<"event", -1>>  OBVIOUS
  <2>2. e.kind \notin KnownEvents /\ Yields(e, Lose(dec, what), <<>>)
    BY <1>6, <2>1 DEF FeedUnknownEvent
  <2>3. ~SkipsBlock(e) /\ e.kind # "content_block_stop"
    BY <2>2 DEF SkipsBlock, KnownEvents
  <2>4. GapOf(e, dec.skipped_open) = <<what>>  BY <2>1, <2>2, GapForms
  <2>. QED BY <1>1, <2>2, <2>3, <2>4, OneLost
<1>. QED
  BY <1>2, <1>3, <1>4, <1>5, <1>6, BlockStartRecords, BlockDeltaRecords, BlockStopRecords DEF Feed

(* For every set of provider events, as long as no call has failed: the
   losses are those of the gaps, in their order.  Each block that is
   skipped counts once, whatever deltas it has, each unknown delta,
   citation, stop reason and event counts, and nothing else does. *)
THEOREM DecoderTellsLosses == Spec => []LossesInOrderOfGaps
<1>1. Init => LossInv
  <2>1. SUFFICES ASSUME Init
                 PROVE  LossInv
    OBVIOUS
  <2>2. fed = <<>> /\ dec.losses = <<>> /\ ~dec.skipped_open
    BY <2>1, Zenon DEF Init, NewDecoder
  <2>3. fed \in Seq(Events) /\ Len(fed) = 0  BY <2>2
  <2>4. AllGaps(fed) = <<>>  BY <2>3 DEF AllGaps
  <2>5. ~SkippedAt(fed, Len(fed) + 1)  BY <2>3 DEF SkippedAt
  <2>. QED BY <2>2, <2>3, <2>4, <2>5, ConcatEmpty DEF LossInv
<1>2. TypeOK /\ TypeOK' /\ LossInv /\ [Next]_vars => LossInv'
  <2>1. SUFFICES ASSUME TypeOK, TypeOK', LossInv, [Next]_vars
                 PROVE  LossInv'
    OBVIOUS
  <2>2. CASE fed' = fed /\ (failed' \/ (failed' = failed /\ dec'.losses = dec.losses
                                        /\ dec'.skipped_open = dec.skipped_open))
    BY <2>1, <2>2 DEF LossInv
  <2>3. ASSUME NEW e \in Events, Feed(e)
        PROVE  LossInv'
    <3>1. CASE Fails  BY <2>2, <3>1 DEF Fails
    <3>2. CASE Records(e)
      <4>1. fed \in Seq(Events) /\ fed' = Append(fed, e) /\ failed' = failed
        BY <2>1, <3>2 DEF LossInv, Records
      <4>2. fed' \in Seq(Events) /\ Len(fed') + 1 = Len(fed) + 2  BY <4>1
      <4>3. CASE failed  BY <4>1, <4>2, <4>3 DEF LossInv
      <4>4. CASE ~failed
        <5>1. /\ dec.losses = Concat(AllGaps(fed))
              /\ dec.skipped_open <=> SkippedAt(fed, Len(fed) + 1)
          BY <2>1, <4>4 DEF LossInv
        <5>2. dec.skipped_open = SkippedAt(fed, Len(fed) + 1)
          BY <2>1, <5>1 DEF SkippedAt, TypeOK, Decoders
        <5>3. dec'.losses = Concat(AllGaps(fed'))
          BY <3>2, <4>1, <5>1, <5>2, GapsGrow DEF Records
        <5>4. dec'.skipped_open <=> SkippedAt(fed', Len(fed') + 1)
          BY <3>2, <4>1, <4>2, <5>1, SkippedGoesOn DEF Records
        <5>. QED BY <4>2, <5>3, <5>4 DEF LossInv
      <4>. QED BY <4>3, <4>4
    <3>. QED BY <2>1, <2>3, <3>1, <3>2, FeedRecords
  <2>4. CASE Flush
    <3>1. dec \in Decoders  BY <2>1 DEF TypeOK
    <3>. QED BY <2>2, <2>4, <3>1 DEF Flush, FlushRefused, FlushConfirmed, Decoders
  <2>5. CASE UNCHANGED vars  BY <2>2, <2>5 DEF vars
  <2>. QED BY <2>1, <2>3, <2>4, <2>5 DEF Next
<1>3. LossInv => LossesInOrderOfGaps
  <2>1. SUFFICES ASSUME LossInv, ~failed
                 PROVE  dec.losses = Concat([k \in 1..Len(fed) |-> GapsAt(k)])
    BY DEF LossesInOrderOfGaps
  <2>2. [k \in 1..Len(fed) |-> GapsAt(k)] = AllGaps(fed)
    BY <2>1, GapsMean DEF LossInv, AllGaps
  <2>. QED BY <2>1, <2>2 DEF LossInv
<1>. QED BY <1>1, <1>2, <1>3, DecoderTypeCorrect, PTL DEF Spec

-----------------------------------------------------------------------------
(* Output *)

(* The variant of `open` for a block of the wire. *)
OpenName(kind) ==
  IF kind = "tool_use" THEN "tool" ELSE IF kind = "redacted_thinking" THEN "redacted" ELSE kind

(* What m adds to the deltas of the block started at k. *)
DeltaAt(s, k, m) ==
  IF /\ k < m /\ s[m].kind = "content_block_delta"
     /\ ~StopBetween(s, k, m)
  THEN s[m].delta ELSE <<>>

(* What the last event adds to the deltas of a block. *)
DeltaOf(e, closed) == IF e.kind = "content_block_delta" /\ ~closed THEN e.delta ELSE <<>>

(* A history that goes on with one more event. *)
Longer(s, e, t) ==
  /\ s \in Seq(Events) /\ e \in Events /\ t = Append(s, e)

(* What is known of a history and the one event more. *)
LEMMA LongerFacts ==
  ASSUME NEW s, NEW e, NEW t, Longer(s, e, t)
  PROVE  /\ s \in Seq(Events) /\ e \in Events /\ t \in Seq(Events)
         /\ Len(s) \in Nat /\ Len(t) = Len(s) + 1 /\ t[Len(s) + 1] = e
         /\ \A k \in 1..Len(s) : t[k] = s[k] /\ s[k] \in Events
<1>1. s \in Seq(Events) /\ e \in Events /\ t = Append(s, e)  BY DEF Longer
<1>. QED BY <1>1

(* The last event closes what was open, if it is a stop. *)
LEMMA StopsGrow ==
  ASSUME NEW s, NEW e, NEW t, Longer(s, e, t), NEW k \in 1..Len(s)
  PROVE  /\ \A m \in 1..Len(s) : StopBetween(t, k, m) <=> StopBetween(s, k, m)
         /\ StopBetween(t, k, Len(s) + 1)
              <=> StopBetween(s, k, Len(s)) \/ e.kind = "content_block_stop"
         /\ Closed(t, k) <=> Closed(s, k) \/ e.kind = "content_block_stop"
<1>1. PICK l : l = Len(s)  OBVIOUS
<1>2. /\ l \in Nat /\ Len(t) = l + 1 /\ t[l + 1] = e
      /\ \A n \in 1..l : t[n] = s[n]
  BY <1>1, LongerFacts
<1>3. ASSUME NEW m \in 1..l
      PROVE  StopBetween(t, k, m) <=> StopBetween(s, k, m)
  <2>1. \A n \in (k + 1)..m : n \in 1..l  BY <1>1, <1>2
  <2>. QED BY <1>2, <2>1 DEF StopBetween
<1>4. StopBetween(t, k, l + 1) <=> StopBetween(s, k, l) \/ e.kind = "content_block_stop"
  <2>1. /\ \A n \in (k + 1)..(l + 1) : n = l + 1 \/ (n \in (k + 1)..l /\ n \in 1..l)
        /\ \A n \in (k + 1)..l : n \in (k + 1)..(l + 1) /\ n \in 1..l
        /\ l + 1 \in (k + 1)..(l + 1)
    BY <1>1, <1>2
  <2>. QED BY <1>2, <2>1 DEF StopBetween
<1>. QED BY <1>1, <1>2, <1>3, <1>4 DEF Closed

(* Nothing comes after the last event. *)
LEMMA LastIsOpen ==
  ASSUME NEW s, NEW e, NEW t, Longer(s, e, t)
  PROVE  ~Closed(t, Len(s) + 1) /\ DeltasAfter(t, Len(s) + 1) = <<>>
<1>1. PICK l : l = Len(s)  OBVIOUS
<1>2. l \in Nat /\ Len(t) = l + 1  BY <1>1, LongerFacts
<1>3. ~Closed(t, l + 1)  BY <1>2 DEF Closed, StopBetween
<1>4. PICK f : f = [m \in 1..Len(t) |-> DeltaAt(t, l + 1, m)]  OBVIOUS
<1>5. \A m \in 1..(l + 1) : DeltaAt(t, l + 1, m) = <<>>  BY <1>2 DEF DeltaAt
<1>6. f \in Seq(Seq(Nat)) /\ \A m \in 1..Len(f) : f[m] = <<>>
  <2>1. PICK none : none = <<>> /\ none \in Seq(Nat)
    <3>1. <<>> \in Seq(Nat)  OBVIOUS
    <3>. QED BY <3>1
  <2>2. \A m \in 1..(l + 1) : f[m] = none  BY <1>2, <1>4, <1>5, <2>1
  <2>3. f \in [1..(l + 1) -> Seq(Nat)]  BY <1>2, <1>4, <1>5, <2>1
  <2>. QED BY <1>2, <2>1, <2>2, <2>3
<1>7. Concat(f) = <<>>  BY <1>6, ConcatNone
<1>. QED BY <1>1, <1>3, <1>4, <1>7 DEF DeltasAfter, DeltaAt

(* What comes for a block while the history grows. *)
LEMMA DeltaAtType ==
  ASSUME NEW s \in Seq(Events), NEW k \in 1..Len(s), NEW m \in 1..Len(s)
  PROVE  DeltaAt(s, k, m) \in Seq(NativeDeltas)
<1>1. s[m] \in Events  OBVIOUS
<1>2. <<>> \in Seq(NativeDeltas)  OBVIOUS
<1>3. s[m].kind = "content_block_delta" => s[m].delta \in Seq(NativeDeltas)
  BY <1>1, WireTypes DEF Option
<1>. QED BY <1>2, <1>3 DEF DeltaAt

(* A delta joins the deltas of its block, as long as it has not stopped. *)
LEMMA DeltasGrow ==
  ASSUME NEW s, NEW e, NEW t, Longer(s, e, t), NEW k \in 1..Len(s)
  PROVE  /\ DeltasAfter(t, k) = DeltasAfter(s, k) \o DeltaOf(e, Closed(s, k))
         /\ DeltasAfter(s, k) \in Seq(NativeDeltas)
<1>1. PICK l, f, g : /\ l = Len(s) /\ f = [m \in 1..Len(s) |-> DeltaAt(s, k, m)]
                     /\ g = [m \in 1..Len(t) |-> DeltaAt(t, k, m)]
  OBVIOUS
<1>2. /\ l \in Nat /\ Len(t) = l + 1 /\ t[l + 1] = e /\ t \in Seq(Events) /\ s \in Seq(Events)
      /\ \A n \in 1..l : t[n] = s[n]
  BY <1>1, LongerFacts
<1>3. \A m \in 1..l : DeltaAt(t, k, m) = DeltaAt(s, k, m)
  BY <1>1, <1>2, StopsGrow DEF DeltaAt
<1>4. DeltaAt(t, k, l + 1) = DeltaOf(e, Closed(s, k))
  <2>1. k < l + 1  BY <1>1, <1>2
  <2>2. StopBetween(t, k, l + 1) <=> Closed(s, k) \/ e.kind = "content_block_stop"
    BY <1>1, StopsGrow DEF Closed
  <2>. QED BY <1>2, <2>1, <2>2 DEF DeltaAt, DeltaOf
<1>5. PICK T : T = NativeDeltas  OBVIOUS
<1>6. f \in [1..l -> Seq(T)]  BY <1>1, <1>2, <1>5, DeltaAtType
<1>7. g \in [1..(l + 1) -> Seq(T)]
  <2>1. k \in 1..Len(t)  BY <1>1, <1>2
  <2>. QED BY <1>1, <1>2, <1>5, <2>1, DeltaAtType
<1>8. \A m \in 1..l : g[m] = f[m]  BY <1>1, <1>2, <1>3
<1>9. Concat(g) = Concat(f) \o g[l + 1]
  BY <1>2, <1>6, <1>7, <1>8, ConcatGrows, Zenon
<1>10. g[l + 1] = DeltaOf(e, Closed(s, k))  BY <1>1, <1>2, <1>4
<1>11. Concat(f) \in Seq(T)
  <2>1. f \in Seq(Seq(T))  BY <1>2, <1>6
  <2>. QED BY <2>1, ConcatText
<1>12. DeltasAfter(s, k) = Concat(f) /\ DeltasAfter(t, k) = Concat(g)
  BY <1>1 DEF DeltasAfter, DeltaAt
<1>. QED BY <1>5, <1>9, <1>10, <1>11, <1>12

(* The IR index counts the starts that were kept. *)
LEMMA IrIndexGrows ==
  ASSUME NEW s, NEW e, NEW t, Longer(s, e, t)
  PROVE  /\ \A k \in 1..(Len(s) + 1) : IrIndex(t, k) = IrIndex(s, k)
         /\ IrIndex(t, Len(t) + 1)
              = IrIndex(s, Len(s) + 1) + (IF KeptStart(e) THEN 1 ELSE 0)
         /\ IrIndex(s, Len(s) + 1) \in Nat
<1>1. PICK l : l = Len(s)  OBVIOUS
<1>2. /\ l \in Nat /\ Len(t) = l + 1 /\ t[l + 1] = e /\ \A n \in 1..l : t[n] = s[n]
  BY <1>1, LongerFacts
<1>3. ASSUME NEW k \in 1..(l + 1)
      PROVE  IrIndex(t, k) = IrIndex(s, k)
  <2>1. \A j \in 1..(k - 1) : t[j] = s[j]  BY <1>2
  <2>2. {j \in 1..(k - 1) : KeptStart(t[j])} = {j \in 1..(k - 1) : KeptStart(s[j])}
    BY <2>1
  <2>. QED BY <2>2 DEF IrIndex
<1>4. PICK A, B : /\ A = {j \in 1..l : KeptStart(s[j])}
                  /\ B = {j \in 1..(l + 1) : KeptStart(t[j])}
  OBVIOUS
<1>5. IsFiniteSet(A) /\ Cardinality(A) \in Nat /\ l + 1 \notin A
  <2>1. IsFiniteSet(1..l)  BY <1>2, FS_Interval
  <2>2. IsFiniteSet(A)  BY <1>4, <2>1, FS_Subset
  <2>. QED BY <1>2, <1>4, <2>2, FS_CardinalityType
<1>6. B = IF KeptStart(e) THEN A \union {l + 1} ELSE A
  <2>1. \A j \in 1..(l + 1) : j \in 1..l \/ j = l + 1  BY <1>2
  <2>2. \A j \in 1..l : j \in 1..(l + 1)  BY <1>2
  <2>3. l + 1 \in 1..(l + 1)  BY <1>2
  <2>. QED BY <1>2, <1>4, <2>1, <2>2, <2>3
<1>7. Cardinality(B) = Cardinality(A) + (IF KeptStart(e) THEN 1 ELSE 0)
  <2>1. CASE KeptStart(e)
    <3>1. B = A \union {l + 1}  BY <1>6, <2>1
    <3>2. Cardinality(A \union {l + 1}) = Cardinality(A) + 1
      BY <1>5, FS_AddElement
    <3>. QED BY <2>1, <3>1, <3>2
  <2>2. CASE ~KeptStart(e)  BY <1>5, <1>6, <2>2
  <2>. QED BY <2>1, <2>2
<1>8. IrIndex(s, l + 1) = Cardinality(A) /\ IrIndex(t, Len(t) + 1) = Cardinality(B)
  <2>1. (l + 1) - 1 = l /\ (Len(t) + 1) - 1 = l + 1  BY <1>2
  <2>. QED BY <1>4, <2>1 DEF IrIndex
<1>. QED BY <1>1, <1>3, <1>5, <1>7, <1>8
(* Indexes are naturals. *)
LEMMA IrIndexType ==
  ASSUME NEW s, NEW k \in Nat
  PROVE  IrIndex(s, k) \in Nat
<1>1. PICK A : A = {j \in 1..(k - 1) : KeptStart(s[j])}  OBVIOUS
<1>2. IsFiniteSet(1..(k - 1))  BY FS_Interval
<1>3. IsFiniteSet(A)  BY <1>1, <1>2, FS_Subset
<1>. QED BY <1>1, <1>3, FS_CardinalityType DEF IrIndex

(* The fragment that a delta adds to the input of a tool, and the deltas
   that pass. *)
PartOf(delta) == IF delta.type = "input_json_delta" THEN <<TextGiven(delta.text)>> ELSE <<>>

PassedBy(deltas) == Concat([n \in 1..Len(deltas) |-> CarriedBy(deltas[n])])

(* A delta gives texts and deltas of the IR. *)
LEMMA PartType ==
  ASSUME NEW x \in NativeDeltas
  PROVE  PartOf(x) \in Seq(Text) /\ CarriedBy(x) \in Seq(Deltas)
<1>1. PICK text, type : text = TextGiven(x.text) /\ type = x.type  OBVIOUS
<1>2. text \in Text
  <2>1. x.text \in Option(Text)  BY DEF NativeDeltas
  <2>. QED BY <1>1, <2>1, SomeTypes, NoToken DEF TextGiven
<1>3. <<text>> \in Seq(Text) /\ <<>> \in Seq(Text) /\ <<>> \in Seq(Deltas)
  BY <1>2
<1>4. PICK y, z : y = Delta(type, text) /\ z = Delta("citation_delta", SourcesOf("valid"))
  OBVIOUS
<1>5. z \in Deltas  BY <1>4, SourcesType DEF Delta, Deltas, DeltaTypes
<1>6. type \in {"text_delta"} \union ThinkingDeltas => y \in Deltas
  BY <1>2, <1>4 DEF Delta, Deltas, DeltaTypes, ThinkingDeltas
<1>7. <<z>> \in Seq(Deltas) /\ (type \in {"text_delta"} \union ThinkingDeltas => <<y>> \in Seq(Deltas))
  BY <1>5, <1>6
<1>8. /\ type \in {"text_delta"} \union ThinkingDeltas => CarriedBy(x) = <<y>>
      /\ type = "citations_delta" /\ x.citation = "valid" => CarriedBy(x) = <<z>>
      /\ \/ type \in {"text_delta"} \union ThinkingDeltas
         \/ type = "citations_delta" /\ x.citation = "valid"
         \/ CarriedBy(x) = <<>>
  BY <1>1, <1>4 DEF CarriedBy, ThinkingDeltas
<1>9. PartOf(x) \in Seq(Text)  BY <1>1, <1>3 DEF PartOf
<1>. QED BY <1>3, <1>7, <1>8, <1>9

(* So do several. *)
LEMMA PartsType ==
  ASSUME NEW deltas \in Seq(NativeDeltas)
  PROVE  PartsIn(deltas) \in Seq(Text) /\ PassedBy(deltas) \in Seq(Deltas)
<1>1. PICK n, f, g : /\ n = Len(deltas) /\ f = [m \in 1..n |-> PartOf(deltas[m])]
                     /\ g = [m \in 1..n |-> CarriedBy(deltas[m])]
  OBVIOUS
<1>2. n \in Nat /\ \A m \in 1..n : deltas[m] \in NativeDeltas  BY <1>1
<1>3. f \in Seq(Seq(Text)) /\ g \in Seq(Seq(Deltas))
  <2>1. \A m \in 1..n : PartOf(deltas[m]) \in Seq(Text) /\ CarriedBy(deltas[m]) \in Seq(Deltas)
    BY <1>2, PartType
  <2>. QED BY <1>1, <1>2, <2>1
<1>4. PartsIn(deltas) = Concat(f) /\ PassedBy(deltas) = Concat(g)
  BY <1>1, Zenon DEF PartsIn, PassedBy, PartOf
<1>. QED BY <1>3, <1>4, ConcatText

(* One delta more gives its own share more. *)
LEMMA PartsGrow ==
  ASSUME NEW deltas \in Seq(NativeDeltas), NEW x \in NativeDeltas
  PROVE  /\ PartsIn(Append(deltas, x)) = PartsIn(deltas) \o PartOf(x)
         /\ PassedBy(Append(deltas, x)) = PassedBy(deltas) \o CarriedBy(x)
<1>1. PICK S, T, D : S = NativeDeltas /\ T = Text /\ D = Deltas  OBVIOUS
<1>2. PICK F, G, more : /\ F = [y \in S |-> PartOf(y)] /\ G = [y \in S |-> CarriedBy(y)]
                        /\ more = Append(deltas, x)
  OBVIOUS
<1>3. F \in Sayings(S, T) /\ G \in Sayings(S, D)
  BY <1>1, <1>2, PartType DEF Sayings
<1>4. deltas \in Seq(S) /\ x \in S /\ more \in Seq(S)  BY <1>1, <1>2
<1>5. ASSUME NEW u \in Seq(S)
      PROVE  PartsIn(u) = JoinOf(F, u) /\ PassedBy(u) = JoinOf(G, u)
  <2>1. \A n \in 1..Len(u) : F[u[n]] = PartOf(u[n]) /\ G[u[n]] = CarriedBy(u[n])
    BY <1>2
  <2>2. [n \in 1..Len(u) |-> F[u[n]]] = [n \in 1..Len(u) |-> PartOf(u[n])]
    BY <2>1
  <2>3. [n \in 1..Len(u) |-> G[u[n]]] = [n \in 1..Len(u) |-> CarriedBy(u[n])]
    BY <2>1
  <2>. QED BY <2>2, <2>3, Zenon DEF PartsIn, PassedBy, JoinOf, PartOf
<1>6. JoinOf(F, Append(deltas, x)) = JoinOf(F, deltas) \o F[x] /\ JoinOf(F, deltas) \in Seq(T)
  BY <1>3, <1>4, JoinOfMore
<1>7. JoinOf(G, Append(deltas, x)) = JoinOf(G, deltas) \o G[x] /\ JoinOf(G, deltas) \in Seq(D)
  BY <1>3, <1>4, JoinOfMore
<1>8. F[x] = PartOf(x) /\ G[x] = CarriedBy(x)  BY <1>2, <1>4
<1>. QED BY <1>1, <1>2, <1>4, <1>5, <1>6, <1>7, <1>8

(* No delta gives nothing. *)
LEMMA PartsNone == PartsIn(<<>>) = <<>> /\ PassedBy(<<>>) = <<>>
<1>1. PICK none : none = <<>>  OBVIOUS
<1>2. /\ [n \in 1..Len(none) |-> PartOf(none[n])] = <<>>
      /\ [n \in 1..Len(none) |-> CarriedBy(none[n])] = <<>>
  BY <1>1
<1>. QED BY <1>1, <1>2, ConcatEmpty, Zenon DEF PartsIn, PassedBy, PartOf

(* The events of some deltas of a block. *)
DeltaEvents(i, ds) == [n \in 1..Len(ds) |-> BlockDelta(i, ds[n])]

(* The unit of a block that is not a tool block. *)
PlainUnit(i, b, ds, closed) ==
  <<BlockStart(i, PlainBlock(b))>> \o DeltaEvents(i, ds)
    \o (IF closed THEN <<BlockStop(i)>> ELSE <<>>)

(* The three forms of a unit. *)
LEMMA UnitForms ==
  ASSUME NEW s, NEW k
  PROVE  /\ s[k].block[1].kind # "tool_use" =>
              UnitOf(s, k) = PlainUnit(IrIndex(s, k), s[k].block[1],
                                       PassedBy(DeltasAfter(s, k)), Closed(s, k))
         /\ s[k].block[1].kind = "tool_use" /\ ~Closed(s, k) => UnitOf(s, k) = <<>>
         /\ s[k].block[1].kind = "tool_use" /\ Closed(s, k) =>
              \E r : /\ r = ToolReading(s[k].block[1], DeltasAfter(s, k))
                     /\ UnitOf(s, k) = BlockUnit(IrIndex(s, k), r.block, r.deltas)
<1>1. CASE s[k].block[1].kind # "tool_use"
  <2>1. PICK r : r = PlainReading(s[k].block[1], DeltasAfter(s, k))  OBVIOUS
  <2>2. r.block = PlainBlock(s[k].block[1]) /\ r.deltas = PassedBy(DeltasAfter(s, k))
    BY <2>1, Zenon DEF PlainReading, PassedBy
  <2>3. UnitOf(s, k) = <<BlockStart(IrIndex(s, k), r.block)>> \o DeltaEvents(IrIndex(s, k), r.deltas)
                         \o (IF Closed(s, k) THEN <<BlockStop(IrIndex(s, k))>> ELSE <<>>)
    BY <1>1, <2>1, Zenon DEF UnitOf, DeltaEvents
  <2>. QED BY <1>1, <2>2, <2>3, Zenon DEF PlainUnit
<1>2. CASE s[k].block[1].kind = "tool_use" /\ ~Closed(s, k)
  BY <1>2, Zenon DEF UnitOf
<1>3. CASE s[k].block[1].kind = "tool_use" /\ Closed(s, k)
  <2>1. PICK r : r = ToolReading(s[k].block[1], DeltasAfter(s, k))  OBVIOUS
  <2>2. UnitOf(s, k) = BlockUnit(IrIndex(s, k), r.block, r.deltas)
    BY <1>3, <2>1, Zenon DEF UnitOf, BlockUnit
  <2>. QED BY <1>3, <2>1, <2>2, Zenon
<1>. QED BY <1>1, <1>2, <1>3

(* A unit that nothing was added to. *)
UnitFrom(i, b, deltas, closed) ==
  LET tool == b.kind = "tool_use"
      reading == IF tool THEN ToolReading(b, deltas) ELSE PlainReading(b, deltas)
  IN  IF tool /\ ~closed THEN <<>>
      ELSE <<BlockStart(i, reading.block)>>
           \o [n \in 1..Len(reading.deltas) |-> BlockDelta(i, reading.deltas[n])]
           \o (IF closed THEN <<BlockStop(i)>> ELSE <<>>)

(* A unit that nothing was added to. *)
LEMMA UnitStays ==
  ASSUME NEW s, NEW e, NEW t, Longer(s, e, t), NEW k \in 1..Len(s),
         Closed(s, k) \/ e.kind \notin {"content_block_delta", "content_block_stop"}
  PROVE  /\ UnitOf(t, k) = UnitOf(s, k) /\ (Closed(t, k) <=> Closed(s, k))
         /\ DeltasAfter(t, k) = DeltasAfter(s, k)
<1>1. PICK i, b, ds, closed : /\ i = IrIndex(s, k) /\ b = s[k].block[1]
                              /\ ds = DeltasAfter(s, k) /\ closed = Closed(s, k)
  OBVIOUS
<1>2. t[k] = s[k] /\ k \in 1..(Len(s) + 1)  BY LongerFacts
<1>3. Closed(t, k) <=> Closed(s, k)  BY StopsGrow
<1>4. Closed(t, k) = closed  BY <1>1, <1>3 DEF Closed, StopBetween
<1>5. IrIndex(t, k) = i  BY <1>1, <1>2, IrIndexGrows
<1>6. DeltaOf(e, Closed(s, k)) = <<>>  BY DEF DeltaOf
<1>7. DeltasAfter(t, k) = ds  BY <1>1, <1>6, DeltasGrow
<1>8. UnitOf(s, k) = UnitFrom(i, b, ds, closed)
  BY <1>1, Zenon DEF UnitOf, UnitFrom
<1>9. UnitOf(t, k) = UnitFrom(IrIndex(t, k), t[k].block[1], DeltasAfter(t, k), Closed(t, k))
  BY Zenon DEF UnitOf, UnitFrom
<1>10. UnitOf(t, k) = UnitFrom(i, b, ds, closed)
  BY <1>1, <1>2, <1>4, <1>5, <1>7, <1>9, Zenon
<1>. QED BY <1>1, <1>3, <1>7, <1>8, <1>10, Zenon

(* More at the end of a unit. *)
LEMMA AroundJoin ==
  ASSUME NEW S, NEW a \in S, NEW x \in Seq(S), NEW y \in Seq(S), NEW z \in S
  PROVE  /\ <<a>> \o (x \o y) \o <<>> = (<<a>> \o x \o <<>>) \o y
         /\ <<a>> \o x \o <<z>> = (<<a>> \o x \o <<>>) \o <<z>>
<1>1. PICK v, w, none : v = <<a>> /\ w = <<z>> /\ none = <<>>  OBVIOUS
<1>2. v \in Seq(S) /\ w \in Seq(S) /\ none \in Seq(S)
  <2>1. <<>> \in Seq(S)  OBVIOUS
  <2>. QED BY <1>1, <2>1
<1>3. \A u \in Seq(S) : u \o none = u  BY <1>1
<1>4. /\ v \o x \in Seq(S) /\ x \o y \in Seq(S) /\ v \o (x \o y) \in Seq(S)
      /\ v \o (x \o y) = (v \o x) \o y
  BY <1>2, JoinAssociates
<1>5. v \o (x \o y) \o none = (v \o x \o none) \o y  BY <1>3, <1>4, Zenon
<1>6. v \o x \o w = (v \o x \o none) \o w  BY <1>3, <1>4, Zenon
<1>. QED BY <1>1, <1>5, <1>6

(* The events of joined deltas are joined. *)
LEMMA DeltaEventsJoin ==
  ASSUME NEW i \in Nat, NEW x \in Seq(Deltas), NEW y \in Seq(Deltas)
  PROVE  /\ DeltaEvents(i, x \o y) = DeltaEvents(i, x) \o DeltaEvents(i, y)
         /\ DeltaEvents(i, x) \in Seq(IrEvents)
<1>1. PICK D, S, z, m, n : D = Deltas /\ S = IrEvents /\ z = x \o y /\ m = Len(x) /\ n = Len(y)
  OBVIOUS
<1>2. /\ z \in Seq(D) /\ m \in Nat /\ n \in Nat /\ Len(z) = m + n
      /\ \A k \in 1..(m + n) : z[k] = IF k <= m THEN x[k] ELSE y[k - m]
  BY <1>1, JoinedAt
<1>3. PICK f, g, h : /\ f = [k \in 1..m |-> BlockDelta(i, x[k])]
                     /\ g = [k \in 1..n |-> BlockDelta(i, y[k])]
                     /\ h = [k \in 1..(m + n) |-> BlockDelta(i, z[k])]
  OBVIOUS
<1>4. \A d \in D : BlockDelta(i, d) \in S  BY <1>1, EventTypes
<1>5. /\ \A k \in 1..m : x[k] \in D
      /\ \A k \in 1..n : y[k] \in D
  BY <1>1
<1>6. /\ f \in Seq(S) /\ g \in Seq(S) /\ Len(f) = m /\ Len(g) = n
      /\ \A k \in 1..m : f[k] = BlockDelta(i, x[k])
      /\ \A k \in 1..n : g[k] = BlockDelta(i, y[k])
  <2>1. /\ \A k \in 1..m : BlockDelta(i, x[k]) \in S
        /\ \A k \in 1..n : BlockDelta(i, y[k]) \in S
    BY <1>4, <1>5
  <2>2. m \in Nat /\ n \in Nat  BY <1>2
  <2>3. f = [k \in 1..m |-> BlockDelta(i, x[k])] /\ g = [k \in 1..n |-> BlockDelta(i, y[k])]
    BY <1>3
  <2>4. f \in Seq(S) /\ Len(f) = m /\ \A k \in 1..m : f[k] = BlockDelta(i, x[k])
    BY <2>1, <2>2, <2>3
  <2>5. g \in Seq(S) /\ Len(g) = n /\ \A k \in 1..n : g[k] = BlockDelta(i, y[k])
    BY <2>1, <2>2, <2>3
  <2>. QED BY <2>4, <2>5
<1>7. PICK j : j = f \o g  OBVIOUS
<1>8. /\ j \in Seq(S) /\ Len(j) = m + n
      /\ \A k \in 1..(m + n) : j[k] = IF k <= m THEN f[k] ELSE g[k - m]
  <2>1. f \in Seq(S) /\ g \in Seq(S) /\ Len(f) = m /\ Len(g) = n  BY <1>6
  <2>. QED BY <1>7, <2>1, JoinedAt
<1>9. ASSUME NEW k \in 1..(m + n)
      PROVE  BlockDelta(i, z[k]) = j[k]
  <2>1. CASE k <= m
    <3>1. k \in 1..m /\ z[k] = x[k] /\ j[k] = f[k]  BY <1>2, <1>8, <2>1
    <3>. QED BY <1>6, <3>1
  <2>2. CASE ~(k <= m)
    <3>1. k - m \in 1..n /\ z[k] = y[k - m] /\ j[k] = g[k - m]
      BY <1>2, <1>8, <2>2
    <3>. QED BY <1>6, <3>1
  <2>. QED BY <2>1, <2>2
<1>10. j = [k \in 1..(m + n) |-> j[k]]  BY <1>2, <1>8
<1>11. h = j  BY <1>3, <1>9, <1>10
<1>12. DeltaEvents(i, x) = f /\ DeltaEvents(i, y) = g /\ DeltaEvents(i, z) = h
  BY <1>1, <1>2, <1>3, Zenon DEF DeltaEvents
<1>. QED BY <1>1, <1>6, <1>7, <1>11, <1>12, Zenon

(* A delta that comes for an open block that is not a tool block. *)
LEMMA PlainGrows ==
  ASSUME NEW s, NEW e, NEW t, Longer(s, e, t), NEW p \in 1..Len(s), ~Closed(s, p),
         s[p].block[1].kind # "tool_use", e.kind = "content_block_delta", e.delta # None
  PROVE  UnitOf(t, p) = UnitOf(s, p) \o DeltaEvents(IrIndex(s, p), CarriedBy(e.delta[1]))
<1>1. PICK i, b, x, ds, c : /\ i = IrIndex(s, p) /\ b = s[p].block[1] /\ x = e.delta[1]
                            /\ ds = DeltasAfter(s, p) /\ c = CarriedBy(x)
  OBVIOUS
<1>2. /\ t[p] = s[p] /\ p \in 1..(Len(s) + 1) /\ e \in Events  BY LongerFacts
<1>3. x \in NativeDeltas /\ e.delta = <<x>>
  <2>1. e.delta \in Option(NativeDeltas)  BY <1>2, WireTypes
  <2>. QED BY <1>1, <2>1 DEF Option, None
<1>4. DeltasAfter(t, p) = Append(ds, x) /\ ds \in Seq(NativeDeltas)
  <2>1. DeltaOf(e, Closed(s, p)) = <<x>>  BY <1>3 DEF DeltaOf
  <2>2. DeltasAfter(t, p) = ds \o <<x>> /\ ds \in Seq(NativeDeltas)
    BY <1>1, <2>1, DeltasGrow
  <2>. QED BY <1>3, <2>2
<1>5. ~Closed(t, p)  BY StopsGrow
<1>6. IrIndex(t, p) = i /\ i \in Nat
  <2>1. IrIndex(t, p) = i  BY <1>1, <1>2, IrIndexGrows
  <2>. QED BY <1>1, <2>1, IrIndexType
<1>7. PICK v : v = PassedBy(ds)  OBVIOUS
<1>8. PassedBy(Append(ds, x)) = v \o c /\ v \in Seq(Deltas) /\ c \in Seq(Deltas)
  BY <1>1, <1>3, <1>4, <1>7, PartsGrow, PartsType, PartType
<1>9. UnitOf(s, p) = PlainUnit(i, b, v, FALSE)
  <2>1. Closed(s, p) = FALSE  BY DEF Closed, StopBetween
  <2>2. UnitOf(s, p) = PlainUnit(IrIndex(s, p), s[p].block[1], PassedBy(DeltasAfter(s, p)), Closed(s, p))
    BY UnitForms
  <2>. QED BY <1>1, <1>7, <2>1, <2>2, Zenon
<1>10. UnitOf(t, p) = PlainUnit(i, b, v \o c, FALSE)
  <2>1. Closed(t, p) = FALSE  BY <1>5 DEF Closed, StopBetween
  <2>2. UnitOf(t, p) = PlainUnit(IrIndex(t, p), t[p].block[1], PassedBy(DeltasAfter(t, p)), Closed(t, p))
    BY <1>2, UnitForms
  <2>. QED BY <1>1, <1>2, <1>4, <1>6, <1>8, <2>1, <2>2, Zenon
<1>11. PICK a, f, g : /\ a = BlockStart(i, PlainBlock(b)) /\ f = DeltaEvents(i, v)
                      /\ g = DeltaEvents(i, c)
  OBVIOUS
<1>12. DeltaEvents(i, v \o c) = f \o g /\ f \in Seq(IrEvents) /\ g \in Seq(IrEvents)
  BY <1>6, <1>8, <1>11, DeltaEventsJoin
<1>13. <<a>> \o (f \o g) \o <<>> = (<<a>> \o f \o <<>>) \o g
  <2>1. PICK S : S = IrEvents \union {a}  OBVIOUS
  <2>2. a \in S /\ f \in Seq(S) /\ g \in Seq(S)  BY <1>12, <2>1
  <2>. QED BY <2>2, AroundJoin
<1>14. /\ UnitOf(s, p) = <<a>> \o f \o <<>>
       /\ UnitOf(t, p) = <<a>> \o (f \o g) \o <<>>
  BY <1>9, <1>10, <1>11, <1>12, Zenon DEF PlainUnit
<1>. QED BY <1>1, <1>11, <1>13, <1>14, Zenon

(* The stop of a block that is not a tool block. *)
LEMMA PlainStops ==
  ASSUME NEW s, NEW e, NEW t, Longer(s, e, t), NEW p \in 1..Len(s), ~Closed(s, p),
         s[p].block[1].kind # "tool_use", e.kind = "content_block_stop"
  PROVE  UnitOf(t, p) = UnitOf(s, p) \o <<BlockStop(IrIndex(s, p))>>
<1>1. PICK i, b, ds, v : /\ i = IrIndex(s, p) /\ b = s[p].block[1]
                         /\ ds = DeltasAfter(s, p) /\ v = PassedBy(ds)
  OBVIOUS
<1>2. /\ t[p] = s[p] /\ p \in 1..(Len(s) + 1) /\ e \in Events  BY LongerFacts
<1>3. DeltasAfter(t, p) = ds /\ ds \in Seq(NativeDeltas)
  <2>1. DeltaOf(e, Closed(s, p)) = <<>>  BY DEF DeltaOf
  <2>2. DeltasAfter(t, p) = ds \o DeltaOf(e, Closed(s, p)) /\ ds \in Seq(NativeDeltas)
    BY <1>1, DeltasGrow
  <2>. QED BY <2>1, <2>2
<1>4. IrIndex(t, p) = i /\ i \in Nat
  <2>1. IrIndex(t, p) = i  BY <1>1, <1>2, IrIndexGrows
  <2>. QED BY <1>1, <2>1, IrIndexType
<1>5. v \in Seq(Deltas)
  <2>1. PassedBy(ds) \in Seq(Deltas)  BY <1>3, PartsType
  <2>. QED BY <1>1, <2>1
<1>6. UnitOf(s, p) = PlainUnit(i, b, v, FALSE)
  <2>1. Closed(s, p) = FALSE  BY DEF Closed, StopBetween
  <2>2. UnitOf(s, p) = PlainUnit(IrIndex(s, p), s[p].block[1], PassedBy(DeltasAfter(s, p)), Closed(s, p))
    BY UnitForms
  <2>. QED BY <1>1, <2>1, <2>2, Zenon
<1>7. UnitOf(t, p) = PlainUnit(i, b, v, TRUE)
  <2>1. Closed(t, p)  BY StopsGrow
  <2>2. Closed(t, p) = TRUE  BY <2>1 DEF Closed, StopBetween
  <2>3. UnitOf(t, p) = PlainUnit(IrIndex(t, p), t[p].block[1], PassedBy(DeltasAfter(t, p)), Closed(t, p))
    BY <1>2, UnitForms
  <2>. QED BY <1>1, <1>2, <1>3, <1>4, <2>2, <2>3, Zenon
<1>8. PICK a, f, z : /\ a = BlockStart(i, PlainBlock(b)) /\ f = DeltaEvents(i, v) /\ z = BlockStop(i)
  OBVIOUS
<1>9. f \in Seq(IrEvents)  BY <1>4, <1>5, <1>8, DeltaEventsJoin
<1>10. <<a>> \o f \o <<z>> = (<<a>> \o f \o <<>>) \o <<z>>
  <2>1. PICK S : S = IrEvents \union {a, z}  OBVIOUS
  <2>2. a \in S /\ f \in Seq(S) /\ z \in S  BY <1>9, <2>1
  <2>. QED BY <2>2, AroundJoin
<1>11. /\ UnitOf(s, p) = <<a>> \o f \o <<>>
       /\ UnitOf(t, p) = <<a>> \o f \o <<z>>
  BY <1>6, <1>7, <1>8, Zenon DEF PlainUnit
<1>. QED BY <1>1, <1>8, <1>10, <1>11, Zenon

(* What a tool block becomes at its stop is what the decoder buffered. *)
LEMMA ToolReadings ==
  ASSUME NEW d \in Decoders, NEW b, NEW deltas,
         d.tool_id = b.id, d.tool_name = b.name, d.tool_input = b.text,
         d.tool_parts = PartsIn(deltas),
         NEW r, r = ToolReading(b, deltas)
  PROVE  ToolUnit(d) = BlockUnit(d.open_ir_index, r.block, r.deltas)
<1>1. PICK i, input, parts :
        /\ i = d.open_ir_index /\ input = FullInput(d)
        /\ parts = IF d.tool_parts = <<>> THEN <<input>> ELSE d.tool_parts
  OBVIOUS
<1>2. input \in Text /\ d.tool_parts \in Seq(Text)
  BY <1>1, FullInputText DEF Decoders
<1>3. parts \in Seq(Text)  BY <1>1, <1>2
<1>4. input = IF PartsIn(deltas) = <<>> THEN b.text ELSE Concat(PartsIn(deltas))
  BY <1>1, Zenon DEF FullInput
<1>5. CASE IsWrapped(input)
  <2>1. PICK text, c : text = Unwrap(input) /\ c = CustomToolUseBlock(d.tool_id, d.tool_name, text)
    OBVIOUS
  <2>2. text \in Text  BY <1>2, <1>5, <2>1, UnwrapText
  <2>3. ToolUnit(d) = BlockUnit(i, c, DeltasOf("custom_tool_input_delta", <<text>>))
    <3>1. ToolUnit(d) = <<BlockStart(i, c), BlockDelta(i, Delta("custom_tool_input_delta", text)),
                          BlockStop(i)>>
      BY <1>1, <1>5, <2>1 DEF ToolUnit
    <3>. QED BY <2>2, <3>1, UnitOfText
  <2>4. r.block = c /\ r.deltas = <<Delta("custom_tool_input_delta", text)>>
    BY <1>4, <1>5, <2>1 DEF ToolReading
  <2>5. DeltasOf("custom_tool_input_delta", <<text>>) = <<Delta("custom_tool_input_delta", text)>>
    BY DEF DeltasOf
  <2>. QED BY <1>1, <2>3, <2>4, <2>5, Zenon
<1>6. CASE ~IsWrapped(input)
  <2>1. PICK c : c = ToolUseBlock(d.tool_id, d.tool_name, input)  OBVIOUS
  <2>2. ToolUnit(d) = BlockUnit(i, c, DeltasOf("input_json_delta", parts))
    <3>1. ToolUnit(d) = <<BlockStart(i, c)>>
            \o [k \in 1..Len(parts) |-> BlockDelta(i, Delta("input_json_delta", parts[k]))]
            \o <<BlockStop(i)>>
      BY <1>1, <1>6, <2>1 DEF ToolUnit
    <3>. QED BY <1>3, <3>1, UnitOfTexts
  <2>3. PICK type : type = "input_json_delta"  OBVIOUS
  <2>4. /\ r.block = c
        /\ r.deltas = IF d.tool_parts = <<>> THEN <<Delta(type, input)>>
                      ELSE DeltasOf(type, d.tool_parts)
    BY <1>4, <1>6, <2>1, <2>3 DEF ToolReading, DeltasOf
  <2>5. DeltasOf(type, <<input>>) = <<Delta(type, input)>>  BY DEF DeltasOf
  <2>6. r.deltas = DeltasOf(type, parts)  BY <1>1, <2>4, <2>5, Zenon
  <2>. QED BY <1>1, <2>2, <2>3, <2>4, <2>6, Zenon
<1>. QED BY <1>5, <1>6

(* At its stop a tool block comes as ToolUnit makes it. *)
LEMMA ToolStopsWhole ==
  ASSUME NEW s, NEW e, NEW t, Longer(s, e, t), NEW p \in 1..Len(s), ~Closed(s, p),
         s[p].block[1].kind = "tool_use", e.kind = "content_block_stop",
         NEW d \in Decoders, d.open_ir_index = IrIndex(s, p),
         d.tool_id = s[p].block[1].id, d.tool_name = s[p].block[1].name,
         d.tool_input = s[p].block[1].text, d.tool_parts = PartsIn(DeltasAfter(s, p))
  PROVE  UnitOf(t, p) = ToolUnit(d)
<1>1. PICK i, b, ds : i = IrIndex(s, p) /\ b = s[p].block[1] /\ ds = DeltasAfter(s, p)
  OBVIOUS
<1>2. /\ t[p] = s[p] /\ p \in 1..(Len(s) + 1) /\ e \in Events  BY LongerFacts
<1>3. DeltasAfter(t, p) = ds
  <2>1. DeltaOf(e, Closed(s, p)) = <<>>  BY DEF DeltaOf
  <2>2. DeltasAfter(t, p) = ds \o DeltaOf(e, Closed(s, p)) /\ ds \in Seq(NativeDeltas)
    BY <1>1, DeltasGrow
  <2>. QED BY <2>1, <2>2
<1>4. IrIndex(t, p) = i  BY <1>1, <1>2, IrIndexGrows
<1>5. Closed(t, p)  BY StopsGrow
<1>6. PICK r : /\ r = ToolReading(t[p].block[1], DeltasAfter(t, p))
               /\ UnitOf(t, p) = BlockUnit(IrIndex(t, p), r.block, r.deltas)
  BY <1>2, <1>5, UnitForms
<1>7. r = ToolReading(b, ds) /\ UnitOf(t, p) = BlockUnit(i, r.block, r.deltas)
  BY <1>1, <1>2, <1>3, <1>4, <1>6, Zenon
<1>8. ToolUnit(d) = BlockUnit(d.open_ir_index, r.block, r.deltas)
  BY <1>1, <1>7, ToolReadings
<1>. QED BY <1>1, <1>7, <1>8, Zenon

(* An open tool block gives nothing yet. *)
LEMMA ToolWaits ==
  ASSUME NEW s, NEW e, NEW t, Longer(s, e, t), NEW p \in 1..Len(s), ~Closed(s, p),
         s[p].block[1].kind = "tool_use", e.kind # "content_block_stop"
  PROVE  UnitOf(s, p) = <<>> /\ UnitOf(t, p) = <<>>
<1>1. t[p] = s[p]  BY LongerFacts
<1>2. ~Closed(t, p)  BY StopsGrow
<1>. QED BY <1>1, <1>2, UnitForms

-----------------------------------------------------------------------------
(* What the decoder remembers of the history *)

(* The block started at p is the one that is open, and no block or message
   has started since. *)
OpenedAt(d, s, p) ==
  LET b == s[p].block[1]
  IN  /\ KeptStart(s[p]) /\ ~Closed(s, p)
      /\ \A k \in 1..Len(s) : KeptStart(s[k]) /\ k # p => k < p /\ Closed(s, k)
      /\ \A k \in (p + 1)..Len(s) : s[k].kind # "message_start"
      /\ d.open = OpenName(b.kind)
      /\ d.open_ir_index = IrIndex(s, p)
      /\ b.kind = "tool_use" =>
           /\ d.tool_id = b.id /\ d.tool_name = b.name /\ d.tool_input = b.text
           /\ d.tool_parts = PartsIn(DeltasAfter(s, p))

BlocksKnown(d, s) ==
  /\ d.next_ir_index = IrIndex(s, Len(s) + 1)
  /\ ~d.started => d.open = "none"
  /\ d.open = "none" => \A k \in 1..Len(s) : KeptStart(s[k]) => Closed(s, k)
  /\ d.open # "none" => \E p \in 1..Len(s) : OpenedAt(d, s, p)

LastUsage(s) == LET us == UsagesIn(s) IN IF us = <<>> THEN NoUsage ELSE us[Len(us)]
LastTerminal(s) == LET ts == TerminalsIn(s) IN ts[Len(ts)]

EndKnown(d, s) ==
  /\ ~d.stopped => \A k \in 1..Len(s) : s[k].kind # "message_stop"
  /\ d.usage = LastUsage(s)
  /\ d.delta_seen => /\ d.stop = StopOf(LastTerminal(s).stop_reason)
                     /\ d.stop_seq = LastTerminal(s).stop_sequence

Rendered(s) == [k \in 1..Len(s) |-> OutputOf(s, k)]

Said(d, s) ==
  /\ \A k \in 1..Len(s) : OutputOf(s, k) \in Seq(IrEvents)
  /\ d.events = Concat(Rendered(s))
SameBlock(d, o) ==
  /\ d.next_ir_index = o.next_ir_index
  /\ d.open = o.open /\ d.open_ir_index = o.open_ir_index
  /\ d.tool_id = o.tool_id /\ d.tool_name = o.tool_name /\ d.tool_input = o.tool_input
  /\ d.tool_parts = o.tool_parts

(* An event that does not touch the open block. *)
LEMMA BlocksStay ==
  ASSUME NEW s, NEW e, NEW t, Longer(s, e, t), NEW d, NEW o, BlocksKnown(o, s), SameBlock(d, o),
         ~d.started => d.open = "none", ~KeptStart(e),
         e.kind \in {"message_start", "content_block_delta", "content_block_stop"}
           => o.open = "none"
  PROVE  BlocksKnown(d, t)
<1>1. PICK l : l = Len(s)  OBVIOUS
<1>2. /\ l \in Nat /\ Len(t) = l + 1 /\ t[l + 1] = e /\ \A k \in 1..l : t[k] = s[k]
      /\ \A k \in 1..(l + 1) : k \in 1..l \/ k = l + 1
  BY <1>1, LongerFacts
<1>3. d.next_ir_index = IrIndex(t, Len(t) + 1)
  <2>1. IrIndex(t, Len(t) + 1) = IrIndex(s, l + 1) + 0 /\ IrIndex(s, l + 1) \in Nat
    BY <1>1, IrIndexGrows
  <2>. QED BY <1>1, <2>1 DEF SameBlock, BlocksKnown
<1>4. CASE o.open = "none"
  <2>1. \A k \in 1..Len(t) : KeptStart(t[k]) => Closed(t, k)
    <3>1. ASSUME NEW k \in 1..l, KeptStart(s[k])
          PROVE  Closed(t, k)
      <4>1. Closed(s, k)  BY <1>1, <1>4, <3>1 DEF BlocksKnown
      <4>. QED BY <1>1, <4>1, StopsGrow
    <3>. QED BY <1>2, <3>1
  <2>. QED BY <1>3, <1>4, <2>1 DEF BlocksKnown, SameBlock
<1>5. CASE o.open # "none"
  <2>1. PICK p \in 1..l : OpenedAt(o, s, p)  BY <1>1, <1>5 DEF BlocksKnown
  <2>2. e.kind \notin {"message_start", "content_block_delta", "content_block_stop"}
    BY <1>5
  <2>3. t[p] = s[p] /\ p \in 1..(Len(s) + 1) /\ p \in 1..Len(t)  BY <1>1, <1>2
  <2>4. \A k \in 1..l : Closed(t, k) <=> Closed(s, k)  BY <1>1, <2>2, StopsGrow
  <2>5. DeltasAfter(t, p) = DeltasAfter(s, p)  BY <1>1, <2>2, UnitStays
  <2>6. IrIndex(t, p) = IrIndex(s, p)  BY <2>3, IrIndexGrows
  <2>7. OpenedAt(d, t, p)
    <3>1. KeptStart(t[p]) /\ ~Closed(t, p)  BY <2>1, <2>3, <2>4 DEF OpenedAt
    <3>2. \A k \in 1..Len(t) : KeptStart(t[k]) /\ k # p => k < p /\ Closed(t, k)
      BY <1>1, <1>2, <2>1, <2>4 DEF OpenedAt
    <3>3. \A k \in (p + 1)..Len(t) : t[k].kind # "message_start"
      <4>1. \A k \in (p + 1)..Len(t) : k = l + 1 \/ (k \in (p + 1)..l /\ k \in 1..l)
        BY <1>2
      <4>. QED BY <1>1, <1>2, <2>1, <2>2, <4>1 DEF OpenedAt
    <3>4. /\ o.open = OpenName(s[p].block[1].kind) /\ o.open_ir_index = IrIndex(s, p)
          /\ s[p].block[1].kind = "tool_use" =>
               /\ o.tool_id = s[p].block[1].id /\ o.tool_name = s[p].block[1].name
               /\ o.tool_input = s[p].block[1].text
               /\ o.tool_parts = PartsIn(DeltasAfter(s, p))
      BY <2>1, Zenon DEF OpenedAt
    <3>5. /\ d.open = OpenName(t[p].block[1].kind) /\ d.open_ir_index = IrIndex(t, p)
          /\ t[p].block[1].kind = "tool_use" =>
               /\ d.tool_id = t[p].block[1].id /\ d.tool_name = t[p].block[1].name
               /\ d.tool_input = t[p].block[1].text
               /\ d.tool_parts = PartsIn(DeltasAfter(t, p))
      BY <2>3, <2>5, <2>6, <3>4, Zenon DEF SameBlock
    <3>. QED BY <3>1, <3>2, <3>3, <3>5, Zenon DEF OpenedAt
  <2>8. d.open # "none" /\ d.started  BY <1>5 DEF SameBlock
  <2>. QED BY <1>3, <2>3, <2>7, <2>8 DEF BlocksKnown
<1>. QED BY <1>4, <1>5

(* A block that opens. *)
LEMMA BlocksOpen ==
  ASSUME NEW s, NEW e, NEW t, Longer(s, e, t), NEW d, NEW o, BlocksKnown(o, s),
         o.open = "none", KeptStart(e), d.started, d.next_ir_index = o.next_ir_index + 1,
         d.open = OpenName(e.block[1].kind), d.open_ir_index = o.next_ir_index,
         e.block[1].kind = "tool_use" =>
           /\ d.tool_id = e.block[1].id /\ d.tool_name = e.block[1].name
           /\ d.tool_input = e.block[1].text /\ d.tool_parts = <<>>
  PROVE  BlocksKnown(d, t)
<1>1. PICK l, p : l = Len(s) /\ p = l + 1  OBVIOUS
<1>2. /\ l \in Nat /\ Len(t) = p /\ t[p] = e /\ \A k \in 1..l : t[k] = s[k]
      /\ \A k \in 1..p : k \in 1..l \/ k = p
      /\ p \in 1..p /\ \A k \in 1..l : k < p
  BY <1>1, LongerFacts
<1>3. d.next_ir_index = IrIndex(t, Len(t) + 1)
  <2>1. IrIndex(t, Len(t) + 1) = IrIndex(s, l + 1) + 1  BY <1>1, IrIndexGrows
  <2>. QED BY <1>1, <2>1 DEF BlocksKnown
<1>4. ~Closed(t, p) /\ DeltasAfter(t, p) = <<>>  BY <1>1, LastIsOpen
<1>5. \A k \in 1..Len(t) : KeptStart(t[k]) /\ k # p => k < p /\ Closed(t, k)
  <2>1. ASSUME NEW k \in 1..l, KeptStart(s[k])
        PROVE  Closed(t, k)
    <3>1. Closed(s, k)  BY <1>1, <2>1 DEF BlocksKnown
    <3>. QED BY <1>1, <3>1, StopsGrow
  <2>. QED BY <1>2, <2>1
<1>6. IrIndex(t, p) = o.next_ir_index
  <2>1. p \in 1..(Len(s) + 1)  BY <1>1, <1>2
  <2>2. IrIndex(t, p) = IrIndex(s, p)  BY <2>1, IrIndexGrows
  <2>. QED BY <1>1, <2>2 DEF BlocksKnown
<1>7. \A k \in (p + 1)..Len(t) : t[k].kind # "message_start"  BY <1>1, <1>2
<1>8. OpenedAt(d, t, p)
  <2>1. PartsIn(DeltasAfter(t, p)) = <<>>  BY <1>4, PartsNone, Zenon
  <2>2. /\ d.open = OpenName(t[p].block[1].kind) /\ d.open_ir_index = IrIndex(t, p)
        /\ t[p].block[1].kind = "tool_use" =>
             /\ d.tool_id = t[p].block[1].id /\ d.tool_name = t[p].block[1].name
             /\ d.tool_input = t[p].block[1].text
             /\ d.tool_parts = PartsIn(DeltasAfter(t, p))
    BY <1>2, <1>6, <2>1, Zenon
  <2>3. KeptStart(t[p])  BY <1>2
  <2>. QED BY <1>4, <1>5, <1>7, <2>2, <2>3, Zenon DEF OpenedAt
<1>9. d.open # "none"  BY DEF KeptStart, SupportedKinds, OpenName
<1>. QED BY <1>2, <1>3, <1>8, <1>9 DEF BlocksKnown

(* A delta for the open block. *)
LEMMA BlocksGrow ==
  ASSUME NEW s, NEW e, NEW t, Longer(s, e, t), NEW d, NEW o, BlocksKnown(o, s),
         NEW p \in 1..Len(s), OpenedAt(o, s, p),
         e.kind = "content_block_delta", e.delta # None,
         d.started, o.open # "none", d.next_ir_index = o.next_ir_index,
         d.open = o.open, d.open_ir_index = o.open_ir_index,
         d.tool_id = o.tool_id, d.tool_name = o.tool_name, d.tool_input = o.tool_input,
         s[p].block[1].kind = "tool_use" => d.tool_parts = o.tool_parts \o PartOf(e.delta[1])
  PROVE  BlocksKnown(d, t)
<1>1. PICK l : l = Len(s)  OBVIOUS
<1>2. /\ l \in Nat /\ Len(t) = l + 1 /\ t[l + 1] = e /\ \A k \in 1..l : t[k] = s[k]
      /\ \A k \in 1..(l + 1) : k \in 1..l \/ k = l + 1
      /\ t[p] = s[p] /\ p \in 1..(Len(s) + 1) /\ p \in 1..Len(t) /\ e \in Events
  BY <1>1, LongerFacts
<1>3. ~KeptStart(e)  BY DEF KeptStart
<1>4. d.next_ir_index = IrIndex(t, Len(t) + 1)
  <2>1. IrIndex(t, Len(t) + 1) = IrIndex(s, l + 1) + 0 /\ IrIndex(s, l + 1) \in Nat
    BY <1>1, <1>3, IrIndexGrows
  <2>. QED BY <1>1, <2>1 DEF BlocksKnown
<1>5. \A k \in 1..l : Closed(t, k) <=> Closed(s, k)  BY <1>1, StopsGrow
<1>6. KeptStart(t[p]) /\ ~Closed(t, p) /\ ~Closed(s, p)
  BY <1>1, <1>2, <1>5 DEF OpenedAt
<1>7. \A k \in 1..Len(t) : KeptStart(t[k]) /\ k # p => k < p /\ Closed(t, k)
  BY <1>1, <1>2, <1>3, <1>5 DEF OpenedAt
<1>8. \A k \in (p + 1)..Len(t) : t[k].kind # "message_start"
  <2>1. \A k \in (p + 1)..Len(t) : k = l + 1 \/ (k \in (p + 1)..l /\ k \in 1..l)
    BY <1>1, <1>2
  <2>. QED BY <1>1, <1>2, <2>1 DEF OpenedAt
<1>9. IrIndex(t, p) = IrIndex(s, p)  BY <1>2, IrIndexGrows
<1>10. PartsIn(DeltasAfter(t, p)) = PartsIn(DeltasAfter(s, p)) \o PartOf(e.delta[1])
  <2>1. PICK x, ds : x = e.delta[1] /\ ds = DeltasAfter(s, p)  OBVIOUS
  <2>2. x \in NativeDeltas /\ e.delta = <<x>>
    <3>1. e.delta \in Option(NativeDeltas)  BY <1>2, WireTypes
    <3>. QED BY <2>1, <3>1 DEF Option, None
  <2>3. DeltaOf(e, Closed(s, p)) = <<x>>  BY <1>6, <2>2 DEF DeltaOf
  <2>4. DeltasAfter(t, p) = ds \o <<x>> /\ ds \in Seq(NativeDeltas)
    BY <2>1, <2>3, DeltasGrow
  <2>5. DeltasAfter(t, p) = Append(ds, x)  BY <2>2, <2>4
  <2>. QED BY <2>1, <2>2, <2>4, <2>5, PartsGrow
<1>11. OpenedAt(d, t, p)
  <2>1. /\ o.open = OpenName(s[p].block[1].kind) /\ o.open_ir_index = IrIndex(s, p)
        /\ s[p].block[1].kind = "tool_use" =>
             /\ o.tool_id = s[p].block[1].id /\ o.tool_name = s[p].block[1].name
             /\ o.tool_input = s[p].block[1].text
             /\ o.tool_parts = PartsIn(DeltasAfter(s, p))
    BY Zenon DEF OpenedAt
  <2>2. /\ d.open = OpenName(t[p].block[1].kind) /\ d.open_ir_index = IrIndex(t, p)
        /\ t[p].block[1].kind = "tool_use" =>
             /\ d.tool_id = t[p].block[1].id /\ d.tool_name = t[p].block[1].name
             /\ d.tool_input = t[p].block[1].text
             /\ d.tool_parts = PartsIn(DeltasAfter(t, p))
    BY <1>2, <1>9, <1>10, <2>1, Zenon
  <2>. QED BY <1>6, <1>7, <1>8, <2>2, Zenon DEF OpenedAt
<1>. QED BY <1>2, <1>4, <1>11 DEF BlocksKnown

(* The open block stops. *)
LEMMA BlocksStop ==
  ASSUME NEW s, NEW e, NEW t, Longer(s, e, t), NEW d, NEW o, BlocksKnown(o, s),
         e.kind = "content_block_stop", d.open = "none", d.next_ir_index = o.next_ir_index
  PROVE  BlocksKnown(d, t)
<1>1. PICK l : l = Len(s)  OBVIOUS
<1>2. /\ l \in Nat /\ Len(t) = l + 1 /\ t[l + 1] = e /\ \A k \in 1..l : t[k] = s[k]
      /\ \A k \in 1..(l + 1) : k \in 1..l \/ k = l + 1
  BY <1>1, LongerFacts
<1>3. ~KeptStart(e)  BY DEF KeptStart
<1>4. d.next_ir_index = IrIndex(t, Len(t) + 1)
  <2>1. IrIndex(t, Len(t) + 1) = IrIndex(s, l + 1) + 0 /\ IrIndex(s, l + 1) \in Nat
    BY <1>1, <1>3, IrIndexGrows
  <2>. QED BY <1>1, <2>1 DEF BlocksKnown
<1>5. \A k \in 1..Len(t) : KeptStart(t[k]) => Closed(t, k)
  <2>1. \A k \in 1..l : Closed(t, k)  BY <1>1, StopsGrow
  <2>. QED BY <1>2, <1>3, <2>1
<1>. QED BY <1>4, <1>5 DEF BlocksKnown

(* What the message_deltas carry. *)
TerminalAt(e) == IF e.kind = "message_delta" THEN e.delta ELSE <<>>
UsageAt(e) == IF e.kind = "message_delta" THEN e.usage ELSE <<>>

(* A message_delta adds its terminal and its usage. *)
LEMMA TerminalsGrow ==
  ASSUME NEW s, NEW e, NEW t, Longer(s, e, t)
  PROVE  /\ TerminalsIn(t) = TerminalsIn(s) \o TerminalAt(e)
         /\ UsagesIn(t) = UsagesIn(s) \o UsageAt(e)
         /\ TerminalsIn(s) \in Seq(Terminals) /\ UsagesIn(s) \in Seq(Usages)
<1>1. PICK S, T, U : S = Events /\ T = Terminals /\ U = Usages  OBVIOUS
<1>2. PICK F, G : F = [x \in S |-> TerminalAt(x)] /\ G = [x \in S |-> UsageAt(x)]
  OBVIOUS
<1>3. F \in Sayings(S, T) /\ G \in Sayings(S, U)
  <2>1. ASSUME NEW x \in S
        PROVE  TerminalAt(x) \in Seq(T) /\ UsageAt(x) \in Seq(U)
    <3>1. <<>> \in Seq(T) /\ <<>> \in Seq(U)  OBVIOUS
    <3>2. x.kind = "message_delta" => x.delta \in Seq(T) /\ x.usage \in Seq(U)
      BY <1>1, WireTypes DEF Option
    <3>. QED BY <3>1, <3>2 DEF TerminalAt, UsageAt
  <2>. QED BY <1>2, <2>1 DEF Sayings
<1>4. s \in Seq(S) /\ e \in S /\ t = Append(s, e) /\ t \in Seq(S)
  BY <1>1, LongerFacts DEF Longer
<1>5. ASSUME NEW u \in Seq(S)
      PROVE  TerminalsIn(u) = JoinOf(F, u) /\ UsagesIn(u) = JoinOf(G, u)
  <2>1. \A n \in 1..Len(u) : F[u[n]] = TerminalAt(u[n]) /\ G[u[n]] = UsageAt(u[n])
    BY <1>2
  <2>2. [n \in 1..Len(u) |-> F[u[n]]] = [n \in 1..Len(u) |-> TerminalAt(u[n])]
    BY <2>1
  <2>3. [n \in 1..Len(u) |-> G[u[n]]] = [n \in 1..Len(u) |-> UsageAt(u[n])]
    BY <2>1
  <2>. QED BY <2>2, <2>3, Zenon DEF TerminalsIn, UsagesIn, JoinOf, TerminalAt, UsageAt
<1>6. JoinOf(F, Append(s, e)) = JoinOf(F, s) \o F[e] /\ JoinOf(F, s) \in Seq(T)
  BY <1>3, <1>4, JoinOfMore
<1>7. JoinOf(G, Append(s, e)) = JoinOf(G, s) \o G[e] /\ JoinOf(G, s) \in Seq(U)
  BY <1>3, <1>4, JoinOfMore
<1>8. F[e] = TerminalAt(e) /\ G[e] = UsageAt(e)  BY <1>2, <1>4
<1>. QED BY <1>1, <1>4, <1>5, <1>6, <1>7, <1>8

(* An event that is no message_delta. *)
LEMMA EndStays ==
  ASSUME NEW s, NEW e, NEW t, Longer(s, e, t), NEW d, NEW o, EndKnown(o, s),
         e.kind # "message_delta", ~d.stopped => ~o.stopped /\ e.kind # "message_stop",
         d.usage = o.usage, d.stop = o.stop, d.stop_seq = o.stop_seq,
         d.delta_seen = o.delta_seen
  PROVE  EndKnown(d, t)
<1>1. TerminalAt(e) = <<>> /\ UsageAt(e) = <<>>  BY DEF TerminalAt, UsageAt
<1>2. /\ TerminalsIn(t) = TerminalsIn(s) \o TerminalAt(e)
      /\ UsagesIn(t) = UsagesIn(s) \o UsageAt(e)
      /\ TerminalsIn(s) \in Seq(Terminals) /\ UsagesIn(s) \in Seq(Usages)
  BY TerminalsGrow
<1>3. PICK a, b : a = TerminalsIn(s) /\ b = UsagesIn(s)  OBVIOUS
<1>4. a \o <<>> = a /\ b \o <<>> = b  BY <1>2, <1>3
<1>5. TerminalsIn(t) = TerminalsIn(s) /\ UsagesIn(t) = UsagesIn(s)
  BY <1>1, <1>2, <1>3, <1>4, Zenon
<1>6. LastTerminal(t) = LastTerminal(s) /\ LastUsage(t) = LastUsage(s)
  BY <1>5, Zenon DEF LastTerminal, LastUsage
<1>7. ~d.stopped => \A k \in 1..Len(t) : t[k].kind # "message_stop"
  <2>1. /\ Len(s) \in Nat /\ Len(t) = Len(s) + 1 /\ t[Len(s) + 1] = e
        /\ \A k \in 1..Len(s) : t[k] = s[k]
    BY LongerFacts
  <2>2. \A k \in 1..Len(t) : k \in 1..Len(s) \/ k = Len(s) + 1  BY <2>1
  <2>. QED BY <2>1, <2>2 DEF EndKnown
<1>. QED BY <1>6, <1>7, Zenon DEF EndKnown

(* A message_delta. *)
LEMMA EndChanges ==
  ASSUME NEW s, NEW e, NEW t, Longer(s, e, t), NEW d, NEW o, EndKnown(o, s),
         e.kind = "message_delta", e.delta # None, ~o.stopped,
         d.usage = IF e.usage = None THEN o.usage ELSE e.usage[1],
         d.stop = StopOf(e.delta[1].stop_reason), d.stop_seq = e.delta[1].stop_sequence
  PROVE  EndKnown(d, t)
<1>1. e.delta \in Option(Terminals) /\ e.usage \in Option(Usages)
  BY WireTypes, LongerFacts
<1>2. PICK x, a, b : x = e.delta[1] /\ a = TerminalsIn(s) /\ b = UsagesIn(s)
  OBVIOUS
<1>3. /\ TerminalsIn(t) = a \o TerminalAt(e) /\ UsagesIn(t) = b \o UsageAt(e)
      /\ a \in Seq(Terminals) /\ b \in Seq(Usages)
  BY <1>2, TerminalsGrow
<1>4. TerminalAt(e) = <<x>> /\ x \in Terminals
  BY <1>1, <1>2 DEF TerminalAt, Option, None
<1>5. LastTerminal(t) = x
  <2>1. PICK c : c = TerminalsIn(t)  OBVIOUS
  <2>2. c = a \o <<x>>  BY <1>3, <1>4, <2>1
  <2>3. c[Len(c)] = x  BY <1>3, <1>4, <2>2
  <2>. QED BY <2>1, <2>3 DEF LastTerminal
<1>6. LastUsage(t) = d.usage
  <2>1. CASE e.usage = None
    <3>1. UsageAt(e) = <<>>  BY <2>1 DEF UsageAt, None
    <3>2. b \o <<>> = b  BY <1>3
    <3>3. UsagesIn(t) = UsagesIn(s)  BY <1>2, <1>3, <3>1, <3>2
    <3>4. LastUsage(t) = LastUsage(s)  BY <3>3, Zenon DEF LastUsage
    <3>. QED BY <2>1, <3>4 DEF EndKnown
  <2>2. CASE e.usage # None
    <3>1. PICK u : u = e.usage[1]  OBVIOUS
    <3>2. UsageAt(e) = <<u>> /\ u \in Usages
      BY <1>1, <2>2, <3>1 DEF UsageAt, Option, None
    <3>3. PICK c : c = UsagesIn(t)  OBVIOUS
    <3>4. c = b \o <<u>>  BY <1>3, <3>2, <3>3
    <3>5. c # <<>> /\ c[Len(c)] = u  BY <1>3, <3>2, <3>4
    <3>6. LastUsage(t) = u  BY <3>3, <3>5 DEF LastUsage
    <3>. QED BY <2>2, <3>1, <3>6
  <2>. QED BY <2>1, <2>2
<1>7. \A k \in 1..Len(t) : t[k].kind # "message_stop"
  <2>1. /\ Len(s) \in Nat /\ Len(t) = Len(s) + 1 /\ t[Len(s) + 1] = e
        /\ \A k \in 1..Len(s) : t[k] = s[k]
    BY LongerFacts
  <2>2. \A k \in 1..Len(t) : k \in 1..Len(s) \/ k = Len(s) + 1  BY <2>1
  <2>. QED BY <2>1, <2>2 DEF EndKnown
<1>. QED BY <1>2, <1>5, <1>6, <1>7, Zenon DEF EndKnown

(* What the events of each kind give. *)
LEMMA OutputForms ==
  ASSUME NEW s, NEW k
  PROVE  /\ s[k].kind = "message_start" => OutputOf(s, k) = <<MessageStart>>
         /\ KeptStart(s[k]) => OutputOf(s, k) = UnitOf(s, k)
         /\ s[k].kind = "message_stop" => OutputOf(s, k) = TerminalPair(s)
         /\ s[k].kind \notin {"message_start", "message_stop"} /\ ~KeptStart(s[k])
              => OutputOf(s, k) = <<>>
<1>1. KeptStart(s[k]) => s[k].kind \notin {"message_start", "message_stop"}
  BY DEF KeptStart
<1>. QED BY <1>1 DEF OutputOf

(* The outputs of a history that goes on: all but that of p stay. *)
LEMMA OutputsStay ==
  ASSUME NEW s, NEW e, NEW t, Longer(s, e, t), NEW k \in 1..Len(s),
         s[k].kind # "message_stop",
         KeptStart(s[k]) =>
           Closed(s, k) \/ e.kind \notin {"content_block_delta", "content_block_stop"}
  PROVE  OutputOf(t, k) = OutputOf(s, k)
<1>1. t[k] = s[k]  BY LongerFacts
<1>2. CASE KeptStart(s[k])
  <2>1. UnitOf(t, k) = UnitOf(s, k)  BY <1>2, UnitStays
  <2>. QED BY <1>1, <1>2, <2>1, OutputForms
<1>3. CASE ~KeptStart(s[k])  BY <1>1, <1>3, OutputForms
<1>. QED BY <1>2, <1>3

(* The last event adds its own output. *)
LEMMA SaidMore ==
  ASSUME NEW s, NEW e, NEW t, Longer(s, e, t), NEW d, NEW o, Said(o, s),
         NEW u \in Seq(IrEvents), OutputOf(t, Len(s) + 1) = u, d.events = o.events \o u,
         \A k \in 1..Len(s) : OutputOf(t, k) = OutputOf(s, k)
  PROVE  Said(d, t)
<1>1. PICK l, S, f, g : /\ l = Len(s) /\ S = IrEvents /\ f = Rendered(s) /\ g = Rendered(t)
  OBVIOUS
<1>2. l \in Nat /\ Len(t) = l + 1 /\ \A k \in 1..(l + 1) : k \in 1..l \/ k = l + 1
  BY <1>1, LongerFacts
<1>3. /\ \A k \in 1..l : f[k] = OutputOf(s, k) /\ f[k] \in Seq(S)
      /\ \A k \in 1..(l + 1) : g[k] = OutputOf(t, k)
      /\ f = [k \in 1..l |-> OutputOf(s, k)] /\ g = [k \in 1..(l + 1) |-> OutputOf(t, k)]
  BY <1>1, <1>2 DEF Rendered, Said
<1>4. \A k \in 1..(l + 1) : OutputOf(t, k) \in Seq(S)  BY <1>1, <1>2, <1>3
<1>5. f \in [1..l -> Seq(S)] /\ g \in [1..(l + 1) -> Seq(S)] /\ \A k \in 1..l : g[k] = f[k]
  <2>1. \A k \in 1..l : k \in 1..(l + 1)  BY <1>2
  <2>. QED BY <1>1, <1>3, <1>4, <2>1
<1>6. Concat(g) = Concat(f) \o g[l + 1]  BY <1>2, <1>5, ConcatGrows, Zenon
<1>7. g[l + 1] = u
  <2>1. l + 1 \in 1..(l + 1)  BY <1>2
  <2>. QED BY <1>1, <1>3, <2>1
<1>8. d.events = Concat(g)  BY <1>1, <1>6, <1>7, Zenon DEF Said
<1>. QED BY <1>1, <1>2, <1>4, <1>8 DEF Said

(* The output of p goes on, and nothing else comes. *)
LEMMA SaidLater ==
  ASSUME NEW s, NEW e, NEW t, Longer(s, e, t), NEW d, NEW o, Said(o, s),
         NEW u \in Seq(IrEvents), NEW p \in 1..Len(s),
         OutputOf(t, p) = OutputOf(s, p) \o u, OutputOf(t, Len(s) + 1) = <<>>,
         d.events = o.events \o u,
         \A k \in 1..Len(s) : k # p => OutputOf(t, k) = OutputOf(s, k),
         \A k \in 1..Len(s) : p < k => OutputOf(s, k) = <<>>
  PROVE  Said(d, t)
<1>1. PICK l, S, f, g : /\ l = Len(s) /\ S = IrEvents /\ f = Rendered(s) /\ g = Rendered(t)
  OBVIOUS
<1>2. l \in Nat /\ Len(t) = l + 1 /\ \A k \in 1..(l + 1) : k \in 1..l \/ k = l + 1
  BY <1>1, LongerFacts
<1>3. /\ \A k \in 1..l : f[k] = OutputOf(s, k) /\ f[k] \in Seq(S)
      /\ \A k \in 1..(l + 1) : g[k] = OutputOf(t, k)
      /\ f = [k \in 1..l |-> OutputOf(s, k)] /\ g = [k \in 1..(l + 1) |-> OutputOf(t, k)]
  BY <1>1, <1>2 DEF Rendered, Said
<1>4. PICK none : none = <<>> /\ none \in Seq(S)
  <2>1. <<>> \in Seq(S)  OBVIOUS
  <2>. QED BY <2>1
<1>5. OutputOf(t, p) \in Seq(S) /\ u \in Seq(S) /\ p \in 1..l
  <2>1. PICK x : x = OutputOf(s, p) /\ x \in Seq(S)  BY <1>1, <1>3
  <2>2. x \o u \in Seq(S)  BY <1>1, <2>1
  <2>. QED BY <1>1, <2>1, <2>2
<1>6. \A k \in 1..(l + 1) : OutputOf(t, k) \in Seq(S)
  <2>1. ASSUME NEW k \in 1..(l + 1)
        PROVE  OutputOf(t, k) \in Seq(S)
    <3>1. CASE k = p  BY <1>5, <3>1
    <3>2. CASE k = l + 1  BY <1>1, <1>4, <3>2
    <3>3. CASE k # p /\ k \in 1..l  BY <1>1, <1>3, <3>3
    <3>. QED BY <1>2, <3>1, <3>2, <3>3
  <2>. QED BY <2>1
<1>7. PICK h : h = [k \in 1..l |-> OutputOf(t, k)]  OBVIOUS
<1>8. /\ f \in [1..l -> Seq(S)] /\ h \in [1..l -> Seq(S)] /\ g \in [1..(l + 1) -> Seq(S)]
      /\ \A k \in 1..l : g[k] = h[k]
  <2>1. \A k \in 1..l : k \in 1..(l + 1)  BY <1>2
  <2>2. f \in [1..l -> Seq(S)]  BY <1>3
  <2>3. h \in [1..l -> Seq(S)]  BY <1>6, <1>7, <2>1
  <2>4. g \in [1..(l + 1) -> Seq(S)]  BY <1>3, <1>6
  <2>. QED BY <1>3, <1>7, <2>1, <2>2, <2>3, <2>4
<1>9. /\ h[p] = f[p] \o u
      /\ \A k \in 1..l : k # p => h[k] = f[k]
      /\ \A k \in 1..l : p < k => f[k] = <<>>
  BY <1>1, <1>3, <1>5, <1>7
<1>10. Concat(h) = Concat(f) \o u  BY <1>2, <1>5, <1>8, <1>9, ConcatLate, Zenon
<1>11. Concat(g) = Concat(h) \o g[l + 1]  BY <1>2, <1>8, ConcatGrows, Zenon
<1>12. g[l + 1] = <<>>
  <2>1. l + 1 \in 1..(l + 1)  BY <1>2
  <2>. QED BY <1>1, <1>3, <2>1
<1>13. Concat(h) \in Seq(S)
  <2>1. h \in Seq(Seq(S))
    <3>1. PICK T : T = Seq(S)  OBVIOUS
    <3>. QED BY <1>2, <1>8, <3>1
  <2>. QED BY <2>1, ConcatText
<1>14. Concat(g) = Concat(h)
  <2>1. PICK c : c = Concat(h)  OBVIOUS
  <2>2. c \o <<>> = c  BY <1>13, <2>1
  <2>. QED BY <1>11, <1>12, <2>1, <2>2, Zenon
<1>15. d.events = Concat(g)  BY <1>1, <1>10, <1>14, Zenon DEF Said
<1>. QED BY <1>1, <1>2, <1>6, <1>15 DEF Said

(* What the decoder knows. *)
Known(d, s) == BlocksKnown(d, s) /\ EndKnown(d, s) /\ Said(d, s)

(* An event that gives u and does not touch the open block. *)
LEMMA KnownStays ==
  ASSUME NEW s, NEW e, NEW t, Longer(s, e, t), NEW d, NEW o, Known(o, s), ~o.stopped,
         SameBlock(d, o), EndKnown(d, t), ~d.started => d.open = "none", ~KeptStart(e),
         e.kind \in {"message_start", "content_block_delta", "content_block_stop"}
           => o.open = "none",
         NEW u \in Seq(IrEvents), d.events = o.events \o u, OutputOf(t, Len(s) + 1) = u
  PROVE  Known(d, t)
<1>1. BlocksKnown(o, s) /\ EndKnown(o, s) /\ Said(o, s)  BY DEF Known
<1>2. BlocksKnown(d, t)  BY <1>1, BlocksStay
<1>3. ASSUME NEW k \in 1..Len(s)
      PROVE  OutputOf(t, k) = OutputOf(s, k)
  <2>1. s[k].kind # "message_stop"  BY <1>1 DEF EndKnown
  <2>2. KeptStart(s[k]) =>
          Closed(s, k) \/ e.kind \notin {"content_block_delta", "content_block_stop"}
    BY <1>1 DEF BlocksKnown
  <2>. QED BY <2>1, <2>2, OutputsStay
<1>4. Said(d, t)  BY <1>1, <1>3, SaidMore
<1>. QED BY <1>2, <1>4 DEF Known

(* A block opens, and a tool block waits. *)
LEMMA KnownOpens ==
  ASSUME NEW s, NEW e, NEW t, Longer(s, e, t), NEW d, NEW o, Known(o, s), ~o.stopped,
         o.open = "none", KeptStart(e), d.started, d.next_ir_index = o.next_ir_index + 1,
         d.open = OpenName(e.block[1].kind), d.open_ir_index = o.next_ir_index,
         EndKnown(d, t),
         e.block[1].kind = "tool_use" =>
           /\ d.tool_id = e.block[1].id /\ d.tool_name = e.block[1].name
           /\ d.tool_input = e.block[1].text /\ d.tool_parts = <<>>,
         NEW u \in Seq(IrEvents), d.events = o.events \o u,
         u = IF e.block[1].kind = "tool_use" THEN <<>>
             ELSE <<BlockStart(o.next_ir_index, PlainBlock(e.block[1]))>>
  PROVE  Known(d, t)
<1>1. BlocksKnown(o, s) /\ EndKnown(o, s) /\ Said(o, s)  BY DEF Known
<1>2. BlocksKnown(d, t)  BY <1>1, BlocksOpen
<1>3. ASSUME NEW k \in 1..Len(s)
      PROVE  OutputOf(t, k) = OutputOf(s, k)
  <2>1. s[k].kind # "message_stop"  BY <1>1 DEF EndKnown
  <2>2. e.kind \notin {"content_block_delta", "content_block_stop"}
    BY DEF KeptStart
  <2>. QED BY <2>1, <2>2, OutputsStay
<1>4. OutputOf(t, Len(s) + 1) = u
  <2>1. PICK p, b, i : p = Len(s) + 1 /\ b = e.block[1] /\ i = o.next_ir_index
    OBVIOUS
  <2>2. t[p] = e /\ p \in 1..(Len(s) + 1)  BY <2>1, LongerFacts
  <2>3. ~Closed(t, p) /\ DeltasAfter(t, p) = <<>>  BY <2>1, LastIsOpen
  <2>4. IrIndex(t, p) = i
    <3>1. IrIndex(t, p) = IrIndex(s, p)  BY <2>2, IrIndexGrows
    <3>. QED BY <1>1, <2>1, <3>1 DEF BlocksKnown
  <2>5. OutputOf(t, p) = UnitOf(t, p)  BY <2>2, OutputForms
  <2>6. CASE b.kind = "tool_use"  BY <2>1, <2>2, <2>3, <2>5, <2>6, UnitForms
  <2>7. CASE b.kind # "tool_use"
    <3>1. PICK none : none = <<>>  OBVIOUS
    <3>2. PassedBy(DeltasAfter(t, p)) = none  BY <2>3, <3>1, PartsNone, Zenon
    <3>3. Closed(t, p) = FALSE  BY <2>3 DEF Closed, StopBetween
    <3>4. UnitOf(t, p) = PlainUnit(i, b, none, FALSE)
      <4>1. UnitOf(t, p) = PlainUnit(IrIndex(t, p), t[p].block[1],
                                     PassedBy(DeltasAfter(t, p)), Closed(t, p))
        BY <2>1, <2>2, <2>7, UnitForms
      <4>. QED BY <2>1, <2>2, <2>4, <3>2, <3>3, <4>1, Zenon
    <3>5. PICK a : a = BlockStart(i, PlainBlock(b))  OBVIOUS
    <3>6. DeltaEvents(i, none) = <<>>  BY <3>1 DEF DeltaEvents
    <3>7. PlainUnit(i, b, none, FALSE) = <<a>> \o <<>> \o <<>>
      BY <3>5, <3>6, Zenon DEF PlainUnit
    <3>8. <<a>> \o <<>> \o <<>> = <<a>>  OBVIOUS
    <3>. QED BY <2>1, <2>5, <2>7, <3>4, <3>5, <3>7, <3>8, Zenon
  <2>. QED BY <2>1, <2>6, <2>7
<1>5. Said(d, t)  BY <1>1, <1>3, <1>4, SaidMore
<1>. QED BY <1>2, <1>5 DEF Known

(* What comes for the block that is open changes its own output only. *)
LEMMA SaidInBlock ==
  ASSUME NEW s, NEW e, NEW t, Longer(s, e, t), NEW d, NEW o, Known(o, s), ~o.stopped,
         e.kind \in {"content_block_delta", "content_block_stop"},
         NEW p \in 1..Len(s), OpenedAt(o, s, p),
         NEW u \in Seq(IrEvents), UnitOf(t, p) = UnitOf(s, p) \o u, d.events = o.events \o u
  PROVE  Said(d, t)
<1>1. EndKnown(o, s) /\ Said(o, s)  BY DEF Known
<1>2. /\ Len(s) \in Nat /\ t[p] = s[p] /\ t[Len(s) + 1] = e  BY LongerFacts
<1>3. \A k \in 1..Len(s) : s[k].kind # "message_stop"  BY <1>1 DEF EndKnown
<1>4. KeptStart(s[p]) /\ \A k \in 1..Len(s) : KeptStart(s[k]) /\ k # p => k < p /\ Closed(s, k)
  BY DEF OpenedAt
<1>5. OutputOf(t, p) = OutputOf(s, p) \o u
  <2>1. OutputOf(t, p) = UnitOf(t, p) /\ OutputOf(s, p) = UnitOf(s, p)
    BY <1>2, <1>4, OutputForms
  <2>. QED BY <2>1, Zenon
<1>6. OutputOf(t, Len(s) + 1) = <<>>
  <2>1. ~KeptStart(e) /\ e.kind \notin {"message_start", "message_stop"}
    BY DEF KeptStart
  <2>. QED BY <1>2, <2>1, OutputForms
<1>7. \A k \in 1..Len(s) : k # p => OutputOf(t, k) = OutputOf(s, k)
  BY <1>3, <1>4, OutputsStay
<1>8. \A k \in 1..Len(s) : p < k => OutputOf(s, k) = <<>>
  <2>1. ASSUME NEW k \in 1..Len(s), p < k
        PROVE  OutputOf(s, k) = <<>>
    <3>1. ~KeptStart(s[k])  BY <1>4, <2>1
    <3>2. s[k].kind # "message_start"
      <4>1. k \in (p + 1)..Len(s)  BY <1>2, <2>1
      <4>. QED BY <4>1 DEF OpenedAt
    <3>. QED BY <1>3, <3>1, <3>2, OutputForms
  <2>. QED BY <2>1
<1>. QED BY <1>1, <1>5, <1>6, <1>7, <1>8, SaidLater

(* A delta for the open block. *)
LEMMA KnownGrows ==
  ASSUME NEW s, NEW e, NEW t, Longer(s, e, t), NEW d, NEW o, Known(o, s), ~o.stopped,
         e.kind = "content_block_delta", e.delta # None, d.started, o.open # "none",
         d.next_ir_index = o.next_ir_index,
         d.open = o.open, d.open_ir_index = o.open_ir_index,
         d.tool_id = o.tool_id, d.tool_name = o.tool_name, d.tool_input = o.tool_input,
         o.open = "tool" => d.tool_parts = o.tool_parts \o PartOf(e.delta[1]),
         EndKnown(d, t), NEW u \in Seq(IrEvents), d.events = o.events \o u,
         u = IF o.open = "tool" THEN <<>>
             ELSE DeltaEvents(o.open_ir_index, CarriedBy(e.delta[1]))
  PROVE  Known(d, t)
<1>1. BlocksKnown(o, s) /\ EndKnown(o, s) /\ Said(o, s)  BY DEF Known
<1>2. PICK p \in 1..Len(s) : OpenedAt(o, s, p)  BY <1>1 DEF BlocksKnown
<1>3. /\ o.open = OpenName(s[p].block[1].kind) /\ o.open_ir_index = IrIndex(s, p)
      /\ ~Closed(s, p) /\ KeptStart(s[p])
  BY <1>2, Zenon DEF OpenedAt
<1>4. o.open = "tool" <=> s[p].block[1].kind = "tool_use"
  BY <1>3 DEF OpenName, KeptStart, SupportedKinds
<1>5. BlocksKnown(d, t)  BY <1>1, <1>2, <1>4, BlocksGrow
<1>6. UnitOf(t, p) = UnitOf(s, p) \o u
  <2>1. CASE o.open = "tool"
    <3>1. UnitOf(s, p) = <<>> /\ UnitOf(t, p) = <<>>
      BY <1>3, <1>4, <2>1, ToolWaits
    <3>2. u = <<>> /\ <<>> \o <<>> = <<>>  BY <2>1
    <3>. QED BY <3>1, <3>2, Zenon
  <2>2. CASE o.open # "tool"
    <3>1. UnitOf(t, p) = UnitOf(s, p) \o DeltaEvents(IrIndex(s, p), CarriedBy(e.delta[1]))
      BY <1>3, <1>4, <2>2, PlainGrows
    <3>. QED BY <1>3, <2>2, <3>1, Zenon
  <2>. QED BY <2>1, <2>2
<1>7. Said(d, t)  BY <1>2, <1>6, SaidInBlock
<1>. QED BY <1>1, <1>5, <1>7 DEF Known

(* The open block stops. *)
LEMMA KnownCloses ==
  ASSUME NEW s, NEW e, NEW t, Longer(s, e, t), NEW d, NEW o \in Decoders, Known(o, s), ~o.stopped,
         e.kind = "content_block_stop", o.open # "none",
         d.open = "none", d.next_ir_index = o.next_ir_index, EndKnown(d, t),
         NEW u \in Seq(IrEvents), d.events = o.events \o u,
         u = IF o.open = "tool" THEN ToolUnit(o) ELSE <<BlockStop(o.open_ir_index)>>
  PROVE  Known(d, t)
<1>1. BlocksKnown(o, s) /\ EndKnown(o, s) /\ Said(o, s)  BY DEF Known
<1>2. PICK p \in 1..Len(s) : OpenedAt(o, s, p)  BY <1>1 DEF BlocksKnown
<1>3. /\ o.open = OpenName(s[p].block[1].kind) /\ o.open_ir_index = IrIndex(s, p)
      /\ ~Closed(s, p) /\ KeptStart(s[p])
      /\ s[p].block[1].kind = "tool_use" =>
           /\ o.tool_id = s[p].block[1].id /\ o.tool_name = s[p].block[1].name
           /\ o.tool_input = s[p].block[1].text
           /\ o.tool_parts = PartsIn(DeltasAfter(s, p))
  BY <1>2, Zenon DEF OpenedAt
<1>4. o.open = "tool" <=> s[p].block[1].kind = "tool_use"
  BY <1>3 DEF OpenName, KeptStart, SupportedKinds
<1>5. BlocksKnown(d, t)  BY <1>1, BlocksStop
<1>6. UnitOf(t, p) = UnitOf(s, p) \o u
  <2>1. CASE o.open = "tool"
    <3>1. UnitOf(t, p) = u
      <4>1. UnitOf(t, p) = ToolUnit(o)  BY <1>3, <1>4, <2>1, ToolStopsWhole
      <4>. QED BY <2>1, <4>1
    <3>2. UnitOf(s, p) = <<>>  BY <1>3, <1>4, <2>1, UnitForms
    <3>3. <<>> \o u = u  OBVIOUS
    <3>. QED BY <3>1, <3>2, <3>3, Zenon
  <2>2. CASE o.open # "tool"
    <3>1. UnitOf(t, p) = UnitOf(s, p) \o <<BlockStop(IrIndex(s, p))>>
      BY <1>3, <1>4, <2>2, PlainStops
    <3>. QED BY <1>3, <2>2, <3>1, Zenon
  <2>. QED BY <2>1, <2>2
<1>7. Said(d, t)  BY <1>2, <1>6, SaidInBlock
<1>. QED BY <1>1, <1>5, <1>7 DEF Known
-----------------------------------------------------------------------------
(* The handlers *)

SameEnd(d, o) ==
  /\ d.stopped = o.stopped /\ d.usage = o.usage /\ d.stop = o.stop /\ d.stop_seq = o.stop_seq
  /\ d.delta_seen = o.delta_seen

(* Between two calls, before the end. *)
Running == TypeOK /\ TypeOK' /\ fed \in Seq(Events) /\ Known(dec, fed) /\ ~dec.stopped

(* All fields of the decoder after a successful call. *)
LEMMA YieldsAll ==
  ASSUME Running, NEW e \in Events, NEW d, NEW u, Yields(e, d, u)
  PROVE  /\ SameBlock(dec', d) /\ SameEnd(dec', d) /\ dec'.started = d.started
         /\ dec'.events = d.events \o u /\ Longer(fed, e, fed')
         /\ fed'[Len(fed) + 1] = e
<1>1. /\ SameBlock(dec', d) /\ SameEnd(dec', d) /\ dec'.started = d.started
      /\ dec'.events = d.events \o u
  BY DEF Running, Yields, TypeOK, Decoders, SameBlock, SameEnd
<1>2. Longer(fed, e, fed')  BY DEF Longer, Running, Yields
<1>. QED BY <1>1, <1>2, LongerFacts

(* The end is known as before. *)
LEMMA SameEndKnown ==
  ASSUME Running, NEW e \in Events, NEW d, NEW u, Yields(e, d, u), SameEnd(d, dec),
         e.kind \notin {"message_delta", "message_stop"}
  PROVE  EndKnown(dec', fed')
<1>1. SameEnd(dec', d) /\ Longer(fed, e, fed') /\ EndKnown(dec, fed)
  BY YieldsAll DEF Running, Known
<1>2. /\ dec'.usage = dec.usage /\ dec'.stop = dec.stop /\ dec'.stop_seq = dec.stop_seq
      /\ dec'.delta_seen = dec.delta_seen /\ ~dec.stopped
  BY <1>1 DEF SameEnd, Running
<1>. QED BY <1>1, <1>2, EndStays

(* An event that does not touch the open block, nor the end. *)
LEMMA YieldsQuiet ==
  ASSUME Running, NEW e \in Events, NEW d, NEW u \in Seq(IrEvents), Yields(e, d, u),
         d.events = dec.events, SameBlock(d, dec), SameEnd(d, dec), ~KeptStart(e),
         ~d.started => d.open = "none",
         e.kind \notin {"message_delta", "message_stop"},
         e.kind \in {"message_start", "content_block_delta", "content_block_stop"}
           => dec.open = "none",
         u = IF e.kind = "message_start" THEN <<MessageStart>> ELSE <<>>
  PROVE  Known(dec', fed')
<1>1. /\ SameBlock(dec', d) /\ SameEnd(dec', d) /\ dec'.started = d.started
      /\ dec'.events = dec.events \o u /\ Longer(fed, e, fed') /\ fed'[Len(fed) + 1] = e
  BY YieldsAll
<1>2. EndKnown(dec', fed')  BY SameEndKnown
<1>3. OutputOf(fed', Len(fed) + 1) = u  BY <1>1, OutputForms
<1>4. SameBlock(dec', dec) /\ (~dec'.started => dec'.open = "none")
  BY <1>1 DEF SameBlock
<1>5. Known(dec, fed) /\ ~dec.stopped  BY DEF Running
<1>. QED BY <1>1, <1>2, <1>3, <1>4, <1>5, KnownStays

(* The start of a message. *)
LEMMA NothingIsEvents == <<>> \in Seq(IrEvents)
OBVIOUS

(* message_start: the message opens, the blocks stay. *)
LEMMA MessageStartKnown ==
  ASSUME Running, NEW e \in Events, FeedMessageStart(e)
  PROVE  Fails \/ Known(dec', fed')
<1>1. CASE Rejects(dec)  BY <1>1 DEF Rejects, Fails
<1>2. CASE ~Rejects(dec)
  <2>1. PICK d, u : d = [dec EXCEPT !.started = TRUE] /\ u = <<MessageStart>>
    OBVIOUS
  <2>2. ~dec.started /\ Yields(e, d, u) /\ e.kind = "message_start"
    BY <1>2, <2>1 DEF FeedMessageStart, Receives
  <2>3. d.events = dec.events /\ SameBlock(d, dec) /\ SameEnd(d, dec) /\ d.started
    BY <2>1 DEF Running, TypeOK, Decoders, SameBlock, SameEnd
  <2>4. dec.open = "none"  BY <2>2 DEF Running, Known, BlocksKnown
  <2>5. ~KeptStart(e)  BY <2>2 DEF KeptStart
  <2>6. u \in Seq(IrEvents)
    <3>1. MessageStart \in IrEvents  BY EventTypes
    <3>. QED BY <2>1, <3>1
  <2>. QED BY <2>1, <2>2, <2>3, <2>4, <2>5, <2>6, YieldsQuiet
<1>. QED BY <1>1, <1>2

(* The starts of blocks. *)
LEMMA PlainBlockType ==
  ASSUME NEW b \in NativeBlocks, b.kind \in {"text", "thinking", "redacted_thinking"}
  PROVE  PlainBlock(b) \in Blocks
<1>1. b.text \in Text /\ b.signature \in Text /\ SourcesOf(b.citations) \in Text
  BY SourcesType DEF NativeBlocks
<1>2. b.kind \in StreamedKinds  BY DEF StreamedKinds, AtomicKinds
<1>. QED BY <1>1, <1>2, NoToken, BlockTypes DEF PlainBlock

(* A block of a supported kind starts. *)
LEMMA OpenKnown ==
  ASSUME Running, NEW e \in Events, NEW kind \in SupportedKinds, Starting(e, kind),
         NEW d, NEW u, Yields(e, d, u), d.events = dec.events, SameEnd(d, dec), d.started,
         d.next_ir_index = dec.next_ir_index + 1, d.open = OpenName(kind),
         d.open_ir_index = dec.next_ir_index,
         kind = "tool_use" =>
           /\ d.tool_id = e.block[1].id /\ d.tool_name = e.block[1].name
           /\ d.tool_input = e.block[1].text /\ d.tool_parts = <<>>,
         u = IF kind = "tool_use" THEN <<>>
             ELSE <<BlockStart(dec.next_ir_index, PlainBlock(e.block[1]))>>
  PROVE  Known(dec', fed')
<1>1. PICK b : b = e.block[1]  OBVIOUS
<1>2. /\ e.kind = "content_block_start" /\ e.block # None /\ b.kind = kind
      /\ dec.open = "none" /\ dec.started
  BY <1>1 DEF Starting, Receives, StartRejected, BetweenBlocks
<1>3. KeptStart(e) /\ b \in NativeBlocks
  BY <1>1, <1>2, WireTypes, SomeTypes DEF KeptStart
<1>4. /\ SameBlock(dec', d) /\ SameEnd(dec', d) /\ dec'.started = d.started
      /\ dec'.events = dec.events \o u /\ Longer(fed, e, fed')
  BY YieldsAll
<1>5. EndKnown(dec', fed')  BY <1>2, SameEndKnown
<1>6. u \in Seq(IrEvents)
  <2>1. CASE kind = "tool_use"  BY <2>1, NothingIsEvents
  <2>2. CASE kind # "tool_use"
    <3>1. b.kind \in {"text", "thinking", "redacted_thinking"}
      BY <1>2, <2>2 DEF SupportedKinds
    <3>2. PlainBlock(b) \in Blocks /\ dec.next_ir_index \in Nat
      BY <1>3, <3>1, PlainBlockType DEF Running, TypeOK, Decoders
    <3>3. BlockStart(dec.next_ir_index, PlainBlock(b)) \in IrEvents
      BY <3>2, EventTypes
    <3>. QED BY <1>1, <2>2, <3>3
  <2>. QED BY <2>1, <2>2
<1>7. /\ dec'.started /\ dec'.next_ir_index = dec.next_ir_index + 1
      /\ dec'.open = OpenName(e.block[1].kind) /\ dec'.open_ir_index = dec.next_ir_index
      /\ e.block[1].kind = "tool_use" =>
           /\ dec'.tool_id = e.block[1].id /\ dec'.tool_name = e.block[1].name
           /\ dec'.tool_input = e.block[1].text /\ dec'.tool_parts = <<>>
  BY <1>1, <1>2, <1>4 DEF SameBlock
<1>8. u = IF e.block[1].kind = "tool_use" THEN <<>>
          ELSE <<BlockStart(dec.next_ir_index, PlainBlock(e.block[1]))>>
  BY <1>1, <1>2
<1>9. Known(dec, fed) /\ ~dec.stopped  BY DEF Running
<1>. QED BY <1>2, <1>3, <1>4, <1>5, <1>6, <1>7, <1>8, <1>9, KnownOpens

(* All that Open changes. *)
LEMMA OpenAll ==
  ASSUME NEW d \in Decoders, NEW kind, d.started
  PROVE  /\ Open(d, kind).events = d.events /\ SameEnd(Open(d, kind), d)
         /\ Open(d, kind).started /\ Open(d, kind).next_ir_index = d.next_ir_index + 1
         /\ Open(d, kind).open = kind /\ Open(d, kind).open_ir_index = d.next_ir_index
         /\ DOMAIN Open(d, kind) = DOMAIN d
BY DEF Open, Decoders, SameEnd

(* content_block_start, whatever its outcome. *)
LEMMA BlockStartKnown ==
  ASSUME Running, NEW e \in Events, FeedBlockStart(e)
  PROVE  Fails \/ Known(dec', fed')
<1>. DEFINE b == e.block[1]
<1>1. dec \in Decoders  BY DEF Running, TypeOK
<1>2. ASSUME NEW kind, Starting(e, kind)
      PROVE  dec.started /\ b.kind = kind
  BY <1>2 DEF Starting, StartRejected, BetweenBlocks
<1>3. CASE FeedBlockStartRejected(e) \/ FeedTextStartMalformed(e)
  BY <1>3 DEF FeedBlockStartRejected, FeedTextStartMalformed, Rejects, Fails
<1>4. CASE FeedSkippedStart(e)
  <2>1. PICK d, what, o : /\ o = [dec EXCEPT !.next_index = @ + 1, !.skipped_open = TRUE,
                                             !.skipped = @ \union {e.index}]
                          /\ what = <<"block", e.index>> /\ d = Lose(o, what)
    OBVIOUS
  <2>2. /\ Yields(e, d, <<>>) /\ e.kind = "content_block_start" /\ dec.started
        /\ e.block # None => b.kind \notin SupportedKinds
    BY <1>4, <2>1 DEF FeedSkippedStart, Receives, StartRejected, BetweenBlocks
  <2>3. d.events = dec.events /\ SameBlock(d, dec) /\ SameEnd(d, dec) /\ d.started
    BY <1>1, <2>1, <2>2 DEF Lose, Decoders, SameBlock, SameEnd
  <2>4. ~KeptStart(e)  BY <2>2 DEF KeptStart
  <2>. QED BY <2>2, <2>3, <2>4, NothingIsEvents, YieldsQuiet
<1>5. CASE FeedToolStart(e)
  <2>1. PICK o, none : o = Open(dec, "tool") /\ none = <<>>  OBVIOUS
  <2>2. PICK d : d = [o EXCEPT !.tool_id = b.id, !.tool_name = b.name,
                               !.tool_input = b.text, !.tool_parts = none]
    OBVIOUS
  <2>3. Yields(e, d, none) /\ Starting(e, "tool_use")
    BY <1>5, <2>1, <2>2 DEF FeedToolStart
  <2>4. /\ o.events = dec.events /\ SameEnd(o, dec) /\ o.started
        /\ o.next_ir_index = dec.next_ir_index + 1 /\ o.open = "tool"
        /\ o.open_ir_index = dec.next_ir_index /\ DOMAIN o = DOMAIN dec
    BY <1>1, <1>2, <2>1, <2>3, OpenAll
  <2>5. /\ d.events = dec.events /\ SameEnd(d, dec) /\ d.started
        /\ d.next_ir_index = dec.next_ir_index + 1 /\ d.open = "tool"
        /\ d.open_ir_index = dec.next_ir_index
        /\ d.tool_id = b.id /\ d.tool_name = b.name /\ d.tool_input = b.text
        /\ d.tool_parts = none
    BY <1>1, <2>2, <2>4 DEF Decoders, SameEnd
  <2>6. "tool_use" \in SupportedKinds /\ OpenName("tool_use") = "tool"
    BY DEF SupportedKinds, OpenName
  <2>. QED BY <2>1, <2>3, <2>5, <2>6, OpenKnown
<1>6. CASE FeedThinkingStart(e)
  <2>1. PICK o, d, block :
          /\ o = Open(dec, "thinking") /\ d = [o EXCEPT !.thinking_signature_seen = FALSE]
          /\ block = [Block("thinking", "", <<>>, b.text) EXCEPT !.signature = b.signature]
    OBVIOUS
  <2>2. Yields(e, d, <<BlockStart(dec.next_ir_index, block)>>) /\ Starting(e, "thinking")
    BY <1>6, <2>1 DEF FeedThinkingStart
  <2>3. /\ o.events = dec.events /\ SameEnd(o, dec) /\ o.started
        /\ o.next_ir_index = dec.next_ir_index + 1 /\ o.open = "thinking"
        /\ o.open_ir_index = dec.next_ir_index /\ DOMAIN o = DOMAIN dec
    BY <1>1, <1>2, <2>1, <2>2, OpenAll
  <2>4. /\ d.events = dec.events /\ SameEnd(d, dec) /\ d.started
        /\ d.next_ir_index = dec.next_ir_index + 1 /\ d.open = "thinking"
        /\ d.open_ir_index = dec.next_ir_index
    BY <1>1, <2>1, <2>3 DEF Decoders, SameEnd
  <2>5. "thinking" \in SupportedKinds /\ OpenName("thinking") = "thinking"
    BY DEF SupportedKinds, OpenName
  <2>6. PlainBlock(b) = block
    <3>1. b.kind = "thinking"  BY <1>2, <2>2
    <3>. QED BY <2>1, <3>1 DEF PlainBlock
  <2>. QED BY <2>2, <2>4, <2>5, <2>6, OpenKnown
<1>7. CASE FeedRedactedStart(e)
  <2>1. PICK d, block : /\ d = Open(dec, "redacted")
                        /\ block = Block("redacted_thinking", "", <<>>, b.text)
    OBVIOUS
  <2>2. Yields(e, d, <<BlockStart(dec.next_ir_index, block)>>) /\ Starting(e, "redacted_thinking")
    BY <1>7, <2>1 DEF FeedRedactedStart
  <2>3. /\ d.events = dec.events /\ SameEnd(d, dec) /\ d.started
        /\ d.next_ir_index = dec.next_ir_index + 1 /\ d.open = "redacted"
        /\ d.open_ir_index = dec.next_ir_index
    BY <1>1, <1>2, <2>1, <2>2, OpenAll
  <2>4. "redacted_thinking" \in SupportedKinds /\ OpenName("redacted_thinking") = "redacted"
    BY DEF SupportedKinds, OpenName
  <2>5. PlainBlock(b) = block
    <3>1. b.kind = "redacted_thinking"  BY <1>2, <2>2
    <3>. QED BY <2>1, <3>1 DEF PlainBlock
  <2>. QED BY <2>2, <2>3, <2>4, <2>5, OpenKnown
<1>8. CASE FeedTextStart(e)
  <2>1. PICK o, what, d, block :
          /\ o = Open(dec, "text") /\ what = <<"citation", e.index>>
          /\ d = IF b.citations = "unknown" THEN Lose(o, what) ELSE o
          /\ block = [Block("text", "", <<>>, b.text) EXCEPT !.citations = SourcesOf(b.citations)]
    OBVIOUS
  <2>2. Yields(e, d, <<BlockStart(dec.next_ir_index, block)>>) /\ Starting(e, "text")
    BY <1>8, <2>1 DEF FeedTextStart
  <2>3. /\ o.events = dec.events /\ SameEnd(o, dec) /\ o.started
        /\ o.next_ir_index = dec.next_ir_index + 1 /\ o.open = "text"
        /\ o.open_ir_index = dec.next_ir_index /\ DOMAIN o = DOMAIN dec
    BY <1>1, <1>2, <2>1, <2>2, OpenAll
  <2>4. /\ d.events = dec.events /\ SameEnd(d, dec) /\ d.started
        /\ d.next_ir_index = dec.next_ir_index + 1 /\ d.open = "text"
        /\ d.open_ir_index = dec.next_ir_index
    BY <1>1, <2>1, <2>3 DEF Lose, Decoders, SameEnd
  <2>5. "text" \in SupportedKinds /\ OpenName("text") = "text"
    BY DEF SupportedKinds, OpenName
  <2>6. PlainBlock(b) = block
    <3>1. b.kind = "text"  BY <1>2, <2>2
    <3>. QED BY <2>1, <3>1 DEF PlainBlock
  <2>. QED BY <2>2, <2>4, <2>5, <2>6, OpenKnown
<1>. QED BY <1>3, <1>4, <1>5, <1>6, <1>7, <1>8 DEF FeedBlockStart

(* The deltas. *)
LEMMA DeltaEventsType ==
  ASSUME NEW i \in Nat, NEW ds \in Seq(Deltas)
  PROVE  DeltaEvents(i, ds) \in Seq(IrEvents)
<1>1. PICK n : n = Len(ds) /\ n \in Nat  OBVIOUS
<1>2. ASSUME NEW m \in 1..n
      PROVE  BlockDelta(i, ds[m]) \in IrEvents
  BY <1>1, <1>2, EventTypes
<1>3. [m \in 1..n |-> BlockDelta(i, ds[m])] \in Seq(IrEvents)  BY <1>1, <1>2
<1>. QED BY <1>1, <1>3 DEF DeltaEvents

(* A delta that goes on with the open block. *)
LEMMA DeltaKnown ==
  ASSUME Running, NEW e \in Events, Continuing(e), NEW d, NEW u, Yields(e, d, u),
         d.events = dec.events, SameEnd(d, dec), d.started = dec.started,
         d.next_ir_index = dec.next_ir_index,
         d.open = dec.open, d.open_ir_index = dec.open_ir_index, d.tool_id = dec.tool_id,
         d.tool_name = dec.tool_name, d.tool_input = dec.tool_input,
         dec.open = "tool" => d.tool_parts = dec.tool_parts \o PartOf(e.delta[1]),
         u = IF dec.open = "tool" THEN <<>>
             ELSE DeltaEvents(dec.open_ir_index, CarriedBy(e.delta[1]))
  PROVE  Known(dec', fed')
<1>1. /\ e.kind = "content_block_delta" /\ e.delta # None /\ dec.started
      /\ ~DeltaRejected(dec, e.delta[1])
  BY DEF Continuing, Receives, DeltaAccepted
<1>2. dec.open # "none"  BY <1>1 DEF DeltaRejected
<1>3. /\ SameBlock(dec', d) /\ SameEnd(dec', d) /\ dec'.started = d.started
      /\ dec'.events = d.events \o u /\ Longer(fed, e, fed')
  BY YieldsAll, Zenon
<1>4. EndKnown(dec', fed')  BY <1>1, SameEndKnown
<1>5. u \in Seq(IrEvents)
  <2>1. CASE dec.open = "tool"  BY <2>1, NothingIsEvents
  <2>2. CASE dec.open # "tool"
    <3>1. e.delta[1] \in NativeDeltas  BY <1>1, WireTypes, SomeTypes
    <3>2. PICK i, ds : i = dec.open_ir_index /\ ds = CarriedBy(e.delta[1])
      OBVIOUS
    <3>3. i \in Nat /\ ds \in Seq(Deltas)
      BY <3>1, <3>2, PartType DEF Running, TypeOK, Decoders
    <3>. QED BY <2>2, <3>2, <3>3, DeltaEventsType
  <2>. QED BY <2>1, <2>2
<1>6. /\ dec'.started /\ dec'.next_ir_index = dec.next_ir_index
      /\ dec'.open = dec.open /\ dec'.open_ir_index = dec.open_ir_index
      /\ dec'.tool_id = dec.tool_id /\ dec'.tool_name = dec.tool_name
      /\ dec'.tool_input = dec.tool_input
      /\ dec.open = "tool" => dec'.tool_parts = dec.tool_parts \o PartOf(e.delta[1])
  BY <1>1, <1>3 DEF SameBlock
<1>7. Known(dec, fed) /\ ~dec.stopped  BY DEF Running
<1>8. Longer(fed, e, fed') /\ dec'.events = dec.events \o u  BY <1>3, Zenon
<1>9. u = IF dec.open = "tool" THEN <<>>
          ELSE DeltaEvents(dec.open_ir_index, CarriedBy(e.delta[1]))
  OBVIOUS
<1>. QED BY <1>1, <1>2, <1>4, <1>5, <1>6, <1>7, <1>8, <1>9, KnownGrows, ZenonT(60)

(* A delta that carries nothing that the IR has. *)
LEMMA IdleDeltaKnown ==
  ASSUME Running, NEW e \in Events, Continuing(e), NEW d, Yields(e, d, <<>>),
         d.events = dec.events, SameEnd(d, dec), d.started = dec.started, SameBlock(d, dec),
         CarriedBy(e.delta[1]) = <<>>, PartOf(e.delta[1]) = <<>>
  PROVE  Known(dec', fed')
<1>1. PICK parts, i, none : parts = dec.tool_parts /\ i = dec.open_ir_index /\ none = <<>>
  OBVIOUS
<1>2. parts \o <<>> = parts
  <2>1. parts \in Seq(Text)  BY <1>1 DEF Running, TypeOK, Decoders
  <2>. QED BY <2>1
<1>3. d.tool_parts = dec.tool_parts \o PartOf(e.delta[1])
  BY <1>1, <1>2 DEF SameBlock
<1>4. DeltaEvents(i, none) = none  BY <1>1 DEF DeltaEvents
<1>5. none = IF dec.open = "tool" THEN <<>>
             ELSE DeltaEvents(dec.open_ir_index, CarriedBy(e.delta[1]))
  BY <1>1, <1>4
<1>6. Yields(e, d, none)  BY <1>1
<1>. QED BY <1>3, <1>5, <1>6, DeltaKnown DEF SameBlock

(* A delta that passes. *)
LEMMA PassedDeltaKnown ==
  ASSUME Running, NEW e \in Events, Continuing(e), dec.open # "tool", NEW d, NEW x,
         Yields(e, d, <<BlockDelta(dec.open_ir_index, x)>>),
         d.events = dec.events, SameEnd(d, dec), d.started = dec.started, SameBlock(d, dec),
         CarriedBy(e.delta[1]) = <<x>>
  PROVE  Known(dec', fed')
<1>1. PICK i, one : i = dec.open_ir_index /\ one = <<x>>  OBVIOUS
<1>2. DeltaEvents(i, one) = <<BlockDelta(i, x)>>
  <2>1. PICK y : y = BlockDelta(i, x)  OBVIOUS
  <2>2. Len(one) = 1 /\ one[1] = x  BY <1>1
  <2>3. \A n \in 1..1 : BlockDelta(i, one[n]) = y  BY <2>1, <2>2
  <2>4. [n \in 1..1 |-> BlockDelta(i, one[n])] = <<y>>  BY <2>3
  <2>. QED BY <2>1, <2>2, <2>4 DEF DeltaEvents
<1>3. PICK u : u = <<BlockDelta(i, x)>>  OBVIOUS
<1>4. Yields(e, d, u) /\ u = DeltaEvents(dec.open_ir_index, CarriedBy(e.delta[1]))
  BY <1>1, <1>2, <1>3, Zenon
<1>. QED BY <1>4, DeltaKnown DEF SameBlock

(* content_block_delta, whatever its outcome. *)
LEMMA BlockDeltaKnown ==
  ASSUME Running, NEW e \in Events, FeedBlockDelta(e), ~CitesOpenTool(e)
  PROVE  Fails \/ Known(dec', fed')
<1>. DEFINE delta == e.delta[1]
<1>1. /\ dec \in Decoders /\ Sound(dec) /\ e.kind = "content_block_delta"
  BY TypeOKIsSound
  DEF Running, Sound, FeedBlockDelta, FeedDeltaRejected, FeedSkippedDelta, FeedInputJsonDelta,
      FeedPassedDelta, FeedCitation, FeedUnknownDelta, Continuing, Receives
<1>2. ASSUME Continuing(e)
      PROVE  e.delta # None /\ delta \in NativeDeltas /\ ~DeltaRejected(dec, delta)
  BY <1>2, WireTypes, SomeTypes DEF Continuing, DeltaAccepted, Receives
<1>3. ASSUME NEW what
      PROVE  LET d == Lose(dec, what)
             IN  /\ d.events = dec.events /\ SameEnd(d, dec) /\ d.started = dec.started
                 /\ SameBlock(d, dec)
  BY <1>1 DEF Lose, Decoders, SameEnd, SameBlock
<1>4. SameEnd(dec, dec) /\ SameBlock(dec, dec)  BY DEF SameEnd, SameBlock
<1>5. CASE FeedDeltaRejected(e)  BY <1>5 DEF FeedDeltaRejected, Rejects, Fails
<1>6. CASE FeedSkippedDelta(e)
  <2>1. e.index \in dec.skipped /\ Yields(e, dec, <<>>)
    BY <1>6 DEF FeedSkippedDelta
  <2>2. dec.open = "none"  BY <1>1, <2>1 DEF Sound
  <2>3. ~KeptStart(e)  BY <1>1 DEF KeptStart
  <2>. QED BY <1>1, <1>4, <2>1, <2>2, <2>3, NothingIsEvents, YieldsQuiet
<1>7. CASE FeedInputJsonDelta(e)
  <2>1. PICK part, parts, d :
          /\ part = TextGiven(delta.text) /\ parts = Append(dec.tool_parts, part)
          /\ d = [dec EXCEPT !.tool_parts = parts]
    OBVIOUS
  <2>2. Yields(e, d, <<>>) /\ Continuing(e) /\ delta.type = "input_json_delta"
    BY <1>7, <2>1 DEF FeedInputJsonDelta
  <2>3. /\ d.events = dec.events /\ SameEnd(d, dec) /\ d.started = dec.started
        /\ d.next_ir_index = dec.next_ir_index
        /\ d.open = dec.open /\ d.open_ir_index = dec.open_ir_index
        /\ d.tool_id = dec.tool_id /\ d.tool_name = dec.tool_name
        /\ d.tool_input = dec.tool_input /\ d.tool_parts = parts
    BY <1>1, <2>1 DEF Decoders, SameEnd
  <2>4. dec.open = "tool"
    BY <1>1, <1>2, <2>2 DEF DeltaRejected, ThinkingDeltas, Decoders
  <2>5. PartOf(delta) = <<part>>  BY <2>1, <2>2 DEF PartOf
  <2>6. parts = dec.tool_parts \o <<part>>
    <3>1. PICK q : q = dec.tool_parts  OBVIOUS
    <3>2. q \in Seq(Text)  BY <1>1, <3>1 DEF Decoders
    <3>. QED BY <2>1, <3>1, <3>2
  <2>. QED BY <2>2, <2>3, <2>4, <2>5, <2>6, DeltaKnown
<1>8. CASE FeedPassedDelta(e)
  <2>1. PICK x, seen, d :
          /\ x = Delta(delta.type, TextGiven(delta.text))
          /\ seen = (dec.thinking_signature_seen \/ delta.type = "signature_delta")
          /\ d = [dec EXCEPT !.thinking_signature_seen = seen]
    OBVIOUS
  <2>2. /\ Yields(e, d, <<BlockDelta(dec.open_ir_index, x)>>) /\ Continuing(e)
        /\ delta.type \in {"text_delta"} \union ThinkingDeltas
    BY <1>8, <2>1 DEF FeedPassedDelta
  <2>3. /\ d.events = dec.events /\ SameEnd(d, dec) /\ d.started = dec.started
        /\ SameBlock(d, dec)
    BY <1>1, <2>1 DEF Decoders, SameEnd, SameBlock
  <2>4. dec.open # "tool"
    BY <1>1, <1>2, <2>2 DEF DeltaRejected, ThinkingDeltas, Decoders
  <2>5. CarriedBy(delta) = <<x>>  BY <2>1, <2>2 DEF CarriedBy, ThinkingDeltas
  <2>. QED BY <2>2, <2>3, <2>4, <2>5, PassedDeltaKnown
<1>9. CASE FeedCitation(e)
  <2>1. /\ Continuing(e) /\ delta.type = "citations_delta"
        /\ ~DeltaRejected(dec, delta) /\ e.delta # None
    BY <1>2, <1>9 DEF FeedCitation
  <2>2. CASE /\ delta.citation = "valid"
             /\ Yields(e, dec, <<BlockDelta(dec.open_ir_index,
                                            Delta("citation_delta", SourcesOf("valid")))>>)
    <3>1. dec.open # "tool"  BY <1>1, <2>1 DEF CitesOpenTool
    <3>2. CarriedBy(delta) = <<Delta("citation_delta", SourcesOf("valid"))>>
      BY <2>1, <2>2 DEF CarriedBy, ThinkingDeltas
    <3>. QED BY <1>4, <2>1, <2>2, <3>1, <3>2, PassedDeltaKnown
  <2>3. CASE /\ delta.citation = "unknown"
             /\ Yields(e, Lose(dec, <<"citation", e.index>>), <<>>)
    <3>1. CarriedBy(delta) = <<>> /\ PartOf(delta) = <<>>
      BY <2>1, <2>3 DEF CarriedBy, PartOf, ThinkingDeltas
    <3>. QED BY <1>3, <2>1, <2>3, <3>1, IdleDeltaKnown
  <2>. QED BY <1>9, <2>2, <2>3 DEF FeedCitation
<1>10. CASE FeedUnknownDelta(e)
  <2>1. /\ Continuing(e) /\ delta.type \notin KnownDeltas
        /\ Yields(e, Lose(dec, <<"delta", e.index>>), <<>>)
    BY <1>10 DEF FeedUnknownDelta
  <2>2. CarriedBy(delta) = <<>> /\ PartOf(delta) = <<>>
    BY <2>1 DEF CarriedBy, PartOf, KnownDeltas
  <2>. QED BY <1>3, <2>1, <2>2, IdleDeltaKnown
<1>. QED BY <1>5, <1>6, <1>7, <1>8, <1>9, <1>10 DEF FeedBlockDelta

(* The stops. *)
LEMMA CloseKnown ==
  ASSUME Running, NEW e \in Events, e.kind = "content_block_stop", dec.open # "none",
         NEW d, NEW u \in Seq(IrEvents), Yields(e, d, u), d.events = dec.events, SameEnd(d, dec),
         d.open = "none", d.next_ir_index = dec.next_ir_index,
         u = IF dec.open = "tool" THEN ToolUnit(dec) ELSE <<BlockStop(dec.open_ir_index)>>
  PROVE  Known(dec', fed')
<1>1. /\ SameBlock(dec', d) /\ dec'.events = d.events \o u /\ Longer(fed, e, fed')
  BY YieldsAll, Zenon
<1>2. EndKnown(dec', fed')  BY SameEndKnown
<1>3. dec'.open = "none" /\ dec'.next_ir_index = dec.next_ir_index
  BY <1>1 DEF SameBlock
<1>4. Longer(fed, e, fed') /\ dec'.events = dec.events \o u  BY <1>1, Zenon
<1>5. Known(dec, fed) /\ ~dec.stopped /\ dec \in Decoders
  BY DEF Running, TypeOK
<1>. QED BY <1>2, <1>3, <1>4, <1>5, KnownCloses

(* content_block_stop, whatever its outcome. *)
LEMMA BlockStopKnown ==
  ASSUME Running, NEW e \in Events, FeedBlockStop(e)
  PROVE  Fails \/ Known(dec', fed')
<1>1. dec \in Decoders /\ Sound(dec) /\ e.kind = "content_block_stop" /\ ~KeptStart(e)
  BY TypeOKIsSound
  DEF Running, Sound, FeedBlockStop, FeedStopRejected, FeedSkippedStop, FeedToolStop,
      FeedPlainStop, Stopping, Receives, KeptStart
<1>2. CASE FeedStopRejected(e)  BY <1>2 DEF FeedStopRejected, Rejects, Fails
<1>3. CASE FeedSkippedStop(e)
  <2>1. PICK d : d = [dec EXCEPT !.skipped = @ \ {e.index}, !.skipped_open = FALSE]
    OBVIOUS
  <2>2. Yields(e, d, <<>>) /\ e.index \in dec.skipped
    BY <1>3, <2>1 DEF FeedSkippedStop
  <2>3. d.events = dec.events /\ SameEnd(d, dec) /\ SameBlock(d, dec)
    BY <1>1, <2>1 DEF Decoders, SameEnd, SameBlock
  <2>4. dec.open = "none" /\ d.open = "none"
    BY <1>1, <2>2, <2>3 DEF Sound, SameBlock
  <2>. QED BY <1>1, <2>2, <2>3, <2>4, NothingIsEvents, YieldsQuiet
<1>4. CASE FeedToolStop(e)
  <2>1. PICK d, u, none, empty :
          /\ none = <<>> /\ empty = "" /\ u = ToolUnit(dec)
          /\ d = [dec EXCEPT !.open = "none", !.tool_id = empty, !.tool_name = none,
                             !.tool_input = none, !.tool_parts = none]
    OBVIOUS
  <2>2. Yields(e, d, u) /\ dec.open = "tool"
    BY <1>4, <2>1, Zenon DEF FeedToolStop
  <2>3. /\ d.events = dec.events /\ SameEnd(d, dec) /\ d.open = "none"
        /\ d.next_ir_index = dec.next_ir_index
    BY <1>1, <2>1 DEF Decoders, SameEnd
  <2>4. u \in Seq(IrEvents)  BY <1>1, <2>1, ToolUnitType
  <2>. QED BY <1>1, <2>1, <2>2, <2>3, <2>4, CloseKnown
<1>5. CASE FeedPlainStop(e)
  <2>1. PICK d, u : /\ d = [dec EXCEPT !.open = "none", !.thinking_signature_seen = FALSE]
                    /\ u = <<BlockStop(dec.open_ir_index)>>
    OBVIOUS
  <2>2. Yields(e, d, u) /\ dec.open # "tool" /\ dec.open # "none"
    BY <1>5, <2>1 DEF FeedPlainStop, Stopping, StopRejected
  <2>3. /\ d.events = dec.events /\ SameEnd(d, dec) /\ d.open = "none"
        /\ d.next_ir_index = dec.next_ir_index
    BY <1>1, <2>1 DEF Decoders, SameEnd
  <2>4. u \in Seq(IrEvents)
    <3>1. BlockStop(dec.open_ir_index) \in IrEvents
      BY <1>1, EventTypes DEF Decoders
    <3>. QED BY <2>1, <3>1
  <2>. QED BY <1>1, <2>1, <2>2, <2>3, <2>4, CloseKnown
<1>. QED BY <1>2, <1>3, <1>4, <1>5 DEF FeedBlockStop

(* The end of the message. *)
LEMMA QuietAtEnd ==
  ASSUME Running, NEW e \in Events, e.kind \in {"message_delta", "message_stop"},
         NEW d, NEW u \in Seq(IrEvents), Yields(e, d, u), d.events = dec.events,
         SameBlock(d, dec), d.open = "none", EndKnown(dec', fed'),
         OutputOf(fed', Len(fed) + 1) = u
  PROVE  Known(dec', fed')
<1>1. SameBlock(dec', d) /\ dec'.events = d.events \o u /\ Longer(fed, e, fed')
  BY YieldsAll, Zenon
<1>2. Longer(fed, e, fed') /\ dec'.events = dec.events \o u  BY <1>1, Zenon
<1>3. SameBlock(dec', dec) /\ dec'.open = "none" /\ ~KeptStart(e)
  BY <1>1 DEF SameBlock, KeptStart
<1>4. Known(dec, fed) /\ ~dec.stopped  BY DEF Running
<1>. QED BY <1>2, <1>3, <1>4, KnownStays

(* message_delta: the terminal values are those that came last. *)
LEMMA MessageDeltaKnown ==
  ASSUME Running, NEW e \in Events, FeedMessageDelta(e)
  PROVE  Fails \/ Known(dec', fed')
<1>1. dec \in Decoders /\ e.kind = "message_delta"
  BY DEF Running, TypeOK, FeedMessageDelta, Receives
<1>2. CASE Rejects(dec)  BY <1>2 DEF Rejects, Fails
<1>3. ASSUME NEW d, d \in {TakeTerminal(dec, e), Lose(TakeTerminal(dec, e), <<"stop_reason", -1>>)},
             Yields(e, d, <<>>), TerminalAccepted(dec, e)
      PROVE  Known(dec', fed')
  <2>1. PICK stop, sequence, usage, what :
          /\ stop = StopOf(e.delta[1].stop_reason)
          /\ sequence = e.delta[1].stop_sequence
          /\ usage = (IF e.usage = None THEN dec.usage ELSE e.usage[1])
          /\ what = <<"stop_reason", -1>>
    OBVIOUS
  <2>2. PICK t : t = [dec EXCEPT !.stop = stop, !.stop_seq = sequence, !.usage = usage,
                                 !.delta_seen = TRUE]
    OBVIOUS
  <2>3. t = TakeTerminal(dec, e)  BY <2>1, <2>2 DEF TakeTerminal
  <2>4. d = t \/ d = Lose(t, what)  BY <1>3, <2>1, <2>3
  <2>5. /\ d.events = dec.events /\ SameBlock(d, dec) /\ d.open = dec.open
        /\ d.stop = stop /\ d.stop_seq = sequence /\ d.usage = usage
    BY <1>1, <2>2, <2>4, ZenonT(60) DEF Lose, Decoders, SameBlock
  <2>6. dec.open = "none" /\ e.delta # None
    BY <1>3 DEF TerminalAccepted, BetweenBlocks
  <2>7. SameEnd(dec', d) /\ Longer(fed, e, fed') /\ fed'[Len(fed) + 1] = e
    BY <1>3, YieldsAll
  <2>8. /\ dec'.stop = StopOf(e.delta[1].stop_reason)
        /\ dec'.stop_seq = e.delta[1].stop_sequence
        /\ dec'.usage = IF e.usage = None THEN dec.usage ELSE e.usage[1]
    BY <2>1, <2>5, <2>7 DEF SameEnd
  <2>9. EndKnown(dec', fed')
    <3>1. EndKnown(dec, fed) /\ ~dec.stopped  BY DEF Running, Known
    <3>. QED BY <1>1, <2>6, <2>7, <2>8, <3>1, EndChanges
  <2>10. OutputOf(fed', Len(fed) + 1) = <<>>
    <3>1. ~KeptStart(e) /\ e.kind \notin {"message_start", "message_stop"}
      BY <1>1 DEF KeptStart
    <3>. QED BY <2>7, <3>1, OutputForms
  <2>11. d.open = "none"  BY <2>5, <2>6
  <2>. QED BY <1>1, <1>3, <2>5, <2>9, <2>10, <2>11, NothingIsEvents, QuietAtEnd
<1>. QED BY <1>2, <1>3 DEF FeedMessageDelta

(* message_stop: the terminal pair. *)
LEMMA MessageStopKnown ==
  ASSUME Running, NEW e \in Events, FeedMessageStop(e)
  PROVE  Fails \/ Known(dec', fed')
<1>1. dec \in Decoders /\ e.kind = "message_stop" /\ (dec.stop = "none" => ~dec.delta_seen)
  BY DEF Running, TypeOK, FeedMessageStop, Receives
<1>2. CASE Rejects(dec)  BY <1>2 DEF Rejects, Fails
<1>3. CASE ~Rejects(dec)
  <2>1. PICK d, sequence, x, y, u :
          /\ sequence = (IF dec.stop = "stop_sequence" THEN dec.stop_seq ELSE <<>>)
          /\ d = [dec EXCEPT !.stopped = TRUE]
          /\ x = MessageDelta(dec.stop, sequence, dec.usage) /\ y = MessageDone
          /\ u = <<x, y>>
    OBVIOUS
  <2>2. BetweenBlocks(dec) /\ dec.delta_seen /\ Yields(e, d, u)
    BY <1>3, <2>1 DEF FeedMessageStop
  <2>3. u \in Seq(IrEvents)
    <3>1. dec.stop \in StopReasons /\ dec.usage \in Usages
      BY <1>1, <2>2 DEF Decoders
    <3>2. sequence \in Text  BY <1>1, <2>1, NoToken DEF Decoders
    <3>3. x \in IrEvents /\ y \in IrEvents  BY <2>1, <3>1, <3>2, EventTypes
    <3>. QED BY <2>1, <3>3
  <2>4. /\ d.events = dec.events /\ SameBlock(d, dec) /\ d.open = "none" /\ d.stopped
        /\ d.usage = dec.usage /\ d.stop = dec.stop /\ d.stop_seq = dec.stop_seq
        /\ d.delta_seen
    BY <1>1, <2>1, <2>2 DEF BetweenBlocks, Decoders, SameBlock
  <2>5. SameEnd(dec', d) /\ Longer(fed, e, fed') /\ fed'[Len(fed) + 1] = e
    BY <2>2, YieldsAll
  <2>6. /\ dec'.stopped /\ dec'.usage = dec.usage /\ dec'.stop = dec.stop
        /\ dec'.stop_seq = dec.stop_seq /\ dec'.delta_seen
    BY <2>4, <2>5 DEF SameEnd
  <2>7. EndKnown(dec', fed')
    <3>1. EndKnown(dec, fed)  BY DEF Running, Known
    <3>2. dec'.delta_seen = dec.delta_seen
      <4>1. dec' \in Decoders  BY DEF Running, TypeOK
      <4>. QED BY <1>1, <2>2, <2>6, <4>1 DEF Decoders
    <3>. QED BY <1>1, <2>5, <2>6, <3>1, <3>2, EndStays
  <2>8. TerminalPair(fed') = u
    <3>1. PICK last, usage : last = LastTerminal(fed') /\ usage = LastUsage(fed')
      OBVIOUS
    <3>2. TerminalPair(fed')
            = <<MessageDelta(StopOf(last.stop_reason),
                             IF last.stop_reason = "stop_sequence" THEN last.stop_sequence ELSE <<>>,
                             usage), MessageDone>>
      BY <3>1 DEF TerminalPair, LastTerminal, LastUsage
    <3>3. /\ dec.usage = usage /\ dec.stop = StopOf(last.stop_reason)
          /\ dec.stop_seq = last.stop_sequence
      BY <2>6, <2>7, <3>1 DEF EndKnown
    <3>4. dec.stop = "stop_sequence" <=> last.stop_reason = "stop_sequence"
      BY <3>3 DEF StopOf, KnownStops
    <3>5. sequence = IF last.stop_reason = "stop_sequence" THEN last.stop_sequence ELSE <<>>
      BY <2>1, <3>3, <3>4
    <3>. QED BY <2>1, <3>2, <3>3, <3>5
  <2>9. OutputOf(fed', Len(fed) + 1) = u  BY <1>1, <2>5, <2>8, OutputForms
  <2>. QED BY <1>1, <2>2, <2>3, <2>4, <2>7, <2>9, QuietAtEnd
<1>. QED BY <1>2, <1>3

(* Every call of feed leaves a decoder that is known, or fails. *)
LEMMA FeedKnown ==
  ASSUME TypeOK, TypeOK', fed \in Seq(Events), Known(dec, fed), NEW e \in Events, Feed(e),
         ~CitesOpenTool(e)
  PROVE  Fails \/ Known(dec', fed')
<1>1. CASE FeedAfterEnd  BY <1>1 DEF FeedAfterEnd, Rejects, Fails
<1>2. CASE ~FeedAfterEnd
  <2>1. ~Ended
    BY <1>2 DEF Feed, FeedAfterEnd, FeedMessageStart, FeedBlockStart, FeedBlockStartRejected,
      FeedSkippedStart, FeedToolStart, FeedThinkingStart, FeedRedactedStart, FeedTextStart,
      FeedTextStartMalformed, Starting, FeedBlockDelta, FeedDeltaRejected, FeedSkippedDelta,
      FeedInputJsonDelta, FeedPassedDelta, FeedCitation, FeedUnknownDelta, Continuing,
      FeedBlockStop, FeedStopRejected, FeedSkippedStop, FeedToolStop, FeedPlainStop, Stopping,
      FeedMessageDelta, FeedMessageStop, FeedUnknownEvent, Receives
  <2>2. Running  BY <2>1 DEF Running, Ended
  <2>3. CASE FeedUnknownEvent(e)
    <3>1. PICK d, what : what = <<"event", -1>> /\ d = Lose(dec, what)  OBVIOUS
    <3>2. Yields(e, d, <<>>) /\ e.kind \notin KnownEvents /\ dec \in Decoders
      BY <2>3, <3>1 DEF FeedUnknownEvent, TypeOK
    <3>3. d.events = dec.events /\ SameBlock(d, dec) /\ SameEnd(d, dec) /\ d.started = dec.started
      BY <3>1, <3>2 DEF Lose, Decoders, SameBlock, SameEnd
    <3>4. ~d.started => d.open = "none"
      BY <3>3 DEF SameBlock, Known, BlocksKnown
    <3>5. /\ ~KeptStart(e)
          /\ e.kind \notin {"message_start", "content_block_delta", "content_block_stop",
                            "message_delta", "message_stop"}
      BY <3>2 DEF KeptStart, KnownEvents
    <3>. QED BY <2>2, <3>2, <3>3, <3>4, <3>5, NothingIsEvents, YieldsQuiet
  <2>. QED
    BY <1>2, <2>2, <2>3, MessageStartKnown, BlockStartKnown, BlockDeltaKnown, BlockStopKnown,
       MessageDeltaKnown, MessageStopKnown DEF Feed
<1>. QED BY <1>1, <1>2

(* The invariant: the open block, the end and everything handed over are
   what the accepted events say. *)
OutputInv ==
  /\ fed \in Seq(Events)
  /\ ~failed => Known(dec, fed)

(* Nothing is known yet. *)
LEMMA InitKnown ==
  ASSUME Init
  PROVE  OutputInv
<1>1. PICK s, d : s = fed /\ d = dec  OBVIOUS
<1>2. /\ s = <<>> /\ d.open = "none" /\ d.next_ir_index = 0 /\ d.usage = NoUsage
      /\ ~d.delta_seen /\ d.events = <<>>
  BY <1>1 DEF Init, NewDecoder
<1>3. s \in Seq(Events) /\ Len(s) = 0  BY <1>2
<1>4. IrIndex(s, Len(s) + 1) = 0
  <2>1. {j \in 1..((Len(s) + 1) - 1) : KeptStart(s[j])} = {}  BY <1>3
  <2>. QED BY <2>1, FS_EmptySet DEF IrIndex
<1>5. BlocksKnown(d, s)  BY <1>2, <1>3, <1>4 DEF BlocksKnown
<1>6. UsagesIn(s) = <<>>
  <2>1. [k \in 1..Len(s) |-> IF s[k].kind = "message_delta" THEN s[k].usage ELSE <<>>] = <<>>
    BY <1>3
  <2>. QED BY <2>1, ConcatEmpty DEF UsagesIn
<1>7. EndKnown(d, s)  BY <1>2, <1>3, <1>6 DEF EndKnown, LastUsage
<1>8. Said(d, s)
  <2>1. Rendered(s) = <<>>  BY <1>3 DEF Rendered
  <2>. QED BY <1>2, <1>3, <2>1, ConcatEmpty DEF Said
<1>. QED BY <1>1, <1>3, <1>5, <1>7, <1>8 DEF OutputInv, Known

(* What is accepted is an event of the provider. *)
LEMMA AcceptedEvents ==
  ASSUME fed \in Seq(Events), NEW e \in Events, Fails \/ Records(e)
  PROVE  fed' \in Seq(Events)
<1>1. fed' = fed \/ fed' = Append(fed, e)  BY DEF Fails, Records
<1>. QED BY <1>1

(* A provider that puts no citation on a tool_use block, and whatever else
   it sends, as long as no call has failed: what was handed over is, block
   by block and in native order, what came in.  The IR indexes count the
   blocks that are supported, however many were skipped between them; each
   delta is in its own block; a tool block comes at its stop, with the
   input its fragments spell; the terminal pair comes at message_stop with
   the stop reason and the usage that came last. *)
THEOREM DecoderIsBlockwise ==
  ASSUME CitesTools = FALSE
  PROVE  Spec => []OutputIsBlockwise
<1>1. Init => OutputInv  BY InitKnown
<1>2. TypeOK /\ TypeOK' /\ OutputInv /\ [Next]_vars => OutputInv'
  <2>1. SUFFICES ASSUME TypeOK, TypeOK', OutputInv, [Next]_vars
                 PROVE  OutputInv'
    OBVIOUS
  <2>2. CASE failed
    <3>1. failed'  BY <2>1, <2>2, StaysFailed
    <3>2. fed' \in Seq(Events)
      <4>1. ASSUME NEW e \in Events, Feed(e)
            PROVE  fed' \in Seq(Events)
        <5>1. Fails \/ Records(e)  BY <2>1, <4>1, FeedRecords
        <5>. QED BY <2>1, <5>1, AcceptedEvents DEF OutputInv
      <4>. QED BY <2>1, <4>1 DEF OutputInv, Next, vars, Flush, FlushRefused, FlushConfirmed
    <3>. QED BY <3>1, <3>2 DEF OutputInv
  <2>3. CASE ~failed
    <3>1. ASSUME NEW e \in Events, Feed(e), CitesOpenTool(e) => CitesTools
          PROVE  OutputInv'
      <4>1. Fails \/ Records(e)  BY <2>1, <3>1, FeedRecords
      <4>2. fed' \in Seq(Events)  BY <2>1, <4>1, AcceptedEvents DEF OutputInv
      <4>3. Fails \/ Known(dec', fed')
        BY <2>1, <2>3, <3>1, FeedKnown DEF OutputInv
      <4>. QED BY <4>2, <4>3 DEF OutputInv, Fails
    <3>2. CASE FlushRefused  BY <2>1, <3>2 DEF OutputInv, FlushRefused
    <3>3. CASE FlushConfirmed
      <4>1. /\ fed' = fed /\ failed' = failed /\ SameBlock(dec', dec) /\ SameEnd(dec', dec)
            /\ dec'.events = dec.events /\ dec'.started = dec.started
        BY <2>1, <3>3 DEF FlushConfirmed, TypeOK, Decoders, SameBlock, SameEnd
      <4>2. BlocksKnown(dec, fed) /\ EndKnown(dec, fed) /\ Said(dec, fed)
        BY <2>1, <2>3 DEF OutputInv, Known
      <4>3. BlocksKnown(dec', fed)
        BY <4>1, <4>2 DEF BlocksKnown, OpenedAt, SameBlock
      <4>4. EndKnown(dec', fed) /\ Said(dec', fed)
        BY <4>1, <4>2 DEF EndKnown, Said, SameEnd
      <4>5. Known(dec', fed')  BY <4>1, <4>3, <4>4 DEF Known
      <4>6. fed' \in Seq(Events)  BY <2>1, <4>1 DEF OutputInv
      <4>. QED BY <4>5, <4>6 DEF OutputInv
    <3>4. CASE UNCHANGED vars  BY <2>1, <3>4 DEF vars, OutputInv
    <3>. QED BY <2>1, <3>1, <3>2, <3>3, <3>4 DEF Next, Flush
  <2>. QED BY <2>2, <2>3
<1>3. OutputInv => OutputIsBlockwise
  BY DEF OutputInv, OutputIsBlockwise, Known, Said, Rendered
<1>. QED BY <1>1, <1>2, <1>3, DecoderTypeCorrect, PTL DEF Spec
=============================================================================
