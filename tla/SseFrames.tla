----------------------------- MODULE SseFrames ------------------------------
(***************************************************************************)
(* Server-sent event framing (src/rust/crates/oxa-sse/src/lib.rs): a       *)
(* server writes frames and lines into a stream of bytes, a reader hands   *)
(* the bytes over in pieces of any size, a Decoder cuts them into frames   *)
(* for a client that loops over them.                                      *)
(*                                                                         *)
(* A byte is a character.  The two field names the decoder knows are two   *)
(* characters long, so that a piece may end inside one; so is the only     *)
(* character outside ASCII, written "u1" "u2".                             *)
(***************************************************************************)
EXTENDS Naturals, Sequences, FiniteSets, SequencesExt

CONSTANTS
  Frames,      \* the frames the server may write
  Lines,       \* other lines it may write, each with its end
  MaxWrites,   \* bound: frames and lines written
  Pieces       \* the sizes of the pieces the reader hands over

VARIABLES
  sent,        \* every byte written
  written,     \* every frame written, the one that was cut short included
  server,      \* "open", "closed", or "broken" when a write failed half-way
  taken,       \* how many of the bytes the reader has handed over
  dec,         \* the decoder, and the local variables of next_frame
  got,         \* the frames the client received
  result,      \* what its last call returned
  failed       \* a read has failed

serverVars == <<sent, written, server>>
clientVars == <<taken, dec, got, result, failed>>
vars == <<serverVars, clientVars>>

LF == "\n"
CR == "\r"
DataField == <<"d", "a">>
EventField == <<"e", "v">>

Frame(event, data) == [event |-> event, data |-> data]

-----------------------------------------------------------------------------
(* encode: the event name unless it is empty, a data line for every line
   of the data, a blank line. *)

Joined(lines) == FoldLeft(LAMBDA out, line : out \o <<LF>> \o line, Head(lines), Tail(lines))

JoinLines(lines) == IF lines = <<>> THEN <<>> ELSE Joined(lines)

Split(s, separator) ==
  FoldLeft(LAMBDA parts, x : IF x = separator THEN Append(parts, <<>>)
                             ELSE [parts EXCEPT ![Len(parts)] = Append(@, x)],
           <<<<>>>>, s)

SplitLines(bytes) == Split(bytes, LF)

FieldLine(field, value) == field \o <<":", " ">> \o value \o <<LF>>

Encode(frame) ==
  LET event == IF frame.event = <<>> THEN <<>> ELSE FieldLine(EventField, frame.event)
      lines == SplitLines(frame.data)
  IN  event \o FlattenSeq([i \in 1..Len(lines) |-> FieldLine(DataField, lines[i])]) \o <<LF>>

MayWrite == server = "open" /\ Len(written) < MaxWrites

Write(frame) ==
  /\ MayWrite
  /\ sent' = sent \o Encode(frame)
  /\ written' = Append(written, frame)
  /\ UNCHANGED <<server, clientVars>>

(* A write_all fails: what went out is a part of the frame. *)
WriteFails(frame, n) ==
  /\ MayWrite /\ n < Len(Encode(frame))
  /\ sent' = sent \o SubSeq(Encode(frame), 1, n)
  /\ written' = Append(written, frame)
  /\ server' = "broken"
  /\ UNCHANGED clientVars

(* Another server's line: `written` notes that it is no frame of encode. *)
WriteLine(line) ==
  /\ MayWrite
  /\ sent' = sent \o line
  /\ written' = Append(written, Frame(<<"raw">>, line))
  /\ UNCHANGED <<server, clientVars>>

Close ==
  /\ server = "open"
  /\ server' = "closed"
  /\ UNCHANGED <<sent, written, clientVars>>

-----------------------------------------------------------------------------
(* The decoder.  `at` is where next_frame is: "out" of the call, "read" in
   read_until, "line" with a line to look at. *)

NewDecoder ==
  [eof |-> FALSE, buffer |-> <<>>, line_buf |-> <<>>, at |-> "out",
   have |-> FALSE, event |-> <<>>, data_lines |-> <<>>]

Return(d, outcome) ==
  /\ dec' = [d EXCEPT !.at = "out"]
  /\ result' = outcome
  /\ UNCHANGED got

ReturnFrame(d) ==
  /\ dec' = [d EXCEPT !.at = "out"]
  /\ result' = "frame"
  /\ got' = Append(got, Frame(d.event, JoinLines(d.data_lines)))

NextLine(d) == [d EXCEPT !.at = "read", !.line_buf = <<>>]

Fresh(d) == [d EXCEPT !.have = FALSE, !.event = <<>>, !.data_lines = <<>>]

(* The client's loop: it calls again until there is no frame. *)
NextFrame ==
  /\ dec.at = "out" /\ result # "none"
  /\ IF dec.eof THEN Return(dec, "none")
     ELSE dec' = NextLine(Fresh(dec)) /\ UNCHANGED <<got, result>>
  /\ UNCHANGED <<serverVars, taken, failed>>

(* Mutant of Scan: what the reader handed over is taken for a line. *)
ScanPiece ==
  /\ dec.at = "read" /\ dec.buffer # <<>>
  /\ dec' = [dec EXCEPT !.line_buf = @ \o dec.buffer, !.buffer = <<>>, !.at = "line"]
  /\ UNCHANGED <<serverVars, taken, got, result, failed>>

(* read_until takes the buffered bytes up to a line feed, and asks the
   reader for more when it found none. *)
Scan ==
  /\ dec.at = "read" /\ dec.buffer # <<>>
  /\ LET feed == SelectInSeq(dec.buffer, LAMBDA byte : byte = LF)
         whole == feed # 0
         end == IF whole THEN feed ELSE Len(dec.buffer)
     IN  dec' = [dec EXCEPT
                   !.line_buf = @ \o SubSeq(dec.buffer, 1, end),
                   !.buffer = SubSeq(@, end + 1, Len(@)),
                   !.at = IF whole THEN "line" ELSE "read"]
  /\ UNCHANGED <<serverVars, taken, got, result, failed>>

Waiting == dec.at = "read" /\ dec.buffer = <<>>

Refill(n) ==
  /\ Waiting /\ taken + n <= Len(sent)
  /\ dec' = [dec EXCEPT !.buffer = SubSeq(sent, taken + 1, taken + n)]
  /\ taken' = taken + n
  /\ UNCHANGED <<serverVars, got, result, failed>>

(* The reader is at its end: an unfinished line is a line; after it, a
   frame that was begun is whole. *)
LastLine ==
  /\ Waiting /\ server # "open" /\ taken = Len(sent) /\ dec.line_buf # <<>>
  /\ dec' = [dec EXCEPT !.at = "line"]
  /\ UNCHANGED <<serverVars, taken, got, result, failed>>

EndOfStream ==
  /\ Waiting /\ server # "open" /\ taken = Len(sent) /\ dec.line_buf = <<>>
  /\ LET d == [dec EXCEPT !.eof = TRUE]
     IN  IF dec.have THEN ReturnFrame(d) ELSE Return(d, "none")
  /\ UNCHANGED <<serverVars, taken, failed>>

(* Mutant of AfterError: it is not the end. *)
AfterErrorOpen(d) == d

AfterError(d) == [d EXCEPT !.eof = TRUE]

(* A read fails: the frame that was begun is dropped, the error returned. *)
ReadFails ==
  /\ Waiting
  /\ Return(AfterError(dec), "error")
  /\ failed' = TRUE
  /\ UNCHANGED <<serverVars, taken>>

-----------------------------------------------------------------------------
(* A line: without its LF and then its CR; blank, a comment, or a field
   with its value, from which one space is taken. *)

WithoutLast(line, byte) ==
  IF line # <<>> /\ Last(line) = byte THEN Front(line) ELSE line

Stripped(line) == WithoutLast(WithoutLast(line, LF), CR)

Colon(line) == SelectInSeq(line, LAMBDA byte : byte = ":")

FieldName(line) == IF Colon(line) = 0 THEN line ELSE SubSeq(line, 1, Colon(line) - 1)

(* Mutant of FieldValue: every space is taken from the value. *)
FieldValueTrimmed(line) ==
  LET value == SubSeq(line, Colon(line) + 1, Len(line))
  IN  IF Colon(line) = 0 THEN <<>> ELSE SelectSeq(value, LAMBDA byte : byte # " ")

FieldValue(line) ==
  LET value == SubSeq(line, Colon(line) + 1, Len(line))
  IN  IF Colon(line) = 0 THEN <<>>
      ELSE IF value # <<>> /\ Head(value) = " " THEN Tail(value) ELSE value

(* from_utf8_lossy: half a character is the replacement character. *)
Lossy(text) ==
  LET Half(i) == \/ text[i] = "u1" /\ ~(i < Len(text) /\ text[i + 1] = "u2")
                 \/ text[i] = "u2" /\ ~(i > 1 /\ text[i - 1] = "u1")
  IN  [i \in 1..Len(text) |-> IF Half(i) THEN "?" ELSE text[i]]

WithField(d, line) ==
  CASE FieldName(line) = DataField ->
         [d EXCEPT !.have = TRUE, !.data_lines = Append(@, FieldValue(line))]
    [] FieldName(line) = EventField ->
         [d EXCEPT !.have = TRUE, !.event = Lossy(FieldValue(line))]
    [] OTHER -> d

BlankLine ==
  /\ dec.at = "line" /\ Stripped(dec.line_buf) = <<>>
  /\ IF dec.have THEN ReturnFrame(dec)
     ELSE dec' = NextLine(Fresh(dec)) /\ UNCHANGED <<got, result>>
  /\ UNCHANGED <<serverVars, taken, failed>>

FieldOrComment ==
  /\ dec.at = "line" /\ Stripped(dec.line_buf) # <<>>
  /\ LET line == Stripped(dec.line_buf)
     IN  dec' = NextLine(IF line[1] = ":" THEN dec ELSE WithField(dec, line))
  /\ UNCHANGED <<serverVars, taken, got, result, failed>>

-----------------------------------------------------------------------------
Init ==
  /\ sent = <<>> /\ written = <<>> /\ server = "open" /\ taken = 0
  /\ dec = NewDecoder /\ got = <<>> /\ result = "nothing" /\ failed = FALSE

Decode == NextFrame \/ Scan \/ LastLine \/ EndOfStream \/ BlankLine \/ FieldOrComment

Next ==
  \/ \E frame \in Frames : Write(frame)
  \/ \E frame \in Frames : \E n \in 1..Len(Encode(frame)) : WriteFails(frame, n)
  \/ \E line \in Lines : WriteLine(line)
  \/ Close
  \/ Decode
  \/ \E n \in Pieces : Refill(n)
  \/ ReadFails

(* The client's loop runs, and the reader hands over what there is. *)
Spec ==
  /\ Init /\ [][Next]_vars
  /\ WF_vars(Decode) /\ WF_vars(\E n \in Pieces : Refill(n))

-----------------------------------------------------------------------------
(* What the stream says, from all its bytes at once: groups of lines
   between blank lines; the data of a group with a field of ours. *)
LinesOf(bytes) ==
  LET lines == SplitLines(bytes)
  IN  [i \in 1..Len(lines) |-> WithoutLast(lines[i], CR)]

Fields(lines, field) ==
  LET own == SelectSeq(lines, LAMBDA line : /\ line[1] # ":" 
                                            /\ FieldName(line) = field)
  IN  [i \in 1..Len(own) |-> FieldValue(own[i])]

FramesIn(bytes) ==
  LET groups == Split(LinesOf(bytes), <<>>)
      Data(group) == Fields(group, DataField)
      Event(group) == Fields(group, EventField)
      ours == SelectSeq(groups, LAMBDA group : Data(group) # <<>> \/ Event(group) # <<>>)
  IN  [g \in 1..Len(ours) |->
         Frame(IF Event(ours[g]) = <<>> THEN <<>> ELSE Lossy(Last(Event(ours[g]))),
               JoinLines(Data(ours[g])))]

(* N-S-8: the frames do not depend on where the reader cuts the bytes, on
   the kind of line end, on comments or on fields the decoder does not
   know; a frame that was begun before a clean end is delivered; a failed
   read loses frames, but never changes or reorders one. *)
FramesIndependentOfCuts ==
  /\ IsPrefix(got, FramesIn(sent))
  /\ result = "none" /\ ~failed => got = FramesIn(sent)

FrameByFrame == \A i \in 1..Len(written) : written[i].event # <<"raw">>

(* What encode writes comes back whole and in order; when a write failed
   half-way only the frame it was writing may arrive shortened. *)
WrittenFramesArrive ==
  FrameByFrame =>
    LET sure == IF server = "broken" THEN Len(written) - 1 ELSE Len(written)
    IN  /\ Len(got) <= Len(written)
        /\ \A i \in 1..Len(got) :
             IF i <= sure THEN got[i] = written[i]
             ELSE IsPrefix(got[i].data, written[i].data)

(* A loop over the frames ends once the server has closed the stream, even
   when reads fail: an error is returned once, and then nothing. *)
LoopEnds == (server # "open") ~> (result = "none")
=============================================================================
