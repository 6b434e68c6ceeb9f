----------------------------- MODULE IrProducer -----------------------------
(***************************************************************************)
(* What every streaming decoder promises, whatever protocol it reads       *)
(* (src/spec/20-streaming-semantics.md, N-S-1, N-S-2, N-S-10): each call   *)
(* hands over a batch of events that legally continues the stream, tool    *)
(* blocks come whole and with their exact input, and the terminal pair     *)
(* comes in one batch, last.  A call may also fail, and then nothing is    *)
(* handed over; what a caller that goes on after an error receives is not  *)
(* part of the promise.                                                    *)
(***************************************************************************)
EXTENDS IrStream

VARIABLES
  stream,   \* all events handed to the caller so far
  failed    \* a call has returned an error

Init == stream = <<>> /\ failed = FALSE

Deliver ==
  /\ ~failed
  /\ ~Terminated(stream)
  /\ IsPrefix(stream, stream')
  /\ Promise(stream')
  /\ UNCHANGED failed

Fail == failed' /\ stream' = stream

AfterFailure == failed /\ failed'

Next == Deliver \/ Fail \/ AfterFailure

Spec == Init /\ [][Next]_<<stream, failed>>
=============================================================================
