----------------------------- MODULE StreamAPI ------------------------------
(***************************************************************************)
(* What a caller may rely on about streaming, with no transfers, flags or  *)
(* locks: one call of pg2sdr_stream_data at a time; callbacks only from    *)
(* that call, one at a time, and none begun once it has failed; a call     *)
(* that is stopped or has failed returns, between callbacks; the device    *)
(* can only be closed when no call is outstanding.                         *)
(*                                                                         *)
(* It is less than include/pg2sdr.h says. There a stopped call returns     *)
(* "after it has finished processing any outstanding data" (line 1832).    *)
(* Here it may still call back after the stop, and need not: the engine    *)
(* hands out the rest of the transfer it is dispatching and drops every    *)
(* other one that has completed.                                           *)
(***************************************************************************)
CONSTANTS Threads, NoThread

VARIABLES
  phase,       \* what the outstanding call is doing, if there is one
  owner,       \* the thread that made it
  inCallback   \* the user callback is running

vars == <<phase, owner, inCallback>>

Phases == {"closed", "idle", "streaming", "stopping", "failing"}

TypeOK ==
  /\ phase \in Phases
  /\ owner \in Threads \cup {NoThread}
  /\ inCallback \in BOOLEAN

Init == phase = "idle" /\ owner = NoThread /\ inCallback = FALSE

\* pg2sdr_stream_data is accepted: no other call is outstanding.
StreamData(t) ==
  /\ phase = "idle"
  /\ phase' = "streaming"
  /\ owner' = t
  /\ UNCHANGED inCallback

\* A range of contiguous samples is handed out, also after a stop.
BeginCallback ==
  /\ phase \in {"streaming", "stopping"}
  /\ ~inCallback
  /\ inCallback' = TRUE
  /\ UNCHANGED <<phase, owner>>

EndCallback == inCallback /\ inCallback' = FALSE /\ UNCHANGED <<phase, owner>>

\* pg2sdr_stop_streaming succeeds, from the callback or from another thread.
StopStreaming ==
  /\ phase = "streaming"
  /\ phase' = "stopping"
  /\ UNCHANGED <<owner, inCallback>>

\* An error ends streaming, stop requested or not, but cuts no callback short.
Error ==
  /\ phase \in {"streaming", "stopping"}
  /\ ~inCallback
  /\ phase' = "failing"
  /\ UNCHANGED <<owner, inCallback>>

Return ==
  /\ phase \in {"stopping", "failing"}
  /\ ~inCallback
  /\ phase' = "idle"
  /\ owner' = NoThread
  /\ UNCHANGED inCallback

CloseDevice == phase = "idle" /\ phase' = "closed" /\ UNCHANGED <<owner, inCallback>>
OpenDevice == phase = "closed" /\ phase' = "idle" /\ UNCHANGED <<owner, inCallback>>

Next ==
  \/ \E t \in Threads : StreamData(t)
  \/ BeginCallback \/ EndCallback \/ StopStreaming \/ Error \/ Return
  \/ CloseDevice \/ OpenDevice

\* What a call may do, and that a call that is stopped or has failed returns,
\* whatever callbacks it still makes.
Safety == Init /\ [][Next]_vars

Spec == Safety /\ WF_vars(EndCallback) /\ SF_vars(Return)
=============================================================================
