------------------------------ MODULE History -------------------------------
(***************************************************************************)
(* One decimate-by-2 stage of the DSP chain: the history-keeping wrapper   *)
(* dsp/src/dsp-history.inc around halfband_decimate_block. The stage is    *)
(* fed an endless signal in pieces of any length; it computes one output   *)
(* from every window of context_len samples, BlockLen samples apart, and   *)
(* keeps what later windows need in a history buffer of history_max        *)
(* samples. A sample is modelled by its place in the signal (1, 2, ...;    *)
(* the zeros before it are 0, -1, ...), an output by the window it was     *)
(* computed from.                                                          *)
(***************************************************************************)
EXTENDS Integers, Sequences

CONSTANTS
  BlockLen,   \* IN_BLOCK_LEN
  Contexts,   \* filter lengths (context_len) considered; the structure of a
              \* half-band filter makes them 3, 7, 11, ...
  MaxInput,   \* longest piece passed to one call
  MaxSignal,  \* samples in the signal
  Word,       \* 2 ^ width of unsigned
  Garbage     \* what memory outside the samples handed over contains

ASSUME HistoryAssumption ==
  /\ BlockLen \in Nat \ {0}
  /\ Contexts \subseteq Nat \ {0}
  /\ MaxInput \in Nat /\ MaxSignal \in Nat /\ Word \in Nat
  /\ Garbage \in Int /\ \A c \in Contexts : Garbage < 1 - c

VARIABLES
  context_len,
  history,     \* the first history_len samples of state->history
  total,       \* samples of the signal passed in so far
  used,        \* elements of the history buffer the last call wrote to
  outputs,     \* outputs of the last call
  produced     \* outputs of all earlier calls

vars == <<context_len, history, total, used, outputs, produced>>

history_max == 2 * context_len

TypeOK ==
  /\ context_len \in Contexts
  /\ history \in Seq(Int)
  /\ total \in Nat
  /\ used \in Nat
  /\ outputs \in Seq(Seq(Int))
  /\ produced \in Nat

\* pg2sdr__dsp_halfband_decimate_create and _reset.
StartWith(history_len) ==
  /\ context_len \in Contexts
  /\ history = [i \in 1 .. history_len |-> i - history_len]
  /\ used = history_len
  /\ total = 0
  /\ outputs = <<>>
  /\ produced = 0

\* Mutants: one zero too many in front of the signal, or none.
InitTooMany == \E c \in Contexts : StartWith(c) /\ context_len = c

Init == \E c \in Contexts : StartWith(c - 1) /\ context_len = c

\* The elements at offset, offset + 1, ... of memory that holds s.
Memory(s, offset, n) ==
  [i \in 1 .. n |-> IF offset + i \in 1 .. Len(s) THEN s[offset + i] ELSE Garbage]

\* halfband_decimate_block on count samples starting at offset of s.
Decimate(s, offset, count) ==
  [k \in 1 .. count \div BlockLen |-> Memory(s, offset + (k - 1) * BlockLen, context_len)]

RoundDown(n) == (n \div BlockLen) * BlockLen

Smaller(a, b) == IF a < b THEN a ELSE b

\* A call with the next n samples of the signal.
Process ==
  \E n \in 0 .. Smaller(MaxInput, MaxSignal - total) :
    LET in == [i \in 1 .. n |-> total + i]
        history_len == Len(history)
        history_fill == Smaller(history_max - history_len, n)
        filled == history \o Memory(in, 0, history_fill)
        available == Len(filled)
        fromHistory == IF available < context_len THEN 0
                       ELSE RoundDown(available - context_len + 1)
        offset == fromHistory - history_len
        fromInput == RoundDown((n - offset - context_len + 1) % Word)
        consumed == offset + fromInput
    IN /\ total' = total + n
       /\ used' = available
       /\ produced' = produced + Len(outputs)
       /\ \/ /\ fromHistory = 0 \/ fromHistory < history_len
             /\ outputs' = Decimate(filled, 0, fromHistory)
             /\ history' = Memory(filled, fromHistory, available - fromHistory)
          \/ /\ fromHistory > 0 /\ fromHistory >= history_len
             /\ outputs' = Decimate(filled, 0, fromHistory) \o Decimate(in, offset, fromInput)
             /\ history' = Memory(in, consumed, n - consumed)
  /\ UNCHANGED context_len

Next == Process
Spec == Init /\ [][Next]_vars

-----------------------------------------------------------------------------
\* The k-th output of the stage, whatever the pieces it was fed.
ReferenceOutput(k) ==
  [j \in 1 .. context_len |-> (k - 1) * BlockLen + j - (context_len - 1)]

\* Cutting the signal into pieces does not change the output: the outputs of
\* all calls, put together, are those of the undivided signal, none missing,
\* repeated or computed from other memory (dsp-history.inc); as many of them as
\* the signal allows, which module Dispatch counts on; and filling the history
\* never goes past the end of its buffer.
OutputIndependentOfPieces ==
  /\ \A k \in 1 .. Len(outputs) : outputs[k] = ReferenceOutput(produced + k)
  /\ produced + Len(outputs) = total \div BlockLen
  /\ used <= history_max

=============================================================================
