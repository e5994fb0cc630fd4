------------------------------ MODULE Dispatch ------------------------------
(***************************************************************************)
(* From a completed USB transfer to the buffers the user callback gets:    *)
(* dispatch_transfer, dispatch_contiguous_blocks and convert_adc_blocks of *)
(* src/src/stream.c, for one call of pg2sdr_stream_data. A transfer is a   *)
(* sequence of blocks, each with a header that numbers it; the device      *)
(* drops blocks when it overruns. Sample values play no part: a block is   *)
(* SPB samples, and what is followed is how many of them come out, when,   *)
(* and with which timestamp.                                               *)
(***************************************************************************)
EXTENDS Naturals, Sequences

CONSTANTS
  W,           \* width of unsigned and uint32_t
  SPB,         \* usb_samples_per_block
  Stages,      \* decimate-by-2 stages: 0 in LOWIF_REAL mode, otherwise the
               \* downconverter's and post_decimation more
  Blocks,      \* blocks in a transfer of usb_transfer_size bytes
  BufferSize,  \* buffer_size
  MaxGap,      \* blocks the device drops at once, at most
  MaxBlock     \* number of the last block the device sends

ASSUME DispatchAssumption ==
  /\ W \in Nat /\ SPB \in Nat \ {0} /\ Stages \in Nat
  /\ Blocks \in Nat \ {0} /\ BufferSize \in Nat /\ MaxGap \in Nat /\ MaxBlock \in Nat

Word == 2 ^ W
AdcPerUser == 2 ^ Stages      \* adc_samples_per_user_sample

\* The sizing of apply_rate_change: a transfer fills at most one buffer.
ASSUME TransferFitsBuffer == Blocks * SPB <= BufferSize * AdcPerUser

VARIABLES
  next,      \* number of the next block the device will acquire, not wrapped
  blocks,    \* the transfer being dispatched: the numbers of its blocks
  offset,    \* the block dispatch_transfer looks at, from 1
  start,     \* the first block of the current contiguous range
  bad,       \* the block whose header is malformed, or 0
  partial,   \* dev->partial_samples
  held,      \* samples each decimation stage has taken in since its last output
  buffer,    \* the last buffer passed to the callback, with the stretch of
             \* the device's unwrapped sample count it was converted from
  received,  \* ADC samples converted so far
  delivered, \* user samples delivered so far
  failed     \* dispatch_transfer has returned TRANSFER_FORMAT

vars == <<next, blocks, offset, start, bad, partial, held, buffer, received, delivered, failed>>

Sequence(b) == b % Word       \* h.sequence of block number b

-----------------------------------------------------------------------------
Buffer == [timestamp : 0 .. Word - 1, count : Nat, from : Nat, to : Nat]

TypeOK ==
  /\ next \in Nat
  /\ blocks \in Seq(Nat)
  /\ offset \in 1 .. Blocks + 1
  /\ start \in 1 .. Blocks
  /\ bad \in 0 .. Blocks
  /\ partial \in 0 .. AdcPerUser - 1
  /\ held \in [1 .. Stages -> 0 .. 1]
  /\ buffer \in Buffer
  /\ received \in Nat
  /\ delivered \in Nat
  /\ failed \in BOOLEAN

\* The block counter of the device need not start at zero.
Init ==
  /\ next \in 0 .. MaxGap
  /\ blocks = <<>>
  /\ offset = 1
  /\ start = 1
  /\ bad = 0
  /\ partial = 0
  /\ held = [i \in 1 .. Stages |-> 0]
  /\ buffer = [timestamp |-> 0, count |-> 0, from |-> 0, to |-> 0]
  /\ received = 0
  /\ delivered = 0
  /\ failed = FALSE

-----------------------------------------------------------------------------
\* A transfer completes: blocks in order, some dropped before each of them,
\* and perhaps one that is not a block at all.
Receive ==
  /\ ~failed
  /\ blocks = <<>>
  /\ \E gaps \in [1 .. Blocks -> 0 .. MaxGap], b \in 0 .. Blocks :
       LET number[i \in 1 .. Blocks] ==
             gaps[i] + IF i = 1 THEN next ELSE number[i - 1] + 1
       IN /\ number[Blocks] <= MaxBlock
          /\ blocks' = number
          /\ next' = number[Blocks] + 1
          /\ bad' = b
  /\ offset' = 1
  /\ start' = 1
  /\ UNCHANGED <<partial, held, buffer, received, delivered, failed>>

\* Mutants: the samples held back are forgotten; the chain is a stage short.
LeavingForgetful(n) ==
  LET out[i \in 0 .. Stages] == IF i = 0 THEN n ELSE out[i - 1] \div 2
  IN out

LeavingOneShort(n) ==
  LET out[i \in 0 .. Stages] ==
        IF i = 0 THEN n
        ELSE IF i = Stages THEN held[i] + out[i - 1]
        ELSE (held[i] + out[i - 1]) \div 2
  IN out

\* Samples leaving stage i when n enter the chain. A stage turns each pair of
\* samples into one and keeps an odd one for the next call (module History).
Leaving(n) ==
  LET out[i \in 0 .. Stages] ==
        IF i = 0 THEN n ELSE (held[i] + out[i - 1]) \div 2
  IN out

\* dispatch_contiguous_blocks on blocks first .. last of the transfer: their
\* timestamp corrected by "correction", and "left" samples left over. The
\* timestamp is 32-bit unsigned arithmetic, widened only when it is stored.
DispatchWith(first, last, correction, left) ==
  LET n == (last - first + 1) * SPB
      samples == Leaving(n)
      t == (Sequence(blocks[first]) * SPB + Word - correction) % Word
  IN /\ buffer' = [timestamp |-> t \div AdcPerUser, count |-> samples[Stages],
                   from |-> blocks[first] * SPB, to |-> (blocks[last] + 1) * SPB]
     /\ held' = [i \in 1 .. Stages |-> (held[i] + samples[i - 1]) % 2]
     /\ partial' = left
     /\ received' = received + n
     /\ delivered' = delivered + samples[Stages]

\* Mutants: the timestamp is not corrected; partial_samples is only what this
\* range leaves over.
DispatchUncorrected(first, last) ==
  DispatchWith(first, last, 0, (partial + (last - first + 1) * SPB) % AdcPerUser)
DispatchOwnRemainder(first, last) ==
  DispatchWith(first, last, partial, ((last - first + 1) * SPB) % AdcPerUser)

DispatchRange(first, last) ==
  DispatchWith(first, last, partial, (partial + (last - first + 1) * SPB) % AdcPerUser)

Continues ==
  offset > 1 => Sequence(blocks[offset]) = (Sequence(blocks[offset - 1]) + 1) % Word

\* The header loop of dispatch_transfer, one block at a time.
BadHeader ==
  /\ blocks # <<>> /\ offset = bad
  /\ failed' = TRUE
  /\ blocks' = <<>>
  /\ UNCHANGED <<next, offset, start, bad, partial, held, buffer, received, delivered>>

GoodHeader ==
  /\ blocks # <<>> /\ offset <= Len(blocks) /\ offset # bad
  /\ offset' = offset + 1
  /\ UNCHANGED <<next, blocks, bad, failed>>

SameRange == GoodHeader /\ Continues /\ UNCHANGED <<start, partial, held, buffer, received, delivered>>

NewRange ==
  /\ GoodHeader
  /\ ~Continues
  /\ DispatchRange(start, offset - 1)
  /\ start' = offset

LastRange ==
  /\ blocks # <<>> /\ offset = Len(blocks) + 1
  /\ DispatchRange(start, Len(blocks))
  /\ blocks' = <<>>
  /\ UNCHANGED <<next, offset, start, bad, failed>>

Next == Receive \/ BadHeader \/ SameRange \/ NewRange \/ LastRange

Spec == Init /\ [][Next]_vars

-----------------------------------------------------------------------------
(* Properties.                                                             *)

\* What the decimation stages hold back between two buffers, in ADC samples.
HeldBack ==
  LET sum[i \in 0 .. Stages] ==
        IF i = 0 THEN 0 ELSE sum[i - 1] + held[i] * 2 ^ (i - 1)
  IN sum[Stages]

\* partial_samples, which corrects the timestamps, is kept apart from the DSP
\* state it mirrors: it is always exactly what the stages hold back, over any
\* sequence of ranges (dispatch_contiguous_blocks, convert_adc_blocks).
PartialMirrorsDSP == partial = HeldBack

\* Nothing is lost or made up between the ADC and the user: every sample of
\* every range went into a user sample or is still held back.
SamplesConserved == received = delivered * AdcPerUser + partial

\* The converted data fits the buffer get_buffer allocated, even when samples
\* held back from the previous transfer come on top of a full one.
CountFitsBuffer == buffer.count <= BufferSize

\* Each buffer starts where the previous one ended if no block was dropped in
\* between, and further on by what was dropped if some were, so the user code
\* can see the gap (pg2sdr_sample_buffer.timestamp).
TimestampsFollow ==
  [][received > 0 /\ buffer' # buffer =>
       LET end == buffer.timestamp + buffer.count
           dropped == buffer'.from - buffer.to
       IN /\ dropped = 0 => buffer'.timestamp = end
          /\ dropped > 0 => /\ buffer'.timestamp >= end + dropped \div AdcPerUser
                            /\ buffer'.timestamp <= end + dropped \div AdcPerUser + 1]_vars

\* "Calls to callback are made [...] in order of increasing sample timestamp"
\* (documentation of pg2sdr_stream_data).
TimestampsIncrease ==
  [][received > 0 /\ buffer' # buffer => buffer'.timestamp >= buffer.timestamp]_vars
=============================================================================
