------------------------------- MODULE Stream -------------------------------
(***************************************************************************)
(* The streaming engine of libpg2sdr, src/src/stream.c: pg2sdr_stream_data *)
(* in one thread, pg2sdr_stop_streaming and pg2sdr_close_device in others, *)
(* and libusb, which owns the submitted transfers and runs                 *)
(* transfer_callback on them from whichever thread handles its events.     *)
(*                                                                         *)
(* Everything the code does between two releases of dev->mutex is atomic   *)
(* for the other API threads, but not for transfer_callback, which takes   *)
(* no lock: an action here is a stretch of code with at most one access to *)
(* what the callback writes (a transfer's state and completion_flag).      *)
(* What the buffers hold is in module Dispatch; what apply_changes does    *)
(* before streaming is in module Config.                                   *)
(***************************************************************************)
EXTENDS Naturals, Sequences

CONSTANTS
  Threads,        \* API threads of the application
  NoThread,       \* dev->mutex is not held
  N,              \* transfer_count
  Faults,         \* which calls into libusb may fail, see AllFaults
  ForeignEvents   \* may a thread that does not hold dev->mutex (it streams from,
                  \* or opens, another device of the same pg2sdr_context)
                  \* handle this device's libusb events?

AllFaults ==
  { "submit",     \* libusb_submit_transfer of a transfer of the initial batch
    "resubmit",   \* libusb_submit_transfer of a transfer just dispatched
    "transfer",   \* a transfer ends with a status other than COMPLETED
    "format",     \* a block header is not what it must be
    "events",     \* libusb_handle_events_* in the main loop
    "drain",      \* libusb_handle_events_completed in drain_transfers
    "control" }   \* a start or stop control transfer, whose effect on the
                  \* device is then unknown

\* Those after which drain_transfers still leaves everything as it found it.
Contained == {"resubmit", "transfer", "format", "events"}

ASSUME StreamAssumption ==
  /\ NoThread \notin Threads
  /\ N \in Nat \ {0}
  /\ Faults \subseteq AllFaults
  /\ ForeignEvents \in BOOLEAN

Transfers == 1 .. N
NoTransfer == 0

VARIABLES
  open,             \* the device handle has not been closed
  mutex,            \* holder of dev->mutex
  streaming,        \* dev->streaming
  draining,         \* dev->draining
  completion_flag,  \* dev->completion_flag
  state,            \* state of each transfer; "FREED": not allocated
  active,           \* the list at dev->active_transfers_head, oldest first
  dsp,              \* the downconverter, decimators and work buffers exist
  adc,              \* the device has been told to send ADC data
  pc,               \* where each thread is in pg2sdr_stream_data
  error,            \* local "error" of each thread
  urbs,             \* transfers owned by libusb, in order of submission
  status,           \* transfer->status of each transfer, once it has completed
  calling           \* the transfer in whose transfer_callback some thread is,
                    \* between its two stores, or NoTransfer

devVars == <<streaming, draining, completion_flag, active, dsp>>
usbVars == <<urbs, status, calling>>
handleVars == <<open, adc>>
vars == <<devVars, usbVars, handleVars, mutex, state, pc, error>>

-----------------------------------------------------------------------------
States == {"FREED", "IDLE", "BUSY", "COMPLETED"}

\* Points of pg2sdr_stream_data: the thread holds the mutex at those in Locked
\* and is in libusb's event loop, or back and blocked on the mutex, at the
\* others.
Waiting == {"wait", "drainwait"}
Locked == {"submit", "loop", "check", "dispatch", "callback", "drain", "drainloop", "draincheck"}
Cancelled == {"drainloop", "draincheck", "drainwait"}
PCs == {"out"} \cup Waiting \cup Locked

TypeOK ==
  /\ open \in BOOLEAN
  /\ mutex \in Threads \cup {NoThread}
  /\ streaming \in BOOLEAN
  /\ draining \in BOOLEAN
  /\ completion_flag \in 0 .. 1
  /\ state \in [Transfers -> States]
  /\ active \in Seq(Transfers)
  /\ dsp \in BOOLEAN
  /\ adc \in BOOLEAN
  /\ pc \in [Threads -> PCs]
  /\ error \in [Threads -> {"SUCCESS", "ERROR"}]
  /\ urbs \in Seq(Transfers)
  /\ status \in [Transfers -> {"COMPLETED", "FAILED"}]
  /\ calling \in Transfers \cup {NoTransfer}

Init ==
  /\ open = TRUE
  /\ mutex = NoThread
  /\ streaming = FALSE
  /\ draining = FALSE
  /\ completion_flag = 0
  /\ state = [x \in Transfers |-> "FREED"]
  /\ active = <<>>
  /\ dsp = FALSE
  /\ adc = FALSE
  /\ pc = [t \in Threads |-> "out"]
  /\ error = [t \in Threads |-> "SUCCESS"]
  /\ urbs = <<>>
  /\ status = [x \in Transfers |-> "COMPLETED"]
  /\ calling = NoTransfer

Elements(s) == {s[i] : i \in 1 .. Len(s)}
Injective(s) == \A i, j \in 1 .. Len(s) : s[i] = s[j] => i = j
Without(s, i) == [j \in 1 .. Len(s) - 1 |-> IF j < i THEN s[j] ELSE s[j + 1]]

\* What is in both sequences is in them in the same order.
SameOrder(r, s) ==
  \A i, j \in 1 .. Len(r), k, l \in 1 .. Len(s) :
    r[i] = s[k] /\ r[j] = s[l] /\ i < j => k < l

Linked == Elements(active)
Owned == Elements(urbs)
\* Mutants: only the head is looked at; completed transfers count as busy.
OnlyHeadBusy == active # <<>> /\ state[Head(active)] = "BUSY"
AnyNotIdle == \E x \in Transfers : state[x] \in {"BUSY", "COMPLETED"}

AnyBusy == \E x \in Transfers : state[x] = "BUSY"
AllFreed == [x \in Transfers |-> "FREED"]

Goto(t, from, to) == pc[t] = from /\ pc' = [pc EXCEPT ![t] = to]
Fail(t) == error' = [error EXCEPT ![t] = "ERROR"]

-----------------------------------------------------------------------------
(* pg2sdr_stream_data, up to the main loop. The mutex is held throughout.  *)

\* Mutant: no "already streaming" check.
EnterUnchecked(t) == open /\ pc[t] = "out" /\ mutex = NoThread

\* dev->mutex is free and pg2sdr_stream_data gets past its first check.
Enter(t) ==
  /\ open
  /\ pc[t] = "out"
  /\ mutex = NoThread
  /\ ~streaming

\* "done": what every return past the first check does.
Done(t) ==
  /\ streaming' = FALSE
  /\ draining' = FALSE
  /\ mutex' = NoThread
  /\ pc' = [pc EXCEPT ![t] = "out"]

\* apply_changes fails or there is no sample rate: nothing was touched; or
\* allocate_transfers fails: it had freed what dev->transfers held.
StartFailsEarly(t) ==
  /\ Enter(t)
  /\ Done(t)
  /\ Fail(t)
  /\ state' \in {state, AllFreed}
  /\ UNCHANGED <<completion_flag, active, dsp, usbVars, handleVars>>

\* The DSP set-up, libusb_clear_halt or the start control transfer fails:
\* "cleanup" frees the transfers and the DSP state.
StartFailsLate(t) ==
  /\ Enter(t)
  /\ Done(t)
  /\ Fail(t)
  /\ state' = AllFreed
  /\ dsp' = FALSE
  /\ adc' \in IF "control" \in Faults THEN BOOLEAN ELSE {adc}
  /\ UNCHANGED <<open, completion_flag, active, usbVars>>

Start(t) ==
  /\ Enter(t)
  /\ Goto(t, "out", "submit")
  /\ mutex' = t
  /\ state' = [x \in Transfers |-> "IDLE"]
  /\ dsp' = TRUE
  /\ adc' = TRUE
  /\ error' = [error EXCEPT ![t] = "SUCCESS"]
  /\ UNCHANGED <<open, streaming, draining, completion_flag, active, usbVars>>

\* submit_transfers submits and links the idle transfers in order. libusb may
\* complete one while the next is submitted; nothing here looks at that, so
\* the batch is one step.
SubmitTransfers(t) ==
  /\ pc[t] = "submit"
  /\ \E n \in IF "submit" \in Faults THEN 0 .. N ELSE {N} :
       /\ state' = [x \in Transfers |-> IF x <= n THEN "BUSY" ELSE state[x]]
       /\ active' = active \o [i \in 1 .. n |-> i]
       /\ urbs' = urbs \o [i \in 1 .. n |-> i]
       /\ \/ /\ n = N
             /\ streaming' = TRUE
             /\ Goto(t, "submit", "loop")
             /\ UNCHANGED error
          \/ /\ n < N
             /\ Fail(t)
             /\ Goto(t, "submit", "drain")
             /\ UNCHANGED streaming
  /\ UNCHANGED <<draining, completion_flag, dsp, status, calling, handleVars, mutex>>

-----------------------------------------------------------------------------
(* The main loop of pg2sdr_stream_data.                                    *)

ResetFlag(t) ==
  /\ Goto(t, "loop", "check")
  /\ completion_flag' = 0
  /\ UNCHANGED <<streaming, draining, active, dsp, usbVars, handleVars, mutex, state, error>>

SeeDraining(t) ==
  /\ Goto(t, "check", "drain")
  /\ draining
  /\ UNCHANGED <<devVars, usbVars, handleVars, mutex, state, error>>

HeadIs(s) == active # <<>> /\ state[Head(active)] = s

AwaitHead(t) ==
  /\ Goto(t, "check", "wait")
  /\ ~draining
  /\ HeadIs("BUSY")
  /\ mutex' = NoThread
  /\ UNCHANGED <<devVars, usbVars, handleVars, state, error>>

HeadHasData == HeadIs("COMPLETED") /\ status[Head(active)] = "COMPLETED"

\* The head's state is neither BUSY nor COMPLETED, or it did not end well.
HeadFails(t) ==
  /\ Goto(t, "check", "drain")
  /\ ~draining
  /\ active # <<>>
  /\ ~HeadIs("BUSY")
  /\ ~HeadHasData
  /\ Fail(t)
  /\ UNCHANGED <<devVars, usbVars, handleVars, mutex, state>>

\* dispatch_transfer is called; it has yet to hand out what it has not handed
\* out, with the (recursive) mutex held throughout.
BeginDispatch(t) ==
  /\ Goto(t, "check", "dispatch")
  /\ ~draining
  /\ HeadHasData
  /\ UNCHANGED <<devVars, usbVars, handleVars, mutex, state, error>>

\* dispatch_contiguous_blocks: the user callback is called for the next range
\* of contiguous blocks, whether or not a callback of an earlier range has asked
\* for a stop. A range for which there is no buffer passes without a callback,
\* and is no step.
BeginCallback(t) ==
  /\ Goto(t, "dispatch", "callback")
  /\ UNCHANGED <<devVars, usbVars, handleVars, mutex, state, error>>

EndCallback(t) ==
  /\ Goto(t, "callback", "dispatch")
  /\ UNCHANGED <<devVars, usbVars, handleVars, mutex, state, error>>

\* Mutant: the streaming thread is not woken up.
RequestStopSilently ==
  /\ streaming
  /\ draining' = TRUE
  /\ UNCHANGED <<streaming, completion_flag, active, dsp, usbVars, handleVars, mutex, state, pc, error>>

\* The stores of pg2sdr_stop_streaming, once it has the mutex.
RequestStop ==
  /\ streaming
  /\ draining' = TRUE
  /\ completion_flag' = 1
  /\ UNCHANGED <<streaming, active, dsp, usbVars, handleVars, mutex, state, pc, error>>

\* The user callback, entered with the mutex held, calls pg2sdr_stop_streaming.
StopFromCallback(t) == pc[t] = "callback" /\ RequestStop

\* A block header, or the length of the transfer, is wrong: what precedes it may
\* have been handed out already.
DispatchFails(t) ==
  /\ "format" \in Faults
  /\ Goto(t, "dispatch", "drain")
  /\ Fail(t)
  /\ UNCHANGED <<devVars, usbVars, handleVars, mutex, state>>

\* Mutants: the transfer goes back to the front of the list; a failure to
\* submit it is ignored, with the transfer left BUSY or IDLE.
ResubmitAtFront(t) ==
  /\ active # <<>>
  /\ Goto(t, "dispatch", "loop")
  /\ state' = [state EXCEPT ![Head(active)] = "BUSY"]
  /\ urbs' = Append(urbs, Head(active))
  /\ UNCHANGED <<devVars, error, status, calling, handleVars, mutex>>

ResubmitLeftBusy(t) ==
  /\ active # <<>>
  /\ Goto(t, "dispatch", "loop")
  /\ state' = [state EXCEPT ![Head(active)] = "BUSY"]
  /\ active' = Append(Tail(active), Head(active))
  /\ urbs' \in {urbs, Append(urbs, Head(active))}
  /\ UNCHANGED <<streaming, draining, completion_flag, dsp, error, status, calling,
                 handleVars, mutex>>

ResubmitLeftIdle(t) ==
  /\ active # <<>>
  /\ Goto(t, "dispatch", "loop")
  /\ state' = [state EXCEPT ![Head(active)] = "IDLE"]
  /\ active' = Tail(active)
  /\ UNCHANGED <<streaming, draining, completion_flag, dsp, usbVars, error, handleVars, mutex>>

\* The dispatched head is unlinked and submitted again at the tail.
Resubmit(t) ==
  /\ active # <<>>
  /\ LET x == Head(active) IN
       \/ /\ Goto(t, "dispatch", "loop")
          /\ state' = [state EXCEPT ![x] = "BUSY"]
          /\ active' = Append(Tail(active), x)
          /\ urbs' = Append(urbs, x)
          /\ UNCHANGED error
       \/ /\ "resubmit" \in Faults
          /\ Goto(t, "dispatch", "drain")
          /\ state' = [state EXCEPT ![x] = "IDLE"]
          /\ active' = Tail(active)
          /\ Fail(t)
          /\ UNCHANGED urbs
  /\ UNCHANGED <<streaming, draining, completion_flag, dsp, status, calling, handleVars, mutex>>

\* A callback begun in this thread's own event handling, or under the mutex,
\* has returned by the time this thread holds the mutex again.
CallbackOver == ForeignEvents \/ calling = NoTransfer

\* Mutants: an error of the event loop does not end the main loop; or it returns
\* without draining.
WakeGoesOn(t) ==
  /\ mutex = NoThread
  /\ CallbackOver
  /\ mutex' = t
  /\ Goto(t, "wait", "loop")
  /\ \/ UNCHANGED error
     \/ "events" \in Faults /\ Fail(t)
  /\ UNCHANGED <<devVars, usbVars, handleVars, state>>

WakeReturns(t) ==
  /\ mutex = NoThread
  /\ CallbackOver
  /\ \/ /\ Goto(t, "wait", "loop")
        /\ mutex' = t
        /\ UNCHANGED <<error, streaming, draining>>
     \/ /\ pc[t] = "wait"
        /\ Done(t)
        /\ Fail(t)
  /\ UNCHANGED <<completion_flag, active, dsp, usbVars, handleVars, state>>

\* Back from libusb_handle_events_timeout_completed, whatever made it return:
\* the flag, another event, the timeout, an interruption or an error.
Wake(t) ==
  /\ mutex = NoThread
  /\ CallbackOver
  /\ mutex' = t
  /\ \/ /\ Goto(t, "wait", "loop")
        /\ UNCHANGED error
     \/ /\ "events" \in Faults
        /\ Goto(t, "wait", "drain")
        /\ Fail(t)
  /\ UNCHANGED <<devVars, usbVars, handleVars, state>>

-----------------------------------------------------------------------------
(* The end of pg2sdr_stream_data and drain_transfers.                      *)

\* The stop control transfer, then every busy transfer is cancelled.
BeginDrain(t) ==
  /\ CallbackOver
  /\ Goto(t, "drain", "drainloop")
  /\ draining' = TRUE
  /\ adc' \in IF "control" \in Faults THEN {adc, FALSE} ELSE {FALSE}
  /\ UNCHANGED <<open, streaming, completion_flag, active, dsp, usbVars, mutex, state, error>>

DrainResetFlag(t) ==
  /\ Goto(t, "drainloop", "draincheck")
  /\ completion_flag' = 0
  /\ UNCHANGED <<streaming, draining, active, dsp, usbVars, handleVars, mutex, state, error>>

AwaitDrain(t) ==
  /\ Goto(t, "draincheck", "drainwait")
  /\ AnyBusy
  /\ mutex' = NoThread
  /\ UNCHANGED <<devVars, usbVars, handleVars, state, error>>

DrainWake(t) ==
  /\ mutex = NoThread
  /\ CallbackOver
  /\ Goto(t, "drainwait", "drainloop")
  /\ mutex' = t
  /\ UNCHANGED <<devVars, usbVars, handleVars, state, error>>

\* Mutant: this way out forgets the flags.
DrainFailsFlagsKept(t) ==
  /\ "drain" \in Faults
  /\ Goto(t, "drainwait", "out")
  /\ mutex = NoThread
  /\ CallbackOver
  /\ UNCHANGED <<devVars, usbVars, handleVars, mutex, state, error>>

\* The event loop fails: drain_transfers gives up and pg2sdr_stream_data
\* returns what "error" held, skipping "cleanup".
DrainFails(t) ==
  /\ "drain" \in Faults
  /\ pc[t] = "drainwait"
  /\ mutex = NoThread
  /\ CallbackOver
  /\ Done(t)
  /\ UNCHANGED <<completion_flag, active, dsp, usbVars, handleVars, state, error>>

\* No transfer is busy: the list is emptied, "cleanup" frees everything.
Finish(t) ==
  /\ pc[t] = "draincheck"
  /\ ~AnyBusy
  /\ Done(t)
  /\ active' = <<>>
  /\ state' = AllFreed
  /\ dsp' = FALSE
  /\ UNCHANGED <<completion_flag, usbVars, handleVars, error>>

-----------------------------------------------------------------------------
(* The other entry points. Refused calls (BAD_STATE) change nothing.       *)

Stop(t) == open /\ pc[t] = "out" /\ mutex = NoThread /\ RequestStop

Close(t) ==
  /\ open
  /\ pc[t] = "out"
  /\ mutex = NoThread
  /\ ~streaming
  /\ open' = FALSE
  /\ UNCHANGED <<devVars, usbVars, adc, mutex, state, pc, error>>

\* The application opens the device again: a new handle, zeroed by calloc.
Reopen ==
  /\ ~open
  /\ \A t \in Threads : pc[t] = "out"
  /\ open' = TRUE
  /\ completion_flag' = 0
  /\ active' = <<>>
  /\ state' = AllFreed
  /\ dsp' = FALSE
  /\ UNCHANGED <<streaming, draining, usbVars, adc, mutex, pc, error>>

-----------------------------------------------------------------------------
(* libusb.                                                                 *)

EventsHandled ==
  ForeignEvents \/ \E t \in Threads : pc[t] \in Waiting \cup {"drain"}

\* The outcome of the i-th outstanding transfer. Data fills the transfers in
\* the order they were submitted; failures and cancellations come in any.
Outcome(i) ==
  (IF i = 1 THEN {"COMPLETED"} ELSE {})
    \cup (IF "transfer" \in Faults \/ \E t \in Threads : pc[t] \in Cancelled
            THEN {"FAILED"} ELSE {})

\* transfer_callback, first store. libusb holds its event lock around
\* callbacks, so they do not overlap.
MarkCompleted ==
  /\ EventsHandled
  /\ calling = NoTransfer
  /\ \E i \in 1 .. Len(urbs) : \E s \in Outcome(i) :
       /\ urbs' = Without(urbs, i)
       /\ status' = [status EXCEPT ![urbs[i]] = s]
       /\ state' = [state EXCEPT ![urbs[i]] = "COMPLETED"]
       /\ calling' = urbs[i]
  /\ UNCHANGED <<devVars, handleVars, mutex, pc, error>>

\* transfer_callback, second store.
RaiseFlag ==
  /\ calling # NoTransfer
  /\ completion_flag' = 1
  /\ calling' = NoTransfer
  /\ UNCHANGED <<streaming, draining, active, dsp, urbs, status, handleVars, mutex, state, pc, error>>

-----------------------------------------------------------------------------
StreamData(t) ==
  \/ StartFailsEarly(t) \/ StartFailsLate(t) \/ Start(t) \/ SubmitTransfers(t)
  \/ ResetFlag(t) \/ SeeDraining(t) \/ AwaitHead(t) \/ HeadFails(t)
  \/ BeginDispatch(t) \/ BeginCallback(t) \/ StopFromCallback(t) \/ EndCallback(t)
  \/ DispatchFails(t) \/ Resubmit(t) \/ Wake(t) \/ BeginDrain(t) \/ DrainResetFlag(t) \/ AwaitDrain(t)
  \/ DrainWake(t) \/ DrainFails(t) \/ Finish(t)

Next ==
  \/ \E t \in Threads : StreamData(t) \/ Stop(t) \/ Close(t)
  \/ Reopen \/ MarkCompleted \/ RaiseFlag

Spec == Init /\ [][Next]_vars

\* A thread inside pg2sdr_stream_data keeps running: its user callback
\* returns, the event loop returns at the latest on its timeout, and the mutex
\* is only ever held briefly by others. A transfer has finitely many ranges, so
\* that its dispatch ends however many callbacks there are: SF, as it cannot end
\* during one. A transfer ends at the latest on its own timeout or when
\* cancelled, but only while someone handles events, hence SF. Nothing obliges
\* the application to call.
Advance(t) ==
  \/ SubmitTransfers(t) \/ ResetFlag(t) \/ SeeDraining(t) \/ AwaitHead(t)
  \/ HeadFails(t) \/ BeginDispatch(t) \/ BeginCallback(t) \/ EndCallback(t)
  \/ DispatchFails(t) \/ Resubmit(t) \/ Wake(t) \/ BeginDrain(t) \/ DrainResetFlag(t) \/ AwaitDrain(t)
  \/ DrainWake(t) \/ DrainFails(t) \/ Finish(t)

Fairness ==
  /\ \A t \in Threads : WF_vars(Advance(t)) /\ SF_vars(DispatchFails(t) \/ Resubmit(t))
  /\ SF_vars(MarkCompleted)
  /\ WF_vars(RaiseFlag)

FairSpec == Spec /\ Fairness

-----------------------------------------------------------------------------
(* Properties.                                                             *)

InStreamData == {t \in Threads : pc[t] # "out"}

\* At most one thread is in pg2sdr_stream_data past its "already streaming"
\* check, however long it waits with the mutex released, and the handle is not
\* closed under it (pg2sdr_stream_data, pg2sdr_close_device).
ExclusiveUse ==
  /\ \A t, u \in InStreamData : t = u
  /\ InStreamData # {} => open

\* The states the code keeps agree with who owns the memory: a transfer is
\* BUSY, and so neither freed nor submitted again, exactly while libusb has it
\* (check_any_transfer_busy, free_dev_transfers).
BusyIffOwned == \A x \in Transfers : state[x] = "BUSY" <=> x \in Owned

\* The active list is what the main loop takes it for: each transfer at most
\* once, the submitted ones and those completed but not yet dispatched, those
\* still with libusb in the order they were submitted (submit_one_transfer,
\* the unlinking in pg2sdr_stream_data).
ListInSubmissionOrder ==
  /\ Injective(active)
  /\ Linked = {x \in Transfers : state[x] \in {"BUSY", "COMPLETED"}}
  /\ Owned \subseteq Linked /\ Injective(urbs) /\ SameOrder(active, urbs)

\* The main loop never dereferences an empty list and never meets its
\* "active transfer has state" error: while it runs every transfer is linked,
\* the one being dispatched included.
HeadExists ==
  \A t \in Threads : pc[t] \in {"loop", "check", "wait", "dispatch", "callback"} =>
    Linked = Transfers

\* Resetting completion_flag before looking at the states loses no wake-up:
\* a thread in the event loop whose flag is clear, with no callback about to
\* raise it, has nothing to do yet (pg2sdr_stream_data, drain_transfers,
\* pg2sdr_stop_streaming, transfer_callback).
NoLostWakeup ==
  \A t \in Threads :
    completion_flag = 0 /\ calling = NoTransfer =>
      /\ pc[t] = "wait" => ~draining /\ HeadIs("BUSY")
      /\ pc[t] = "drainwait" => AnyBusy

\* Whatever fails, in whatever combination, the device is not left locked or
\* marked as streaming or draining once nobody is in pg2sdr_stream_data: it
\* can be closed, or streamed from again (the ways out of pg2sdr_stream_data
\* and drain_transfers).
NeverWedged ==
  InStreamData = {} => ~streaming /\ ~draining /\ mutex = NoThread

\* Every way out of pg2sdr_stream_data leaves nothing behind: no transfer
\* allocated or with libusb, no DSP state, no flag set, the device told to
\* stop.
CleanWhenIdle ==
  InStreamData = {} =>
    /\ ~streaming /\ ~draining /\ ~dsp /\ ~adc
    /\ active = <<>> /\ urbs = <<>>
    /\ state = AllFreed

\* What the proofs of module StreamProofs need besides: the mutex is held exactly
\* at the points of Locked; whoever is past the submission of the batch has set
\* "streaming".
MutexHeldWhereLocked == \A t \in Threads : pc[t] \in Locked <=> mutex = t

StreamingSet == \A t \in Threads : pc[t] \notin {"out", "submit"} => streaming

\* transfer_callback only touches memory that is still allocated: the
\* transfer, and the device it reaches through it, outlive the callback.
CallbackMemoryValid ==
  calling # NoTransfer => open /\ state[calling] # "FREED"

\* A successful stop, from the callback or from another thread, makes
\* pg2sdr_stream_data return.
StopReturns == streaming /\ draining ~> ~streaming

\* Streaming goes on: as long as nobody stops it and nothing fails there is
\* always another transfer to dispatch.
DataKeepsComing ==
  streaming ~> ~streaming \/ \E t \in Threads : pc[t] = "dispatch"

-----------------------------------------------------------------------------
(* The contract of the API, which this module implements.                  *)

Failing == \E t \in Threads : pc[t] # "out" /\ error[t] = "ERROR"

Phase ==
  CASE ~open                      -> "closed"
    [] open /\ InStreamData = {}  -> "idle"
    [] open /\ InStreamData # {} /\ Failing -> "failing"
    [] open /\ InStreamData # {} /\ ~Failing /\ draining -> "stopping"
    [] OTHER                      -> "streaming"

Owner == IF InStreamData = {} THEN NoThread ELSE CHOOSE t \in InStreamData : TRUE

InCallback == \E t \in Threads : pc[t] = "callback"

API == INSTANCE StreamAPI
         WITH phase <- Phase, owner <- Owner, inCallback <- InCallback

\* The engine implements the contract of module StreamAPI, step by step and,
\* under FairSpec, its promise that a stop or a failure ends the call: callbacks
\* come one at a time, from the one call under way and never after it has met
\* an error; a call only ends between callbacks, for a stop or an error
\* (pg2sdr_stream_data, dispatch_transfer, pg2sdr_stop_streaming,
\* pg2sdr_close_device).
ImplementsAPI == API!Spec
=============================================================================
