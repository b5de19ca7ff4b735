----------------------------- MODULE OrderQueue -----------------------------
(***************************************************************************)
(* The order service of HW7/app.  A synchronous order waits for the one    *)
(* payment slot and is answered when it is paid.  An asynchronous one is   *)
(* published to an SNS topic and answered at once; the topic feeds an SQS  *)
(* queue, from which the receive loop of the same process hands batches to *)
(* a bounded pool of goroutines.                                           *)
(*                                                                         *)
(* Time counts where the code sleeps and where the queue waits: Tick takes *)
(* the timers down.  A step that is possible happens before the next Tick, *)
(* unless the tick is one of the MaxFaults faults.                         *)
(***************************************************************************)
EXTENDS Integers, FiniteSets

CONSTANTS Syncs, Asyncs,     \* orders
          Mixes,             \* the sets of orders that may come together
          Pools,             \* values of NUM_WORKERS
          BatchSize,         \* MaxNumberOfMessages
          PayTime,           \* ticks a payment sleeps
          Visibility,        \* ticks until a received message is visible again
          MaxFaults          \* bound: failing calls, exits and late ticks

ASSUME QueueAssumption == /\ Pools \subseteq Nat \ {0}
                          /\ {BatchSize, PayTime, Visibility} \subseteq Nat \ {0}
                          /\ MaxFaults \in Nat
                          /\ Mixes \subseteq SUBSET (Syncs \cup Asyncs)
ASSUME FiniteAssumption == IsFiniteSet(Asyncs)

VARIABLES workers,       \* NUM_WORKERS
          sync,          \* the handlers of synchronous orders
          paymentSlot,   \* how many elements the channel holds
          async,         \* the handlers of asynchronous orders
          msg,           \* the queue: a message per effective publish
          jobs,          \* messages the process holds
          sem,           \* worker slots taken
          charges,       \* payments made for an asynchronous order
          faults         \* failing calls, exits and late ticks so far

asks == <<sync, paymentSlot, async>>
process == <<workers, jobs, sem, charges>>
vars == <<asks, process, msg, faults>>

\* The SDK repeats a publish whose answer is lost: an order may have two messages.
Msgs == Asyncs \X {1, 2}
Places == {"none", "visible", "in flight", "deleted"}
Job == [m : Msgs, receipt : Nat, pc : {"held", "paying", "paid"}, timer : 0 .. PayTime]

Init == /\ workers \in Pools
        /\ \E mix \in Mixes :
              /\ sync = [s \in Syncs |-> [pc |-> IF s \in mix THEN "idle" ELSE "absent",
                                          timer |-> 0]]
              /\ async = [o \in Asyncs |-> IF o \in mix THEN "idle" ELSE "absent"]
        /\ paymentSlot = 0
        /\ msg = [m \in Msgs |-> [place |-> "none", receives |-> 0, timer |-> 0]]
        /\ jobs = {}
        /\ sem = 0
        /\ charges = [o \in Asyncs |-> 0]
        /\ faults = 0

Fault == faults < MaxFaults /\ faults' = faults + 1
-----------------------------------------------------------------------------
(* SyncOrder. *)

SyncOrder(s) ==
    /\ sync[s].pc = "idle"
    /\ sync' = [sync EXCEPT ![s].pc = "waiting"]
    /\ UNCHANGED <<paymentSlot, async, process, msg, faults>>

\* Faulty variant: a channel of size two.
SlotFreeTwo == paymentSlot < 2

SlotFree == paymentSlot < 1

AcquireSlot(s) ==
    /\ sync[s].pc = "waiting"
    /\ SlotFree
    /\ paymentSlot' = paymentSlot + 1
    /\ sync' = [sync EXCEPT ![s] = [pc |-> "paying", timer |-> PayTime]]
    /\ UNCHANGED <<async, process, msg, faults>>

CompleteSync(s) ==
    /\ sync[s].pc = "paying" /\ sync[s].timer = 0
    /\ paymentSlot' = paymentSlot - 1
    /\ sync' = [sync EXCEPT ![s].pc = "answered"]
    /\ UNCHANGED <<async, process, msg, faults>>
-----------------------------------------------------------------------------
(* AsyncOrder.  The topic's delivery to the queue is taken with the publish. *)

Posted(o) == LET n == IF msg[<<o, 1>>].place = "none" THEN 1 ELSE 2
             IN  [msg EXCEPT ![<<o, n>>].place = "visible"]

Publish(o) ==
    /\ async[o] \in {"idle", "retrying"}
    /\ msg' = Posted(o)
    /\ async' = [async EXCEPT ![o] = "accepted"]
    /\ UNCHANGED <<sync, paymentSlot, process, faults>>

\* The topic has the message, and the SDK tries again.
PublishRetried(o) ==
    /\ Fault
    /\ async[o] = "idle"
    /\ msg' = Posted(o)
    /\ async' = [async EXCEPT ![o] = "retrying"]
    /\ UNCHANGED <<sync, paymentSlot, process>>

PublishFails(o) ==
    /\ Fault
    /\ async[o] \in {"idle", "retrying"}
    /\ msg' \in {msg, Posted(o)}
    /\ async' = [async EXCEPT ![o] = "failed"]
    /\ UNCHANGED <<sync, paymentSlot, process>>
-----------------------------------------------------------------------------
(* StartProcessor and processMessage. *)

Held == {j \in jobs : j.pc = "held"}
Visible == {m \in Msgs : msg[m].place = "visible"}
Batches == {b \in SUBSET Visible : Cardinality(b) <= BatchSize}

Taken(batch) ==
    [m \in Msgs |-> IF m \in batch THEN [place |-> "in flight", timer |-> Visibility,
                                         receives |-> msg[m].receives + 1]
                                   ELSE msg[m]]

\* The loop asks for more when it has handed over the whole batch.
Receive(batch) ==
    /\ Held = {} /\ batch # {}
    /\ msg' = Taken(batch)
    /\ jobs' = jobs \cup {[m |-> m, receipt |-> msg[m].receives + 1, pc |-> "held",
                           timer |-> 0] : m \in batch}
    /\ UNCHANGED <<asks, workers, sem, charges, faults>>

\* An error, with or without effect on the queue.
ReceiveFails(batch) ==
    /\ Fault
    /\ Held = {}
    /\ msg' = Taken(batch)
    /\ UNCHANGED <<asks, process>>

\* Faulty variant: NUM_WORKERS is not read.
WorkerFreeOne == sem < 1

WorkerFree == sem < workers

Dispatch(j) ==
    /\ j.pc = "held" /\ WorkerFree
    /\ sem' = sem + 1
    /\ jobs' = (jobs \ {j}) \cup {[j EXCEPT !.pc = "paying", !.timer = PayTime]}
    /\ UNCHANGED <<asks, workers, charges, msg, faults>>

Pay(j) ==
    /\ j.pc = "paying" /\ j.timer = 0
    /\ charges' = [charges EXCEPT ![j.m[1]] = charges[j.m[1]] + 1]
    /\ jobs' = (jobs \ {j}) \cup {[j EXCEPT !.pc = "paid"]}
    /\ UNCHANGED <<asks, workers, sem, msg, faults>>

Deletable(j) == j.pc = "paid"

\* Faulty variant: the slot is not given back.
ReleasedNever(n) == n

Released(n) == n - 1

\* A receipt that is not the last one may leave the message where it is.
Removed(j) == {[msg EXCEPT ![j.m].place = "deleted", ![j.m].timer = 0]}
              \cup (IF j.receipt < msg[j.m].receives THEN {msg} ELSE {})

GoroutineEnds(j) == /\ jobs' = jobs \ {j}
                    /\ sem' = Released(sem)
                    /\ UNCHANGED <<asks, workers, charges>>

DeleteMessage(j) == /\ Deletable(j)
                    /\ msg' \in Removed(j)
                    /\ GoroutineEnds(j) /\ UNCHANGED faults

DeleteMessageFails(j) == /\ Fault
                         /\ Deletable(j)
                         /\ msg' \in Removed(j) \cup {msg}
                         /\ GoroutineEnds(j)
-----------------------------------------------------------------------------
(* The queue, the process and the clock. *)

VisibilityTimeout(m) ==
    /\ msg[m].place = "in flight" /\ msg[m].timer = 0
    /\ msg' = [msg EXCEPT ![m].place = "visible"]
    /\ UNCHANGED <<asks, process, faults>>

\* The process ends with its requests and goroutines, and is started again.
Exit == /\ Fault
        /\ sync' = [s \in Syncs |-> IF sync[s].pc \in {"waiting", "paying"}
                                    THEN [pc |-> "lost", timer |-> 0] ELSE sync[s]]
        /\ async' = [o \in Asyncs |-> IF async[o] = "retrying" THEN "lost" ELSE async[o]]
        /\ paymentSlot' = 0
        /\ sem' = 0
        /\ jobs' = {}
        /\ UNCHANGED <<workers, charges, msg>>

Working(j) == Dispatch(j) \/ Pay(j) \/ DeleteMessage(j)

\* A step that waits for nothing.
Due == \/ \E s \in Syncs : \/ sync[s].pc = "waiting" /\ SlotFree
                           \/ sync[s].pc = "paying" /\ sync[s].timer = 0
       \/ \E o \in Asyncs : async[o] = "retrying"
       \/ \E m \in Msgs : msg[m].place = "in flight" /\ msg[m].timer = 0
       \/ Visible # {} /\ Held = {}
       \/ \E j \in jobs : \/ j.pc = "held" /\ WorkerFree
                          \/ j.pc = "paying" /\ j.timer = 0
                          \/ j.pc = "paid"

Down(timer) == IF timer = 0 THEN 0 ELSE timer - 1

Tick ==
    /\ \/ \E s \in Syncs : sync[s].timer > 0
       \/ \E m \in Msgs : msg[m].timer > 0
       \/ \E j \in jobs : j.timer > 0
    /\ IF Due THEN Fault ELSE faults' = faults
    /\ sync' = [s \in Syncs |-> [sync[s] EXCEPT !.timer = Down(sync[s].timer)]]
    /\ msg' = [m \in Msgs |-> [msg[m] EXCEPT !.timer = Down(msg[m].timer)]]
    /\ jobs' = {[j EXCEPT !.timer = Down(j.timer)] : j \in jobs}
    /\ UNCHANGED <<paymentSlot, async, workers, sem, charges>>
-----------------------------------------------------------------------------
Next == \/ \E s \in Syncs : SyncOrder(s) \/ AcquireSlot(s) \/ CompleteSync(s)
        \/ \E o \in Asyncs : Publish(o) \/ PublishRetried(o) \/ PublishFails(o)
        \/ \E m \in Msgs : VisibilityTimeout(m)
        \/ \E b \in Batches : Receive(b) \/ ReceiveFails(b)
        \/ \E j \in jobs : Working(j) \/ DeleteMessageFails(j)
        \/ Exit
        \/ Tick

Spec == Init /\ [][Next]_vars

\* Handlers, goroutines, the loop, the queue and the clock go on.
FairSpec == /\ Spec
            /\ \A s \in Syncs : WF_vars(AcquireSlot(s)) /\ WF_vars(CompleteSync(s))
            /\ \A o \in Asyncs : WF_vars(async[o] = "retrying" /\ Publish(o))
            /\ \A m \in Msgs : WF_vars(VisibilityTimeout(m))
            /\ WF_vars(\E b \in Batches : Receive(b))
            /\ WF_vars(\E j \in jobs : Working(j))
            /\ WF_vars(Tick)
-----------------------------------------------------------------------------
\* The types, a job per receipt, and the two semaphores: every slot taken has its
\* payment, one at a time for synchronous orders and one per worker for the
\* others, so that none is lost, also across an exit.
TypeOK ==
    /\ workers \in Pools
    /\ sync \in [Syncs -> [pc : {"absent", "idle", "waiting", "paying", "answered", "lost"},
                           timer : 0 .. PayTime]]
    /\ paymentSlot \in 0 .. 1
    /\ paymentSlot = Cardinality({s \in Syncs : sync[s].pc = "paying"})
    /\ async \in [Asyncs -> {"absent", "idle", "retrying", "accepted", "failed", "lost"}]
    /\ msg \in [Msgs -> [place : Places, receives : Nat, timer : 0 .. Visibility]]
    /\ jobs \subseteq Job
    /\ \A i, j \in jobs : i.m = j.m /\ i.receipt = j.receipt => i = j
    /\ \A j \in jobs : j.receipt <= msg[j.m].receives
    /\ sem \in 0 .. workers
    /\ sem = Cardinality(jobs \ Held)
    /\ charges \in [Asyncs -> Nat]
    /\ faults \in 0 .. MaxFaults

\* A message waits for at most one payment before its batch, and is paid in one
\* of the rounds the pool needs for the batch.
Rounds(n) == (BatchSize + n - 1) \div n
PoolLargeEnough == PayTime * (1 + Rounds(workers)) < Visibility

\* With a pool large enough for its batches, an order is paid twice only because
\* of a failing call, an exit or a late step.
\* NUM_WORKERS = 1, the default, is not enough: a batch of ten takes the whole
\* visibility timeout.
ChargedOnce ==
    PoolLargeEnough /\ faults = 0 => \A o \in Asyncs : charges[o] <= 1

\* Every order that waits for the slot is answered, unless the process exits,
\* and every order answered 202 is paid.
EveryOrderServed ==
    /\ \A s \in Syncs : sync[s].pc = "waiting" ~> sync[s].pc \in {"answered", "lost"}
    /\ \A o \in Asyncs : async[o] = "accepted" ~> charges[o] > 0
=============================================================================
