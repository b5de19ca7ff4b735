-------------------------- MODULE OrderQueueProofs --------------------------
(***************************************************************************)
(* The theorems about OrderQueue: its types with the two semaphores, and   *)
(* that a pool large enough for its batches pays every order once.         *)
(***************************************************************************)
EXTENDS OrderQueue, FiniteSetTheorems, TLAPS

SyncRec == [pc : {"absent", "idle", "waiting", "paying", "answered", "lost"},
            timer : 0 .. PayTime]
MsgRec == [place : Places, receives : Nat, timer : 0 .. Visibility]

PlainOK ==
    /\ workers \in Pools
    /\ sync \in [Syncs -> SyncRec]
    /\ async \in [Asyncs -> {"absent", "idle", "retrying", "accepted", "failed", "lost"}]
    /\ msg \in [Msgs -> MsgRec]
    /\ jobs \subseteq Job
    /\ charges \in [Asyncs -> Nat]
    /\ faults \in 0 .. MaxFaults

\* The payment slot: one handler at most sleeps on it.
Payers == {s \in Syncs : sync[s].pc = "paying"}
SlotOK == /\ paymentSlot \in 0 .. 1
          /\ IsFiniteSet(Payers) /\ Cardinality(Payers) = paymentSlot

\* A job per receipt of a message.
ReceiptOK ==
    /\ \A i, j \in jobs : i.m = j.m /\ i.receipt = j.receipt => i = j
    /\ \A j \in jobs : j.receipt <= msg[j.m].receives

\* The worker slots: a goroutine for each one taken.
PoolOK == /\ IsFiniteSet(jobs)
          /\ sem \in 0 .. workers /\ Cardinality(jobs \ Held) = sem

TypeInv == PlainOK /\ SlotOK /\ ReceiptOK /\ PoolOK

LEMMA Constants ==
    /\ BatchSize \in Nat \ {0} /\ PayTime \in Nat \ {0} /\ Visibility \in Nat \ {0}
    /\ \A n \in Pools : n \in Nat \ {0}
    /\ MaxFaults \in Nat
  BY QueueAssumption

LEMMA MsgsFinite == IsFiniteSet(Msgs)
  <1>1. IsFiniteSet({1}) /\ {1} \cup {2} = {1, 2}
    BY FS_Singleton
  <1>2. IsFiniteSet({1, 2})
    BY <1>1, FS_AddElement
  <1> QED
    BY <1>2, FiniteAssumption, FS_Product DEF Msgs

LEMMA DownType ==
  ASSUME NEW n \in Nat
  PROVE  \A t \in 0 .. n : Down(t) \in 0 .. n
  BY DEF Down
\* A job's fields, and what they become when it is paid and in a tick.
LEMMA JobFields ==
  ASSUME NEW j \in Job
  PROVE  /\ j.m \in Msgs /\ j.m[1] \in Asyncs /\ j.receipt \in Nat
         /\ j.pc \in {"held", "paying", "paid"}
         /\ j.timer \in 0 .. PayTime /\ Down(j.timer) \in 0 .. PayTime
  <1>1. /\ j.timer \in 0 .. PayTime /\ j.m \in Msgs /\ j.receipt \in Nat
        /\ j.pc \in {"held", "paying", "paid"}
    BY DEF Job
  <1>2. j.m[1] \in Asyncs
    BY <1>1 DEF Msgs
  <1>3. Down(j.timer) \in 0 .. PayTime
    BY <1>1, Constants, DownType
  <1> QED
    BY <1>1, <1>2, <1>3

LEMMA DispatchedJob ==
  ASSUME NEW j \in Job
  PROVE  LET k == [j EXCEPT !.pc = "paying", !.timer = PayTime] IN
         /\ k \in Job /\ k.m = j.m /\ k.receipt = j.receipt
         /\ k.pc = "paying" /\ k.timer = PayTime
  <1> DEFINE i == [j EXCEPT !.pc = "paying"]
             k == [i EXCEPT !.timer = PayTime]
  <1>1. i \in Job /\ i.m = j.m /\ i.receipt = j.receipt /\ i.pc = "paying"
    BY DEF Job
  <1>2. [j EXCEPT !.pc = "paying", !.timer = PayTime] = k
    OBVIOUS
  <1>3. PayTime \in 0 .. PayTime
    BY Constants
  <1> HIDE DEF i
  <1>4. k \in Job /\ k.m = i.m /\ k.receipt = i.receipt /\ k.pc = i.pc /\ k.timer = PayTime
    BY <1>1, <1>3 DEF Job
  <1> QED
    BY <1>1, <1>2, <1>4

LEMMA PaidJob ==
  ASSUME NEW j \in Job
  PROVE  LET k == [j EXCEPT !.pc = "paid"] IN
         k \in Job /\ k.m = j.m /\ k.receipt = j.receipt /\ k.pc = "paid" /\ k.timer = j.timer
  BY DEF Job

LEMMA TickedJob ==
  ASSUME NEW j \in Job
  PROVE  LET k == [j EXCEPT !.timer = Down(j.timer)] IN
         /\ k \in Job /\ k.m = j.m /\ k.receipt = j.receipt /\ k.pc = j.pc
         /\ k.timer = Down(j.timer)
  <1>1. Down(j.timer) \in 0 .. PayTime
    BY JobFields
  <1> QED
    BY <1>1 DEF Job
-----------------------------------------------------------------------------
(* Types. *)

LEMMA TypeInit == Init => TypeInv
  <1> SUFFICES ASSUME Init PROVE TypeInv
    OBVIOUS
  <1>1. PlainOK
    BY Constants DEF Init, PlainOK, SyncRec, MsgRec, Places
  <1>2. Payers = {} /\ jobs \ Held = {} /\ jobs = {} /\ paymentSlot = 0 /\ sem = 0
    BY DEF Init, Payers
  <1>3. workers \in Nat
    BY <1>1, Constants DEF PlainOK
  <1> QED
    BY <1>1, <1>2, <1>3, FS_EmptySet DEF TypeInv, SlotOK, ReceiptOK, PoolOK

LEMMA PostedType ==
  ASSUME PlainOK, NEW o \in Asyncs
  PROVE  Posted(o) \in [Msgs -> MsgRec]
  <1>1. \A n \in {1, 2} : <<o, n>> \in Msgs
    BY DEF Msgs
  <1> QED
    <2>1. ASSUME NEW m \in Msgs PROVE [msg[m] EXCEPT !.place = "visible"] \in MsgRec
      BY DEF PlainOK, MsgRec, Places
    <2>2. \E m \in Msgs : Posted(o) = [msg EXCEPT ![m].place = "visible"]
      BY <1>1 DEF Posted
    <2>3. PICK m \in Msgs : Posted(o) = [msg EXCEPT ![m].place = "visible"]
      BY <2>2
    <2> QED
      BY <2>1, <2>3 DEF PlainOK

LEMMA TakenType ==
  ASSUME PlainOK, NEW b
  PROVE  Taken(b) \in [Msgs -> MsgRec]
  <1>1. ASSUME NEW m \in Msgs
        PROVE  [place |-> "in flight", timer |-> Visibility,
                receives |-> msg[m].receives + 1] \in MsgRec
    <2>1. msg[m] \in MsgRec
      BY DEF PlainOK
    <2>2. msg[m].receives + 1 \in Nat
      BY <2>1 DEF MsgRec
    <2> QED
      BY <2>2, Constants DEF MsgRec, Places
  <1> QED
    BY <1>1 DEF PlainOK, Taken

\* A message after its deletion.
LEMMA MsgEdit ==
  ASSUME NEW r \in MsgRec
  PROVE  LET d == [r EXCEPT !.place = "deleted", !.timer = 0] IN
         d \in MsgRec /\ d.place = "deleted" /\ d.timer = 0 /\ d.receives = r.receives
  <1> DEFINE e == [r EXCEPT !.place = "deleted"]
             d == [e EXCEPT !.timer = 0]
  <1>1. e \in MsgRec /\ e.place = "deleted" /\ e.receives = r.receives
    BY DEF MsgRec, Places
  <1>2. [r EXCEPT !.place = "deleted", !.timer = 0] = d
    OBVIOUS
  <1> HIDE DEF e
  <1>3. 0 \in 0 .. Visibility
    BY Constants
  <1>4. d \in MsgRec /\ d.place = e.place /\ d.timer = 0 /\ d.receives = e.receives
    BY <1>1, <1>3 DEF MsgRec
  <1> QED
    BY <1>1, <1>2, <1>4

LEMMA RemovedType ==
  ASSUME PlainOK, NEW j \in jobs
  PROVE  Removed(j) \subseteq [Msgs -> MsgRec]
  <1> DEFINE r == [msg[j.m] EXCEPT !.place = "deleted", !.timer = 0]
  <1>1. j.m \in Msgs /\ msg \in [Msgs -> MsgRec] /\ msg[j.m] \in MsgRec
    BY DEF PlainOK, Job
  <1>2. r \in MsgRec
    BY <1>1, MsgEdit
  <1>3. [msg EXCEPT ![j.m].place = "deleted", ![j.m].timer = 0] = [msg EXCEPT ![j.m] = r]
    BY <1>1 DEF MsgRec
  <1> HIDE DEF r
  <1> QED
    BY <1>1, <1>2, <1>3 DEF Removed

LEMMA PlainStep ==
  ASSUME TypeInv, [Next]_vars
  PROVE  PlainOK'
  <1> USE DEF TypeInv, PlainOK
  <1>1. ASSUME NEW s \in Syncs, SyncOrder(s) \/ AcquireSlot(s) \/ CompleteSync(s)
        PROVE  PlainOK'
    <2>1. sync' \in [Syncs -> SyncRec]
      BY <1>1, Constants DEF SyncOrder, AcquireSlot, CompleteSync, SyncRec
    <2> QED
      BY <1>1, <2>1 DEF SyncOrder, AcquireSlot, CompleteSync, process
  <1>2. ASSUME NEW o \in Asyncs, Publish(o) \/ PublishRetried(o) \/ PublishFails(o)
        PROVE  PlainOK'
    <2>1. msg' \in [Msgs -> MsgRec]
      BY <1>2, PostedType DEF Publish, PublishRetried, PublishFails
    <2>2. async' \in [Asyncs -> {"absent", "idle", "retrying", "accepted", "failed", "lost"}]
      BY <1>2 DEF Publish, PublishRetried, PublishFails
    <2>3. faults' \in 0 .. MaxFaults
      BY <1>2, Constants DEF Publish, PublishRetried, PublishFails, Fault
    <2> QED
      BY <1>2, <2>1, <2>2, <2>3 DEF Publish, PublishRetried, PublishFails, process
  <1>3. ASSUME NEW m \in Msgs, VisibilityTimeout(m) PROVE PlainOK'
    BY <1>3 DEF VisibilityTimeout, MsgRec, Places, asks, process
  <1>4. ASSUME NEW b \in Batches, Receive(b) PROVE PlainOK'
    <2>1. b \subseteq Msgs
      BY DEF Batches, Visible
    <2>2. {[m |-> m, receipt |-> msg[m].receives + 1, pc |-> "held", timer |-> 0] : m \in b}
            \subseteq Job
      BY <2>1, Constants DEF Job, MsgRec
    <2> QED
      BY <1>4, <2>2, TakenType DEF Receive, asks
  <1>5. ASSUME NEW b \in Batches, ReceiveFails(b) PROVE PlainOK'
    BY <1>5, TakenType, Constants DEF ReceiveFails, Fault, asks, process
  <1>6. ASSUME NEW j \in jobs, Dispatch(j) PROVE PlainOK'
    <2>1. [j EXCEPT !.pc = "paying", !.timer = PayTime] \in Job
      BY DispatchedJob
    <2> QED
      BY <1>6, <2>1 DEF Dispatch, asks
  <1>7. ASSUME NEW j \in jobs, Pay(j) PROVE PlainOK'
    <2>1. j \in Job
      OBVIOUS
    <2>2. [j EXCEPT !.pc = "paid"] \in Job /\ j.m[1] \in Asyncs
      BY <2>1, PaidJob, JobFields
    <2> QED
      BY <1>7, <2>2 DEF Pay, asks
  <1>8. ASSUME NEW j \in jobs, DeleteMessage(j) \/ DeleteMessageFails(j) PROVE PlainOK'
    BY <1>8, RemovedType, Constants
    DEF DeleteMessage, DeleteMessageFails, GoroutineEnds, Fault, asks
  <1>9. CASE Exit
    BY <1>9, Constants DEF Exit, Fault, SyncRec
  <1>10. CASE Tick
    <2>1. sync' \in [Syncs -> SyncRec]
      BY <1>10, DownType, Constants DEF Tick, SyncRec
    <2>2. msg' \in [Msgs -> MsgRec]
      BY <1>10, DownType, Constants DEF Tick, MsgRec
    <2>3. jobs' \subseteq Job
      <3> SUFFICES ASSUME NEW j \in jobs PROVE [j EXCEPT !.timer = Down(j.timer)] \in Job
        BY <1>10 DEF Tick
      <3> QED
        BY TickedJob
    <2>4. faults' \in 0 .. MaxFaults
      BY <1>10, Constants DEF Tick, Fault
    <2> QED
      BY <1>10, <2>1, <2>2, <2>3, <2>4 DEF Tick
  <1>11. CASE UNCHANGED vars
    BY <1>11 DEF vars, asks, process
  <1> QED
    BY <1>1, <1>2, <1>3, <1>4, <1>5, <1>6, <1>7, <1>8, <1>9, <1>10, <1>11 DEF Next, Working
-----------------------------------------------------------------------------
(* The payment slot. *)

LEMMA SlotStep ==
  ASSUME TypeInv, [Next]_vars
  PROVE  SlotOK'
  <1>0. /\ sync \in [Syncs -> SyncRec] /\ paymentSlot \in 0 .. 1
        /\ IsFiniteSet(Payers) /\ Cardinality(Payers) = paymentSlot
    BY DEF TypeInv, PlainOK, SlotOK
  <1>1. ASSUME Payers' = Payers, paymentSlot' = paymentSlot PROVE SlotOK'
    BY <1>0, <1>1 DEF SlotOK
  <1>2. ASSUME UNCHANGED <<sync, paymentSlot>> PROVE SlotOK'
    BY <1>1, <1>2 DEF Payers
  <1>3. ASSUME NEW s \in Syncs, SyncOrder(s) PROVE SlotOK'
    BY <1>0, <1>1, <1>3 DEF SyncOrder, Payers, SyncRec
  <1>4. ASSUME NEW s \in Syncs, AcquireSlot(s) PROVE SlotOK'
    <2>1. Payers' = Payers \cup {s} /\ s \notin Payers
      BY <1>0, <1>4 DEF AcquireSlot, Payers, SyncRec
    <2>2. paymentSlot = 0 /\ paymentSlot' = 1
      BY <1>0, <1>4 DEF AcquireSlot, SlotFree
    <2> QED
      BY <1>0, <2>1, <2>2, FS_AddElement DEF SlotOK
  <1>5. ASSUME NEW s \in Syncs, CompleteSync(s) PROVE SlotOK'
    <2>1. Payers' = Payers \ {s} /\ s \in Payers
      BY <1>0, <1>5 DEF CompleteSync, Payers, SyncRec
    <2>2. IsFiniteSet(Payers \ {s}) /\ Cardinality(Payers \ {s}) = paymentSlot - 1
      BY <1>0, <2>1, FS_RemoveElement
    <2>3. paymentSlot - 1 \in Nat
      BY <2>2, FS_CardinalityType
    <2> QED
      BY <1>0, <1>5, <2>1, <2>2, <2>3 DEF SlotOK, CompleteSync
  <1>6. CASE Exit
    <2>1. Payers' = {} /\ paymentSlot' = 0
      BY <1>6 DEF Exit, Payers
    <2> QED
      BY <2>1, FS_EmptySet DEF SlotOK
  <1>7. CASE Tick
    BY <1>0, <1>1, <1>7 DEF Tick, Payers, SyncRec
  <1>8. ASSUME NEW o \in Asyncs, Publish(o) \/ PublishRetried(o) \/ PublishFails(o)
        PROVE  SlotOK'
    BY <1>2, <1>8 DEF Publish, PublishRetried, PublishFails
  <1>9. ASSUME NEW j \in jobs, Working(j) \/ DeleteMessageFails(j) PROVE SlotOK'
    BY <1>2, <1>9
    DEF Working, Dispatch, Pay, DeleteMessage, DeleteMessageFails, GoroutineEnds, asks
  <1>10. ASSUME NEW b \in Batches, Receive(b) \/ ReceiveFails(b) PROVE SlotOK'
    BY <1>2, <1>10 DEF Receive, ReceiveFails, asks
  <1>11. ASSUME NEW m \in Msgs, VisibilityTimeout(m) PROVE SlotOK'
    BY <1>2, <1>11 DEF VisibilityTimeout, asks
  <1>12. CASE UNCHANGED vars
    BY <1>2, <1>12 DEF vars, asks
  <1> QED
    BY <1>3, <1>4, <1>5, <1>6, <1>7, <1>8, <1>9, <1>10, <1>11, <1>12 DEF Next
-----------------------------------------------------------------------------
(* The jobs and the worker slots.  A step leaves the jobs alone, receives a *)
(* batch, moves one job on, ends one, ends them all or takes their timers   *)
(* down.                                                                    *)

NewJob(m) == [m |-> m, receipt |-> msg[m].receives + 1, pc |-> "held", timer |-> 0]
NewJobs(b) == {NewJob(m) : m \in b}
Ticked(j) == [j EXCEPT !.timer = Down(j.timer)]

Received(b) == Held = {} /\ msg' = Taken(b) /\ jobs' = jobs \cup NewJobs(b) /\ sem' = sem

Moved(j, k) ==
    /\ k.m = j.m /\ k.receipt = j.receipt /\ jobs' = (jobs \ {j}) \cup {k}
    /\ \/ j.pc = "held" /\ k.pc = "paying" /\ sem < workers /\ sem' = sem + 1
       \/ j.pc = "paying" /\ k.pc = "paid" /\ sem' = sem

Ended(j) == j.pc = "paid" /\ jobs' = jobs \ {j} /\ sem' = sem - 1
AllTicked == jobs' = {Ticked(j) : j \in jobs} /\ sem' = sem

JobStep ==
    \/ UNCHANGED <<jobs, sem>>
    \/ \E b \in Batches : Received(b)
    \/ \E j \in jobs, k \in Job : Moved(j, k)
    \/ \E j \in jobs : Ended(j)
    \/ jobs' = {} /\ sem' = 0
    \/ AllTicked

LEMMA JobSteps ==
  ASSUME PlainOK, [Next]_vars
  PROVE  JobStep /\ workers' = workers
  <1>0. jobs \subseteq Job
    BY DEF PlainOK
  <1>1. ASSUME NEW s \in Syncs, SyncOrder(s) \/ AcquireSlot(s) \/ CompleteSync(s)
        PROVE  JobStep /\ workers' = workers
    BY <1>1 DEF SyncOrder, AcquireSlot, CompleteSync, process, JobStep
  <1>2. ASSUME NEW o \in Asyncs, Publish(o) \/ PublishRetried(o) \/ PublishFails(o)
        PROVE  JobStep /\ workers' = workers
    BY <1>2 DEF Publish, PublishRetried, PublishFails, process, JobStep
  <1>3. ASSUME NEW m \in Msgs, VisibilityTimeout(m) PROVE JobStep /\ workers' = workers
    BY <1>3 DEF VisibilityTimeout, process, JobStep
  <1>4. ASSUME NEW b \in Batches, Receive(b) PROVE JobStep /\ workers' = workers
    BY <1>4 DEF Receive, JobStep, Received, NewJobs, NewJob
  <1>5. ASSUME NEW b \in Batches, ReceiveFails(b) PROVE JobStep /\ workers' = workers
    BY <1>5 DEF ReceiveFails, process, JobStep
  <1>6. ASSUME NEW j \in jobs, Dispatch(j) PROVE JobStep /\ workers' = workers
    <2>1. Moved(j, [j EXCEPT !.pc = "paying", !.timer = PayTime])
      BY <1>0, <1>6, DispatchedJob DEF Dispatch, WorkerFree, Moved
    <2> QED
      BY <1>0, <1>6, <2>1, DispatchedJob DEF Dispatch, JobStep
  <1>7. ASSUME NEW j \in jobs, Pay(j) PROVE JobStep /\ workers' = workers
    <2>1. Moved(j, [j EXCEPT !.pc = "paid"])
      BY <1>0, <1>7, PaidJob DEF Pay, Moved
    <2> QED
      BY <1>0, <1>7, <2>1, PaidJob DEF Pay, JobStep
  <1>8. ASSUME NEW j \in jobs, DeleteMessage(j) \/ DeleteMessageFails(j)
        PROVE  JobStep /\ workers' = workers
    BY <1>8
    DEF DeleteMessage, DeleteMessageFails, Deletable, GoroutineEnds, Released, JobStep, Ended
  <1>9. CASE Exit
    BY <1>9 DEF Exit, JobStep
  <1>10. CASE Tick
    BY <1>10 DEF Tick, JobStep, AllTicked, Ticked
  <1>11. CASE UNCHANGED vars
    BY <1>11 DEF vars, process, JobStep
  <1> QED
    BY <1>1, <1>2, <1>3, <1>4, <1>5, <1>6, <1>7, <1>8, <1>9, <1>10, <1>11 DEF Next, Working

\* Ticking a set of jobs keeps their number.
LEMMA TickedCount ==
  ASSUME TypeInv, NEW S \in SUBSET jobs
  PROVE  LET T == {Ticked(j) : j \in S} IN
         /\ IsFiniteSet(S) /\ IsFiniteSet(T) /\ Cardinality(T) = Cardinality(S)
  <1> DEFINE T == {Ticked(j) : j \in S}
             f == [j \in S |-> Ticked(j)]
  <1>1. jobs \subseteq Job /\ IsFiniteSet(jobs)
    BY DEF TypeInv, PlainOK, PoolOK
  <1>2. IsFiniteSet(S)
    BY <1>1, FS_Subset
  <1>3. \A i, j \in S : Ticked(i) = Ticked(j) => i = j
    <2> SUFFICES ASSUME NEW i \in S, NEW j \in S, Ticked(i) = Ticked(j) PROVE i = j
      OBVIOUS
    <2>1. Ticked(i).m = i.m /\ Ticked(i).receipt = i.receipt
      BY <1>1, TickedJob DEF Ticked
    <2>2. Ticked(j).m = j.m /\ Ticked(j).receipt = j.receipt
      BY <1>1, TickedJob DEF Ticked
    <2> QED
      BY <2>1, <2>2 DEF TypeInv, ReceiptOK
  <1>4. f \in Surjection(S, T)
    BY DEF Surjection
  <1>5. f \in Injection(S, T)
    <2>1. f \in [S -> T] /\ \A j \in S : f[j] = Ticked(j)
      OBVIOUS
    <2> HIDE DEF f, T
    <2> QED
      BY <1>3, <2>1 DEF Injection, IsInjective
  <1> QED
    BY <1>2, <1>4, <1>5, FS_Surjection
\* A batch is finite, and its messages are new jobs.
LEMMA BatchType ==
  ASSUME TypeInv, NEW b \in Batches
  PROVE  /\ b \subseteq Msgs /\ IsFiniteSet(b) /\ Cardinality(b) <= BatchSize
         /\ Cardinality(b) \in Nat
         /\ IsFiniteSet(NewJobs(b)) /\ Cardinality(NewJobs(b)) <= Cardinality(b)
         /\ Cardinality(NewJobs(b)) \in Nat
         /\ \A m \in b : NewJob(m) \in Job /\ NewJob(m) \notin jobs
  <1> DEFINE f == [m \in b |-> NewJob(m)]
  <1>1. b \subseteq Msgs /\ Cardinality(b) <= BatchSize
    BY DEF Batches, Visible
  <1>2. IsFiniteSet(b)
    BY <1>1, MsgsFinite, FS_Subset
  <1>3. f \in Surjection(b, NewJobs(b))
    BY DEF Surjection, NewJobs
  <1>4. IsFiniteSet(NewJobs(b)) /\ Cardinality(NewJobs(b)) <= Cardinality(b)
    BY <1>2, <1>3, FS_Surjection
  <1>5. ASSUME NEW m \in b PROVE NewJob(m) \in Job /\ NewJob(m) \notin jobs
    <2>1. msg[m].receives \in Nat
      BY <1>1 DEF TypeInv, PlainOK, MsgRec
    <2>2. NewJob(m) \in Job
      BY <1>1, <2>1, Constants DEF NewJob, Job
    <2>3. NewJob(m).m = m /\ NewJob(m).receipt = msg[m].receives + 1
      BY DEF NewJob
    <2>4. ~(msg[m].receives + 1 <= msg[m].receives)
      BY <2>1
    <2> QED
      BY <2>2, <2>3, <2>4 DEF TypeInv, ReceiptOK
  <1> QED
    BY <1>1, <1>2, <1>4, <1>5, FS_CardinalityType

\* The number of receives of a message never goes down, and a batch adds one.
LEMMA ReceivesGrow ==
  ASSUME TypeInv, [Next]_vars
  PROVE  \A m \in Msgs : /\ msg[m].receives \in Nat /\ msg'[m].receives \in Nat
                         /\ msg[m].receives <= msg'[m].receives
  <1>0. msg \in [Msgs -> MsgRec]
    BY DEF TypeInv, PlainOK
  <1> SUFFICES ASSUME NEW m \in Msgs
               PROVE  msg'[m].receives \in {msg[m].receives, msg[m].receives + 1}
    <2>1. \A m \in Msgs : msg[m].receives \in Nat
      BY <1>0 DEF MsgRec
    <2> QED
      BY <2>1
  <1>1. ASSUME UNCHANGED msg PROVE msg'[m].receives = msg[m].receives
    BY <1>1
  <1>2. ASSUME NEW o \in Asyncs, Publish(o) \/ PublishRetried(o) \/ PublishFails(o)
        PROVE  msg'[m].receives = msg[m].receives
    <2>1. msg' \in {msg, Posted(o)}
      BY <1>2 DEF Publish, PublishRetried, PublishFails
    <2>2. Posted(o)[m].receives = msg[m].receives
      BY <1>0 DEF Posted, MsgRec
    <2> QED
      BY <2>1, <2>2
  <1>3. ASSUME NEW n \in Msgs, VisibilityTimeout(n) PROVE msg'[m].receives = msg[m].receives
    BY <1>0, <1>3 DEF VisibilityTimeout, MsgRec
  <1>4. ASSUME NEW b \in Batches, Receive(b) \/ ReceiveFails(b)
        PROVE  msg'[m].receives \in {msg[m].receives, msg[m].receives + 1}
    <2>1. msg' = Taken(b)
      BY <1>4 DEF Receive, ReceiveFails
    <2>2. Taken(b)[m].receives \in {msg[m].receives, msg[m].receives + 1}
      BY DEF Taken
    <2> QED
      BY <2>1, <2>2
  <1>5. ASSUME NEW j \in jobs, DeleteMessage(j) \/ DeleteMessageFails(j)
        PROVE  msg'[m].receives = msg[m].receives
    <2> DEFINE r == [msg[j.m] EXCEPT !.place = "deleted", !.timer = 0]
    <2>1. j.m \in Msgs /\ msg[j.m] \in MsgRec
      BY <1>0, JobFields DEF TypeInv, PlainOK
    <2>2. [msg EXCEPT ![j.m].place = "deleted", ![j.m].timer = 0] = [msg EXCEPT ![j.m] = r]
      BY <1>0, <2>1 DEF MsgRec
    <2>3. r.receives = msg[j.m].receives
      BY <2>1, MsgEdit
    <2> HIDE DEF r
    <2>4. [msg EXCEPT ![j.m] = r][m].receives = msg[m].receives
      BY <1>0, <2>1, <2>3
    <2>5. msg' \in {msg, [msg EXCEPT ![j.m] = r]}
      BY <1>5, <2>2 DEF DeleteMessage, DeleteMessageFails, Removed
    <2> QED
      BY <2>4, <2>5
  <1>6. ASSUME NEW j \in jobs, Dispatch(j) \/ Pay(j) PROVE msg'[m].receives = msg[m].receives
    BY <1>1, <1>6 DEF Dispatch, Pay
  <1>7. ASSUME NEW s \in Syncs, SyncOrder(s) \/ AcquireSlot(s) \/ CompleteSync(s)
        PROVE  msg'[m].receives = msg[m].receives
    BY <1>1, <1>7 DEF SyncOrder, AcquireSlot, CompleteSync
  <1>8. CASE Tick
    BY <1>0, <1>8 DEF Tick, MsgRec
  <1>9. CASE Exit \/ UNCHANGED vars
    BY <1>1, <1>9 DEF Exit, vars
  <1> QED
    BY <1>2, <1>3, <1>4, <1>5, <1>6, <1>7, <1>8, <1>9 DEF Next, Working

LEMMA ReceiptStep ==
  ASSUME TypeInv, [Next]_vars
  PROVE  ReceiptOK'
  <1>0. /\ jobs \subseteq Job /\ JobStep
        /\ \A i, j \in jobs : i.m = j.m /\ i.receipt = j.receipt => i = j
        /\ \A j \in jobs : j.receipt <= msg[j.m].receives
    BY JobSteps DEF TypeInv, PlainOK, ReceiptOK
  <1>1. \A j \in Job : j.receipt <= msg[j.m].receives => j.receipt <= msg'[j.m].receives
    BY ReceivesGrow, JobFields
  <1>2. ASSUME jobs' \subseteq jobs PROVE ReceiptOK'
    BY <1>0, <1>1, <1>2 DEF ReceiptOK
  <1>3. ASSUME NEW b \in Batches, Received(b) PROVE ReceiptOK'
    <2>1. \A m \in b : NewJob(m).m = m /\ NewJob(m).receipt = msg[m].receives + 1
      BY DEF NewJob
    <2>2. \A m \in b : m \in Msgs /\ msg[m].receives \in Nat
                       /\ msg'[m].receives = msg[m].receives + 1
      BY <1>3, BatchType, ReceivesGrow DEF Received, Taken
    <2>3. \A j \in jobs, m \in b : ~(j.m = m /\ j.receipt = msg[m].receives + 1)
      BY <1>0, <2>2
    <2>4. jobs' = jobs \cup {NewJob(m) : m \in b}
      BY <1>3 DEF Received, NewJobs
    <2>5. ASSUME NEW i \in jobs', NEW j \in jobs', i.m = j.m, i.receipt = j.receipt
          PROVE  i = j
      BY <1>0, <2>1, <2>3, <2>4, <2>5
    <2>6. ASSUME NEW j \in jobs' PROVE j.receipt <= msg'[j.m].receives
      BY <1>0, <1>1, <2>1, <2>2, <2>4
    <2> QED
      BY <2>5, <2>6 DEF ReceiptOK
  <1>4. ASSUME NEW j \in jobs, NEW k \in Job, Moved(j, k) PROVE ReceiptOK'
    BY <1>0, <1>1, <1>4 DEF Moved, ReceiptOK
  <1>5. CASE AllTicked
    <2>1. \A j \in jobs : Ticked(j) \in Job /\ Ticked(j).m = j.m /\ Ticked(j).receipt = j.receipt
      BY <1>0, TickedJob DEF Ticked
    <2>2. jobs' = {Ticked(j) : j \in jobs}
      BY <1>5 DEF AllTicked
    <2> QED
      BY <1>0, <1>1, <2>1, <2>2 DEF ReceiptOK
  <1> QED
    BY <1>0, <1>2, <1>3, <1>4, <1>5 DEF JobStep, Ended

LEMMA PoolStep ==
  ASSUME TypeInv, [Next]_vars
  PROVE  PoolOK'
  <1> DEFINE Busy == jobs \ Held
  <1>0. /\ jobs \subseteq Job /\ IsFiniteSet(jobs) /\ JobStep /\ workers' = workers
        /\ workers \in Nat /\ sem \in 0 .. workers /\ Cardinality(Busy) = sem
        /\ IsFiniteSet(Busy)
    <2>1. IsFiniteSet(Busy)
      BY FS_Subset DEF TypeInv, PoolOK
    <2>2. workers \in Nat
      BY Constants DEF TypeInv, PlainOK
    <2> QED
      BY <2>1, <2>2, JobSteps DEF TypeInv, PlainOK, PoolOK
  <1>1. Busy' = {j \in jobs' : j.pc # "held"}
    BY DEF Held
  <1>2. Busy = {j \in jobs : j.pc # "held"}
    BY DEF Held
  <1> HIDE DEF Busy
  <1>3. SUFFICES IsFiniteSet(jobs') /\ sem' \in 0 .. workers /\ Cardinality(Busy') = sem'
    BY <1>0 DEF PoolOK, Busy
  <1>4. CASE UNCHANGED <<jobs, sem>>
    BY <1>0, <1>1, <1>2, <1>4
  <1>5. ASSUME NEW b \in Batches, Received(b)
        PROVE  IsFiniteSet(jobs') /\ sem' \in 0 .. workers /\ Cardinality(Busy') = sem'
    <2>1. \A m \in b : NewJob(m).pc = "held"
      BY DEF NewJob
    <2>2. Busy' = Busy
      BY <1>1, <1>2, <1>5, <2>1 DEF Received, NewJobs
    <2>3. IsFiniteSet(jobs \cup NewJobs(b))
      BY <1>0, BatchType, FS_Union
    <2> QED
      BY <1>0, <1>5, <2>2, <2>3 DEF Received
  <1>6. ASSUME NEW j \in jobs, NEW k \in Job, Moved(j, k)
        PROVE  IsFiniteSet(jobs') /\ sem' \in 0 .. workers /\ Cardinality(Busy') = sem'
    <2>1. IsFiniteSet(jobs')
      BY <1>0, <1>6, FS_RemoveElement, FS_AddElement DEF Moved
    <2>2. k \notin jobs
      BY <1>6 DEF TypeInv, ReceiptOK, Moved
    <2>3. CASE j.pc = "held"
      <3>1. Busy' = Busy \cup {k} /\ k \notin Busy
        BY <1>1, <1>2, <1>6, <2>2, <2>3 DEF Moved
      <3>2. Cardinality(Busy') = sem + 1
        BY <1>0, <3>1, FS_AddElement
      <3>3. sem < workers /\ sem' = sem + 1
        BY <1>6, <2>3 DEF Moved
      <3> QED
        BY <1>0, <2>1, <3>2, <3>3
    <2>4. CASE j.pc = "paying"
      <3>1. Busy' = (Busy \ {j}) \cup {k} /\ j \in Busy /\ k \notin Busy \ {j}
        BY <1>1, <1>2, <1>6, <2>2, <2>4 DEF Moved
      <3>2. IsFiniteSet(Busy \ {j}) /\ Cardinality(Busy \ {j}) = sem - 1
        BY <1>0, <3>1, FS_RemoveElement
      <3>3. Cardinality((Busy \ {j}) \cup {k}) = sem - 1 + 1
        BY <3>1, <3>2, FS_AddElement
      <3> QED
        BY <1>0, <1>6, <2>1, <2>4, <3>1, <3>3 DEF Moved
    <2> QED
      BY <1>6, <2>3, <2>4 DEF Moved
  <1>7. ASSUME NEW j \in jobs, Ended(j)
        PROVE  IsFiniteSet(jobs') /\ sem' \in 0 .. workers /\ Cardinality(Busy') = sem'
    <2>1. IsFiniteSet(jobs')
      BY <1>0, <1>7, FS_RemoveElement DEF Ended
    <2>2. Busy' = Busy \ {j} /\ j \in Busy
      BY <1>1, <1>2, <1>7 DEF Ended
    <2>3. IsFiniteSet(Busy \ {j}) /\ Cardinality(Busy \ {j}) = sem - 1
      BY <1>0, <2>2, FS_RemoveElement
    <2>4. sem - 1 \in Nat
      BY <2>3, FS_CardinalityType
    <2> QED
      BY <1>0, <1>7, <2>1, <2>2, <2>3, <2>4 DEF Ended
  <1>8. CASE jobs' = {} /\ sem' = 0
    BY <1>0, <1>1, <1>8, FS_EmptySet
  <1>9. CASE AllTicked
    <2>1. \A j \in jobs : Ticked(j).pc = j.pc
      BY <1>0, TickedJob DEF Ticked
    <2>2. jobs' = {Ticked(j) : j \in jobs} /\ sem' = sem
      BY <1>9 DEF AllTicked
    <2>3. Busy' = {Ticked(j) : j \in Busy}
      BY <1>1, <1>2, <2>1, <2>2
    <2>4. Busy \subseteq jobs
      BY <1>2
    <2> QED
      BY <1>0, <2>2, <2>3, <2>4, TickedCount
  <1> QED
    BY <1>0, <1>4, <1>5, <1>6, <1>7, <1>8, <1>9 DEF JobStep

LEMMA TypeStep == TypeInv /\ [Next]_vars => TypeInv'
  BY PlainStep, SlotStep, ReceiptStep, PoolStep DEF TypeInv

LEMMA Typed == Spec => []TypeInv
  BY TypeInit, TypeStep, PTL DEF Spec

\* Every variable keeps its type, no receipt has two jobs, and each of the two
\* semaphores counts the payments that hold its slots, whatever fails or exits
\* (SyncOrder, StartProcessor).
THEOREM TypeCorrect == Spec => []TypeOK
  <1>1. TypeInv => TypeOK
    BY DEF TypeInv, PlainOK, SlotOK, ReceiptOK, PoolOK, TypeOK, Payers, SyncRec, MsgRec
  <1> QED
    BY <1>1, Typed, PTL
-----------------------------------------------------------------------------
(* A large enough pool pays in time, while nothing fails, exits or is late.  *)
(* The message of a job is in flight until the job ends, since its timer is  *)
(* above the job's; for a job that still waits for a worker the timer leaves *)
(* the turns that the waiting jobs need.                                     *)

First(o) == <<o, 1>>

\* An order has one message, which is there when it was accepted.
FirstOK ==
    \A o \in Asyncs :
        /\ async[o] \in {"absent", "idle", "accepted"}
        /\ msg[<<o, 2>>].place = "none"
        /\ async[o] # "accepted" => msg[First(o)].place = "none"

\* A message is received once, and in flight exactly as long as it has a job.
HoldersOK ==
    /\ \A m \in Msgs :
        /\ msg[m].place \in {"none", "visible"} => msg[m].receives = 0
        /\ msg[m].place = "in flight" => \E j \in jobs : j.m = m
    /\ \A j \in jobs : /\ msg[j.m].place = "in flight"
                       /\ msg[j.m].receives = 1 /\ j.receipt = 1

ChargeOK ==
    \A o \in Asyncs :
        /\ charges[o] \in 0 .. 1
        /\ charges[o] = 1 => \/ msg[First(o)].place = "deleted"
                             \/ \E j \in jobs : j.m = First(o) /\ j.pc = "paid"

TimersOK == \A j \in jobs \ Held : j.timer < msg[j.m].timer

\* What is left of the visibility timeout when every turn of a batch has begun.
Spare == Visibility - PayTime * Rounds(workers)

Sleeping(x) == {j \in jobs : j.pc = "paying" /\ j.timer > x}

\* In the t - Spare ticks to come the workers begin enough payments for the jobs
\* that wait: each begins q of PayTime ticks, and one more if it sleeps for no
\* more than the x ticks left.
Turns(t) ==
    \E q \in 0 .. Rounds(workers), x \in 0 .. PayTime - 1 :
        /\ t = Spare + q * PayTime + x
        /\ Cardinality(Held) + Cardinality(Sleeping(x)) <= q * workers + workers

TurnsOK == \A j \in Held : Turns(msg[j.m].timer)

Calm == PoolLargeEnough /\ faults = 0
CalmOK == FirstOK /\ HoldersOK /\ ChargeOK /\ TimersOK /\ TurnsOK
OnTimeInv == Calm => CalmOK

\* The rounds of a pool are enough for a batch.
LEMMA RoundsEnough ==
  ASSUME NEW n \in Pools
  PROVE  Rounds(n) \in Nat /\ Rounds(n) * n >= BatchSize
  <1>1. /\ n \in Nat \ {0} /\ BatchSize \in Nat \ {0}
        /\ Rounds(n) = (BatchSize + n - 1) \div n
    BY Constants DEF Rounds
  <1> QED
    BY <1>1

\* Arithmetic of turns.
LEMMA Products ==
  ASSUME NEW q \in Nat, NEW p \in Nat
  PROVE  q * p \in Nat /\ (q * p >= 1 => q - 1 \in Nat /\ (q - 1) * p = q * p - p)
  OBVIOUS

\* When the last turn has begun, more than a payment's time is left.
LEMMA SpareEnough ==
  ASSUME TypeInv, PoolLargeEnough
  PROVE  /\ Spare \in Nat /\ Spare > PayTime
         /\ Visibility = Spare + Rounds(workers) * PayTime
  <1> DEFINE r == Rounds(workers)
  <1>1. /\ r \in Nat /\ PayTime \in Nat /\ Visibility \in Nat
        /\ PayTime * (1 + r) < Visibility /\ Spare = Visibility - PayTime * r
    BY RoundsEnough, Constants DEF TypeInv, PlainOK, PoolLargeEnough, Spare
  <1> HIDE DEF r
  <1>2. PayTime * (1 + r) = PayTime + PayTime * r /\ PayTime * r = r * PayTime
        /\ PayTime * r \in Nat
    BY <1>1
  <1> QED
    BY <1>1, <1>2 DEF r

\* The message of a waiting job has more than a payment's time.
LEMMA WaitingTimer ==
  ASSUME TypeInv, PoolLargeEnough, TurnsOK, NEW j \in Held
  PROVE  msg[j.m].timer > PayTime
  <1>1. PICK q \in 0 .. Rounds(workers), x \in 0 .. PayTime - 1 :
           msg[j.m].timer = Spare + q * PayTime + x
    BY DEF TurnsOK, Turns
  <1>2. q \in Nat /\ x \in Nat /\ PayTime \in Nat
    BY RoundsEnough, Constants DEF TypeInv, PlainOK
  <1>3. q * PayTime \in Nat
    BY <1>2, Products
  <1> QED
    BY <1>1, <1>2, <1>3, SpareEnough

\* The sets that TurnsOK counts are finite.
CountsOK == /\ IsFiniteSet(Held) /\ Cardinality(Held) \in Nat
            /\ \A x : /\ IsFiniteSet(Sleeping(x)) /\ Cardinality(Sleeping(x)) \in Nat
                      /\ Cardinality(Sleeping(x)) <= workers

LEMMA CountsType == TypeInv => CountsOK
  <1> SUFFICES ASSUME TypeInv PROVE CountsOK
    OBVIOUS
  <1>1. IsFiniteSet(jobs) /\ sem <= workers /\ Cardinality(jobs \ Held) = sem /\ sem \in Nat
        /\ workers \in Nat
    BY Constants DEF TypeInv, PlainOK, PoolOK
  <1>2. IsFiniteSet(Held)
    BY <1>1, FS_Subset DEF Held
  <1>3. IsFiniteSet(jobs \ Held)
    BY <1>1, FS_Subset
  <1>4. ASSUME NEW x PROVE Sleeping(x) \subseteq jobs \ Held
    BY DEF Sleeping, Held
  <1>5. ASSUME NEW x PROVE /\ IsFiniteSet(Sleeping(x)) /\ Cardinality(Sleeping(x)) <= sem
    BY <1>1, <1>3, <1>4, FS_Subset
  <1>6. Cardinality(Held) \in Nat /\ \A x : Cardinality(Sleeping(x)) \in Nat
    BY <1>2, <1>5, FS_CardinalityType
  <1> QED
    BY <1>1, <1>2, <1>5, <1>6 DEF CountsOK

LEMMA CountsNext == TypeInv' => CountsOK'
  BY CountsType, PTL

\* The steps that leave the process calm.
LEMMA CalmSteps ==
  ASSUME TypeInv, [Next]_vars, Calm'
  PROVE  /\ Calm /\ workers' = workers
         /\ \/ UNCHANGED <<async, msg, jobs, charges>>
            \/ \E o \in Asyncs : Publish(o)
            \/ \E m \in Msgs : VisibilityTimeout(m)
            \/ \E b \in Batches : Receive(b)
            \/ \E j \in jobs : Dispatch(j) \/ Pay(j) \/ DeleteMessage(j)
            \/ Tick /\ ~Due
  <1>1. faults \in Nat /\ ~Fault /\ workers' = workers
    BY JobSteps DEF TypeInv, PlainOK, Calm, Fault
  <1>2. PoolLargeEnough
    BY <1>1 DEF Calm, PoolLargeEnough
  <1>3. ASSUME NEW s \in Syncs, SyncOrder(s) \/ AcquireSlot(s) \/ CompleteSync(s)
        PROVE  UNCHANGED <<async, msg, jobs, charges, faults>>
    BY <1>3 DEF SyncOrder, AcquireSlot, CompleteSync, process
  <1>4. ASSUME NEW o \in Asyncs, Publish(o) \/ PublishRetried(o) \/ PublishFails(o)
        PROVE  Publish(o) /\ faults' = faults
    BY <1>1, <1>4 DEF Publish, PublishRetried, PublishFails
  <1>5. ASSUME NEW m \in Msgs, VisibilityTimeout(m) PROVE faults' = faults
    BY <1>5 DEF VisibilityTimeout
  <1>6. ASSUME NEW b \in Batches, Receive(b) \/ ReceiveFails(b)
        PROVE  Receive(b) /\ faults' = faults
    BY <1>1, <1>6 DEF Receive, ReceiveFails
  <1>7. ASSUME NEW j \in jobs, Working(j) \/ DeleteMessageFails(j)
        PROVE  Working(j) /\ faults' = faults
    BY <1>1, <1>7 DEF Working, Dispatch, Pay, DeleteMessage, DeleteMessageFails
  <1>8. ~Exit
    BY <1>1 DEF Exit
  <1>9. ASSUME Tick PROVE ~Due /\ faults' = faults
    BY <1>1, <1>9 DEF Tick
  <1>10. ASSUME UNCHANGED vars PROVE UNCHANGED <<async, msg, jobs, charges, faults>>
    BY <1>10 DEF vars, asks, process
  <1>11. faults' = 0
    BY DEF Calm
  <1> QED
    BY <1>1, <1>2, <1>3, <1>4, <1>5, <1>6, <1>7, <1>8, <1>9, <1>10, <1>11
    DEF Next, Working, Calm

\* A job's message keeps its place, receives and timer, and the jobs stay.
LEMMA CalmKept ==
  ASSUME TypeInv, CalmOK, jobs' = jobs, workers' = workers,
         \A j \in jobs : msg'[j.m] = msg[j.m]
  PROVE  TimersOK' /\ TurnsOK'
  <1>1. Held' = Held /\ Spare' = Spare /\ \A x : Sleeping(x)' = Sleeping(x)
    BY DEF Held, Spare, Sleeping
  <1>2. TimersOK'
    BY <1>1 DEF CalmOK, TimersOK
  <1>3. \A j \in Held : j \in jobs
    BY DEF Held
  <1>4. \A t : Turns(t) => Turns(t)'
    BY <1>1 DEF Turns
  <1>5. TurnsOK'
    BY <1>1, <1>3, <1>4 DEF CalmOK, TurnsOK
  <1> QED
    BY <1>2, <1>5

LEMMA JobsInFlight ==
  ASSUME CalmOK
  PROVE  \A j \in jobs : /\ msg[j.m].place = "in flight" /\ msg[j.m].receives = 1
                        /\ j.receipt = 1
  BY DEF CalmOK, HoldersOK

\* No two jobs are of one message.
LEMMA OneJob ==
  ASSUME TypeInv, CalmOK, NEW i \in jobs, NEW j \in jobs, i.m = j.m
  PROVE  i = j
  <1>1. i.receipt = 1 /\ j.receipt = 1
    BY DEF CalmOK, HoldersOK
  <1> QED
    BY <1>1 DEF TypeInv, ReceiptOK

LEMMA CalmQuiet ==
  ASSUME TypeInv, CalmOK, workers' = workers, UNCHANGED <<async, msg, jobs, charges>>
  PROVE  CalmOK'
  <1>1. TimersOK' /\ TurnsOK'
    BY CalmKept
  <1>2. FirstOK' /\ HoldersOK' /\ ChargeOK'
    BY DEF CalmOK, FirstOK, HoldersOK, ChargeOK
  <1> QED
    BY <1>1, <1>2 DEF CalmOK

LEMMA CalmPublish ==
  ASSUME TypeInv, CalmOK, NEW o \in Asyncs, Publish(o)
  PROVE  CalmOK'
  <1>1. /\ msg \in [Msgs -> MsgRec] /\ jobs \subseteq Job
        /\ async \in [Asyncs -> {"absent", "idle", "retrying", "accepted", "failed", "lost"}]
        /\ First(o) \in Msgs /\ \A p \in Asyncs : <<p, 2>> \in Msgs /\ First(p) \in Msgs
    BY DEF TypeInv, PlainOK, Msgs, First
  <1>2. async[o] # "accepted" /\ msg[First(o)].place = "none"
    BY DEF Publish, CalmOK, FirstOK
  <1>3. msg' = [msg EXCEPT ![First(o)].place = "visible"]
    BY <1>2 DEF Publish, Posted, First
  <1>4. /\ \A m \in Msgs : m # First(o) => msg'[m] = msg[m]
        /\ msg'[First(o)].place = "visible"
        /\ msg'[First(o)].receives = msg[First(o)].receives
    BY <1>1, <1>3 DEF MsgRec
  <1>5. /\ async' = [async EXCEPT ![o] = "accepted"] /\ jobs' = jobs /\ workers' = workers
        /\ charges' = charges
    BY DEF Publish, process
  <1>6. \A j \in jobs : j.m \in Msgs /\ j.m # First(o)
    BY <1>1, <1>2, JobFields DEF CalmOK, HoldersOK
  <1>7. TimersOK' /\ TurnsOK'
    BY <1>4, <1>5, <1>6, CalmKept
  <1>8. FirstOK'
    <2> SUFFICES ASSUME NEW p \in Asyncs
                 PROVE  /\ async'[p] \in {"absent", "idle", "accepted"}
                        /\ msg'[<<p, 2>>].place = "none"
                        /\ async'[p] # "accepted" => msg'[First(p)].place = "none"
      BY DEF FirstOK
    <2>1. <<p, 2>> # First(o) /\ (p # o => First(p) # First(o))
      BY DEF First
    <2> QED
      BY <1>1, <1>4, <1>5, <2>1 DEF CalmOK, FirstOK
  <1>9. HoldersOK'
    <2>1. ASSUME NEW m \in Msgs
          PROVE  /\ msg'[m].place \in {"none", "visible"} => msg'[m].receives = 0
                 /\ msg'[m].place = "in flight" => \E j \in jobs : j.m = m
      <3>1. /\ msg[m].place \in {"none", "visible"} => msg[m].receives = 0
            /\ msg[m].place = "in flight" => \E j \in jobs : j.m = m
        BY DEF CalmOK, HoldersOK
      <3>2. CASE m = First(o)
        BY <1>2, <1>4, <3>1, <3>2
      <3>3. CASE m # First(o)
        BY <1>4, <3>1, <3>3
      <3> QED
        BY <3>2, <3>3
    <2>2. ASSUME NEW j \in jobs
          PROVE  msg'[j.m].place = "in flight" /\ msg'[j.m].receives = 1 /\ j.receipt = 1
      <3>1. msg'[j.m] = msg[j.m]
        BY <1>4, <1>6
      <3> QED
        BY <3>1, JobsInFlight
    <2> QED
      BY <1>5, <2>1, <2>2 DEF HoldersOK
  <1>10. ChargeOK'
    <2> SUFFICES ASSUME NEW p \in Asyncs
                 PROVE  /\ charges[p] \in 0 .. 1
                        /\ charges[p] = 1 => \/ msg'[First(p)].place = "deleted"
                                             \/ \E j \in jobs : j.m = First(p) /\ j.pc = "paid"
      BY <1>5 DEF ChargeOK
    <2>1. msg[First(p)].place = "deleted" => msg'[First(p)].place = "deleted"
      BY <1>1, <1>2, <1>4
    <2> QED
      BY <2>1 DEF CalmOK, ChargeOK
  <1> QED
    BY <1>7, <1>8, <1>9, <1>10 DEF CalmOK

LEMMA CalmReceive ==
  ASSUME TypeInv, TypeInv', CalmOK, PoolLargeEnough, NEW b \in Batches, Receive(b)
  PROVE  CalmOK'
  <1>1. /\ Held = {} /\ msg' = Taken(b) /\ jobs' = jobs \cup NewJobs(b)
        /\ async' = async /\ charges' = charges /\ workers' = workers /\ sem' = sem
        /\ jobs \subseteq Job /\ msg \in [Msgs -> MsgRec]
    BY DEF Receive, NewJobs, NewJob, asks, TypeInv, PlainOK
  <1>2. /\ \A m \in Msgs \ b : msg'[m] = msg[m]
        /\ \A m \in b : /\ m \in Msgs /\ msg[m].place = "visible"
                        /\ msg'[m].place = "in flight" /\ msg'[m].timer = Visibility
                        /\ msg'[m].receives = msg[m].receives + 1
    BY <1>1 DEF Taken, Batches, Visible
  <1>3. \A m \in b : msg[m].receives = 0
    BY <1>2 DEF CalmOK, HoldersOK
  <1>4. \A j \in jobs : j.m \in Msgs \ b
    BY <1>1, <1>2, JobFields DEF CalmOK, HoldersOK
  <1>5. \A m \in b : /\ NewJob(m) \in jobs' /\ NewJob(m).m = m /\ NewJob(m).pc = "held"
                    /\ NewJob(m).receipt = 1
    BY <1>1, <1>3 DEF NewJobs, NewJob
  <1>6. \A j \in jobs' : j \in jobs \/ \E m \in b : j = NewJob(m)
    BY <1>1 DEF NewJobs
  <1>7. \A o \in Asyncs : First(o) \in Msgs /\ <<o, 2>> \in Msgs
    BY DEF Msgs, First
  <1>8. FirstOK'
    BY <1>1, <1>2, <1>7 DEF CalmOK, FirstOK
  <1>9. HoldersOK'
    <2>1. ASSUME NEW m \in Msgs
          PROVE  /\ msg'[m].place \in {"none", "visible"} => msg'[m].receives = 0
                 /\ msg'[m].place = "in flight" => \E j \in jobs' : j.m = m
      <3>1. CASE m \in b
        BY <1>2, <1>5, <3>1
      <3>2. CASE m \notin b
        <4>1. msg'[m] = msg[m]
          BY <1>2, <3>2
        <4>2. \A j \in jobs : j \in jobs'
          BY <1>1
        <4> QED
          BY <4>1, <4>2 DEF CalmOK, HoldersOK
      <3> QED
        BY <3>1, <3>2
    <2>2. ASSUME NEW j \in jobs'
          PROVE  msg'[j.m].place = "in flight" /\ msg'[j.m].receives = 1 /\ j.receipt = 1
      <3>1. CASE j \in jobs
        BY <1>2, <1>4, <3>1, JobsInFlight
      <3>2. ASSUME NEW m \in b, j = NewJob(m)
            PROVE  msg'[j.m].place = "in flight" /\ msg'[j.m].receives = 1 /\ j.receipt = 1
        <4>1. j.m = m /\ j.receipt = 1
          BY <1>5, <3>2
        <4>2. msg'[m].place = "in flight" /\ msg'[m].receives = 0 + 1
          BY <1>2, <1>3
        <4>3. 0 + 1 = 1
          OBVIOUS
        <4> QED
          BY <4>1, <4>2, <4>3, Zenon
      <3> QED
        BY <1>6, <3>1, <3>2
    <2> QED
      BY <2>1, <2>2 DEF HoldersOK
  <1>10. ChargeOK'
    BY <1>1, <1>2, <1>7 DEF CalmOK, ChargeOK
  <1>11. Held' = NewJobs(b) /\ jobs' \ Held' = jobs
    BY <1>1, <1>5, <1>6 DEF Held, NewJobs
  <1>12. TimersOK'
    BY <1>1, <1>2, <1>4, <1>11 DEF CalmOK, TimersOK
  <1>13. TurnsOK'
    <2>1. /\ Rounds(workers) \in Nat /\ workers \in Nat /\ PayTime \in Nat \ {0}
          /\ Rounds(workers) * workers >= BatchSize /\ Rounds(workers) * workers \in Nat
          /\ BatchSize \in Nat
      BY RoundsEnough, Constants, Products DEF TypeInv, PlainOK
    <2>2. /\ Cardinality(Held') <= BatchSize /\ Cardinality(Held') \in Nat
          /\ Cardinality(Sleeping(0)') <= workers /\ Cardinality(Sleeping(0)') \in Nat
      <3>1. Cardinality(Held') <= BatchSize /\ Cardinality(Held') \in Nat
        BY <1>11, <2>1, BatchType
      <3>2. Cardinality(Sleeping(0)') <= workers' /\ Cardinality(Sleeping(0)') \in Nat
        BY CountsNext DEF CountsOK
      <3> QED
        BY <1>1, <3>1, <3>2
    <2>3. Cardinality(Held') + Cardinality(Sleeping(0)')
            <= Rounds(workers) * workers + workers
      BY <2>1, <2>2
    <2>4. /\ Visibility = Spare + Rounds(workers) * PayTime + 0
          /\ Rounds(workers) \in 0 .. Rounds(workers) /\ 0 \in 0 .. PayTime - 1
      BY <2>1, Products, SpareEnough
    <2>5. Spare' = Spare /\ Rounds(workers') = Rounds(workers)
      BY <1>1 DEF Spare
    <2>6. Turns(Visibility)'
      BY <1>1, <2>3, <2>4, <2>5 DEF Turns
    <2>7. \A j \in Held' : msg'[j.m].timer = Visibility
      <3> SUFFICES ASSUME NEW m \in b PROVE msg'[NewJob(m).m].timer = Visibility
        BY <1>11 DEF NewJobs
      <3> QED
        BY <1>2, <1>5
    <2> QED
      BY <2>6, <2>7 DEF TurnsOK
  <1> QED
    BY <1>8, <1>9, <1>10, <1>12, <1>13 DEF CalmOK

LEMMA MovedHolders ==
  ASSUME CalmOK, msg' = msg, NEW j \in jobs, NEW k, k.m = j.m, k.receipt = j.receipt,
         jobs' = (jobs \ {j}) \cup {k}
  PROVE  HoldersOK'
  <1>1. \A i \in jobs' : \E h \in jobs : i.m = h.m /\ i.receipt = h.receipt
    OBVIOUS
  <1>2. \A h \in jobs : \E i \in jobs' : i.m = h.m
    OBVIOUS
  <1>3. ASSUME NEW m \in Msgs
        PROVE  /\ msg[m].place \in {"none", "visible"} => msg[m].receives = 0
               /\ msg[m].place = "in flight" => \E i \in jobs' : i.m = m
    BY <1>2 DEF CalmOK, HoldersOK
  <1>4. ASSUME NEW i \in jobs'
        PROVE  msg[i.m].place = "in flight" /\ msg[i.m].receives = 1 /\ i.receipt = 1
    <2>1. PICK h \in jobs : i.m = h.m /\ i.receipt = h.receipt
      BY <1>1
    <2>2. msg[h.m].place = "in flight" /\ msg[h.m].receives = 1 /\ h.receipt = 1
      BY DEF CalmOK, HoldersOK
    <2> QED
      BY <2>1, <2>2
  <1> QED
    BY <1>3, <1>4 DEF HoldersOK

LEMMA CalmDispatch ==
  ASSUME TypeInv, CalmOK, PoolLargeEnough, NEW j \in jobs, Dispatch(j)
  PROVE  CalmOK'
  <1> DEFINE k == [j EXCEPT !.pc = "paying", !.timer = PayTime]
  <1>0. j \in Job /\ jobs \subseteq Job
    BY DEF TypeInv, PlainOK
  <1>1. /\ k \in Job /\ k.m = j.m /\ k.receipt = j.receipt
        /\ k.pc = "paying" /\ k.timer = PayTime
    BY <1>0, DispatchedJob
  <1>2. /\ j.pc = "held" /\ jobs' = (jobs \ {j}) \cup {k}
        /\ msg' = msg /\ async' = async /\ charges' = charges /\ workers' = workers
    BY DEF Dispatch, asks
  <1> HIDE DEF k
  <1>3. k \notin jobs
    BY <1>1, <1>2 DEF TypeInv, ReceiptOK
  <1>4. FirstOK'
    BY <1>2 DEF CalmOK, FirstOK
  <1>5. HoldersOK'
    BY <1>1, <1>2, MovedHolders
  <1>6. ChargeOK'
    <2> SUFFICES ASSUME NEW o \in Asyncs
                 PROVE  /\ charges[o] \in 0 .. 1
                        /\ charges[o] = 1 => \/ msg[First(o)].place = "deleted"
                                             \/ \E i \in jobs' : i.m = First(o) /\ i.pc = "paid"
      BY <1>2 DEF ChargeOK
    <2>1. \A i \in jobs : i.pc = "paid" => i \in jobs'
      BY <1>2
    <2> QED
      BY <2>1 DEF CalmOK, ChargeOK
  <1>7. Held' = Held \ {j} /\ j \in Held /\ jobs' \ Held' = (jobs \ Held) \cup {k}
    BY <1>1, <1>2, <1>3 DEF Held
  <1>8. TimersOK'
    BY <1>1, <1>2, <1>7, WaitingTimer DEF CalmOK, TimersOK
  <1>9. ASSUME NEW x \in 0 .. PayTime - 1
        PROVE  /\ Sleeping(x)' = Sleeping(x) \cup {k} /\ k \notin Sleeping(x)
               /\ Cardinality(Held') + Cardinality(Sleeping(x)')
                    = Cardinality(Held) + Cardinality(Sleeping(x))
    <2>1. PayTime > x
      BY Constants
    <2>2. Sleeping(x)' = Sleeping(x) \cup {k} /\ k \notin Sleeping(x)
      BY <1>1, <1>2, <1>3, <2>1 DEF Sleeping
    <2>3. /\ IsFiniteSet(Held) /\ Cardinality(Held) \in Nat
          /\ IsFiniteSet(Sleeping(x)) /\ Cardinality(Sleeping(x)) \in Nat
      BY CountsType DEF CountsOK
    <2>4. Cardinality(Held') = Cardinality(Held) - 1
      BY <1>7, <2>3, FS_RemoveElement
    <2>5. Cardinality(Sleeping(x)') = Cardinality(Sleeping(x)) + 1
      BY <2>2, <2>3, FS_AddElement
    <2> QED
      BY <2>2, <2>3, <2>4, <2>5
  <1>10. \A t : Turns(t) => Turns(t)'
    <2> SUFFICES ASSUME NEW t, Turns(t) PROVE Turns(t)'
      OBVIOUS
    <2>1. PICK q \in 0 .. Rounds(workers), x \in 0 .. PayTime - 1 :
             /\ t = Spare + q * PayTime + x
             /\ Cardinality(Held) + Cardinality(Sleeping(x)) <= q * workers + workers
      BY DEF Turns
    <2>2. Spare' = Spare /\ Rounds(workers') = Rounds(workers)
      BY <1>2 DEF Spare
    <2>3. /\ t = Spare' + q * PayTime + x
          /\ Cardinality(Held') + Cardinality(Sleeping(x)') <= q * workers' + workers'
      BY <1>2, <1>9, <2>1, <2>2
    <2> QED
      BY <1>2, <2>2, <2>3 DEF Turns
  <1>11. TurnsOK'
    BY <1>2, <1>7, <1>10 DEF CalmOK, TurnsOK
  <1> QED
    BY <1>4, <1>5, <1>6, <1>8, <1>11 DEF CalmOK

LEMMA CalmPay ==
  ASSUME TypeInv, CalmOK, PoolLargeEnough, NEW j \in jobs, Pay(j)
  PROVE  CalmOK'
  <1> DEFINE k == [j EXCEPT !.pc = "paid"]
             o == j.m[1]
  <1>0. j \in Job /\ jobs \subseteq Job /\ charges \in [Asyncs -> Nat] /\ o \in Asyncs
        /\ j.m = <<o, j.m[2]>> /\ j.m[2] \in {1, 2}
    BY JobFields DEF TypeInv, PlainOK, Msgs
  <1>1. /\ k \in Job /\ k.m = j.m /\ k.receipt = j.receipt
        /\ k.pc = "paid" /\ k.timer = j.timer
    BY <1>0, PaidJob
  <1>2. /\ j.pc = "paying" /\ j.timer = 0 /\ jobs' = (jobs \ {j}) \cup {k}
        /\ msg' = msg /\ async' = async /\ workers' = workers
        /\ charges' = [charges EXCEPT ![o] = charges[o] + 1]
    BY DEF Pay, asks
  <1> HIDE DEF k, o
  <1>3. k \notin jobs
    BY <1>1, <1>2 DEF TypeInv, ReceiptOK
  <1>4. FirstOK'
    BY <1>2 DEF CalmOK, FirstOK
  <1>5. HoldersOK'
    BY <1>1, <1>2, MovedHolders
  <1>6. j.m = First(o) /\ msg[j.m].place = "in flight"
    <2>1. msg[j.m].place = "in flight"
      BY DEF CalmOK, HoldersOK
    <2>2. msg[<<o, 2>>].place = "none"
      BY <1>0 DEF CalmOK, FirstOK
    <2>3. j.m[2] = 1
      BY <1>0, <2>1, <2>2
    <2> QED
      BY <1>0, <2>1, <2>3 DEF First
  <1>7. charges[o] = 0
    <2>1. ~(\E i \in jobs : i.m = First(o) /\ i.pc = "paid")
      BY <1>2, <1>6, OneJob
    <2> QED
      <3>1. /\ charges[o] \in 0 .. 1
            /\ charges[o] = 1 => \/ msg[First(o)].place = "deleted"
                                 \/ \E i \in jobs : i.m = First(o) /\ i.pc = "paid"
        BY <1>0 DEF CalmOK, ChargeOK
      <3>2. msg[First(o)].place # "deleted"
        BY <1>6
      <3> QED
        BY <2>1, <3>1, <3>2
  <1>8. ChargeOK'
    <2> SUFFICES ASSUME NEW p \in Asyncs
                 PROVE  /\ charges'[p] \in 0 .. 1
                        /\ charges'[p] = 1 => \/ msg[First(p)].place = "deleted"
                                              \/ \E i \in jobs' : i.m = First(p) /\ i.pc = "paid"
      BY <1>2 DEF ChargeOK
    <2>1. CASE p = o
      <3>1. charges'[p] = 1
        BY <1>0, <1>2, <1>7, <2>1
      <3>2. k \in jobs' /\ k.m = First(p) /\ k.pc = "paid"
        BY <1>1, <1>2, <1>6, <2>1
      <3> QED
        BY <3>1, <3>2
    <2>2. CASE p # o
      <3>1. charges'[p] = charges[p]
        BY <1>0, <1>2, <2>2
      <3>2. \A i \in jobs : i.pc = "paid" => i \in jobs'
        BY <1>2
      <3> QED
        BY <3>1, <3>2 DEF CalmOK, ChargeOK
    <2> QED
      BY <2>1, <2>2
  <1>9. /\ Held' = Held /\ jobs' \ Held' = ((jobs \ Held) \ {j}) \cup {k}
        /\ j \in jobs \ Held
    BY <1>1, <1>2 DEF Held
  <1>10. TimersOK'
    BY <1>1, <1>2, <1>9 DEF CalmOK, TimersOK
  <1>11. ASSUME NEW x \in 0 .. PayTime - 1 PROVE Sleeping(x)' = Sleeping(x)
    <2>1. ~(j.timer > x)
      BY <1>2, Constants
    <2> QED
      BY <1>1, <1>2, <2>1 DEF Sleeping
  <1>12. Spare' = Spare
    BY <1>2 DEF Spare
  <1>13. \A t : Turns(t) => Turns(t)'
    BY <1>2, <1>9, <1>11, <1>12 DEF Turns
  <1>14. TurnsOK'
    BY <1>2, <1>9, <1>13 DEF CalmOK, TurnsOK
  <1> QED
    BY <1>4, <1>5, <1>8, <1>10, <1>14 DEF CalmOK

LEMMA CalmDelete ==
  ASSUME TypeInv, CalmOK, PoolLargeEnough, NEW j \in jobs, DeleteMessage(j)
  PROVE  CalmOK'
  <1> DEFINE r == [msg[j.m] EXCEPT !.place = "deleted", !.timer = 0]
  <1>0. /\ jobs \subseteq Job /\ msg \in [Msgs -> MsgRec] /\ j.m \in Msgs
        /\ msg[j.m] \in MsgRec
    BY JobFields DEF TypeInv, PlainOK
  <1>1. /\ j.pc = "paid" /\ jobs' = jobs \ {j} /\ msg' \in Removed(j)
        /\ async' = async /\ charges' = charges /\ workers' = workers
    BY DEF DeleteMessage, Deletable, GoroutineEnds, asks
  <1>2. r.place = "deleted" /\ r.receives = msg[j.m].receives
    BY <1>0, MsgEdit
  <1>3. msg' = [msg EXCEPT ![j.m] = r]
    <2>1. [msg EXCEPT ![j.m].place = "deleted", ![j.m].timer = 0] = [msg EXCEPT ![j.m] = r]
      BY <1>0 DEF MsgRec
    <2>2. ~(j.receipt < msg[j.m].receives)
      <3>1. j.receipt = 1 /\ msg[j.m].receives = 1
        BY JobsInFlight
      <3> QED
        BY <3>1
    <2> QED
      BY <1>1, <2>1, <2>2 DEF Removed
  <1> HIDE DEF r
  <1>4. /\ \A m \in Msgs \ {j.m} : msg'[m] = msg[m]
        /\ msg'[j.m].place = "deleted" /\ msg'[j.m].receives = msg[j.m].receives
    BY <1>0, <1>2, <1>3
  <1>5. \A i \in jobs' : i \in jobs /\ i.m \in Msgs \ {j.m} /\ msg'[i.m] = msg[i.m]
    BY <1>0, <1>1, <1>4, OneJob, JobFields
  <1>6. msg[j.m].place = "in flight"
    BY DEF CalmOK, HoldersOK
  <1>7. FirstOK'
    <2> SUFFICES ASSUME NEW o \in Asyncs
                 PROVE  /\ async[o] \in {"absent", "idle", "accepted"}
                        /\ msg'[<<o, 2>>].place = "none"
                        /\ async[o] # "accepted" => msg'[First(o)].place = "none"
      BY <1>1 DEF FirstOK
    <2>1. \A m \in Msgs : msg[m].place = "none" => msg'[m].place = "none"
      BY <1>4, <1>6
    <2>2. <<o, 2>> \in Msgs /\ First(o) \in Msgs
      BY DEF First, Msgs
    <2> QED
      BY <2>1, <2>2 DEF CalmOK, FirstOK
  <1>8. HoldersOK'
    <2>1. ASSUME NEW m \in Msgs
          PROVE  /\ msg'[m].place \in {"none", "visible"} => msg'[m].receives = 0
                 /\ msg'[m].place = "in flight" => \E i \in jobs' : i.m = m
      <3>1. CASE m = j.m
        BY <1>4, <3>1
      <3>2. CASE m # j.m
        <4>1. msg'[m] = msg[m]
          BY <1>4, <3>2
        <4>2. /\ msg[m].place \in {"none", "visible"} => msg[m].receives = 0
              /\ msg[m].place = "in flight" => \E i \in jobs : i.m = m
          BY DEF CalmOK, HoldersOK
        <4> QED
          BY <1>1, <3>2, <4>1, <4>2
      <3> QED
        BY <3>1, <3>2
    <2>2. ASSUME NEW i \in jobs'
          PROVE  msg'[i.m].place = "in flight" /\ msg'[i.m].receives = 1 /\ i.receipt = 1
      <3>1. i \in jobs /\ msg'[i.m] = msg[i.m]
        BY <1>5
      <3> QED
        BY <3>1, JobsInFlight, Zenon
    <2> QED
      BY <2>1, <2>2 DEF HoldersOK
  <1>9. ChargeOK'
    <2> SUFFICES ASSUME NEW o \in Asyncs
                 PROVE  /\ charges[o] \in 0 .. 1
                        /\ charges[o] = 1 => \/ msg'[First(o)].place = "deleted"
                                             \/ \E i \in jobs' : i.m = First(o) /\ i.pc = "paid"
      BY <1>1 DEF ChargeOK
    <2>1. First(o) \in Msgs
      BY DEF First, Msgs
    <2>2. CASE First(o) = j.m
      BY <1>4, <2>2 DEF CalmOK, ChargeOK
    <2>3. CASE First(o) # j.m
      <3>1. msg'[First(o)] = msg[First(o)]
        BY <1>4, <2>1, <2>3
      <3>2. \A i \in jobs : i.m = First(o) => i \in jobs'
        BY <1>1, <2>3
      <3> QED
        BY <3>1, <3>2 DEF CalmOK, ChargeOK
    <2> QED
      BY <2>2, <2>3
  <1>10. Held' = Held /\ jobs' \ Held' = (jobs \ Held) \ {j}
    BY <1>1 DEF Held
  <1>11. TimersOK'
    BY <1>5, <1>10 DEF CalmOK, TimersOK
  <1>12. \A x : Sleeping(x)' = Sleeping(x)
    BY <1>1 DEF Sleeping
  <1>13. Spare' = Spare
    BY <1>1 DEF Spare
  <1>14. \A t : Turns(t) => Turns(t)'
    BY <1>1, <1>10, <1>12, <1>13 DEF Turns
  <1>15. \A i \in Held : i \in jobs'
    BY <1>1 DEF Held
  <1>16. TurnsOK'
    BY <1>5, <1>10, <1>14, <1>15 DEF CalmOK, TurnsOK
  <1> QED
    BY <1>7, <1>8, <1>9, <1>11, <1>16 DEF CalmOK

\* No message becomes visible again.
LEMMA CalmVisibility ==
  ASSUME TypeInv, CalmOK, PoolLargeEnough, NEW m \in Msgs, VisibilityTimeout(m)
  PROVE  FALSE
  <1>1. msg[m].place = "in flight" /\ msg[m].timer = 0
    BY DEF VisibilityTimeout
  <1>2. PICK j \in jobs : j.m = m
    BY <1>1 DEF CalmOK, HoldersOK
  <1>3. j.timer \in 0 .. PayTime /\ PayTime \in Nat
    BY JobFields, Constants DEF TypeInv, PlainOK
  <1>4. CASE j \in Held
    <2>1. msg[j.m].timer > PayTime
      BY <1>4, WaitingTimer DEF CalmOK
    <2>2. msg[j.m].timer = 0
      BY <1>1, <1>2
    <2> QED
      BY <1>3, <2>1, <2>2
  <1>5. CASE j \notin Held
    <2>1. j.timer < msg[j.m].timer
      BY <1>5 DEF CalmOK, TimersOK
    <2>2. msg[j.m].timer = 0
      BY <1>1, <1>2
    <2> QED
      BY <1>3, <2>1, <2>2
  <1> QED
    BY <1>4, <1>5

LEMMA CalmTick ==
  ASSUME TypeInv, CalmOK, PoolLargeEnough, Tick, ~Due
  PROVE  CalmOK'
  <1>0. /\ jobs \subseteq Job /\ msg \in [Msgs -> MsgRec] /\ workers \in Nat \ {0}
        /\ PayTime \in Nat \ {0}
    BY Constants DEF TypeInv, PlainOK
  <1>1. /\ jobs' = {Ticked(j) : j \in jobs}
        /\ msg' = [m \in Msgs |-> [msg[m] EXCEPT !.timer = Down(msg[m].timer)]]
        /\ async' = async /\ charges' = charges /\ workers' = workers
    BY DEF Tick, Ticked
  <1>2. \A j \in jobs : /\ Ticked(j).m = j.m /\ Ticked(j).receipt = j.receipt
                       /\ Ticked(j).pc = j.pc /\ Ticked(j).timer = Down(j.timer)
    BY <1>0, TickedJob DEF Ticked
  <1>3. \A m \in Msgs : /\ msg'[m].place = msg[m].place /\ msg'[m].receives = msg[m].receives
                       /\ msg'[m].timer = Down(msg[m].timer)
                       /\ msg[m].timer \in Nat
    BY <1>0, <1>1 DEF MsgRec
  <1>4. \A j \in jobs : /\ j.m \in Msgs /\ j.timer \in 0 .. PayTime
                       /\ j.pc \in {"held", "paying", "paid"}
    BY <1>0, JobFields
  <1>5. \A j \in jobs : /\ j.pc # "paid" /\ (j.pc = "paying" => j.timer > 0)
                       /\ (j.pc = "held" => ~WorkerFree)
    <2>1. ~(\E j \in jobs : \/ j.pc = "held" /\ WorkerFree
                            \/ j.pc = "paying" /\ j.timer = 0
                            \/ j.pc = "paid")
      BY Zenon DEF Due
    <2>2. \A j \in jobs : j.timer # 0 => j.timer > 0
      BY <1>0, <1>4
    <2> QED
      <3> SUFFICES ASSUME NEW j \in jobs
                   PROVE  /\ j.pc # "paid" /\ (j.pc = "paying" => j.timer > 0)
                          /\ (j.pc = "held" => ~WorkerFree)
        OBVIOUS
      <3>1. j.pc # "paid"
        BY <2>1
      <3>2. ~(j.pc = "paying" /\ j.timer = 0)
        BY <2>1
      <3>3. ASSUME j.pc = "held", WorkerFree PROVE FALSE
        BY <2>1, <3>3
      <3> QED
        BY <2>2, <3>1, <3>2, <3>3, Zenon
  <1>6. FirstOK'
    <2>1. \A o \in Asyncs : <<o, 2>> \in Msgs /\ First(o) \in Msgs
      BY DEF First, Msgs
    <2> QED
      BY <1>1, <1>3, <2>1 DEF CalmOK, FirstOK
  <1>7. HoldersOK'
    <2>1. ASSUME NEW m \in Msgs
          PROVE  /\ msg'[m].place \in {"none", "visible"} => msg'[m].receives = 0
                 /\ msg'[m].place = "in flight" => \E i \in jobs' : i.m = m
      <3>1. /\ msg[m].place \in {"none", "visible"} => msg[m].receives = 0
            /\ msg[m].place = "in flight" => \E i \in jobs : i.m = m
        BY DEF CalmOK, HoldersOK
      <3>2. \A i \in jobs : Ticked(i) \in jobs' /\ Ticked(i).m = i.m
        BY <1>1, <1>2
      <3> QED
        BY <1>3, <3>1, <3>2
    <2>2. ASSUME NEW j \in jobs
          PROVE  /\ msg'[Ticked(j).m].place = "in flight" /\ msg'[Ticked(j).m].receives = 1
                 /\ Ticked(j).receipt = 1
      <3>1. msg[j.m].place = "in flight" /\ msg[j.m].receives = 1 /\ j.receipt = 1
        BY DEF CalmOK, HoldersOK
      <3> QED
        BY <1>2, <1>3, <1>4, <3>1
    <2> QED
      <3>1. \A i \in jobs' : \E j \in jobs : i = Ticked(j)
        BY <1>1
      <3> HIDE DEF Ticked
      <3>2. ASSUME NEW i \in jobs'
            PROVE  msg'[i.m].place = "in flight" /\ msg'[i.m].receives = 1 /\ i.receipt = 1
        <4>1. PICK j \in jobs : i = Ticked(j)
          BY <3>1
        <4> QED
          BY <2>2, <4>1
      <3> QED
        BY <2>1, <3>2 DEF HoldersOK
  <1>8. ChargeOK'
    <2>1. \A o \in Asyncs : First(o) \in Msgs
      BY DEF First, Msgs
    <2> SUFFICES ASSUME NEW o \in Asyncs
                 PROVE  /\ charges[o] \in 0 .. 1
                        /\ charges[o] = 1 => \/ msg'[First(o)].place = "deleted"
                                             \/ \E i \in jobs' : i.m = First(o) /\ i.pc = "paid"
      BY <1>1 DEF ChargeOK
    <2>2. /\ charges[o] \in 0 .. 1
          /\ charges[o] = 1 => msg[First(o)].place = "deleted"
      BY <1>5 DEF CalmOK, ChargeOK
    <2> QED
      BY <1>3, <2>1, <2>2
  <1>9. Held' = {Ticked(j) : j \in Held}
    BY <1>1, <1>2 DEF Held
  <1>10. TimersOK'
    <2> SUFFICES ASSUME NEW j \in jobs, j.pc # "held"
                 PROVE  Ticked(j).timer < msg'[Ticked(j).m].timer
      BY <1>1, <1>2 DEF TimersOK, Held
    <2>1. j.timer > 0 /\ j.timer < msg[j.m].timer
      BY <1>4, <1>5 DEF CalmOK, TimersOK, Held
    <2>2. msg'[j.m].timer = Down(msg[j.m].timer) /\ msg[j.m].timer \in Nat
      BY <1>3, <1>4
    <2>3. Down(j.timer) = j.timer - 1 /\ Down(msg[j.m].timer) = msg[j.m].timer - 1
      BY <1>4, <2>1, <2>2 DEF Down
    <2> QED
      BY <1>2, <1>4, <2>1, <2>2, <2>3
  <1>11. Cardinality(Held') = Cardinality(Held)
    BY <1>9, TickedCount DEF Held
  <1>12. ASSUME NEW x \in Nat
         PROVE  Cardinality(Sleeping(x)') = Cardinality(Sleeping(x + 1))
    <2>1. \A j \in jobs : Ticked(j).timer > x <=> j.timer > x + 1
      BY <1>2, <1>4 DEF Down
    <2>2. Sleeping(x)' = {Ticked(j) : j \in Sleeping(x + 1)}
      BY <1>1, <1>2, <2>1 DEF Sleeping
    <2> QED
      BY <2>2, TickedCount DEF Sleeping
  <1>13. ASSUME NEW i \in Held, NEW t, t = msg'[Ticked(i).m].timer
         PROVE  Turns(t)'
    <2>1. i \in jobs /\ ~WorkerFree
      BY <1>5 DEF Held
    <2>2. Cardinality(Sleeping(0)) = workers
      <3>1. Sleeping(0) = jobs \ Held
        BY <1>4, <1>5 DEF Sleeping, Held
      <3> QED
        BY <1>0, <2>1, <3>1 DEF TypeInv, PoolOK, WorkerFree
    <2>3. PICK q \in 0 .. Rounds(workers), x \in 0 .. PayTime - 1 :
             /\ msg[i.m].timer = Spare + q * PayTime + x
             /\ Cardinality(Held) + Cardinality(Sleeping(x)) <= q * workers + workers
      BY DEF CalmOK, TurnsOK, Turns
    <2>4. /\ q \in Nat /\ x \in Nat /\ Rounds(workers) \in Nat
          /\ Spare \in Nat /\ q * PayTime \in Nat /\ q * workers \in Nat
          /\ Cardinality(Held) \in Nat
      BY <1>0, RoundsEnough, Products, SpareEnough, CountsType
      DEF TypeInv, PlainOK, CountsOK
    <2>5. t = msg[i.m].timer - 1
      <3>1. msg[i.m].timer > 0
        <4>1. msg[i.m].timer > PayTime
          BY WaitingTimer DEF CalmOK
        <4>2. msg[i.m].timer \in Nat
          BY <1>3, <1>4, <2>1
        <4> QED
          BY <1>0, <4>1, <4>2
      <3> QED
        BY <1>2, <1>3, <1>4, <1>13, <2>1, <3>1 DEF Down
    <2>6. Spare' = Spare /\ Rounds(workers') = Rounds(workers)
      BY <1>1 DEF Spare
    <2>7. ASSUME NEW d \in 0 .. Rounds(workers), NEW y \in 0 .. PayTime - 1,
                 msg[i.m].timer - 1 = Spare + d * PayTime + y,
                 Cardinality(Held') + Cardinality(Sleeping(y)') <= d * workers + workers
          PROVE  Turns(t)'
      BY <1>1, <2>5, <2>6, <2>7 DEF Turns
    <2>8. CASE x > 0
      <3>1. Cardinality(Sleeping(x - 1)') = Cardinality(Sleeping(x))
        <4>1. x - 1 \in Nat /\ x - 1 + 1 = x
          BY <2>4, <2>8
        <4> QED
          BY <1>12, <4>1
      <3>2. msg[i.m].timer - 1 = Spare + q * PayTime + (x - 1) /\ x - 1 \in 0 .. PayTime - 1
        BY <1>0, <2>3, <2>4, <2>8
      <3> QED
        BY <1>11, <2>3, <2>7, <3>1, <3>2
    <2>9. CASE x = 0
      <3>1. Cardinality(Held) >= 1
        BY <2>4, CountsType, FS_EmptySet DEF CountsOK
      <3>2. q * workers >= 1 /\ Cardinality(Held) <= q * workers
        BY <1>0, <2>2, <2>3, <2>4, <2>9, <3>1
      <3>3. q >= 1 /\ q - 1 \in Nat /\ (q - 1) * workers = q * workers - workers
        BY <1>0, <2>4, <3>2, Products
      <3>4. (q - 1) * PayTime = q * PayTime - PayTime
        BY <1>0, <2>4, <3>3
      <3>5. Cardinality(Sleeping(PayTime - 1)') = 0
        <4>1. PayTime - 1 \in Nat /\ PayTime - 1 + 1 = PayTime
          BY <1>0
        <4>2. Sleeping(PayTime) = {}
          BY <1>0, <1>4 DEF Sleeping
        <4> QED
          BY <1>12, <4>1, <4>2, FS_EmptySet
      <3>6. /\ q - 1 \in 0 .. Rounds(workers) /\ PayTime - 1 \in 0 .. PayTime - 1
            /\ msg[i.m].timer - 1 = Spare + (q - 1) * PayTime + (PayTime - 1)
            /\ Cardinality(Held') + Cardinality(Sleeping(PayTime - 1)')
                  <= (q - 1) * workers + workers
        BY <1>0, <1>11, <2>3, <2>4, <2>9, <3>2, <3>3, <3>4, <3>5
      <3> QED
        BY <2>7, <3>6
    <2> QED
      BY <2>4, <2>8, <2>9
  <1>14. TurnsOK'
    <2>1. \A i \in Held : \A t : t = msg'[Ticked(i).m].timer => Turns(t)'
      BY <1>13
    <2>2. \A j \in Held' : \E i \in Held : j = Ticked(i)
      BY <1>9
    <2>3. \A j \in Held' : \A t : t = msg'[j.m].timer => Turns(t)'
      BY <2>1, <2>2
    <2> QED
      BY <2>3 DEF TurnsOK
  <1> QED
    BY <1>6, <1>7, <1>8, <1>10, <1>14 DEF CalmOK

LEMMA OnTimeStep == TypeInv /\ TypeInv' /\ OnTimeInv /\ [Next]_vars => OnTimeInv'
  <1> SUFFICES ASSUME TypeInv, TypeInv', OnTimeInv, [Next]_vars, Calm' PROVE CalmOK'
    BY DEF OnTimeInv
  <1>1. CalmOK /\ PoolLargeEnough /\ workers' = workers
    BY CalmSteps DEF OnTimeInv, Calm
  <1> QED
    BY <1>1, CalmSteps, CalmQuiet, CalmPublish, CalmReceive, CalmDispatch, CalmPay, CalmDelete,
       CalmVisibility, CalmTick

LEMMA OnTimeInit == Init => OnTimeInv
  <1> SUFFICES ASSUME Init PROVE CalmOK
    BY DEF OnTimeInv
  <1>1. /\ jobs = {} /\ Held = {} /\ \A m \in Msgs : msg[m].place = "none" /\ msg[m].receives = 0
        /\ \A o \in Asyncs : async[o] \in {"absent", "idle"} /\ charges[o] = 0
        /\ \A o \in Asyncs : First(o) \in Msgs /\ <<o, 2>> \in Msgs
    BY DEF Init, Held, First, Msgs
  <1> QED
    <2>1. FirstOK /\ HoldersOK
      BY <1>1 DEF FirstOK, HoldersOK
    <2>2. ChargeOK
      BY <1>1 DEF ChargeOK
    <2>3. TimersOK /\ TurnsOK
      BY <1>1 DEF TimersOK, TurnsOK
    <2> QED
      BY <2>1, <2>2, <2>3 DEF CalmOK

\* With PayTime * (1 + ceil(BatchSize / workers)) below the visibility timeout an
\* order is paid once while no call fails and no step is late, for any number of
\* workers, orders and messages that wait (StartProcessor, processMessage).
THEOREM PaidOnce == Spec => []ChargedOnce
  <1>1. OnTimeInv => ChargedOnce
    <2> SUFFICES ASSUME CalmOK, NEW o \in Asyncs PROVE charges[o] <= 1
      BY DEF OnTimeInv, Calm, ChargedOnce
    <2> QED
      BY DEF CalmOK, ChargeOK
  <1>2. TypeInv /\ [Next]_vars => TypeInv'
    BY TypeStep
  <1>3. Spec => []OnTimeInv
    BY <1>2, TypeInit, OnTimeInit, OnTimeStep, PTL DEF Spec
  <1> QED
    BY <1>1, <1>3, PTL
=============================================================================
