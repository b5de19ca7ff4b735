------------------------- MODULE PhotoWorkerProofs -------------------------
(***************************************************************************)
(* Theorems about PhotoWorker, for every finite set of photos, any number  *)
(* of workers, slots and deliveries, and any number of failing calls and   *)
(* exits.                                                                  *)
(***************************************************************************)
EXTENDS PhotoWorker, FiniteSetTheorems, TLAPS

-----------------------------------------------------------------------------
(* Deliveries and the bounds on them. *)

PCs == {"none", "held", "received", "copied", "moved", "missing", "acking", "ended", "killed"}
Running == {"received", "copied", "moved", "missing", "acking"}

LEMMA DeliveryFacts ==
  ASSUME NEW h \in Deliveries
  PROVE  h[1] \in Photos /\ h[2] \in 1 .. MaxReceives /\ h = <<h[1], h[2]>>
  BY DEF Deliveries

LEMMA DeliveriesFinite == IsFiniteSet(Deliveries)
  <1>1. 1 \in Int /\ MaxReceives \in Int
    BY WorkerAssumption
  <1>2. IsFiniteSet(1 .. MaxReceives)
    BY <1>1, FS_Interval
  <1> QED
    BY <1>2, FiniteAssumption, FS_Product DEF Deliveries

LEMMA SubsetBound ==
  ASSUME NEW S \in SUBSET Deliveries, NEW T \in SUBSET S, NEW n \in Nat, Cardinality(S) <= n
  PROVE  Cardinality(T) <= n
  <1>1. IsFiniteSet(S)
    BY DeliveriesFinite, FS_Subset
  <1>2. IsFiniteSet(T) /\ Cardinality(T) <= Cardinality(S)
    BY <1>1, FS_Subset
  <1>3. Cardinality(S) \in Nat /\ Cardinality(T) \in Nat
    BY <1>1, <1>2, FS_CardinalityType
  <1> QED
    BY <1>2, <1>3

\* One more element than a set below its bound.
LEMMA AddBound ==
  ASSUME NEW S \in SUBSET Deliveries, NEW h \in Deliveries, NEW T \in SUBSET (S \cup {h}),
         NEW n \in Nat, Cardinality(S) < n
  PROVE  Cardinality(T) <= n
  <1>1. IsFiniteSet(S)
    BY DeliveriesFinite, FS_Subset
  <1>2. Cardinality(S) \in Nat
    BY <1>1, FS_CardinalityType
  <1>3. Cardinality(S \cup {h}) <= n
    <2>1. Cardinality(S \cup {h}) = IF h \in S THEN Cardinality(S) ELSE Cardinality(S) + 1
      BY <1>1, FS_AddElement
    <2> QED
      BY <1>2, <2>1
  <1> QED
    BY <1>3, SubsetBound

-----------------------------------------------------------------------------
(* Type correctness.  The bounds on deliveries are inductive together with  *)
(* QueueOK: a message that is visible can be delivered once more.           *)

QueueOK ==
    \A p \in Photos : /\ queue[p] = "unsent" => receives[p] = 0
                      /\ queue[p] = "visible" => receives[p] < MaxReceives

TypeInv == TypeOK /\ QueueOK

SlotsOK == \A w \in Workers : /\ Cardinality(RunningOn(w)) <= Slots
                              /\ Cardinality(HeldBy(w)) <= BatchSize

\* What a step of one delivery's goroutine does to the deliveries.
GotoEffect(h, pc) ==
    /\ delivery' \in [Deliveries -> DeliveryRec]
    /\ delivery'[h].pc = pc /\ delivery'[h].worker = delivery[h].worker
    /\ \A g \in Deliveries \ {h} : delivery'[g] = delivery[g]

LEMMA GotoFacts ==
  ASSUME TypeOK, NEW h \in Deliveries, NEW pc \in PCs, Goto(h, pc)
  PROVE  GotoEffect(h, pc)
  <1>1. delivery \in [Deliveries -> DeliveryRec] /\ delivery[h] \in DeliveryRec
    BY DEF TypeOK
  <1>2. [delivery[h] EXCEPT !.pc = pc] \in DeliveryRec
    BY <1>1 DEF DeliveryRec, PCs
  <1>3. delivery' = [delivery EXCEPT ![h] = [delivery[h] EXCEPT !.pc = pc]]
    BY <1>1 DEF Goto
  <1>4. delivery' \in [Deliveries -> DeliveryRec]
    BY <1>1, <1>2, <1>3
  <1>5. /\ delivery'[h] = [delivery[h] EXCEPT !.pc = pc]
        /\ \A g \in Deliveries \ {h} : delivery'[g] = delivery[g]
    BY <1>1, <1>3
  <1> QED
    BY <1>1, <1>4, <1>5 DEF GotoEffect, DeliveryRec

\* The steps of a goroutine after its start keep the bounds.
LEMMA GotoKeepsSlots ==
  ASSUME TypeOK, NEW h \in Deliveries, delivery[h].pc \in Running,
         NEW pc \in PCs \ {"none", "held"}, Goto(h, pc)
  PROVE  SlotsOK'
  <1>1. GotoEffect(h, pc)
    BY GotoFacts
  <1>2. ASSUME NEW w \in Workers
        PROVE  RunningOn(w)' \subseteq RunningOn(w) /\ HeldBy(w)' \subseteq HeldBy(w)
    BY <1>1 DEF GotoEffect, RunningOn, HeldBy, At, Running
  <1>3. ASSUME NEW w \in Workers
        PROVE  /\ Cardinality(RunningOn(w)') <= Slots
               /\ Cardinality(HeldBy(w)') <= BatchSize
    <2>1. RunningOn(w) \in SUBSET Deliveries /\ HeldBy(w) \in SUBSET Deliveries
      BY DEF RunningOn, HeldBy
    <2>2. Cardinality(RunningOn(w)) <= Slots /\ Cardinality(HeldBy(w)) <= BatchSize
      BY DEF TypeOK
    <2> QED
      BY <1>2, <2>1, <2>2, SubsetBound, WorkerAssumption
  <1> QED
    BY <1>3 DEF SlotsOK

StaticType ==
    /\ record \in [Photos -> Statuses] /\ queue \in [Photos -> MessageState]
    /\ upload \in [Photos -> {"none", "accepted", "staged"}]
    /\ staged \subseteq Photos /\ final \subseteq Photos
    /\ receives \in [Photos -> 0 .. MaxReceives]
    /\ deletion \in [Photos -> {"none", "unfiled", "unstaged", "done", "failed"}]
    /\ unwritten \subseteq Photos /\ misread \subseteq Photos /\ left \subseteq Photos
    /\ failures \in 0 .. MaxFailures /\ exits \in 0 .. MaxExits

LEMMA TypeParts ==
  TypeOK <=> StaticType /\ delivery \in [Deliveries -> DeliveryRec] /\ SlotsOK
  BY DEF TypeOK, StaticType, SlotsOK

LEMMA RecordTypes ==
  ASSUME NEW r \in [Photos -> Statuses], NEW p \in Photos, NEW s \in Statuses
  PROVE  /\ PutItem(r, p) \in [Photos -> Statuses]
         /\ DeleteItem(r, p) \in [Photos -> Statuses]
         /\ UpdatePhotoStatus(r, p, s) \in [Photos -> Statuses]
  BY DEF PutItem, DeleteItem, UpdatePhotoStatus, Statuses

LEMMA TypeInit == Init => TypeInv
  <1> SUFFICES ASSUME Init PROVE TypeInv
    OBVIOUS
  <1> DEFINE unheld == [pc |-> "none", worker |-> CHOOSE w \in Workers : TRUE]
  <1>1. (CHOOSE w \in Workers : TRUE) \in Workers
    BY WorkerAssumption
  <1>2. unheld \in DeliveryRec /\ unheld.pc = "none"
    BY <1>1 DEF DeliveryRec
  <1>3. delivery = [h \in Deliveries |-> unheld]
    BY DEF Init
  <1> HIDE DEF unheld
  <1>4. delivery \in [Deliveries -> DeliveryRec]
    BY <1>2, <1>3
  <1>5. ASSUME NEW w \in Workers PROVE RunningOn(w) = {} /\ HeldBy(w) = {}
    BY <1>2, <1>3 DEF RunningOn, HeldBy, At
  <1>6. SlotsOK
    BY <1>5, FS_EmptySet, WorkerAssumption DEF SlotsOK
  <1>7. StaticType /\ QueueOK
    BY CallAssumption, WorkerAssumption DEF Init, StaticType, QueueOK, Statuses, MessageState
  <1> QED
    BY <1>4, <1>6, <1>7, TypeParts DEF TypeInv

\* The steps that leave the deliveries alone.
LEMMA SameDeliveriesType ==
  ASSUME TypeInv, delivery' = delivery, StaticType', QueueOK'
  PROVE  TypeInv'
  <1>1. delivery' \in [Deliveries -> DeliveryRec] /\ SlotsOK'
    BY TypeParts DEF TypeInv, SlotsOK, RunningOn, HeldBy, At
  <1> QED
    BY <1>1, TypeParts DEF TypeInv, TypeOK, SlotsOK, StaticType

LEMMA EnvironmentType ==
  ASSUME TypeInv, NEW p \in Photos,
         \/ PutPhoto(p) \/ UploadPhotoToStaging(p) \/ SendPhotoMessage(p) \/ VisibilityTimeout(p)
         \/ DeleteFinal(p) \/ DeletePending(p) \/ DeleteRecord(p) \/ DeleteFails(p)
  PROVE  TypeInv'
  <1>1. StaticType /\ QueueOK /\ TypeOK
    BY TypeParts DEF TypeInv
  <1>2. CASE PutPhoto(p)
    <2>1. record' \in [Photos -> Statuses]
      BY <1>1, <1>2, RecordTypes DEF PutPhoto, StaticType, Statuses
    <2>2. StaticType' /\ QueueOK' /\ delivery' = delivery
      BY <1>1, <1>2, <2>1 DEF PutPhoto, StaticType, QueueOK, files, sqs, faults, history
    <2> QED
      BY <2>2, SameDeliveriesType
  <1>8. CASE UploadPhotoToStaging(p)
    <2>1. StaticType' /\ QueueOK' /\ delivery' = delivery
      BY <1>1, <1>8 DEF UploadPhotoToStaging, Leaves, StaticType, QueueOK, sqs
    <2> QED
      BY <2>1, SameDeliveriesType
  <1>3. CASE SendPhotoMessage(p)
    <2>1. StaticType' /\ delivery' = delivery
      BY <1>1, <1>3 DEF SendPhotoMessage, StaticType, MessageState, files, faults, history
    <2>2. QueueOK'
      BY <1>1, <1>3, WorkerAssumption DEF SendPhotoMessage, StaticType, QueueOK
    <2> QED
      BY <2>1, <2>2, SameDeliveriesType
  <1>4. CASE VisibilityTimeout(p)
    <2>1. StaticType' /\ delivery' = delivery
      BY <1>1, <1>4 DEF VisibilityTimeout, StaticType, MessageState, files, faults, history
    <2>2. QueueOK'
      BY <1>1, <1>4, WorkerAssumption DEF VisibilityTimeout, StaticType, QueueOK
    <2> QED
      BY <2>1, <2>2, SameDeliveriesType
  <1>5. CASE DeleteFinal(p)
    <2>1. StaticType' /\ QueueOK' /\ delivery' = delivery
      BY <1>1, <1>5 DEF DeleteFinal, Unfiled, StaticType, QueueOK, sqs, faults, history
    <2> QED
      BY <2>1, SameDeliveriesType
  <1>6. CASE DeletePending(p)
    <2>1. StaticType' /\ QueueOK' /\ delivery' = delivery
      BY <1>1, <1>6, CallAssumption
      DEF DeletePending, Fails, Leaves, StaticType, QueueOK, sqs
    <2> QED
      BY <2>1, SameDeliveriesType
  <1>7. CASE DeleteRecord(p)
    <2>1. record' \in [Photos -> Statuses]
      BY <1>1, <1>7, RecordTypes DEF DeleteRecord, StaticType, Statuses
    <2>2. StaticType' /\ QueueOK' /\ delivery' = delivery
      BY <1>1, <1>7, <2>1 DEF DeleteRecord, StaticType, QueueOK, files, sqs, faults, history
    <2> QED
      BY <2>2, SameDeliveriesType
  <1>9. CASE DeleteFails(p)
    <2>1. record' \in [Photos -> Statuses]
      BY <1>1, <1>9, RecordTypes DEF DeleteFails, StaticType, Statuses
    <2>2. /\ deletion' = [deletion EXCEPT ![p] = "failed"] /\ final' \subseteq Photos
          /\ failures' \in 0 .. MaxFailures
          /\ UNCHANGED <<upload, staged, queue, receives, delivery>>
          /\ UNCHANGED <<unwritten, misread, left, exits>>
      BY <1>1, <1>9, CallAssumption
      DEF DeleteFails, Unfiled, Fails, StaticType, sqs, history
    <2>3. StaticType' /\ QueueOK'
      BY <1>1, <2>1, <2>2 DEF StaticType, QueueOK
    <2> QED
      BY <2>2, <2>3, SameDeliveriesType
  <1> QED
    BY <1>2, <1>3, <1>4, <1>5, <1>6, <1>7, <1>8, <1>9

\* The steps of a delivery's goroutine.
LEMMA ProcessingType ==
  ASSUME TypeInv, NEW h \in Deliveries,
         Processing(h) \/ CopyObjectFails(h) \/ MarkFails(h) \/ DeleteMessageFails(h)
  PROVE  TypeInv'
  <1>1. StaticType /\ QueueOK /\ TypeOK /\ h[1] \in Photos /\ delivery[h] \in DeliveryRec
    BY TypeParts, DeliveryFacts DEF TypeInv, TypeOK
  <1>2. ASSUME NEW pc \in PCs \ {"none", "held"}, delivery[h].pc \in Running, Goto(h, pc),
               StaticType', QueueOK'
        PROVE  TypeInv'
    <2>1. delivery' \in [Deliveries -> DeliveryRec] /\ SlotsOK'
      BY <1>1, <1>2, GotoFacts, GotoKeepsSlots DEF GotoEffect
    <2> QED
      BY <1>2, <2>1 DEF TypeInv, TypeOK, SlotsOK, StaticType
  <1>3. CASE StartProcessing(h)
    <2> DEFINE v == delivery[h].worker
    <2>1. GotoEffect(h, "received") /\ v \in Workers
      BY <1>1, <1>3, GotoFacts DEF StartProcessing, PCs, DeliveryRec
    <2>2. ASSUME NEW w \in Workers
          PROVE  /\ Cardinality(RunningOn(w)') <= Slots
                 /\ Cardinality(HeldBy(w)') <= BatchSize
      <3>1. /\ RunningOn(w)' \subseteq RunningOn(w) \cup (IF w = v THEN {h} ELSE {})
            /\ HeldBy(w)' \subseteq HeldBy(w)
        BY <1>3, <2>1 DEF StartProcessing, GotoEffect, RunningOn, HeldBy, At
      <3>2. RunningOn(w) \in SUBSET Deliveries /\ HeldBy(w) \in SUBSET Deliveries
        BY DEF RunningOn, HeldBy
      <3>3. /\ Cardinality(RunningOn(w)) <= Slots /\ Cardinality(HeldBy(w)) <= BatchSize
            /\ w = v => Cardinality(RunningOn(w)) < Slots
        BY <1>1, <1>3 DEF TypeOK, StartProcessing, HasSlot
      <3>4. Cardinality(RunningOn(w)') <= Slots
        <4>1. CASE w = v
          BY <3>1, <3>2, <3>3, <4>1, AddBound, WorkerAssumption
        <4>2. CASE w # v
          BY <3>1, <3>2, <3>3, <4>2, SubsetBound, WorkerAssumption
        <4> QED
          BY <4>1, <4>2
      <3> QED
        BY <3>1, <3>2, <3>3, <3>4, SubsetBound, WorkerAssumption
    <2>3. StaticType' /\ QueueOK'
      BY <1>1, <1>3 DEF StartProcessing, StaticType, QueueOK, files, sqs, faults, history
    <2> QED
      BY <2>1, <2>2, <2>3 DEF TypeInv, TypeOK, StaticType, GotoEffect
  <1>4. CASE CopyObject(h)
    <2>1. StaticType' /\ QueueOK'
      BY <1>1, <1>4 DEF CopyObject, Race, Leaves, StaticType, QueueOK, sqs
    <2>2. CASE h[1] \in staged
      BY <1>2, <1>4, <2>1, <2>2 DEF CopyObject, At, PCs, Running
    <2>3. CASE h[1] \notin staged
      BY <1>2, <1>4, <2>1, <2>3 DEF CopyObject, At, PCs, Running
    <2> QED
      BY <2>2, <2>3
  <1>5. CASE CopyObjectFails(h)
    <2>1. StaticType' /\ QueueOK'
      BY <1>1, <1>5, CallAssumption
      DEF CopyObjectFails, Race, Leaves, Fails, StaticType, QueueOK, sqs
    <2>2. PICK pc \in {"ended", "missing"} : Goto(h, pc)
      BY <1>5 DEF CopyObjectFails, AfterCopyError
    <2> QED
      BY <1>2, <1>5, <2>1, <2>2 DEF CopyObjectFails, At, PCs, Running
  <1>6. CASE DeleteStaged(h)
    <2>1. StaticType' /\ QueueOK'
      BY <1>1, <1>6, CallAssumption DEF DeleteStaged, Fails, StaticType, QueueOK, sqs, history
    <2> QED
      BY <1>2, <1>6, <2>1 DEF DeleteStaged, At, PCs, Running
  <1>7. CASE MarkCompleted(h)
    <2>1. record' \in [Photos -> Statuses]
      BY <1>1, <1>7, RecordTypes DEF MarkCompleted, StaticType, Statuses
    <2>2. StaticType' /\ QueueOK'
      BY <1>1, <1>7, <2>1 DEF MarkCompleted, StaticType, QueueOK, files, sqs, faults, history
    <2> QED
      BY <1>2, <1>7, <2>2 DEF MarkCompleted, At, PCs, Running
  <1>8. CASE MarkFailed(h)
    <2>1. record' \in [Photos -> Statuses]
      BY <1>1, <1>8, RecordTypes DEF MarkFailed, StaticType, Statuses
    <2>2. StaticType' /\ QueueOK'
      BY <1>1, <1>8, <2>1 DEF MarkFailed, StaticType, QueueOK, files, sqs, faults, history
    <2> QED
      BY <1>2, <1>8, <2>2 DEF MarkFailed, At, PCs, Running
  <1>9. CASE MarkFails(h)
    <2>1. record' \in [Photos -> Statuses]
      BY <1>1, <1>9, RecordTypes DEF MarkFails, StaticType, Statuses
    <2>2. StaticType' /\ QueueOK'
      BY <1>1, <1>9, <2>1, CallAssumption DEF MarkFails, Fails, StaticType, QueueOK, files, sqs
    <2> QED
      BY <1>2, <1>9, <2>2 DEF MarkFails, At, PCs, Running
  <1>10. CASE DeleteMessage(h) \/ DeleteMessageFails(h)
    <2>1. queue' \in [Photos -> MessageState]
      <3>1. queue \in [Photos -> MessageState]
        BY <1>1 DEF StaticType
      <3>2. (IF queue[h[1]] = "dead" THEN "dead" ELSE "deleted") \in MessageState
        BY DEF MessageState
      <3> QED
        BY <1>1, <1>10, <3>1, <3>2 DEF DeleteMessage, DeleteMessageFails, sqs
    <2>2. StaticType'
      BY <1>1, <1>10, <2>1, CallAssumption
      DEF DeleteMessage, DeleteMessageFails, Fails, StaticType, files, sqs, faults, history
    <2>3. QueueOK'
      BY <1>1, <1>10 DEF DeleteMessage, DeleteMessageFails, StaticType, QueueOK, sqs
    <2> QED
      BY <1>2, <1>10, <2>2, <2>3 DEF DeleteMessage, DeleteMessageFails, At, PCs, Running
  <1> QED
    BY <1>3, <1>4, <1>5, <1>6, <1>7, <1>8, <1>9, <1>10 DEF Processing

\* The deliveries that handing out a batch makes.
Fresh(batch) == {h \in Deliveries : h[1] \in batch /\ h[2] = receives[h[1]] + 1}

LEMMA FreshBound ==
  ASSUME TypeInv, NEW batch \in Batches
  PROVE  Cardinality(Fresh(batch)) <= Cardinality(batch)
  <1> DEFINE f == [p \in batch |-> <<p, receives[p] + 1>>]
  <1>1. IsFiniteSet(batch)
    BY FiniteAssumption, FS_Subset DEF Batches
  <1>2. ASSUME NEW p \in batch PROVE f[p] \in Fresh(batch)
    <2>1. /\ p \in Photos /\ receives[p] \in 0 .. MaxReceives /\ receives[p] < MaxReceives
      BY DEF Batches, TypeInv, TypeOK, QueueOK
    <2> QED
      BY <2>1, WorkerAssumption DEF Fresh, Deliveries
  <1>3. ASSUME NEW h \in Fresh(batch) PROVE h[1] \in batch /\ f[h[1]] = h
    BY DeliveryFacts DEF Fresh
  <1>4. f \in Surjection(batch, Fresh(batch))
    BY <1>2, <1>3 DEF Surjection
  <1> QED
    BY <1>1, <1>4, FS_Surjection

\* What handing out a batch does to the deliveries, the queue and its counts.
DeliverEffect(w, batch, pc) ==
    /\ delivery' \in [Deliveries -> DeliveryRec]
    /\ \A h \in Deliveries :
          IF h \in Fresh(batch) THEN delivery'[h].pc = pc /\ delivery'[h].worker = w
                                ELSE delivery'[h] = delivery[h]
    /\ receives' \in [Photos -> 0 .. MaxReceives]
    /\ \A p \in Photos : receives'[p] = IF p \in batch THEN receives[p] + 1 ELSE receives[p]
    /\ queue' \in [Photos -> MessageState]
    /\ \A p \in Photos : queue'[p] = IF p \in batch THEN "hidden" ELSE queue[p]

LEMMA DeliverFacts ==
  ASSUME TypeInv, NEW w \in Workers, NEW batch \in Batches, NEW pc \in PCs,
         Deliver(w, batch, pc)
  PROVE  DeliverEffect(w, batch, pc)
  <1>1. /\ delivery \in [Deliveries -> DeliveryRec] /\ batch \subseteq Photos
        /\ receives \in [Photos -> 0 .. MaxReceives] /\ queue \in [Photos -> MessageState]
        /\ \A p \in batch : receives[p] < MaxReceives
    BY DEF TypeInv, TypeOK, QueueOK, Batches
  <1>2. [pc |-> pc, worker |-> w] \in DeliveryRec
    BY DEF DeliveryRec, PCs
  <1>3. delivery' = [h \in Deliveries |-> IF h \in Fresh(batch) THEN [pc |-> pc, worker |-> w]
                                                                ELSE delivery[h]]
    BY DEF Deliver, Fresh
  <1>4. /\ delivery' \in [Deliveries -> DeliveryRec]
        /\ \A h \in Deliveries :
              IF h \in Fresh(batch) THEN delivery'[h].pc = pc /\ delivery'[h].worker = w
                                    ELSE delivery'[h] = delivery[h]
    BY <1>1, <1>2, <1>3
  <1>5. /\ receives' \in [Photos -> 0 .. MaxReceives]
        /\ \A p \in Photos : receives'[p] = IF p \in batch THEN receives[p] + 1 ELSE receives[p]
    BY <1>1, WorkerAssumption DEF Deliver
  <1>6. /\ queue' \in [Photos -> MessageState]
        /\ \A p \in Photos : queue'[p] = IF p \in batch THEN "hidden" ELSE queue[p]
    BY <1>1 DEF Deliver, MessageState
  <1> QED
    BY <1>4, <1>5, <1>6 DEF DeliverEffect

LEMMA DeliverType ==
  ASSUME TypeInv, NEW w \in Workers, NEW batch \in Batches, NEW pc \in {"held", "killed"},
         Deliver(w, batch, pc), failures' \in 0 .. MaxFailures
  PROVE  TypeInv'
  <1>1. StaticType /\ QueueOK /\ TypeOK
    BY TypeParts DEF TypeInv
  <1>2. DeliverEffect(w, batch, pc)
    BY DeliverFacts DEF PCs
  <1>3. StaticType'
    BY <1>1, <1>2 DEF StaticType, DeliverEffect, Deliver, files, history
  <1>4. QueueOK'
    BY <1>1, <1>2 DEF QueueOK, DeliverEffect, Batches
  <1>5. ASSUME NEW v \in Workers
        PROVE  /\ Cardinality(RunningOn(v)') <= Slots
               /\ Cardinality(HeldBy(v)') <= BatchSize
    <2>1. /\ RunningOn(v) \in SUBSET Deliveries /\ HeldBy(v) \in SUBSET Deliveries
          /\ Fresh(batch) \in SUBSET Deliveries
      BY DEF RunningOn, HeldBy, Fresh
    <2>2. Cardinality(RunningOn(v)) <= Slots /\ Cardinality(HeldBy(v)) <= BatchSize
      BY <1>1 DEF TypeOK
    <2>3. RunningOn(v)' \subseteq RunningOn(v)
      BY <1>2 DEF DeliverEffect, RunningOn
    <2>4. CASE v = w
      <3>1. HeldBy(v)' \subseteq Fresh(batch)
        <4>1. HeldBy(w) = {}
          BY DEF Deliver
        <4> QED
          BY <1>2, <2>4, <4>1 DEF DeliverEffect, HeldBy, At
      <3>2. Cardinality(batch) <= BatchSize /\ Cardinality(batch) \in Nat
        BY FiniteAssumption, FS_Subset, FS_CardinalityType DEF Deliver, Batches
      <3>3. Cardinality(Fresh(batch)) \in Nat
        BY <2>1, DeliveriesFinite, FS_Subset, FS_CardinalityType
      <3>4. Cardinality(Fresh(batch)) <= BatchSize
        BY <3>2, <3>3, FreshBound, WorkerAssumption
      <3> QED
        BY <2>1, <2>2, <2>3, <3>1, <3>4, SubsetBound, WorkerAssumption
    <2>5. CASE v # w
      <3>1. HeldBy(v)' \subseteq HeldBy(v)
        BY <1>2, <2>5 DEF DeliverEffect, HeldBy, At
      <3> QED
        BY <2>1, <2>2, <2>3, <3>1, SubsetBound, WorkerAssumption
    <2> QED
      BY <2>4, <2>5
  <1> QED
    BY <1>2, <1>3, <1>4, <1>5 DEF DeliverEffect, TypeInv, TypeOK, StaticType

\* What the exit of a worker does to the deliveries.
ExitEffect(w) ==
    /\ delivery' \in [Deliveries -> DeliveryRec]
    /\ \A h \in Deliveries : /\ delivery'[h].worker = delivery[h].worker
                             /\ \/ delivery'[h] = delivery[h]
                                \/ delivery[h].pc # "none" /\ delivery'[h].pc = "killed"

LEMMA ExitFacts ==
  ASSUME TypeOK, NEW w \in Workers, Exit(w)
  PROVE  ExitEffect(w)
  <1>1. delivery \in [Deliveries -> DeliveryRec]
    BY DEF TypeOK
  <1>2. ASSUME NEW h \in Deliveries
        PROVE  /\ [delivery[h] EXCEPT !.pc = "killed"] \in DeliveryRec
               /\ [delivery[h] EXCEPT !.pc = "killed"].pc = "killed"
               /\ [delivery[h] EXCEPT !.pc = "killed"].worker = delivery[h].worker
    BY <1>1 DEF DeliveryRec
  <1>3. ASSUME NEW h \in HeldBy(w) \cup RunningOn(w) PROVE delivery[h].pc # "none"
    BY DEF HeldBy, RunningOn, At
  <1> QED
    BY <1>1, <1>2, <1>3 DEF Exit, ExitEffect

LEMMA ExitType ==
  ASSUME TypeInv, NEW w \in Workers, Exit(w)
  PROVE  TypeInv'
  <1>1. StaticType /\ QueueOK /\ TypeOK /\ ExitEffect(w)
    BY TypeParts, ExitFacts DEF TypeInv
  <1>2. StaticType' /\ QueueOK'
    BY <1>1, CallAssumption DEF Exit, StaticType, QueueOK, files, sqs, history
  <1>3. ASSUME NEW v \in Workers
        PROVE  /\ Cardinality(RunningOn(v)') <= Slots
               /\ Cardinality(HeldBy(v)') <= BatchSize
    <2>1. RunningOn(v) \in SUBSET Deliveries /\ HeldBy(v) \in SUBSET Deliveries
      BY DEF RunningOn, HeldBy
    <2>2. Cardinality(RunningOn(v)) <= Slots /\ Cardinality(HeldBy(v)) <= BatchSize
      BY <1>1 DEF TypeOK
    <2>3. RunningOn(v)' \subseteq RunningOn(v) /\ HeldBy(v)' \subseteq HeldBy(v)
      BY <1>1 DEF ExitEffect, RunningOn, HeldBy, At
    <2> QED
      BY <2>1, <2>2, <2>3, SubsetBound, WorkerAssumption
  <1> QED
    BY <1>1, <1>2, <1>3 DEF ExitEffect, TypeInv, TypeOK, StaticType

LEMMA TypeStep == TypeInv /\ [Next]_vars => TypeInv'
  <1> SUFFICES ASSUME TypeInv, [Next]_vars PROVE TypeInv'
    OBVIOUS
  <1>1. ASSUME NEW p \in Photos,
               \/ PutPhoto(p) \/ UploadPhotoToStaging(p) \/ SendPhotoMessage(p)
               \/ VisibilityTimeout(p)
               \/ DeleteFinal(p) \/ DeletePending(p) \/ DeleteRecord(p) \/ DeleteFails(p)
        PROVE  TypeInv'
    BY <1>1, EnvironmentType
  <1>2. ASSUME NEW w \in Workers, Receiving(w) PROVE TypeInv'
    BY <1>2, DeliverType DEF Receiving, Receive, TypeInv, TypeOK
  <1>3. ASSUME NEW w \in Workers, NEW batch \in Batches, ReceiveFails(w, batch) PROVE TypeInv'
    <2>1. failures' \in 0 .. MaxFailures
      BY <1>3, CallAssumption DEF ReceiveFails, Fails, TypeInv, TypeOK
    <2> QED
      BY <1>3, <2>1, DeliverType DEF ReceiveFails
  <1>4. ASSUME NEW w \in Workers, Exit(w) PROVE TypeInv'
    BY <1>4, ExitType
  <1>5. ASSUME NEW h \in Deliveries,
               Processing(h) \/ CopyObjectFails(h) \/ MarkFails(h) \/ DeleteMessageFails(h)
        PROVE  TypeInv'
    BY <1>5, ProcessingType
  <1>6. CASE UNCHANGED vars
    <2>1. StaticType' /\ QueueOK' /\ delivery' = delivery
      BY <1>6, TypeParts
      DEF vars, files, sqs, faults, history, TypeInv, StaticType, QueueOK
    <2> QED
      BY <2>1, SameDeliveriesType
  <1> QED
    BY <1>1, <1>2, <1>3, <1>4, <1>5, <1>6 DEF Next

\* Every variable keeps its type; a worker never runs more goroutines than its
\* semaphore has slots nor holds more messages than it asks for (main).
THEOREM TypeCorrect == Spec => []TypeOK
  <1>1. Spec => []TypeInv
    BY TypeInit, TypeStep, PTL DEF Spec
  <1> QED
    BY <1>1, PTL DEF TypeInv

-----------------------------------------------------------------------------
(* Where a file is.  A photo nobody deletes is staged or final once it was  *)
(* staged; it leaves the staging place only when some delivery has moved    *)
(* it, so a delivery that finds nothing staged is not the first.            *)

\* Only what was delivered has a goroutine, and delivery n is counted.
DeliveredOK ==
    \A h \in Deliveries :
        ~At(h, "none") => queue[h[1]] # "unsent" /\ h[2] <= receives[h[1]]

Past == {"moved", "acking", "ended", "killed"}
Moved(p) == \E h \in Deliveries : h[1] = p /\ delivery[h].pc \in Past

PlaceOK ==
    \A p \in Photos : deletion[p] = "none" =>
        /\ queue[p] # "unsent" => upload[p] = "staged"
        /\ upload[p] = "staged" => p \in staged \cup final
        /\ upload[p] = "staged" /\ p \notin staged => Moved(p)

GoroutineOK ==
    \A h \in Deliveries : deletion[h[1]] = "none" =>
        /\ delivery[h].pc \in {"copied", "moved"} => h[1] \in final
        /\ At(h, "missing") => (h[1] \in final /\ receives[h[1]] > 1) \/ h[1] \in misread

MoveInv == DeliveredOK /\ PlaceOK /\ GoroutineOK /\ RecordTruthful

LEMMA MoveInit == Init => MoveInv
  <1> SUFFICES ASSUME Init PROVE MoveInv
    OBVIOUS
  <1>1. \A h \in Deliveries : delivery[h].pc = "none"
    BY DEF Init
  <1>2. \A p \in Photos : record[p] = "absent" /\ queue[p] = "unsent" /\ upload[p] = "none"
    BY DEF Init
  <1> QED
    BY <1>1, <1>2, DeliveryFacts
    DEF MoveInv, DeliveredOK, PlaceOK, GoroutineOK, RecordTruthful, At

\* What every step keeps of the deliveries that were handed out.
DeliveriesKept == DeliveredOK' /\ \A p \in Photos : Moved(p) => Moved(p)'

LEMMA SameDeliveriesKept ==
  ASSUME DeliveredOK, delivery' = delivery, receives' = receives,
         \A p \in Photos : queue'[p] = "unsent" => queue[p] = "unsent"
  PROVE  DeliveriesKept
  BY DeliveryFacts DEF DeliveriesKept, DeliveredOK, Moved, At

LEMMA GotoKept ==
  ASSUME TypeInv, DeliveredOK, NEW h \in Deliveries, NEW pc \in PCs, Goto(h, pc),
         delivery[h].pc # "none", delivery[h].pc \in Past => pc \in Past,
         receives' = receives, \A p \in Photos : queue'[p] = "unsent" => queue[p] = "unsent"
  PROVE  DeliveriesKept
  <1>1. GotoEffect(h, pc)
    BY GotoFacts DEF TypeInv
  <1>2. DeliveredOK'
    BY <1>1, DeliveryFacts DEF DeliveredOK, GotoEffect, At
  <1>3. ASSUME NEW p \in Photos, Moved(p) PROVE Moved(p)'
    <2>1. PICK g \in Deliveries : g[1] = p /\ delivery[g].pc \in Past
      BY <1>3 DEF Moved
    <2>2. delivery'[g].pc \in Past
      BY <1>1, <2>1 DEF GotoEffect
    <2> QED
      BY <2>1, <2>2 DEF Moved
  <1> QED
    BY <1>2, <1>3 DEF DeliveriesKept

LEMMA DeliverKept ==
  ASSUME TypeInv, DeliveredOK, NEW w \in Workers, NEW batch \in Batches, NEW pc \in PCs,
         DeliverEffect(w, batch, pc)
  PROVE  DeliveriesKept
  <1>1. ASSUME NEW h \in Fresh(batch) PROVE At(h, "none") /\ h \in Deliveries
    <2>1. h \in Deliveries /\ h[1] \in Photos /\ h[2] = receives[h[1]] + 1
      BY DeliveryFacts DEF Fresh
    <2>2. receives[h[1]] \in Nat
      BY <2>1, WorkerAssumption DEF TypeInv, TypeOK
    <2> QED
      BY <2>1, <2>2 DEF DeliveredOK
  <1>2. \A p \in Photos : receives[p] \in Nat
    BY WorkerAssumption DEF TypeInv, TypeOK
  <1>3. ASSUME NEW h \in Deliveries, ~At(h, "none")'
        PROVE  queue'[h[1]] # "unsent" /\ h[2] <= receives'[h[1]]
    <2>1. h[1] \in Photos /\ h[2] \in Nat
      BY DeliveryFacts, WorkerAssumption
    <2>2. CASE h \in Fresh(batch)
      BY <1>2, <2>1, <2>2 DEF DeliverEffect, Fresh
    <2>3. CASE h \notin Fresh(batch)
      <3>1. queue[h[1]] # "unsent" /\ h[2] <= receives[h[1]]
        BY <1>3, <2>3 DEF DeliverEffect, DeliveredOK, At
      <3> QED
        BY <1>2, <2>1, <3>1 DEF DeliverEffect
    <2> QED
      BY <2>2, <2>3
  <1>4. ASSUME NEW p \in Photos, Moved(p) PROVE Moved(p)'
    <2>1. PICK g \in Deliveries : g[1] = p /\ delivery[g].pc \in Past
      BY <1>4 DEF Moved
    <2>2. delivery'[g] = delivery[g]
      BY <1>1, <2>1 DEF DeliverEffect, At, Past
    <2> QED
      BY <2>1, <2>2 DEF Moved
  <1> QED
    BY <1>3, <1>4 DEF DeliveriesKept, DeliveredOK

LEMMA ExitKept ==
  ASSUME TypeInv, DeliveredOK, NEW w \in Workers, Exit(w)
  PROVE  DeliveriesKept
  <1>1. ExitEffect(w) /\ UNCHANGED <<queue, receives>>
    BY ExitFacts DEF Exit, sqs, TypeInv
  <1>2. DeliveredOK'
    BY <1>1 DEF DeliveredOK, ExitEffect, At
  <1>3. \A p \in Photos : Moved(p) => Moved(p)'
    BY <1>1 DEF Moved, ExitEffect, Past
  <1> QED
    BY <1>2, <1>3 DEF DeliveriesKept

\* The steps that touch neither files nor records nor deletes.
LEMMA FilesUntouched ==
  ASSUME TypeInv, MoveInv, DeliveriesKept,
         UNCHANGED <<record, upload, staged, final, deletion, misread>>,
         \A p \in Photos : receives'[p] \in Nat /\ receives'[p] >= receives[p],
         \A p \in Photos : queue[p] = "unsent" => queue'[p] = "unsent",
         \A h \in Deliveries : delivery'[h].pc \in {"copied", "moved", "missing"}
                                  => delivery'[h].pc = delivery[h].pc
  PROVE  MoveInv'
  <1>1. \A p \in Photos : receives[p] \in Nat
    BY WorkerAssumption DEF TypeInv, TypeOK
  <1>2. PlaceOK'
    BY DEF MoveInv, PlaceOK, DeliveriesKept
  <1>3. GoroutineOK'
    BY <1>1, DeliveryFacts DEF MoveInv, GoroutineOK, At
  <1>4. RecordTruthful'
    BY <1>1 DEF MoveInv, RecordTruthful
  <1> QED
    BY <1>2, <1>3, <1>4 DEF MoveInv, DeliveriesKept

LEMMA EnvironmentMove ==
  ASSUME TypeInv, MoveInv, NEW p \in Photos,
         \/ PutPhoto(p) \/ UploadPhotoToStaging(p) \/ SendPhotoMessage(p) \/ VisibilityTimeout(p)
         \/ DeleteFinal(p) \/ DeletePending(p) \/ DeleteRecord(p) \/ DeleteFails(p)
  PROVE  MoveInv'
  <1>1. /\ record \in [Photos -> Statuses] /\ queue \in [Photos -> MessageState]
        /\ receives \in [Photos -> Nat]
        /\ upload \in [Photos -> {"none", "accepted", "staged"}]
        /\ deletion \in [Photos -> {"none", "unfiled", "unstaged", "done", "failed"}]
    BY WorkerAssumption DEF TypeInv, TypeOK
  <1>2. CASE PutPhoto(p)
    <2>1. DeliveriesKept
      BY <1>2, SameDeliveriesKept DEF PutPhoto, sqs, MoveInv
    <2>2. /\ record'[p] = "processing" /\ upload'[p] # "staged" /\ upload[p] = "none"
          /\ \A o \in Photos \ {p} : record'[o] = record[o] /\ upload'[o] = upload[o]
          /\ UNCHANGED <<staged, final, queue, deletion, receives, delivery, misread>>
      BY <1>1, <1>2 DEF PutPhoto, PutItem, files, sqs, faults, history
    <2>3. PlaceOK'
      BY <2>1, <2>2 DEF MoveInv, PlaceOK, DeliveriesKept
    <2>4. GoroutineOK' /\ RecordTruthful'
      BY <2>2 DEF MoveInv, GoroutineOK, RecordTruthful, At
    <2> QED
      BY <2>1, <2>3, <2>4 DEF MoveInv, DeliveriesKept
  <1>6. CASE UploadPhotoToStaging(p)
    <2>1. DeliveriesKept
      BY <1>6, SameDeliveriesKept DEF UploadPhotoToStaging, sqs, MoveInv
    <2>2. /\ upload'[p] = "staged" /\ p \in staged' /\ queue' = queue
          /\ \A o \in Photos \ {p} : /\ upload'[o] = upload[o]
                                     /\ (o \in staged') <=> (o \in staged)
          /\ UNCHANGED <<record, final, deletion, receives, delivery, misread>>
      BY <1>1, <1>6 DEF UploadPhotoToStaging, sqs
    <2>3. PlaceOK'
      BY <2>1, <2>2 DEF MoveInv, PlaceOK, DeliveriesKept
    <2>4. GoroutineOK' /\ RecordTruthful'
      BY <2>2 DEF MoveInv, GoroutineOK, RecordTruthful, At
    <2> QED
      BY <2>1, <2>3, <2>4 DEF MoveInv, DeliveriesKept
  <1>3. CASE SendPhotoMessage(p)
    <2>1. /\ queue'[p] = "visible" /\ upload[p] = "staged"
          /\ \A o \in Photos \ {p} : queue'[o] = queue[o]
          /\ UNCHANGED <<record, upload, staged, final, deletion, receives, delivery, misread>>
      BY <1>1, <1>3 DEF SendPhotoMessage, files, faults, history
    <2>2. DeliveriesKept
      BY <2>1, SameDeliveriesKept DEF MoveInv
    <2>3. PlaceOK'
      BY <2>1, <2>2 DEF MoveInv, PlaceOK, DeliveriesKept
    <2>4. GoroutineOK' /\ RecordTruthful'
      BY <2>1 DEF MoveInv, GoroutineOK, RecordTruthful, At
    <2> QED
      BY <2>2, <2>3, <2>4 DEF MoveInv, DeliveriesKept
  <1>4. CASE VisibilityTimeout(p)
    <2>1. /\ \A o \in Photos : (queue'[o] = "unsent") <=> (queue[o] = "unsent")
          /\ UNCHANGED <<record, upload, staged, final, deletion, receives, delivery, misread>>
      BY <1>1, <1>4 DEF VisibilityTimeout, files, faults, history
    <2>2. DeliveriesKept
      BY <2>1, SameDeliveriesKept DEF MoveInv
    <2> QED
      BY <1>1, <2>1, <2>2, FilesUntouched
  <1>5. CASE DeleteFinal(p) \/ DeletePending(p) \/ DeleteRecord(p) \/ DeleteFails(p)
    <2>1. DeliveriesKept
      BY <1>5, SameDeliveriesKept
      DEF DeleteFinal, DeletePending, DeleteRecord, DeleteFails, sqs, MoveInv
    <2>2. deletion'[p] # "none"
      BY <1>1, <1>5 DEF DeleteFinal, DeletePending, DeleteRecord, DeleteFails
    <2>3. /\ \A o \in Photos \ {p} : deletion'[o] = deletion[o]
          /\ UNCHANGED <<queue, upload, receives, delivery, misread>>
      BY <1>1, <1>5
      DEF DeleteFinal, DeletePending, DeleteRecord, DeleteFails, sqs, faults, history
    <2>4. \A o \in Photos \ {p} : /\ record'[o] = record[o]
                                  /\ (o \in staged') <=> (o \in staged)
                                  /\ (o \in final') <=> (o \in final)
      BY <1>1, <1>5
      DEF DeleteFinal, DeletePending, DeleteRecord, DeleteFails, Unfiled, DeleteItem, files
    <2>5. PlaceOK'
      BY <2>1, <2>2, <2>3, <2>4 DEF MoveInv, PlaceOK, DeliveriesKept
    <2>6. GoroutineOK' /\ RecordTruthful'
      BY <2>2, <2>3, <2>4, DeliveryFacts DEF MoveInv, GoroutineOK, RecordTruthful, At
    <2> QED
      BY <2>1, <2>5, <2>6 DEF MoveInv, DeliveriesKept
  <1> QED
    BY <1>2, <1>3, <1>4, <1>5, <1>6

\* A delivery that finds nothing staged is not the photo's first.
LEMMA MissingFacts ==
  ASSUME TypeInv, MoveInv, NEW h \in Deliveries, At(h, "received"), h[1] \notin staged,
         deletion[h[1]] = "none"
  PROVE  h[1] \in final /\ receives[h[1]] > 1
  <1> DEFINE p == h[1]
  <1>1. p \in Photos /\ h[2] \in Nat \ {0} /\ receives[p] \in Nat
    BY DeliveryFacts, WorkerAssumption DEF TypeInv, TypeOK
  <1>2. queue[p] # "unsent" /\ h[2] <= receives[p]
    BY DEF MoveInv, DeliveredOK, At
  <1>3. p \in final /\ Moved(p)
    BY <1>1, <1>2 DEF MoveInv, PlaceOK
  <1>4. PICK g \in Deliveries : g[1] = p /\ delivery[g].pc \in Past
    BY <1>3 DEF Moved
  <1>5. g[2] \in Nat \ {0} /\ g[2] <= receives[p]
    BY <1>4, DeliveryFacts, WorkerAssumption DEF MoveInv, DeliveredOK, At, Past
  <1>6. g[2] # h[2]
    BY <1>4, DeliveryFacts DEF At, Past
  <1> QED
    BY <1>1, <1>2, <1>3, <1>5, <1>6

LEMMA CopyMove ==
  ASSUME TypeInv, MoveInv, NEW h \in Deliveries, CopyObject(h) \/ CopyObjectFails(h)
  PROVE  MoveInv'
  <1> DEFINE p == h[1]
  <1>1. p \in Photos /\ At(h, "received")
    BY DeliveryFacts DEF CopyObject, CopyObjectFails
  <1>2. PICK pc \in {"copied", "missing", "ended"} :
               /\ Goto(h, pc)
               /\ pc = "copied" => p \in final'
               /\ pc = "missing" => p \notin staged \/ p \in misread'
    <2>1. CASE CopyObject(h)
      BY <2>1 DEF CopyObject
    <2>2. CASE CopyObjectFails(h)
      BY <2>2 DEF CopyObjectFails, AfterCopyError
    <2> QED
      BY <2>1, <2>2
  <1>3. /\ UNCHANGED <<record, upload, staged, deletion, queue, receives>>
        /\ final \subseteq final' /\ misread \subseteq misread'
    BY DEF CopyObject, CopyObjectFails, sqs
  <1>4. GotoEffect(h, pc)
    BY <1>2, GotoFacts DEF TypeInv, PCs
  <1>5. DeliveriesKept
    BY <1>1, <1>2, <1>3, GotoKept DEF MoveInv, PCs, Past, At
  <1>6. PlaceOK'
    BY <1>3, <1>5 DEF MoveInv, PlaceOK, DeliveriesKept
  <1>7. ASSUME NEW g \in Deliveries, deletion[g[1]] = "none"
        PROVE  /\ delivery'[g].pc \in {"copied", "moved"} => g[1] \in final'
               /\ delivery'[g].pc = "missing"
                    => (g[1] \in final' /\ receives[g[1]] > 1) \/ g[1] \in misread'
    <2>1. CASE g = h
      BY <1>1, <1>2, <1>3, <1>4, <1>7, <2>1, MissingFacts DEF GotoEffect
    <2>2. CASE g # h
      BY <1>3, <1>4, <1>7, <2>2 DEF GotoEffect, MoveInv, GoroutineOK, At
    <2> QED
      BY <2>1, <2>2
  <1>8. GoroutineOK' /\ RecordTruthful'
    BY <1>3, <1>7 DEF GoroutineOK, MoveInv, RecordTruthful, At
  <1> QED
    BY <1>5, <1>6, <1>8 DEF MoveInv, DeliveriesKept

LEMMA DeleteStagedMove ==
  ASSUME TypeInv, MoveInv, NEW h \in Deliveries, DeleteStaged(h)
  PROVE  MoveInv'
  <1> DEFINE p == h[1]
  <1>1. p \in Photos /\ At(h, "copied") /\ Goto(h, "moved")
    BY DeliveryFacts DEF DeleteStaged
  <1>2. /\ UNCHANGED <<record, upload, final, deletion, queue, receives, misread>>
        /\ \A o \in Photos \ {p} : (o \in staged') <=> (o \in staged)
        /\ staged' \subseteq staged
    BY DEF DeleteStaged, sqs, history
  <1>3. GotoEffect(h, "moved")
    BY <1>1, GotoFacts DEF TypeInv, PCs
  <1>4. DeliveriesKept
    BY <1>1, <1>2, GotoKept DEF MoveInv, PCs, Past, At
  <1>5. Moved(p)'
    BY <1>3 DEF GotoEffect, Moved, Past
  <1>6. deletion[p] = "none" => p \in final
    BY <1>1 DEF MoveInv, GoroutineOK, At
  <1>7. PlaceOK'
    BY <1>2, <1>4, <1>5, <1>6 DEF MoveInv, PlaceOK, DeliveriesKept
  <1>8. GoroutineOK'
    BY <1>2, <1>3, <1>6 DEF MoveInv, GoroutineOK, GotoEffect, At
  <1>9. RecordTruthful'
    BY <1>2 DEF MoveInv, RecordTruthful
  <1> QED
    BY <1>4, <1>7, <1>8, <1>9 DEF MoveInv, DeliveriesKept

LEMMA MarkMove ==
  ASSUME TypeInv, MoveInv, NEW h \in Deliveries, MarkCompleted(h) \/ MarkFailed(h) \/ MarkFails(h)
  PROVE  MoveInv'
  <1> DEFINE p == h[1]
  <1>1. p \in Photos /\ (At(h, "moved") \/ At(h, "missing")) /\ Goto(h, "acking")
    BY DeliveryFacts DEF MarkCompleted, MarkFailed, MarkFails
  <1>2. UNCHANGED <<upload, staged, final, deletion, queue, receives, misread>>
    BY DEF MarkCompleted, MarkFailed, MarkFails, files, sqs, faults, history
  <1>3. PICK s \in {"completed", "failed"} :
               /\ record' \in {record, UpdatePhotoStatus(record, p, s)}
               /\ s = "completed" => At(h, "moved")
               /\ s = "failed" => At(h, "missing")
    BY DEF MarkCompleted, MarkFailed, MarkFails
  <1>4. /\ (record'[p] = "absent") <=> (record[p] = "absent")
        /\ record'[p] \in {record[p], s}
        /\ \A o \in Photos \ {p} : record'[o] = record[o]
    BY <1>1, <1>3 DEF UpdatePhotoStatus, TypeInv, TypeOK
  <1>5. GotoEffect(h, "acking")
    BY <1>1, GotoFacts DEF TypeInv, PCs
  <1>6. DeliveriesKept
    BY <1>1, <1>2, GotoKept DEF MoveInv, PCs, Past, At
  <1>7. PlaceOK'
    BY <1>2, <1>4, <1>6 DEF MoveInv, PlaceOK, DeliveriesKept
  <1>8. GoroutineOK'
    BY <1>2, <1>5 DEF MoveInv, GoroutineOK, GotoEffect, At
  <1>9. deletion[p] = "none" =>
          /\ s = "completed" => p \in final
          /\ s = "failed" => (p \in final /\ receives[p] > 1) \/ p \in misread
    BY <1>3 DEF MoveInv, GoroutineOK, At
  <1>10. RecordTruthful'
    BY <1>1, <1>2, <1>3, <1>4, <1>9 DEF MoveInv, RecordTruthful
  <1> QED
    BY <1>6, <1>7, <1>8, <1>10 DEF MoveInv, DeliveriesKept

\* A goroutine's steps that touch neither files nor records.
LEMMA StartAndAckMove ==
  ASSUME TypeInv, MoveInv, NEW h \in Deliveries,
         StartProcessing(h) \/ DeleteMessage(h) \/ DeleteMessageFails(h)
  PROVE  MoveInv'
  <1>1. PICK pc \in {"received", "ended"} :
               /\ Goto(h, pc)
               /\ pc = "received" => At(h, "held")
               /\ pc = "ended" => At(h, "acking")
    BY DEF StartProcessing, DeleteMessage, DeleteMessageFails
  <1>2. UNCHANGED <<record, upload, staged, final, deletion, receives, misread>>
    BY DEF StartProcessing, DeleteMessage, DeleteMessageFails, files, sqs, faults, history
  <1>3. queue[h[1]] # "unsent" /\ h[1] \in Photos
    BY <1>1, DeliveryFacts DEF MoveInv, DeliveredOK, At
  <1>4. \A p \in Photos : (queue'[p] = "unsent") <=> (queue[p] = "unsent")
    BY <1>3 DEF StartProcessing, DeleteMessage, DeleteMessageFails, sqs, TypeInv, TypeOK
  <1>5. GotoEffect(h, pc)
    BY <1>1, GotoFacts DEF TypeInv, PCs
  <1>6. DeliveriesKept
    BY <1>1, <1>2, <1>4, GotoKept DEF MoveInv, PCs, Past, At
  <1>7. \A g \in Deliveries : delivery'[g].pc \in {"copied", "moved", "missing"}
                                 => delivery'[g].pc = delivery[g].pc
    BY <1>5 DEF GotoEffect
  <1>8. \A p \in Photos : receives'[p] \in Nat /\ receives'[p] >= receives[p]
    BY <1>2, WorkerAssumption DEF TypeInv, TypeOK
  <1> QED
    BY <1>2, <1>4, <1>6, <1>7, <1>8, FilesUntouched

LEMMA DeliverMove ==
  ASSUME TypeInv, MoveInv, NEW w \in Workers, NEW batch \in Batches,
         NEW pc \in {"held", "killed"}, Deliver(w, batch, pc)
  PROVE  MoveInv'
  <1>1. DeliverEffect(w, batch, pc)
    BY DeliverFacts DEF PCs
  <1>2. DeliveriesKept
    BY <1>1, DeliverKept DEF MoveInv, PCs
  <1>3. \A p \in Photos : receives'[p] \in Nat /\ receives'[p] >= receives[p]
    BY <1>1, WorkerAssumption DEF DeliverEffect, TypeInv, TypeOK
  <1>4. \A p \in Photos : queue[p] = "unsent" => queue'[p] = "unsent"
    BY <1>1 DEF DeliverEffect, Batches
  <1>5. \A h \in Deliveries : delivery'[h].pc \in {"copied", "moved", "missing"}
                                 => delivery'[h].pc = delivery[h].pc
    BY <1>1 DEF DeliverEffect
  <1> QED
    BY <1>2, <1>3, <1>4, <1>5, FilesUntouched DEF Deliver, files, history

LEMMA MoveStep == TypeInv /\ MoveInv /\ [Next]_vars => MoveInv'
  <1> SUFFICES ASSUME TypeInv, MoveInv, [Next]_vars PROVE MoveInv'
    OBVIOUS
  <1>1. ASSUME NEW p \in Photos,
               \/ PutPhoto(p) \/ UploadPhotoToStaging(p) \/ SendPhotoMessage(p)
               \/ VisibilityTimeout(p)
               \/ DeleteFinal(p) \/ DeletePending(p) \/ DeleteRecord(p) \/ DeleteFails(p)
        PROVE  MoveInv'
    BY <1>1, EnvironmentMove
  <1>2. ASSUME NEW w \in Workers, NEW batch \in Batches,
               Receive(w, batch) \/ ReceiveFails(w, batch)
        PROVE  MoveInv'
    BY <1>2, DeliverMove DEF Receive, ReceiveFails
  <1>3. ASSUME NEW w \in Workers, Exit(w) PROVE MoveInv'
    <2>1. ExitEffect(w) /\ DeliveriesKept
      BY <1>3, ExitFacts, ExitKept DEF TypeInv, MoveInv
    <2>2. \A h \in Deliveries : delivery'[h].pc \in {"copied", "moved", "missing"}
                                   => delivery'[h].pc = delivery[h].pc
      BY <2>1 DEF ExitEffect
    <2>3. \A p \in Photos : receives[p] \in Nat /\ receives[p] >= receives[p]
      BY WorkerAssumption DEF TypeInv, TypeOK
    <2> QED
      BY <1>3, <2>1, <2>2, <2>3, FilesUntouched DEF Exit, files, sqs, history
  <1>4. ASSUME NEW h \in Deliveries,
               Processing(h) \/ CopyObjectFails(h) \/ MarkFails(h) \/ DeleteMessageFails(h)
        PROVE  MoveInv'
    BY <1>4, CopyMove, DeleteStagedMove, MarkMove, StartAndAckMove DEF Processing
  <1>5. CASE UNCHANGED vars
    <2>1. UNCHANGED <<record, upload, staged, final, deletion, queue, receives, delivery, misread>>
      BY <1>5 DEF vars, files, sqs, faults, history
    <2>2. \A p \in Photos : receives[p] \in Nat /\ receives[p] >= receives[p]
      BY WorkerAssumption DEF TypeInv, TypeOK
    <2>3. DeliveriesKept
      BY <2>1, SameDeliveriesKept DEF MoveInv
    <2> QED
      BY <2>1, <2>2, <2>3, FilesUntouched
  <1> QED
    BY <1>1, <1>2, <1>3, <1>4, <1>5 DEF Next, Receiving

LEMMA MoveAlways == Spec => []MoveInv
  <1>1. TypeInv /\ MoveInv /\ [Next]_vars => TypeInv' /\ MoveInv'
    BY TypeStep, MoveStep
  <1> QED
    BY <1>1, TypeInit, MoveInit, PTL DEF Spec

\* Until it is deleted a photo has its file in one of its two places, however
\* many deliveries, failures and exits there are (MovePhotoToFinal).
THEOREM FilesKept == Spec => []FileNotLost
  <1>1. MoveInv => FileNotLost
    BY DEF MoveInv, PlaceOK, FileNotLost
  <1> QED
    BY <1>1, MoveAlways, PTL

\* The status of a photo nobody deletes agrees with where its file is, also when
\* a repeated delivery marks it failed; only a failing copy whose error reads like
\* that of a missing file makes it say "failed" of a staged one (processMessage).
THEOREM RecordsTruthful == Spec => []RecordTruthful
  <1>1. MoveInv => RecordTruthful
    BY DEF MoveInv
  <1> QED
    BY <1>1, MoveAlways, PTL

-----------------------------------------------------------------------------
(* What a delete leaves.  Once it has looked at the final place, the file   *)
(* gets there again only by a copy it does not see; once it has removed the *)
(* staged file, only the producer or its own failing call can have left one.*)

OrphanInv ==
    \A p \in Photos :
        /\ deletion[p] \in {"unfiled", "unstaged", "done"} => p \notin final \/ p \in left
        /\ deletion[p] \in {"unstaged", "done"} => p \notin staged \/ p \in left

LEMMA OrphanInit == Init => OrphanInv
  BY DEF Init, OrphanInv

LEMMA OrphanStep == TypeInv /\ OrphanInv /\ [Next]_vars => OrphanInv'
  <1> SUFFICES ASSUME TypeInv, OrphanInv, [Next]_vars PROVE OrphanInv'
    OBVIOUS
  <1>1. /\ staged \subseteq Photos /\ final \subseteq Photos /\ left \subseteq Photos
        /\ deletion \in [Photos -> {"none", "unfiled", "unstaged", "done", "failed"}]
    BY DEF TypeInv, TypeOK
  <1>2. ASSUME UNCHANGED <<final, left, deletion>>, staged' \subseteq staged
        PROVE  OrphanInv'
    BY <1>2 DEF OrphanInv
  <1>3. ASSUME NEW p \in Photos, UploadPhotoToStaging(p) PROVE OrphanInv'
    BY <1>1, <1>3 DEF UploadPhotoToStaging, Leaves, OrphanInv
  <1>4. ASSUME NEW p \in Photos, PutPhoto(p) \/ SendPhotoMessage(p) \/ VisibilityTimeout(p)
        PROVE  OrphanInv'
    BY <1>2, <1>4 DEF PutPhoto, SendPhotoMessage, VisibilityTimeout, files, faults, history
  <1>5. ASSUME NEW p \in Photos, DeleteFinal(p) PROVE OrphanInv'
    BY <1>1, <1>5 DEF DeleteFinal, Unfiled, faults, history, OrphanInv
  <1>6. ASSUME NEW p \in Photos, DeletePending(p) PROVE OrphanInv'
    BY <1>1, <1>6 DEF DeletePending, Leaves, OrphanInv
  <1>7. ASSUME NEW p \in Photos, DeleteRecord(p) PROVE OrphanInv'
    BY <1>1, <1>7 DEF DeleteRecord, files, faults, history, OrphanInv
  <1>8. ASSUME NEW p \in Photos, DeleteFails(p) PROVE OrphanInv'
    <2>1. /\ final' \subseteq final /\ UNCHANGED <<staged, left>>
          /\ deletion' = [deletion EXCEPT ![p] = "failed"]
      BY <1>8 DEF DeleteFails, Unfiled, history
    <2> QED
      BY <1>1, <2>1 DEF OrphanInv
  <1>9. ASSUME NEW w \in Workers, NEW batch \in Batches,
               Receive(w, batch) \/ ReceiveFails(w, batch)
        PROVE  OrphanInv'
    BY <1>2, <1>9 DEF Receive, ReceiveFails, Deliver, files, history
  <1>10. ASSUME NEW w \in Workers, Exit(w) PROVE OrphanInv'
    BY <1>2, <1>10 DEF Exit, files, history
  <1>11. ASSUME NEW h \in Deliveries, CopyObject(h) \/ CopyObjectFails(h) PROVE OrphanInv'
    <2>1. /\ h[1] \in Photos /\ UNCHANGED <<staged, deletion>>
          /\ final' \in {final} \cup (IF h[1] \in staged THEN {final \cup {h[1]}} ELSE {})
          /\ left' = IF h[1] \in staged /\ deletion[h[1]] = "unfiled"
                     THEN left \cup {h[1]} ELSE left
      BY <1>11, DeliveryFacts DEF CopyObject, CopyObjectFails, Race, Leaves
    <2>2. CASE final' = final
      BY <1>1, <2>1, <2>2 DEF OrphanInv
    <2>3. CASE h[1] \in staged /\ final' = final \cup {h[1]}
      BY <1>1, <2>1, <2>3 DEF OrphanInv
    <2> QED
      BY <2>1, <2>2, <2>3
  <1>12. ASSUME NEW h \in Deliveries, DeleteStaged(h) PROVE OrphanInv'
    BY <1>2, <1>12 DEF DeleteStaged, history
  <1>13. ASSUME NEW h \in Deliveries,
                \/ StartProcessing(h) \/ MarkCompleted(h) \/ MarkFailed(h) \/ MarkFails(h)
                \/ DeleteMessage(h) \/ DeleteMessageFails(h)
         PROVE  OrphanInv'
    BY <1>2, <1>13
    DEF StartProcessing, MarkCompleted, MarkFailed, MarkFails, DeleteMessage,
        DeleteMessageFails, files, faults, history
  <1>14. CASE UNCHANGED vars
    BY <1>2, <1>14 DEF vars, files, faults, history
  <1> QED
    BY <1>3, <1>4, <1>5, <1>6, <1>7, <1>8, <1>9, <1>10, <1>11, <1>12, <1>13, <1>14
    DEF Next, Receiving, Processing

\* A delete that answers 200 leaves a file only when a copy raced with it, when the
\* producer staged the file after it had looked there, or when its own call to
\* remove the staged file failed (S3Store.DeletePhoto against MovePhotoToFinal).
THEOREM OrphansJustified == Spec => []OrphanJustified
  <1>1. OrphanInv => OrphanJustified
    BY DEF OrphanInv, OrphanJustified
  <1>2. TypeInv /\ OrphanInv /\ [Next]_vars => TypeInv' /\ OrphanInv'
    BY TypeStep, OrphanStep
  <1> QED
    BY <1>1, <1>2, TypeInit, OrphanInit, PTL DEF Spec
=============================================================================
