----------------------------- MODULE PhotoWorker -----------------------------
(***************************************************************************)
(* The workers of Final_mastery/cmd/worker/main.go: photos whose file is   *)
(* staged in S3 and whose identifier is in an SQS queue are moved to their *)
(* final place and marked completed.  SQS delivers at least once: a        *)
(* message that is not deleted before its visibility timeout is delivered  *)
(* again, and goes to the dead-letter queue after MaxReceives deliveries   *)
(* (terraform/sqs.tf).  Deletes of the API may come at any moment.         *)
(***************************************************************************)
EXTENDS PhotoStores, Naturals, FiniteSets

CONSTANTS Photos, Workers,
          Slots,         \* WORKER_CONCURRENCY
          BatchSize,     \* MaxNumberOfMessages
          MaxReceives,   \* maxReceiveCount of the queue
          MaxFailures,   \* bound: failed calls of S3, DynamoDB or SQS
          MaxExits       \* bound: workers that exit and are replaced

ASSUME WorkerAssumption == Slots \in Nat \ {0} /\ BatchSize \in Nat \ {0}
                           /\ MaxReceives \in Nat \ {0} /\ Workers # {}
ASSUME FiniteAssumption == IsFiniteSet(Photos)
ASSUME CallAssumption == MaxFailures \in Nat /\ MaxExits \in Nat

VARIABLES record,      \* DynamoDB: status of each photo
          upload,      \* the producer: how far it is with each photo
          staged,      \* S3: photos/pending/
          final,       \* S3: photos/
          queue,       \* SQS: the state of each photo's message
          receives,    \* SQS: its approximate receive count
          delivery,    \* each delivery of a message and its goroutine
          deletion,    \* the API's delete of each photo
          unwritten,   \* history: photos a status of which failed to be written
          misread,     \* history: photos whose copy failed like one of a missing file
          left,        \* history: photos a delete could not wholly remove
          failures, exits

files == <<staged, final>>
sqs == <<queue, receives>>
history == <<unwritten, misread, left>>
faults == <<history, failures, exits>>
vars == <<record, upload, files, sqs, delivery, deletion, faults>>

Deliveries == Photos \X (1 .. MaxReceives)
MessageState == {"unsent", "visible", "hidden", "deleted", "dead"}
DeliveryRec == [pc : {"none", "held", "received", "copied", "moved", "missing", "acking",
                      "ended", "killed"},
                worker : Workers]

Init == /\ record = [p \in Photos |-> "absent"]
        /\ upload = [p \in Photos |-> "none"]
        /\ staged = {}
        /\ final = {}
        /\ queue = [p \in Photos |-> "unsent"]
        /\ receives = [p \in Photos |-> 0]
        /\ delivery = [h \in Deliveries |-> [pc |-> "none", worker |-> CHOOSE w \in Workers : TRUE]]
        /\ deletion = [p \in Photos |-> "none"]
        /\ unwritten = {}
        /\ misread = {}
        /\ left = {}
        /\ failures = 0
        /\ exits = 0

Fails == failures < MaxFailures /\ failures' = failures + 1

At(h, pc) == delivery[h].pc = pc
Goto(h, pc) == delivery' = [delivery EXCEPT ![h].pc = pc]
-----------------------------------------------------------------------------
(* The producer (README.md:99-106): the record and the answer, then in a       *)
(* goroutine the staged file and the message, whether or not the photo has     *)
(* been deleted meanwhile.                                                     *)

\* What the delete of p leaves behind, in the cases c.
Leaves(p, c) == left' = IF c THEN left \cup {p} ELSE left

PutPhoto(p) ==
    /\ upload[p] = "none"
    /\ record' = PutItem(record, p)
    /\ upload' = [upload EXCEPT ![p] = "accepted"]
    /\ UNCHANGED <<files, sqs, delivery, deletion, faults>>

UploadPhotoToStaging(p) ==
    /\ upload[p] = "accepted"
    /\ staged' = staged \cup {p}
    /\ upload' = [upload EXCEPT ![p] = "staged"]
    /\ Leaves(p, deletion[p] \in {"unstaged", "done"})
    /\ UNCHANGED <<record, final, sqs, delivery, deletion, unwritten, misread, failures, exits>>

SendPhotoMessage(p) ==
    /\ queue[p] = "unsent" /\ upload[p] = "staged"
    /\ queue' = [queue EXCEPT ![p] = "visible"]
    /\ UNCHANGED <<record, upload, files, receives, delivery, deletion, faults>>
-----------------------------------------------------------------------------
(* The queue. *)

\* The visibility timeout of a delivery ends, however far its goroutine is.
VisibilityTimeout(p) ==
    /\ queue[p] = "hidden"
    /\ queue' = [queue EXCEPT ![p] = IF receives[p] = MaxReceives THEN "dead" ELSE "visible"]
    /\ UNCHANGED <<record, upload, files, receives, delivery, deletion, faults>>

HeldBy(w) == {h \in Deliveries : At(h, "held") /\ delivery[h].worker = w}
RunningOn(w) ==
    {h \in Deliveries : /\ delivery[h].worker = w
                        /\ delivery[h].pc \notin {"none", "held", "ended", "killed"}}

\* The queue hands a batch to w: one more delivery of each of its messages.
Deliver(w, batch, pc) ==
    /\ HeldBy(w) = {}
    /\ batch # {} /\ Cardinality(batch) <= BatchSize
    /\ queue' = [p \in Photos |-> IF p \in batch THEN "hidden" ELSE queue[p]]
    /\ receives' = [p \in Photos |-> IF p \in batch THEN receives[p] + 1 ELSE receives[p]]
    /\ delivery' = [h \in Deliveries |->
                      IF h[1] \in batch /\ h[2] = receives[h[1]] + 1
                      THEN [pc |-> pc, worker |-> w] ELSE delivery[h]]
    /\ UNCHANGED <<record, upload, files, deletion, history, exits>>

\* ReceiveMessage, called when the previous batch is handed out.
Receive(w, batch) == Deliver(w, batch, "held") /\ failures' = failures

\* The answer is lost; the worker polls again.
ReceiveFails(w, batch) == Deliver(w, batch, "killed") /\ Fails

\* Faulty variant: the slot is not counted until the goroutine runs.
HasSlotLate(w) == Cardinality(RunningOn(w)) <= Slots

HasSlot(w) == Cardinality(RunningOn(w)) < Slots

\* sem <- struct{}{} and the goroutine.
StartProcessing(h) ==
    /\ At(h, "held")
    /\ HasSlot(delivery[h].worker)
    /\ Goto(h, "received")
    /\ UNCHANGED <<record, upload, files, sqs, deletion, faults>>
-----------------------------------------------------------------------------
(* processMessage and MovePhotoToFinal. *)

\* A copy that a delete, which has looked at the final place, does not see.
Race(p) == Leaves(p, p \in staged /\ deletion[p] = "unfiled")

CopyObject(h) ==
    /\ At(h, "received")
    /\ Race(h[1])
    /\ final' = IF h[1] \in staged THEN final \cup {h[1]} ELSE final
    /\ Goto(h, IF h[1] \in staged THEN "copied" ELSE "missing")
    /\ UNCHANGED <<record, upload, staged, sqs, deletion, unwritten, misread, failures, exits>>

\* Faulty variants: an error is taken for success, or the message is deleted
\* all the same.
AfterCopyErrorIgnored == {"copied"}
AfterCopyErrorAcked == {"acking"}

\* An error leaves the message to be delivered again, unless its text has a "404"
\* in it (a request id is enough): then the file is taken to be missing.
AfterCopyError == {"ended", "missing"}

CopyObjectFails(h) ==
    /\ Fails
    /\ At(h, "received")
    /\ Race(h[1])
    /\ final' \in {final} \cup (IF h[1] \in staged THEN {final \cup {h[1]}} ELSE {})
    /\ \E pc \in AfterCopyError :
         /\ Goto(h, pc)
         /\ misread' = IF pc = "missing" /\ h[1] \in staged THEN misread \cup {h[1]} ELSE misread
    /\ UNCHANGED <<record, upload, staged, sqs, deletion, unwritten, exits>>

\* The error of this call is logged only.
DeleteStaged(h) ==
    /\ At(h, "copied")
    /\ \/ staged' = staged \ {h[1]} /\ failures' = failures
       \/ staged' = staged /\ Fails
    /\ Goto(h, "moved")
    /\ UNCHANGED <<record, upload, final, sqs, deletion, history, exits>>

\* The message is deleted whether the update succeeds, finds no record or fails.
MarkCompleted(h) ==
    /\ At(h, "moved")
    /\ record' = UpdatePhotoStatus(record, h[1], "completed")
    /\ Goto(h, "acking")
    /\ UNCHANGED <<upload, files, sqs, deletion, faults>>

MarkFailed(h) ==
    /\ At(h, "missing")
    /\ record' = UpdatePhotoStatus(record, h[1], "failed")
    /\ Goto(h, "acking")
    /\ UNCHANGED <<upload, files, sqs, deletion, faults>>

MarkFails(h) ==
    /\ Fails
    /\ At(h, "moved") \/ At(h, "missing")
    /\ LET status == IF At(h, "moved") THEN "completed" ELSE "failed"
       IN  record' \in {record, UpdatePhotoStatus(record, h[1], status)}
    /\ unwritten' = unwritten \cup {h[1]}
    /\ Goto(h, "acking")
    /\ UNCHANGED <<upload, files, sqs, deletion, misread, left, exits>>

\* The handle of an older delivery may or may not delete the message.
DeleteMessage(h) ==
    /\ At(h, "acking")
    /\ Goto(h, "ended")
    /\ queue' \in {[queue EXCEPT ![h[1]] = IF @ = "dead" THEN "dead" ELSE "deleted"]}
                  \cup (IF h[2] < receives[h[1]] THEN {queue} ELSE {})
    /\ UNCHANGED <<record, upload, files, receives, deletion, faults>>

\* The error of this call is logged only.
DeleteMessageFails(h) ==
    /\ Fails
    /\ At(h, "acking")
    /\ Goto(h, "ended")
    /\ UNCHANGED <<record, upload, files, sqs, deletion, history, exits>>

\* A worker exits with the messages it holds and its goroutines; a new one
\* takes its place.
Exit(w) ==
    /\ exits < MaxExits
    /\ exits' = exits + 1
    /\ delivery' = [h \in Deliveries |-> IF h \in HeldBy(w) \cup RunningOn(w)
                                         THEN [delivery[h] EXCEPT !.pc = "killed"]
                                         ELSE delivery[h]]
    /\ UNCHANGED <<record, upload, files, sqs, deletion, history, failures>>
-----------------------------------------------------------------------------
(* DeletePhoto of the API: the final file, the staged file, the record. *)

\* Faulty variant: looks for a final file of completed photos only.
UnfiledIfCompleted(p) == IF record[p] = "completed" THEN final \ {p} ELSE final

Unfiled(p) == final \ {p}

DeleteFinal(p) ==
    /\ deletion[p] = "none" /\ record[p] # "absent"
    /\ final' = Unfiled(p)
    /\ deletion' = [deletion EXCEPT ![p] = "unfiled"]
    /\ UNCHANGED <<record, upload, staged, sqs, delivery, faults>>

\* The error of this call is ignored.
DeletePending(p) ==
    /\ deletion[p] = "unfiled"
    /\ \/ staged' = staged \ {p} /\ failures' = failures /\ left' = left
       \/ staged' = staged /\ Fails /\ Leaves(p, TRUE)
    /\ deletion' = [deletion EXCEPT ![p] = "unstaged"]
    /\ UNCHANGED <<record, upload, final, sqs, delivery, unwritten, misread, exits>>

DeleteRecord(p) ==
    /\ deletion[p] = "unstaged"
    /\ record' = DeleteItem(record, p)
    /\ deletion' = [deletion EXCEPT ![p] = "done"]
    /\ UNCHANGED <<upload, files, sqs, delivery, faults>>

\* An error of the first or the last call ends the delete with a 500.
DeleteFails(p) ==
    /\ Fails
    /\ \/ /\ deletion[p] = "none" /\ record[p] # "absent"
          /\ final' \in {final, Unfiled(p)} /\ record' = record
       \/ /\ deletion[p] = "unstaged"
          /\ record' \in {record, DeleteItem(record, p)} /\ final' = final
    /\ deletion' = [deletion EXCEPT ![p] = "failed"]
    /\ UNCHANGED <<upload, staged, sqs, delivery, history, exits>>
-----------------------------------------------------------------------------
Processing(h) == \/ StartProcessing(h) \/ CopyObject(h) \/ DeleteStaged(h)
                 \/ MarkCompleted(h) \/ MarkFailed(h) \/ DeleteMessage(h)
Batches == SUBSET {p \in Photos : queue[p] = "visible"}
Receiving(w) == \E batch \in Batches : Receive(w, batch)

Next == \/ \E p \in Photos : PutPhoto(p) \/ UploadPhotoToStaging(p) \/ SendPhotoMessage(p)
        \/ \E p \in Photos : VisibilityTimeout(p)
        \/ \E w \in Workers : Receiving(w) \/ Exit(w)
        \/ \E w \in Workers, batch \in Batches : ReceiveFails(w, batch)
        \/ \E h \in Deliveries : \/ Processing(h) \/ CopyObjectFails(h) \/ MarkFails(h)
                                 \/ DeleteMessageFails(h)
        \/ \E p \in Photos : \/ DeleteFinal(p) \/ DeletePending(p) \/ DeleteRecord(p)
                             \/ DeleteFails(p)

Spec == Init /\ [][Next]_vars

\* Workers keep polling and their goroutines running, and a visibility timeout
\* ends; failing calls, exits, producers and deletes need not happen.
FairSpec == /\ Spec
            /\ \A p \in Photos : WF_vars(VisibilityTimeout(p))
            /\ \A w \in Workers : WF_vars(Receiving(w))
            /\ \A h \in Deliveries : WF_vars(Processing(h))
-----------------------------------------------------------------------------
\* The types, and the bound on goroutines: the semaphore.
TypeOK == /\ record \in [Photos -> Statuses]
          /\ upload \in [Photos -> {"none", "accepted", "staged"}]
          /\ staged \subseteq Photos
          /\ final \subseteq Photos
          /\ queue \in [Photos -> MessageState]
          /\ receives \in [Photos -> 0 .. MaxReceives]
          /\ delivery \in [Deliveries -> DeliveryRec]
          /\ \A w \in Workers : /\ Cardinality(RunningOn(w)) <= Slots
                                /\ Cardinality(HeldBy(w)) <= BatchSize
          /\ deletion \in [Photos -> {"none", "unfiled", "unstaged", "done", "failed"}]
          /\ unwritten \subseteq Photos
          /\ misread \subseteq Photos
          /\ left \subseteq Photos
          /\ failures \in 0 .. MaxFailures
          /\ exits \in 0 .. MaxExits
-----------------------------------------------------------------------------
\* Until a delete begins, the file of a staged photo is staged or final, whatever
\* deliveries overlap, fail or are killed (MovePhotoToFinal).
FileNotLost ==
    \A p \in Photos :
        upload[p] = "staged" /\ deletion[p] = "none" => p \in staged \cup final

\* The record of a photo nobody deletes tells the truth: completed ones have their
\* file in its final place.  So have failed ones, which are marked so only when
\* their message was delivered again, but for those whose copy failed with an error
\* that reads like a missing file (processMessage).
RecordTruthful ==
    \A p \in Photos : deletion[p] = "none" =>
        /\ record[p] = "completed" => p \in final
        /\ record[p] = "failed" => (p \in final /\ receives[p] > 1) \/ p \in misread

\* A delete that answers 200 leaves a file of its photo only when a worker copied it
\* after the delete had looked at the final place and before it removed the staged
\* file, when the producer staged it after that, or when removing the staged file
\* failed; no other failure does (S3Store.DeletePhoto against MovePhotoToFinal).
OrphanJustified ==
    \A p \in Photos : deletion[p] = "done" /\ p \in staged \cup final => p \in left

\* A sent photo does not stay processing: it is marked or deleted, unless its
\* update failed, which is not retried, or its message ended in the dead-letter queue.
Settles ==
    \A p \in Photos :
        queue[p] # "unsent" ~>
            record[p] # "processing" \/ p \in unwritten \/ queue[p] = "dead"
=============================================================================
