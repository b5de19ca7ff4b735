--------------------------- MODULE PhotoLifecycle ---------------------------
(***************************************************************************)
(* Photos of Final_mastery: the handlers of internal/handler/photo.go run  *)
(* by several API tasks over one DynamoDB table and one S3 bucket.  A post *)
(* numbers the photo, stores its record and leaves the upload to a         *)
(* goroutine; a delete cancels the upload if it runs on the same task,     *)
(* then deletes the file, then the record.  Each call of a store takes     *)
(* effect at once; a call that fails may have taken effect nevertheless.   *)
(***************************************************************************)
EXTENDS PhotoStores, Naturals, FiniteSets

CONSTANTS Photos,        \* the posted photos: each post draws a fresh identifier
          Deletes,       \* identities of the DELETE requests
          Tasks,         \* API tasks behind the load balancer
          Albums,
          Mixes,         \* the sets of posts and deletes that may come together
          MaxFaults      \* bound: failed calls of a store and exits of tasks

ASSUME TaskAssumption == Tasks # {} /\ Albums # {} /\ Photos # {}
ASSUME MixAssumption == Mixes \subseteq SUBSET (Photos \cup Deletes)
ASSUME FaultAssumption == MaxFaults \in Nat

VARIABLES counter,     \* DynamoDB: SEQ#album
          record,      \* DynamoDB: status of each photo, or "absent"
          file,        \* S3: photos whose final object exists
          active,      \* each task's activeUploads
          cancelled,   \* photos whose upload context is cancelled
          post, upload, deletion,
          unwritten,   \* history: photos a status of which failed to be written
          failures, exits

vars == <<counter, record, file, active, cancelled, post, upload, deletion,
          unwritten, failures, exits>>

\* before is a history variable: the posts answered when this one arrived.
PostRec == [pc : {"absent", "idle", "numbered", "stored", "done"},
            answer : {"none", "accepted", "error"},
            task : Tasks, album : Albums, seq : Nat, before : SUBSET Photos]
UploadPC == {"none", "starting", "uploading", "uploaded", "failing", "completing",
             "cleaning", "ended", "killed"}
DeleteRec == [pc : {"absent", "idle", "found", "detached", "unfiled", "done"},
              answer : {"none", "unread", "notfound", "deleted", "error"},
              task : Tasks, photo : Photos]

Init == /\ counter = [a \in Albums |-> 0]
        /\ record = [p \in Photos |-> "absent"]
        /\ file = {}
        /\ active = [t \in Tasks |-> {}]
        /\ cancelled = {}
        /\ \E mix \in Mixes :
              /\ post = [p \in Photos |->
                           [pc |-> IF p \in mix THEN "idle" ELSE "absent", answer |-> "none",
                            task |-> CHOOSE t \in Tasks : TRUE,
                            album |-> CHOOSE a \in Albums : TRUE, seq |-> 0, before |-> {}]]
              /\ deletion = [d \in Deletes |->
                               [pc |-> IF d \in mix THEN "idle" ELSE "absent", answer |-> "none",
                                task |-> CHOOSE t \in Tasks : TRUE,
                                photo |-> CHOOSE p \in Photos : TRUE]]
        /\ upload = [p \in Photos |-> "none"]
        /\ unwritten = {}
        /\ failures = 0
        /\ exits = 0

\* A call of a store returned an error: x' is what was or what should have been.
Fails == failures + exits < MaxFaults /\ failures' = failures + 1
-----------------------------------------------------------------------------
(* PostPhoto. *)

Accepted == {p \in Photos : post[p].answer = "accepted"}

\* Faulty variant: the number is taken from the photos the album has.
NextSeqFromRecords(a) ==
    Cardinality({p \in Photos : record[p] # "absent" /\ post[p].album = a}) + 1

\* ADD seq_counter 1, which returns the new value.
NextSeq(a) == counter[a] + 1

IncrementSeq(p, t, a) ==
    /\ post[p].pc = "idle"
    /\ counter' = [counter EXCEPT ![a] = NextSeq(a)]
    /\ post' = [post EXCEPT ![p] = [@ EXCEPT !.pc = "numbered", !.task = t, !.album = a,
                                             !.seq = NextSeq(a), !.before = Accepted]]
    /\ UNCHANGED <<record, file, active, cancelled, upload, deletion, unwritten,
                   failures, exits>>

IncrementSeqFails(p, t, a) ==
    /\ Fails
    /\ post[p].pc = "idle"
    /\ counter' \in {counter, [counter EXCEPT ![a] = NextSeq(a)]}
    /\ post' = [post EXCEPT ![p].pc = "done", ![p].answer = "error"]
    /\ UNCHANGED <<record, file, active, cancelled, upload, deletion, unwritten, exits>>

PutPhoto(p) ==
    /\ post[p].pc = "numbered"
    /\ record' = PutItem(record, p)
    /\ post' = [post EXCEPT ![p].pc = "stored"]
    /\ UNCHANGED <<counter, file, active, cancelled, upload, deletion, unwritten,
                   failures, exits>>

\* 500; the number is spent, and the record may be there without an upload.
PutPhotoFails(p) ==
    /\ Fails
    /\ post[p].pc = "numbered"
    /\ record' \in {record, PutItem(record, p)}
    /\ post' = [post EXCEPT ![p].pc = "done", ![p].answer = "error"]
    /\ UNCHANGED <<counter, file, active, cancelled, upload, deletion, unwritten, exits>>

\* The cancel function is registered, the goroutine started, 202 answered.
Accept(p) ==
    /\ post[p].pc = "stored"
    /\ active' = [active EXCEPT ![post[p].task] = @ \cup {p}]
    /\ upload' = [upload EXCEPT ![p] = "starting"]
    /\ post' = [post EXCEPT ![p].pc = "done", ![p].answer = "accepted"]
    /\ UNCHANGED <<counter, record, file, cancelled, deletion, unwritten, failures, exits>>
-----------------------------------------------------------------------------
(* uploadSmallPhotoAsync and uploadFromTempFile. *)

\* Faulty variant: a returning goroutine leaves its cancel function registered.
UnregisterNever(p) == active

\* defer h.activeUploads.Delete(photoID)
Unregister(p) == [active EXCEPT ![post[p].task] = @ \ {p}]

\* The goroutine goes on at pc, or returns.
Proceed(p, pc) ==
    /\ upload' = [upload EXCEPT ![p] = pc]
    /\ active' = IF pc = "ended" THEN Unregister(p) ELSE active

\* Faulty variant: the status is written before the file.
AfterStartMarksFirst(p) == IF p \in cancelled THEN "ended" ELSE "completing"

AfterStart(p) == IF p \in cancelled THEN "ended" ELSE "uploading"

StartUpload(p) ==
    /\ upload[p] = "starting"
    /\ Proceed(p, AfterStart(p))
    /\ UNCHANGED <<counter, record, file, cancelled, post, deletion, unwritten,
                   failures, exits>>

\* The upload does not use the context: a cancel does not stop it.
UploadPhoto(p) ==
    /\ upload[p] = "uploading"
    /\ file' = file \cup {p}
    /\ Proceed(p, "uploaded")
    /\ UNCHANGED <<counter, record, cancelled, post, deletion, unwritten, failures, exits>>

\* Faulty variant: an upload error is only logged.
AfterUploadErrorLogged(p) == "ended"

AfterUploadError(p) == "failing"

UploadPhotoFails(p) ==
    /\ Fails
    /\ upload[p] = "uploading"
    /\ file' \in {file, file \cup {p}}
    /\ Proceed(p, AfterUploadError(p))
    /\ UNCHANGED <<counter, record, cancelled, post, deletion, unwritten, exits>>

\* Faulty variant: a cancelled upload returns without its clean-up.
AfterUploadForgets(p) == IF p \in cancelled THEN "ended" ELSE "completing"

AfterUpload(p) == IF p \in cancelled THEN "cleaning" ELSE "completing"

CheckCancelled(p) ==
    /\ upload[p] = "uploaded"
    /\ Proceed(p, AfterUpload(p))
    /\ UNCHANGED <<counter, record, file, cancelled, post, deletion, unwritten,
                   failures, exits>>

\* A record that is gone fails the condition: the file is deleted again.
MarkCompleted(p) ==
    /\ upload[p] = "completing"
    /\ record' = UpdatePhotoStatus(record, p, "completed")
    /\ Proceed(p, IF record'[p] = "completed" THEN "ended" ELSE "cleaning")
    /\ UNCHANGED <<counter, file, cancelled, post, deletion, unwritten, failures, exits>>

\* Any other error of the update is taken for the same.
MarkCompletedFails(p) ==
    /\ Fails
    /\ upload[p] = "completing"
    /\ record' \in {record, UpdatePhotoStatus(record, p, "completed")}
    /\ unwritten' = unwritten \cup {p}
    /\ Proceed(p, "cleaning")
    /\ UNCHANGED <<counter, file, cancelled, post, deletion, exits>>

MarkFailed(p) ==
    /\ upload[p] = "failing"
    /\ record' = UpdatePhotoStatus(record, p, "failed")
    /\ Proceed(p, "ended")
    /\ UNCHANGED <<counter, file, cancelled, post, deletion, unwritten, failures, exits>>

\* The error of this update is ignored.
MarkFailedFails(p) ==
    /\ Fails
    /\ upload[p] = "failing"
    /\ record' \in {record, UpdatePhotoStatus(record, p, "failed")}
    /\ unwritten' = unwritten \cup {p}
    /\ Proceed(p, "ended")
    /\ UNCHANGED <<counter, file, cancelled, post, deletion, exits>>

CleanUp(p) ==
    /\ upload[p] = "cleaning"
    /\ file' = file \ {p}
    /\ Proceed(p, "ended")
    /\ UNCHANGED <<counter, record, cancelled, post, deletion, unwritten, failures, exits>>

\* The error of the clean-up is ignored.
CleanUpFails(p) ==
    /\ Fails
    /\ upload[p] = "cleaning"
    /\ file' \in {file, file \ {p}}
    /\ Proceed(p, "ended")
    /\ UNCHANGED <<counter, record, cancelled, post, deletion, unwritten, exits>>
-----------------------------------------------------------------------------
(* DeletePhoto. *)

\* A client names a photo it was given with a 202.
ReadRecord(d, t, p, a) ==
    /\ deletion[d].pc = "idle"
    /\ p \in Accepted
    /\ LET found == record[p] # "absent" /\ post[p].album = a IN
       deletion' = [deletion EXCEPT ![d] =
                      [pc |-> IF found THEN "found" ELSE "done",
                       answer |-> IF found THEN "none" ELSE "notfound",
                       task |-> t, photo |-> p]]
    /\ UNCHANGED <<counter, record, file, active, cancelled, post, upload, unwritten,
                   failures, exits>>

Answer(d, s) == deletion' = [deletion EXCEPT ![d].pc = "done", ![d].answer = s]

ReadRecordFails(d) ==
    /\ Fails
    /\ deletion[d].pc = "idle"
    /\ Answer(d, "unread")
    /\ UNCHANGED <<counter, record, file, active, cancelled, post, upload, unwritten, exits>>

\* Only the task the delete runs on looks into its activeUploads.
CancelUpload(d) ==
    LET p == deletion[d].photo  t == deletion[d].task IN
    /\ deletion[d].pc = "found"
    /\ cancelled' = IF p \in active[t] THEN cancelled \cup {p} ELSE cancelled
    /\ active' = [active EXCEPT ![t] = @ \ {p}]
    /\ deletion' = [deletion EXCEPT ![d].pc = "detached"]
    /\ UNCHANGED <<counter, record, file, post, upload, unwritten, failures, exits>>

DeleteFile(d) ==
    /\ deletion[d].pc = "detached"
    /\ file' = file \ {deletion[d].photo}
    /\ deletion' = [deletion EXCEPT ![d].pc = "unfiled"]
    /\ UNCHANGED <<counter, record, active, cancelled, post, upload, unwritten,
                   failures, exits>>

DeleteFileFails(d) ==
    /\ Fails
    /\ deletion[d].pc = "detached"
    /\ file' \in {file, file \ {deletion[d].photo}}
    /\ Answer(d, "error")
    /\ UNCHANGED <<counter, record, active, cancelled, post, upload, unwritten, exits>>

DeleteRecord(d) ==
    /\ deletion[d].pc = "unfiled"
    /\ record' = DeleteItem(record, deletion[d].photo)
    /\ Answer(d, "deleted")
    /\ UNCHANGED <<counter, file, active, cancelled, post, upload, unwritten, failures, exits>>

DeleteRecordFails(d) ==
    /\ Fails
    /\ deletion[d].pc = "unfiled"
    /\ record' \in {record, DeleteItem(record, deletion[d].photo)}
    /\ Answer(d, "error")
    /\ UNCHANGED <<counter, file, active, cancelled, post, upload, unwritten, exits>>
-----------------------------------------------------------------------------
Running == {p \in Photos : upload[p] \notin {"none", "ended", "killed"}}

\* The task exits, and a new one takes its place.  Shutdown waits for requests
\* for 15 seconds, and never for the upload goroutines.
Exit(t) ==
    LET gone(r) == r.task = t /\ r.pc \notin {"absent", "idle", "done"} IN
    /\ failures + exits < MaxFaults
    /\ exits' = exits + 1
    /\ active' = [active EXCEPT ![t] = {}]
    /\ upload' = [p \in Photos |-> IF p \in Running /\ post[p].task = t
                                   THEN "killed" ELSE upload[p]]
    /\ post' = [p \in Photos |-> IF gone(post[p])
                                 THEN [post[p] EXCEPT !.pc = "done"] ELSE post[p]]
    /\ deletion' = [d \in Deletes |-> IF gone(deletion[d])
                                      THEN [deletion[d] EXCEPT !.pc = "done"]
                                      ELSE deletion[d]]
    /\ UNCHANGED <<counter, record, file, cancelled, unwritten, failures>>

Posting(p) == PutPhoto(p) \/ Accept(p)
Uploading(p) == \/ StartUpload(p) \/ UploadPhoto(p) \/ CheckCancelled(p)
                \/ MarkCompleted(p) \/ MarkFailed(p) \/ CleanUp(p)
Deleting(d) == CancelUpload(d) \/ DeleteFile(d) \/ DeleteRecord(d)

Next == \/ \E p \in Photos, t \in Tasks, a \in Albums :
              IncrementSeq(p, t, a) \/ IncrementSeqFails(p, t, a)
        \/ \E p \in Photos : Posting(p) \/ PutPhotoFails(p)
        \/ \E p \in Photos : \/ Uploading(p) \/ UploadPhotoFails(p) \/ MarkCompletedFails(p)
                             \/ MarkFailedFails(p) \/ CleanUpFails(p)
        \/ \E d \in Deletes, t \in Tasks, p \in Photos, a \in Albums : ReadRecord(d, t, p, a)
        \/ \E d \in Deletes : \/ Deleting(d) \/ ReadRecordFails(d) \/ DeleteFileFails(d)
                              \/ DeleteRecordFails(d)
        \/ \E t \in Tasks : Exit(t)

Spec == Init /\ [][Next]_vars

\* Handlers and goroutines of a live task keep running; clients, failing calls
\* and exits need not happen.
FairSpec == /\ Spec
            /\ \A p \in Photos : WF_vars(Posting(p)) /\ WF_vars(Uploading(p))
            /\ \A d \in Deletes : WF_vars(Deleting(d))
-----------------------------------------------------------------------------
\* The types, and the registry, which holds running uploads of its task only.
TypeOK == /\ counter \in [Albums -> Nat]
          /\ record \in [Photos -> Statuses]
          /\ file \subseteq Photos
          /\ active \in [Tasks -> SUBSET Photos]
          /\ \A t \in Tasks : \A p \in active[t] : p \in Running /\ post[p].task = t
          /\ cancelled \subseteq Photos
          /\ post \in [Photos -> PostRec]
          /\ upload \in [Photos -> UploadPC]
          /\ deletion \in [Deletes -> DeleteRec]
          /\ unwritten \subseteq Photos
          /\ failures + exits \in 0 .. MaxFaults
          /\ failures \in Nat /\ exits \in Nat
-----------------------------------------------------------------------------
\* The deletes that found the record of p.
DeletesOf(p) == {d \in Deletes : /\ deletion[d].pc \notin {"absent", "idle"}
                                 /\ deletion[d].answer \notin {"unread", "notfound"}
                                 /\ deletion[d].photo = p}

\* After a 200 the photo is gone for good: no status update of an upload that is
\* still running brings the record back (UpdatePhotoStatus, DeletePhoto).
DeletedStaysDeleted ==
    \A d \in Deletes :
        deletion[d].answer = "deleted" => record[deletion[d].photo] = "absent"

\* A record says completed only while its file exists, unless a delete got as
\* far as the file, a task exited during a delete or the update itself reported an
\* error (uploadSmallPhotoAsync, uploadFromTempFile).
CompletedHasFile ==
    \A p \in Photos :
        record[p] = "completed" =>
            \/ p \in file
            \/ \E d \in DeletesOf(p) : deletion[d].pc \in {"unfiled", "done"}
            \/ p \in unwritten

\* When a photo was deleted and its upload is over, a file that is left is due to
\* a failed call, an exit or a delete on another task than the upload's: the
\* cancel and the clean-up leave none on one task, whatever their order.
OrphanJustified ==
    \A p \in Photos \ Running :
        (p \in file /\ record[p] = "absent") =>
            \/ failures > 0 \/ exits > 0
            \/ \E d \in DeletesOf(p) : deletion[d].task # post[p].task

\* README "Deleting S3 first prevents orphaned files": no file without a record
\* once no upload or delete of the photo is running.
NoOrphans ==
    \A p \in Photos \ Running :
        p \in file /\ record[p] = "absent" =>
            \E d \in DeletesOf(p) : deletion[d].pc # "done"

\* README "Seq is atomic per album", and more: a photo posted after another was
\* answered has the higher number, whatever was deleted or failed in between
\* (IncrementSeq).
SeqFollowsRealTime ==
    \A p, q \in Photos :
        post[p].seq > 0 /\ post[q].seq > 0 /\ p # q /\ post[p].album = post[q].album =>
            /\ post[p].seq # post[q].seq
            /\ q \in post[p].before => post[q].seq < post[p].seq

\* An accepted photo does not stay processing: it becomes completed or failed or
\* is deleted, unless its status could not be written, its task exited, or a
\* delete cancelled the upload and then failed.
Settles ==
    \A p \in Photos :
        post[p].answer = "accepted" ~>
            \/ record[p] # "processing"
            \/ p \in unwritten \/ upload[p] = "killed"
            \/ p \in cancelled /\ \E d \in DeletesOf(p) :
                  deletion[d].pc = "done" /\ deletion[d].answer # "deleted"
=============================================================================
