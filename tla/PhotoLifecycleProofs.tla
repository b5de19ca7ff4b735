------------------------ MODULE PhotoLifecycleProofs ------------------------
(***************************************************************************)
(* Theorems about PhotoLifecycle, for every set of photos, deletes, tasks  *)
(* and albums, whichever requests come, and any number of faults.          *)
(***************************************************************************)
EXTENDS PhotoLifecycle, TLAPS

-----------------------------------------------------------------------------
(* Type correctness.  The registry's type needs AcceptedOK: an upload       *)
(* exists exactly when its post was answered, and then its task is fixed.   *)

AcceptedOK ==
    \A p \in Photos : /\ upload[p] # "none" <=> p \in Accepted
                      /\ post[p].pc # "done" => post[p].answer = "none"

RegistryOK == \A t \in Tasks : \A p \in active[t] : p \in Running /\ post[p].task = t

FaultsOK == failures \in Nat /\ exits \in Nat /\ failures + exits \in 0 .. MaxFaults

Faultless == failures = 0 /\ exits = 0

\* Faults are counted up to the bound and never forgotten.
FaultStep == FaultsOK' /\ (Faultless' => Faultless)

TypeInv == TypeOK /\ AcceptedOK

LEMMA TypeParts ==
  TypeOK <=> /\ counter \in [Albums -> Nat]
             /\ record \in [Photos -> Statuses]
             /\ file \subseteq Photos /\ cancelled \subseteq Photos
             /\ active \in [Tasks -> SUBSET Photos] /\ RegistryOK
             /\ post \in [Photos -> PostRec]
             /\ upload \in [Photos -> UploadPC]
             /\ deletion \in [Deletes -> DeleteRec]
             /\ unwritten \subseteq Photos
             /\ FaultsOK
  BY DEF TypeOK, RegistryOK, FaultsOK

LEMMA FailsFacts ==
  ASSUME FaultsOK, exits' = exits, Fails \/ failures' = failures
  PROVE  FaultStep /\ (Fails => ~Faultless')
  BY FaultAssumption DEF FaultsOK, Fails, FaultStep, Faultless

LEMMA RecordTypes ==
  ASSUME NEW r \in [Photos -> Statuses], NEW p \in Photos, NEW s \in Statuses
  PROVE  /\ PutItem(r, p) \in [Photos -> Statuses]
         /\ DeleteItem(r, p) \in [Photos -> Statuses]
         /\ UpdatePhotoStatus(r, p, s) \in [Photos -> Statuses]
  BY DEF PutItem, DeleteItem, UpdatePhotoStatus, Statuses

LEMMA TypeInit == Init => TypeInv
  <1> SUFFICES ASSUME Init PROVE TypeInv
    OBVIOUS
  <1>1. PICK mix \in Mixes :
          /\ post = [p \in Photos |->
                       [pc |-> IF p \in mix THEN "idle" ELSE "absent", answer |-> "none",
                        task |-> CHOOSE t \in Tasks : TRUE,
                        album |-> CHOOSE a \in Albums : TRUE, seq |-> 0, before |-> {}]]
          /\ deletion = [d \in Deletes |->
                           [pc |-> IF d \in mix THEN "idle" ELSE "absent", answer |-> "none",
                            task |-> CHOOSE t \in Tasks : TRUE,
                            photo |-> CHOOSE p \in Photos : TRUE]]
    BY DEF Init
  <1>2. /\ (CHOOSE t \in Tasks : TRUE) \in Tasks
        /\ (CHOOSE a \in Albums : TRUE) \in Albums
        /\ (CHOOSE p \in Photos : TRUE) \in Photos
    BY TaskAssumption
  <1> DEFINE task == CHOOSE t \in Tasks : TRUE
             album == CHOOSE a \in Albums : TRUE
             photo == CHOOSE p \in Photos : TRUE
             NewPost(p) == [pc |-> IF p \in mix THEN "idle" ELSE "absent", answer |-> "none",
                            task |-> task, album |-> album, seq |-> 0, before |-> {}]
             NewDelete(d) == [pc |-> IF d \in mix THEN "idle" ELSE "absent",
                              answer |-> "none", task |-> task, photo |-> photo]
  <1>3. post = [p \in Photos |-> NewPost(p)] /\ deletion = [d \in Deletes |-> NewDelete(d)]
    BY <1>1
  <1>4. task \in Tasks /\ album \in Albums /\ photo \in Photos
    BY <1>2
  <1> HIDE DEF task, album, photo
  <1>5. ASSUME NEW p \in Photos
        PROVE  NewPost(p) \in PostRec /\ NewPost(p).answer = "none"
    BY <1>4 DEF PostRec
  <1>6. ASSUME NEW d \in Deletes PROVE NewDelete(d) \in DeleteRec
    BY <1>4 DEF DeleteRec
  <1> HIDE DEF NewPost, NewDelete
  <1>7. /\ post \in [Photos -> PostRec] /\ deletion \in [Deletes -> DeleteRec]
        /\ \A p \in Photos : post[p].answer = "none"
    BY <1>3, <1>5, <1>6
  <1>8. AcceptedOK
    BY <1>7 DEF Init, AcceptedOK, Accepted
  <1>9. FaultsOK /\ RegistryOK
    BY FaultAssumption DEF Init, FaultsOK, RegistryOK
  <1> QED
    BY <1>7, <1>8, <1>9, TypeParts DEF TypeInv, Init, Statuses, UploadPC

-----------------------------------------------------------------------------
(* What the steps do. *)

\* A post's steps before its answer, and its failing ones.
EarlyPost(p) == \/ \E t \in Tasks, a \in Albums :
                      IncrementSeq(p, t, a) \/ IncrementSeqFails(p, t, a)
                \/ PutPhoto(p) \/ PutPhotoFails(p)

EarlyPostEffect(p) ==
    /\ post[p].pc \in {"idle", "numbered"} /\ p \notin Accepted
    /\ post' \in [Photos -> PostRec]
    /\ post'[p].answer # "accepted"
    /\ post'[p].pc \in {"numbered", "stored", "done"}
    /\ post'[p].pc # "done" => post'[p].answer = "none"
    /\ \A q \in Photos \ {p} : post'[q] = post[q]
    /\ record' \in [Photos -> Statuses]
    /\ record'[p] \in {record[p], "processing"}
    /\ post'[p].pc = "stored" => record'[p] = "processing"
    /\ \A q \in Photos \ {p} : record'[q] = record[q]
    /\ counter' \in [Albums -> Nat]
    /\ FaultStep
    /\ UNCHANGED <<file, active, cancelled, upload, deletion, unwritten>>

LEMMA IncrementFacts ==
  ASSUME TypeOK, NEW p \in Photos, NEW t \in Tasks, NEW a \in Albums, IncrementSeq(p, t, a)
  PROVE  /\ counter' \in [Albums -> Nat]
         /\ counter'[a] = counter[a] + 1
         /\ \A b \in Albums \ {a} : counter'[b] = counter[b]
         /\ post' \in [Photos -> PostRec]
         /\ post'[p].pc = "numbered" /\ post'[p].answer = post[p].answer
         /\ post'[p].task = t /\ post'[p].album = a
         /\ post'[p].seq = counter[a] + 1 /\ post'[p].before = Accepted
         /\ \A q \in Photos \ {p} : post'[q] = post[q]
  <1> DEFINE r == [post[p] EXCEPT !.pc = "numbered", !.task = t, !.album = a,
                                  !.seq = NextSeq(a), !.before = Accepted]
  <1>1. /\ post \in [Photos -> PostRec] /\ post[p] \in PostRec
        /\ counter \in [Albums -> Nat] /\ NextSeq(a) = counter[a] + 1 /\ NextSeq(a) \in Nat
    BY DEF TypeOK, NextSeq
  <1>2. Accepted \in SUBSET Photos
    BY DEF Accepted
  <1>3. /\ r \in PostRec /\ r.pc = "numbered" /\ r.answer = post[p].answer /\ r.task = t
        /\ r.album = a /\ r.seq = counter[a] + 1 /\ r.before = Accepted
    BY <1>1, <1>2 DEF PostRec
  <1>4. post' = [post EXCEPT ![p] = r] /\ counter' = [counter EXCEPT ![a] = counter[a] + 1]
    BY <1>1 DEF IncrementSeq
  <1> HIDE DEF r
  <1>5. /\ post' \in [Photos -> PostRec] /\ post'[p] = r
        /\ \A q \in Photos \ {p} : post'[q] = post[q]
    BY <1>1, <1>3, <1>4
  <1>6. /\ counter' \in [Albums -> Nat] /\ counter'[a] = counter[a] + 1
        /\ \A b \in Albums \ {a} : counter'[b] = counter[b]
    BY <1>1, <1>4
  <1> QED
    BY <1>3, <1>5, <1>6

\* The other steps of a post keep its number and its task.
LEMMA PostGotoFacts ==
  ASSUME TypeOK, NEW p \in Photos,
         NEW pc \in {"stored", "done"}, NEW answer \in {"none", "accepted", "error"},
         \/ post' = [post EXCEPT ![p].pc = pc, ![p].answer = answer]
         \/ post' = [post EXCEPT ![p].pc = pc] /\ answer = post[p].answer
  PROVE  /\ post' \in [Photos -> PostRec]
         /\ post'[p].pc = pc /\ post'[p].answer = answer
         /\ post'[p].task = post[p].task /\ post'[p].album = post[p].album
         /\ post'[p].seq = post[p].seq /\ post'[p].before = post[p].before
         /\ \A q \in Photos \ {p} : post'[q] = post[q]
  <1> DEFINE r == [post[p] EXCEPT !.pc = pc, !.answer = answer]
  <1>1. post \in [Photos -> PostRec] /\ post[p] \in PostRec
    BY DEF TypeOK
  <1>2. /\ r \in PostRec /\ r.pc = pc /\ r.answer = answer /\ r.task = post[p].task
        /\ r.album = post[p].album /\ r.seq = post[p].seq /\ r.before = post[p].before
    BY <1>1 DEF PostRec
  <1>3. post' = [post EXCEPT ![p] = r]
    <2>1. CASE post' = [post EXCEPT ![p].pc = pc, ![p].answer = answer]
      BY <1>1, <2>1
    <2>2. CASE post' = [post EXCEPT ![p].pc = pc] /\ answer = post[p].answer
      <3>1. [post[p] EXCEPT !.pc = pc] = r
        BY <1>1, <2>2 DEF PostRec
      <3> QED
        BY <1>1, <2>2, <3>1
    <2> QED
      BY <2>1, <2>2
  <1> HIDE DEF r
  <1>4. /\ post' \in [Photos -> PostRec] /\ post'[p] = r
        /\ \A q \in Photos \ {p} : post'[q] = post[q]
    BY <1>1, <1>2, <1>3
  <1> QED
    BY <1>2, <1>4

LEMMA EarlyPostFacts ==
  ASSUME TypeInv, NEW p \in Photos, EarlyPost(p)
  PROVE  EarlyPostEffect(p)
  <1>1. /\ record \in [Photos -> Statuses] /\ counter \in [Albums -> Nat]
        /\ TypeOK /\ FaultsOK
        /\ post[p].pc # "done" => post[p].answer = "none"
    BY TypeParts DEF TypeInv, AcceptedOK
  <1>2. p \notin Accepted
    BY <1>1 DEF EarlyPost, IncrementSeq, IncrementSeqFails, PutPhoto, PutPhotoFails, Accepted
  <1>3. ASSUME NEW t \in Tasks, NEW a \in Albums, IncrementSeq(p, t, a)
        PROVE  EarlyPostEffect(p)
    <2>1. post[p].pc = "idle" /\ record' = record /\ FaultStep
      BY <1>1, <1>3, FailsFacts DEF IncrementSeq
    <2> QED
      BY <1>1, <1>2, <1>3, <2>1, IncrementFacts DEF IncrementSeq, EarlyPostEffect
  <1>4. ASSUME NEW t \in Tasks, NEW a \in Albums, IncrementSeqFails(p, t, a)
        PROVE  EarlyPostEffect(p)
    <2>1. post[p].pc = "idle" /\ record' = record /\ FaultStep
      BY <1>1, <1>4, FailsFacts DEF IncrementSeqFails
    <2>3. counter' \in [Albums -> Nat]
      BY <1>4 DEF IncrementSeqFails, NextSeq, TypeInv, TypeOK
    <2>2. post' = [post EXCEPT ![p].pc = "done", ![p].answer = "error"]
      BY <1>4 DEF IncrementSeqFails
    <2> QED
      BY <1>1, <1>2, <1>4, <2>1, <2>2, <2>3, PostGotoFacts DEF IncrementSeqFails, EarlyPostEffect
  <1>5. CASE PutPhoto(p)
    <2>1. post[p].pc = "numbered" /\ post[p].answer = "none" /\ FaultStep
      BY <1>1, <1>5, FailsFacts DEF PutPhoto
    <2>2. post' = [post EXCEPT ![p].pc = "stored"]
      BY <1>5 DEF PutPhoto
    <2>3. /\ record' \in [Photos -> Statuses] /\ record'[p] = "processing"
          /\ \A q \in Photos \ {p} : record'[q] = record[q]
      BY <1>1, <1>5 DEF PutPhoto, PutItem, Statuses
    <2> QED
      BY <1>1, <1>2, <1>5, <2>1, <2>2, <2>3, PostGotoFacts DEF PutPhoto, EarlyPostEffect
  <1>6. CASE PutPhotoFails(p)
    <2>1. post[p].pc = "numbered" /\ FaultStep
      BY <1>1, <1>6, FailsFacts DEF PutPhotoFails
    <2>2. post' = [post EXCEPT ![p].pc = "done", ![p].answer = "error"]
      BY <1>6 DEF PutPhotoFails
    <2>3. /\ record' \in [Photos -> Statuses] /\ record'[p] \in {record[p], "processing"}
          /\ \A q \in Photos \ {p} : record'[q] = record[q]
      BY <1>1, <1>6 DEF PutPhotoFails, PutItem, Statuses
    <2> QED
      BY <1>1, <1>2, <1>6, <2>1, <2>2, <2>3, PostGotoFacts DEF PutPhotoFails, EarlyPostEffect
  <1> QED
    BY <1>3, <1>4, <1>5, <1>6 DEF EarlyPost

AcceptEffect(p) ==
    /\ post[p].pc = "stored" /\ p \notin Accepted /\ upload[p] = "none"
    /\ post' \in [Photos -> PostRec]
    /\ post'[p].pc = "done" /\ post'[p].answer = "accepted"
    /\ post'[p].task = post[p].task /\ post'[p].album = post[p].album
    /\ post'[p].seq = post[p].seq /\ post'[p].before = post[p].before
    /\ \A q \in Photos \ {p} : post'[q] = post[q]
    /\ upload' \in [Photos -> UploadPC]
    /\ upload'[p] = "starting"
    /\ \A q \in Photos \ {p} : upload'[q] = upload[q]
    /\ active' \in [Tasks -> SUBSET Photos]
    /\ active'[post[p].task] = active[post[p].task] \cup {p}
    /\ \A t \in Tasks \ {post[p].task} : active'[t] = active[t]
    /\ UNCHANGED <<counter, record, file, cancelled, deletion, unwritten, failures, exits>>

LEMMA AcceptFacts ==
  ASSUME TypeInv, NEW p \in Photos, Accept(p)
  PROVE  AcceptEffect(p)
  <1>1. /\ post[p] \in PostRec /\ post[p].task \in Tasks /\ upload \in [Photos -> UploadPC]
        /\ active \in [Tasks -> SUBSET Photos] /\ TypeOK
    BY DEF TypeInv, TypeOK, PostRec
  <1>2. post[p].pc = "stored" /\ p \notin Accepted /\ upload[p] = "none"
    BY DEF Accept, TypeInv, AcceptedOK, Accepted
  <1>3. /\ upload' \in [Photos -> UploadPC] /\ upload'[p] = "starting"
        /\ \A q \in Photos \ {p} : upload'[q] = upload[q]
    BY <1>1 DEF Accept, UploadPC
  <1>4. /\ active' \in [Tasks -> SUBSET Photos]
        /\ active'[post[p].task] = active[post[p].task] \cup {p}
        /\ \A t \in Tasks \ {post[p].task} : active'[t] = active[t]
    BY <1>1 DEF Accept
  <1>5. post' = [post EXCEPT ![p].pc = "done", ![p].answer = "accepted"]
    BY DEF Accept
  <1> QED
    BY <1>1, <1>2, <1>3, <1>4, <1>5, PostGotoFacts DEF Accept, AcceptEffect

\* A step of an upload's goroutine, and its failing ones.
UploadStep(p) == \/ Uploading(p) \/ UploadPhotoFails(p) \/ MarkCompletedFails(p)
                 \/ MarkFailedFails(p) \/ CleanUpFails(p)

ProceedEffect(p, pc) ==
    /\ p \in Running /\ upload[p] # "none" /\ pc \notin {"none", "starting", "killed"}
    /\ upload' \in [Photos -> UploadPC]
    /\ upload'[p] = pc
    /\ \A q \in Photos \ {p} : upload'[q] = upload[q]
    /\ active' \in [Tasks -> SUBSET Photos]
    /\ \A t \in Tasks : active'[t] \in {active[t], active[t] \ {p}}
    /\ pc # "ended" => active' = active
    /\ pc = "ended" => p \notin active'[post[p].task]

LEMMA ProceedFacts ==
  ASSUME TypeOK, NEW p \in Photos, p \in Running,
         NEW pc \in UploadPC \ {"none", "starting", "killed"}, Proceed(p, pc)
  PROVE  ProceedEffect(p, pc)
  <1>1. /\ upload \in [Photos -> UploadPC] /\ active \in [Tasks -> SUBSET Photos]
        /\ post[p].task \in Tasks
    BY DEF TypeOK, PostRec
  <1>2. /\ upload' \in [Photos -> UploadPC] /\ upload'[p] = pc
        /\ \A q \in Photos \ {p} : upload'[q] = upload[q]
    BY <1>1 DEF Proceed
  <1>3. CASE pc = "ended"
    BY <1>1, <1>2, <1>3 DEF Proceed, Unregister, ProceedEffect, Running
  <1>4. CASE pc # "ended"
    BY <1>1, <1>2, <1>4 DEF Proceed, ProceedEffect, Running
  <1> QED
    BY <1>3, <1>4

\* The program points of an upload, and what follows each.
NextPC(p, pc) ==
    \/ upload[p] = "starting" /\ pc = IF p \in cancelled THEN "ended" ELSE "uploading"
    \/ upload[p] = "uploading" /\ pc \in {"uploaded", "failing"}
    \/ upload[p] = "uploaded" /\ pc = IF p \in cancelled THEN "cleaning" ELSE "completing"
    \/ upload[p] = "completing" /\ pc \in {"ended", "cleaning"}
    \/ upload[p] = "failing" /\ pc = "ended"
    \/ upload[p] = "cleaning" /\ pc = "ended"

UploadEffect(p, pc) ==
    /\ ProceedEffect(p, pc) /\ NextPC(p, pc)
    /\ file' \in {file, file \cup {p}, file \ {p}}
    /\ upload[p] = "uploading" => file' \in {file, file \cup {p}}
    /\ pc = "uploaded" => p \in file'
    /\ upload[p] = "uploading" /\ pc # "uploaded" => ~Faultless'
    /\ upload[p] \notin {"uploading", "cleaning"} => file' = file
    /\ upload[p] = "cleaning" => file' \in {file, file \ {p}} /\ (Faultless' => p \notin file')
    /\ record' \in [Photos -> Statuses]
    /\ record[p] = "absent" <=> record'[p] = "absent"
    /\ \A q \in Photos \ {p} : record'[q] = record[q]
    /\ record'[p] = "completed" => \/ record[p] = "completed"
                                   \/ upload[p] = "completing" /\ pc = "ended"
                                   \/ upload[p] = "completing" /\ p \in unwritten'
    /\ unwritten \subseteq unwritten' /\ unwritten' \subseteq unwritten \cup {p}
    /\ upload[p] = "completing" /\ pc = "cleaning" =>
          record'[p] # "completed" \/ p \in unwritten'
    /\ FaultStep
    /\ UNCHANGED <<counter, cancelled, post, deletion, exits>>

LEMMA UploadFacts ==
  ASSUME TypeInv, NEW p \in Photos, UploadStep(p)
  PROVE  \E pc \in UploadPC : UploadEffect(p, pc)
  <1>1. /\ record \in [Photos -> Statuses] /\ file \subseteq Photos /\ TypeOK /\ FaultsOK
        /\ unwritten \subseteq Photos
    BY TypeParts DEF TypeInv
  <1>2. /\ FaultStep /\ (Fails => ~Faultless')
        /\ UNCHANGED <<counter, cancelled, post, deletion, exits>>
    BY <1>1, FailsFacts
    DEF UploadStep, Uploading, StartUpload, UploadPhoto, UploadPhotoFails, CheckCancelled,
        MarkCompleted, MarkCompletedFails, MarkFailed, MarkFailedFails, CleanUp, CleanUpFails
  <1>3. CASE StartUpload(p)
    <2>1. AfterStart(p) \in UploadPC \ {"none", "starting", "killed"} /\ p \in Running
      BY <1>3 DEF AfterStart, UploadPC, StartUpload, Running
    <2>2. ProceedEffect(p, AfterStart(p)) /\ NextPC(p, AfterStart(p))
      BY <1>1, <1>3, <2>1, ProceedFacts DEF StartUpload, NextPC, AfterStart
    <2> QED
      BY <1>1, <1>2, <1>3, <2>1, <2>2 DEF StartUpload, UploadEffect, AfterStart
  <1>4. CASE UploadPhoto(p)
    <2>1. p \in Running
      BY <1>4 DEF UploadPhoto, Running
    <2>2. ProceedEffect(p, "uploaded") /\ NextPC(p, "uploaded")
      BY <1>1, <1>4, <2>1, ProceedFacts DEF UploadPhoto, NextPC, UploadPC
    <2> QED
      BY <1>1, <1>2, <1>4, <2>2 DEF UploadPhoto, UploadEffect, UploadPC
  <1>5. CASE UploadPhotoFails(p)
    <2>1. p \in Running
      BY <1>5 DEF UploadPhotoFails, Running
    <2>2. ProceedEffect(p, "failing") /\ NextPC(p, "failing")
      BY <1>1, <1>5, <2>1, ProceedFacts DEF UploadPhotoFails, AfterUploadError, NextPC, UploadPC
    <2> QED
      BY <1>1, <1>2, <1>5, <2>2 DEF UploadPhotoFails, UploadEffect, UploadPC
  <1>6. CASE CheckCancelled(p)
    <2>1. AfterUpload(p) \in UploadPC \ {"none", "starting", "killed"} /\ p \in Running
      BY <1>6 DEF AfterUpload, UploadPC, CheckCancelled, Running
    <2>2. ProceedEffect(p, AfterUpload(p)) /\ NextPC(p, AfterUpload(p))
      BY <1>1, <1>6, <2>1, ProceedFacts DEF CheckCancelled, NextPC, AfterUpload
    <2> QED
      BY <1>1, <1>2, <1>6, <2>1, <2>2 DEF CheckCancelled, UploadEffect, AfterUpload
  <1>7. ASSUME NEW s \in {"completed", "failed"}, record' = UpdatePhotoStatus(record, p, s)
        PROVE  /\ record' \in [Photos -> Statuses]
               /\ record[p] = "absent" <=> record'[p] = "absent"
               /\ record[p] # "absent" => record'[p] = s
               /\ \A q \in Photos \ {p} : record'[q] = record[q]
    BY <1>1, <1>7 DEF UpdatePhotoStatus, Statuses
  <1>8. CASE MarkCompleted(p)
    <2> DEFINE pc == IF record'[p] = "completed" THEN "ended" ELSE "cleaning"
    <2>1. pc \in UploadPC \ {"none", "starting", "killed"} /\ p \in Running
      BY <1>8 DEF UploadPC, MarkCompleted, Running
    <2>2. ProceedEffect(p, pc) /\ NextPC(p, pc)
      BY <1>1, <1>8, <2>1, ProceedFacts DEF MarkCompleted, NextPC
    <2>3. UploadEffect(p, pc)
      BY <1>1, <1>2, <1>7, <1>8, <2>1, <2>2 DEF MarkCompleted, UploadEffect
    <2> QED
      BY <2>1, <2>3
  <1>9. CASE MarkCompletedFails(p)
    <2>1. p \in Running
      BY <1>9 DEF MarkCompletedFails, Running
    <2>2. ProceedEffect(p, "cleaning") /\ NextPC(p, "cleaning")
      BY <1>1, <1>9, <2>1, ProceedFacts DEF MarkCompletedFails, NextPC, UploadPC
    <2>3. UploadEffect(p, "cleaning")
      BY <1>1, <1>2, <1>7, <1>9, <2>2 DEF MarkCompletedFails, UploadEffect
    <2> QED
      BY <2>3 DEF UploadPC
  <1>10. CASE MarkFailed(p) \/ MarkFailedFails(p)
    <2>1. p \in Running
      BY <1>10 DEF MarkFailed, MarkFailedFails, Running
    <2>2. ProceedEffect(p, "ended") /\ NextPC(p, "ended")
      BY <1>1, <1>10, <2>1, ProceedFacts DEF MarkFailed, MarkFailedFails, NextPC, UploadPC
    <2>3. UploadEffect(p, "ended")
      BY <1>1, <1>2, <1>7, <1>10, <2>2 DEF MarkFailed, MarkFailedFails, UploadEffect
    <2> QED
      BY <2>3 DEF UploadPC
  <1>11. CASE CleanUp(p) \/ CleanUpFails(p)
    <2>1. p \in Running
      BY <1>11 DEF CleanUp, CleanUpFails, Running
    <2>2. ProceedEffect(p, "ended") /\ NextPC(p, "ended")
      BY <1>1, <1>11, <2>1, ProceedFacts DEF CleanUp, CleanUpFails, NextPC, UploadPC
    <2>3. UploadEffect(p, "ended")
      BY <1>1, <1>2, <1>11, <2>2 DEF CleanUp, CleanUpFails, UploadEffect
    <2> QED
      BY <2>3 DEF UploadPC
  <1> QED
    BY <1>3, <1>4, <1>5, <1>6, <1>8, <1>9, <1>10, <1>11 DEF UploadStep, Uploading

\* The reading of the record, which ends a delete or finds its photo.
ReadEffect(d) ==
    /\ deletion[d].pc = "idle"
    /\ deletion' \in [Deletes -> DeleteRec]
    /\ \/ deletion'[d].pc = "found" /\ deletion'[d].answer = "none"
          /\ deletion'[d].photo \in Accepted
       \/ deletion'[d].pc = "done" /\ deletion'[d].answer = "notfound"
          /\ deletion'[d].photo \in Accepted
       \/ deletion'[d].pc = "done" /\ deletion'[d].answer = "unread"
    /\ \A e \in Deletes \ {d} : deletion'[e] = deletion[e]
    /\ FaultStep
    /\ UNCHANGED <<counter, record, file, active, cancelled, post, upload, unwritten, exits>>

LEMMA ReadFacts ==
  ASSUME TypeInv, NEW d \in Deletes,
         \/ \E t \in Tasks, p \in Photos, a \in Albums : ReadRecord(d, t, p, a)
         \/ ReadRecordFails(d)
  PROVE  ReadEffect(d)
  <1>1. deletion \in [Deletes -> DeleteRec] /\ deletion[d] \in DeleteRec /\ FaultsOK
    BY TypeParts DEF TypeInv
  <1>2. ASSUME NEW t \in Tasks, NEW p \in Photos, NEW a \in Albums, ReadRecord(d, t, p, a)
        PROVE  ReadEffect(d)
    <2> DEFINE found == record[p] # "absent" /\ post[p].album = a
               r == [pc |-> IF found THEN "found" ELSE "done",
                     answer |-> IF found THEN "none" ELSE "notfound", task |-> t, photo |-> p]
    <2>1. r \in DeleteRec /\ r.photo = p /\ p \in Accepted
      BY <1>2 DEF DeleteRec, ReadRecord
    <2>2. \/ r.pc = "found" /\ r.answer = "none"
          \/ r.pc = "done" /\ r.answer = "notfound"
      OBVIOUS
    <2>3. deletion' = [deletion EXCEPT ![d] = r] /\ FaultStep
      BY <1>1, <1>2, FailsFacts DEF ReadRecord
    <2> HIDE DEF r
    <2>4. /\ deletion' \in [Deletes -> DeleteRec] /\ deletion'[d] = r
          /\ \A e \in Deletes \ {d} : deletion'[e] = deletion[e]
      BY <1>1, <2>1, <2>3
    <2> QED
      BY <1>2, <2>1, <2>2, <2>3, <2>4 DEF ReadRecord, ReadEffect
  <1>3. CASE ReadRecordFails(d)
    <2> DEFINE r == [deletion[d] EXCEPT !.pc = "done", !.answer = "unread"]
    <2>1. r \in DeleteRec /\ r.pc = "done" /\ r.answer = "unread"
      BY <1>1 DEF DeleteRec
    <2>2. deletion' = [deletion EXCEPT ![d] = r] /\ FaultStep
      BY <1>1, <1>3, FailsFacts DEF ReadRecordFails, Answer
    <2> HIDE DEF r
    <2>3. /\ deletion' \in [Deletes -> DeleteRec] /\ deletion'[d] = r
          /\ \A e \in Deletes \ {d} : deletion'[e] = deletion[e]
      BY <1>1, <2>1, <2>2
    <2> QED
      BY <1>3, <2>1, <2>2, <2>3 DEF ReadRecordFails, ReadEffect
  <1> QED
    BY <1>2, <1>3

\* The calls of a delete that found its photo.
DeleteStep(d) == Deleting(d) \/ DeleteFileFails(d) \/ DeleteRecordFails(d)

\* What becomes of the record of the delete itself.
DeleteGoto(d, pc, answer) ==
    /\ deletion' \in [Deletes -> DeleteRec]
    /\ deletion'[d].pc = pc /\ deletion'[d].answer = answer
    /\ deletion'[d].task = deletion[d].task /\ deletion'[d].photo = deletion[d].photo
    /\ \A e \in Deletes \ {d} : deletion'[e] = deletion[e]

LEMMA DeleteGotoFacts ==
  ASSUME TypeOK, NEW d \in Deletes,
         NEW pc \in {"detached", "unfiled", "done"}, NEW answer \in {"none", "deleted", "error"},
         \/ pc = "done" /\ Answer(d, answer)
         \/ deletion' = [deletion EXCEPT ![d].pc = pc] /\ answer = deletion[d].answer
  PROVE  DeleteGoto(d, pc, answer)
  <1> DEFINE r == [deletion[d] EXCEPT !.pc = pc, !.answer = answer]
  <1>1. deletion \in [Deletes -> DeleteRec] /\ deletion[d] \in DeleteRec
    BY DEF TypeOK
  <1>2. /\ r \in DeleteRec /\ r.pc = pc /\ r.answer = answer /\ r.task = deletion[d].task
        /\ r.photo = deletion[d].photo
    BY <1>1 DEF DeleteRec
  <1>3. deletion' = [deletion EXCEPT ![d] = r]
    <2>1. CASE pc = "done" /\ Answer(d, answer)
      BY <1>1, <2>1 DEF Answer
    <2>2. CASE deletion' = [deletion EXCEPT ![d].pc = pc] /\ answer = deletion[d].answer
      <3>1. [deletion[d] EXCEPT !.pc = pc] = r
        BY <1>1, <2>2 DEF DeleteRec
      <3> QED
        BY <1>1, <2>2, <3>1
    <2> QED
      BY <2>1, <2>2
  <1> HIDE DEF r
  <1>4. /\ deletion' \in [Deletes -> DeleteRec] /\ deletion'[d] = r
        /\ \A e \in Deletes \ {d} : deletion'[e] = deletion[e]
    BY <1>1, <1>2, <1>3
  <1> QED
    BY <1>2, <1>4 DEF DeleteGoto

CancelEffect(d) ==
    /\ deletion[d].pc = "found" /\ DeleteGoto(d, "detached", "none")
    /\ active' \in [Tasks -> SUBSET Photos]
    /\ active'[deletion[d].task] = active[deletion[d].task] \ {deletion[d].photo}
    /\ \A t \in Tasks \ {deletion[d].task} : active'[t] = active[t]
    /\ cancelled \subseteq cancelled' /\ cancelled' \subseteq Photos
    /\ deletion[d].photo \in active[deletion[d].task] => deletion[d].photo \in cancelled'
    /\ \A p \in Photos \ {deletion[d].photo} : p \in cancelled' <=> p \in cancelled
    /\ FaultStep
    /\ UNCHANGED <<counter, record, file, post, upload, unwritten>>

EraseEffect(d) ==
    /\ deletion[d].pc \in {"detached", "unfiled"}
    /\ \/ /\ deletion[d].pc = "detached" /\ DeleteGoto(d, "unfiled", "none")
          /\ file' = file \ {deletion[d].photo} /\ record' = record
       \/ /\ deletion[d].pc = "unfiled" /\ DeleteGoto(d, "done", "deleted")
          /\ file' = file /\ record'[deletion[d].photo] = "absent"
       \/ DeleteGoto(d, "done", "error") /\ ~Faultless'
    /\ file' \in {file, file \ {deletion[d].photo}}
    /\ record' \in [Photos -> Statuses]
    /\ record'[deletion[d].photo] \in {record[deletion[d].photo], "absent"}
    /\ \A p \in Photos \ {deletion[d].photo} : record'[p] = record[p]
    /\ FaultStep
    /\ UNCHANGED <<counter, active, cancelled, post, upload, unwritten>>

NamedOK ==
    \A d \in Deletes :
        /\ deletion[d].pc # "done" => deletion[d].answer = "none"
        /\ deletion[d].pc \notin {"absent", "idle"} /\ deletion[d].answer # "unread"
              => deletion[d].photo \in Accepted

LEMMA DeleteFacts ==
  ASSUME TypeInv, NamedOK, NEW d \in Deletes, DeleteStep(d)
  PROVE  CancelEffect(d) \/ EraseEffect(d)
  <1> DEFINE p == deletion[d].photo
  <1>1. /\ TypeOK /\ p \in Photos /\ deletion[d].task \in Tasks
        /\ active \in [Tasks -> SUBSET Photos] /\ cancelled \subseteq Photos
        /\ record \in [Photos -> Statuses] /\ FaultsOK
        /\ deletion[d].pc # "done" => deletion[d].answer = "none"
    BY TypeParts DEF TypeInv, NamedOK, DeleteRec
  <1>2. /\ DeleteItem(record, p) \in [Photos -> Statuses] /\ DeleteItem(record, p)[p] = "absent"
        /\ \A q \in Photos \ {p} : DeleteItem(record, p)[q] = record[q]
    BY <1>1 DEF DeleteItem, Statuses
  <1>3. CASE CancelUpload(d)
    <2>1. DeleteGoto(d, "detached", "none")
      BY <1>1, <1>3, DeleteGotoFacts DEF CancelUpload
    <2>2. FaultStep
      BY <1>1, <1>3, FailsFacts DEF CancelUpload
    <2>3. /\ active' \in [Tasks -> SUBSET Photos]
          /\ active'[deletion[d].task] = active[deletion[d].task] \ {p}
          /\ \A t \in Tasks \ {deletion[d].task} : active'[t] = active[t]
      BY <1>1, <1>3 DEF CancelUpload
    <2>4. CancelEffect(d)
      BY <1>1, <1>3, <2>1, <2>2, <2>3 DEF CancelUpload, CancelEffect
    <2> QED
      BY <2>4
  <1>4. CASE DeleteFile(d)
    <2>1. DeleteGoto(d, "unfiled", "none") /\ FaultStep
      BY <1>1, <1>4, DeleteGotoFacts, FailsFacts DEF DeleteFile
    <2> QED
      BY <1>1, <1>4, <2>1 DEF DeleteFile, EraseEffect
  <1>5. CASE DeleteFileFails(d)
    <2>1. DeleteGoto(d, "done", "error") /\ FaultStep /\ ~Faultless'
      BY <1>1, <1>5, DeleteGotoFacts, FailsFacts DEF DeleteFileFails
    <2> QED
      BY <1>1, <1>5, <2>1 DEF DeleteFileFails, EraseEffect
  <1>6. CASE DeleteRecord(d)
    <2>1. DeleteGoto(d, "done", "deleted") /\ FaultStep
      BY <1>1, <1>6, DeleteGotoFacts, FailsFacts DEF DeleteRecord
    <2> QED
      BY <1>1, <1>2, <1>6, <2>1 DEF DeleteRecord, EraseEffect
  <1>7. CASE DeleteRecordFails(d)
    <2>1. DeleteGoto(d, "done", "error") /\ FaultStep /\ ~Faultless'
      BY <1>1, <1>7, DeleteGotoFacts, FailsFacts DEF DeleteRecordFails
    <2> QED
      BY <1>1, <1>2, <1>7, <2>1 DEF DeleteRecordFails, EraseEffect
  <1> QED
    BY <1>3, <1>4, <1>5, <1>6, <1>7 DEF DeleteStep, Deleting

\* The exit of a task ends its requests and kills its uploads.
Cut(new, old) == \/ new = old
                 \/ old.pc \notin {"absent", "idle", "done"} /\ new.pc = "done"

ExitEffect(t) ==
    /\ post' \in [Photos -> PostRec]
    /\ \A p \in Photos : /\ Cut(post'[p], post[p])
                         /\ post'[p].answer = post[p].answer /\ post'[p].task = post[p].task
                         /\ post'[p].album = post[p].album /\ post'[p].seq = post[p].seq
                         /\ post'[p].before = post[p].before
    /\ deletion' \in [Deletes -> DeleteRec]
    /\ \A d \in Deletes : /\ Cut(deletion'[d], deletion[d])
                          /\ deletion'[d].answer = deletion[d].answer
                          /\ deletion'[d].photo = deletion[d].photo
    /\ upload' \in [Photos -> UploadPC]
    /\ \A p \in Photos : \/ upload'[p] = upload[p]
                         \/ upload'[p] = "killed" /\ upload[p] # "none" /\ post[p].task = t
    /\ active' \in [Tasks -> SUBSET Photos]
    /\ active'[t] = {}
    /\ \A u \in Tasks \ {t} : active'[u] = active[u]
    /\ FaultStep /\ ~Faultless'
    /\ UNCHANGED <<counter, record, file, cancelled, unwritten>>

LEMMA ExitFacts ==
  ASSUME TypeInv, NEW t \in Tasks, Exit(t)
  PROVE  ExitEffect(t)
  <1>1. /\ post \in [Photos -> PostRec] /\ deletion \in [Deletes -> DeleteRec]
        /\ upload \in [Photos -> UploadPC] /\ active \in [Tasks -> SUBSET Photos]
    BY DEF TypeInv, TypeOK
  <1> DEFINE gone(r) == r.task = t /\ r.pc \notin {"absent", "idle", "done"}
  <1>2. ASSUME NEW p \in Photos
        PROVE  LET r == [post[p] EXCEPT !.pc = "done"] IN
               /\ r \in PostRec /\ r.pc = "done" /\ r.answer = post[p].answer
               /\ r.task = post[p].task /\ r.album = post[p].album
               /\ r.seq = post[p].seq /\ r.before = post[p].before
    BY <1>1 DEF PostRec
  <1>3. ASSUME NEW d \in Deletes
        PROVE  LET r == [deletion[d] EXCEPT !.pc = "done"] IN
               /\ r \in DeleteRec /\ r.pc = "done" /\ r.answer = deletion[d].answer
               /\ r.photo = deletion[d].photo
    BY <1>1 DEF DeleteRec
  <1>4. /\ post' = [p \in Photos |-> IF gone(post[p]) THEN [post[p] EXCEPT !.pc = "done"]
                                     ELSE post[p]]
        /\ deletion' = [d \in Deletes |-> IF gone(deletion[d])
                                          THEN [deletion[d] EXCEPT !.pc = "done"]
                                          ELSE deletion[d]]
    BY DEF Exit
  <1>5. /\ post' \in [Photos -> PostRec]
        /\ \A p \in Photos : /\ Cut(post'[p], post[p])
                             /\ post'[p].answer = post[p].answer /\ post'[p].task = post[p].task
                             /\ post'[p].album = post[p].album /\ post'[p].seq = post[p].seq
                             /\ post'[p].before = post[p].before
    <2> DEFINE r(p) == [post[p] EXCEPT !.pc = "done"]
    <2>1. post' = [p \in Photos |-> IF gone(post[p]) THEN r(p) ELSE post[p]]
      BY <1>4
    <2>2. \A p \in Photos : /\ r(p) \in PostRec /\ r(p).pc = "done"
                            /\ r(p).answer = post[p].answer /\ r(p).task = post[p].task
                            /\ r(p).album = post[p].album /\ r(p).seq = post[p].seq
                            /\ r(p).before = post[p].before
      BY <1>2
    <2>3. \A p \in Photos : gone(post[p]) => post[p].pc \notin {"absent", "idle", "done"}
      OBVIOUS
    <2> HIDE DEF r, gone
    <2> QED
      BY <1>1, <2>1, <2>2, <2>3 DEF Cut
  <1>6. /\ deletion' \in [Deletes -> DeleteRec]
        /\ \A d \in Deletes : /\ Cut(deletion'[d], deletion[d])
                              /\ deletion'[d].answer = deletion[d].answer
                              /\ deletion'[d].photo = deletion[d].photo
    <2> DEFINE r(d) == [deletion[d] EXCEPT !.pc = "done"]
    <2>1. deletion' = [d \in Deletes |-> IF gone(deletion[d]) THEN r(d) ELSE deletion[d]]
      BY <1>4
    <2>2. \A d \in Deletes : /\ r(d) \in DeleteRec /\ r(d).pc = "done"
                             /\ r(d).answer = deletion[d].answer
                             /\ r(d).photo = deletion[d].photo
      BY <1>3
    <2>3. \A d \in Deletes :
             gone(deletion[d]) => deletion[d].pc \notin {"absent", "idle", "done"}
      OBVIOUS
    <2> HIDE DEF r, gone
    <2> QED
      BY <1>1, <2>1, <2>2, <2>3 DEF Cut
  <1>7. /\ upload' \in [Photos -> UploadPC]
        /\ \A p \in Photos : \/ upload'[p] = upload[p]
                             \/ upload'[p] = "killed" /\ upload[p] # "none" /\ post[p].task = t
    BY <1>1 DEF Exit, Running, UploadPC
  <1>8. /\ active' \in [Tasks -> SUBSET Photos] /\ active'[t] = {}
        /\ \A u \in Tasks \ {t} : active'[u] = active[u]
    BY <1>1 DEF Exit
  <1>9. FaultStep /\ ~Faultless'
    BY FaultAssumption DEF Exit, TypeInv, TypeOK, FaultStep, FaultsOK, Faultless
  <1> QED
    BY <1>5, <1>6, <1>7, <1>8, <1>9 DEF Exit, ExitEffect

\* Every step is one of these.
Step == \/ \E p \in Photos : EarlyPost(p) /\ EarlyPostEffect(p)
        \/ \E p \in Photos : AcceptEffect(p)
        \/ \E p \in Photos, pc \in UploadPC : UploadEffect(p, pc)
        \/ \E d \in Deletes : ReadEffect(d) \/ CancelEffect(d) \/ EraseEffect(d)
        \/ \E t \in Tasks : ExitEffect(t)

LEMMA Steps ==
  ASSUME TypeInv, NamedOK, Next
  PROVE  Step
  <1>1. ASSUME NEW p \in Photos, NEW t \in Tasks, NEW a \in Albums,
               IncrementSeq(p, t, a) \/ IncrementSeqFails(p, t, a)
        PROVE  Step
    BY <1>1, EarlyPostFacts DEF EarlyPost, Step
  <1>2. ASSUME NEW p \in Photos, Posting(p) \/ PutPhotoFails(p) PROVE Step
    BY <1>2, EarlyPostFacts, AcceptFacts DEF EarlyPost, Posting, Step
  <1>3. ASSUME NEW p \in Photos, UploadStep(p) PROVE Step
    BY <1>3, UploadFacts DEF Step
  <1>4. ASSUME NEW d \in Deletes,
               \/ \E t \in Tasks, p \in Photos, a \in Albums : ReadRecord(d, t, p, a)
               \/ ReadRecordFails(d)
        PROVE  Step
    BY <1>4, ReadFacts DEF Step
  <1>5. ASSUME NEW d \in Deletes, DeleteStep(d) PROVE Step
    BY <1>5, DeleteFacts DEF Step
  <1>6. ASSUME NEW t \in Tasks, Exit(t) PROVE Step
    BY <1>6, ExitFacts DEF Step
  <1> QED
    BY <1>1, <1>2, <1>3, <1>4, <1>5, <1>6 DEF Next, UploadStep, DeleteStep

\* What a post was told stays: nothing is taken back from an accepted photo.
LEMMA AcceptedStays ==
  ASSUME TypeInv, NEW p \in Accepted, Step
  PROVE  /\ p \in Accepted' /\ post'[p].task = post[p].task /\ post'[p].album = post[p].album
         /\ post'[p].seq = post[p].seq /\ post'[p].before = post[p].before
  <1>1. p \in Photos /\ post[p].answer = "accepted"
    BY DEF Accepted
  <1>2. ASSUME NEW q \in Photos, EarlyPostEffect(q) \/ AcceptEffect(q)
        PROVE  q # p /\ post'[p] = post[p]
    BY <1>1, <1>2 DEF EarlyPostEffect, AcceptEffect
  <1> QED
    BY <1>1, <1>2
    DEF Step, UploadEffect, ReadEffect, CancelEffect, EraseEffect, ExitEffect, Accepted

LEMMA TypeStep ==
  ASSUME TypeInv, NamedOK, [Next]_vars
  PROVE  TypeInv'
  <1>1. /\ TypeOK /\ RegistryOK /\ FaultsOK
        /\ \A p \in Photos : /\ upload[p] # "none" <=> p \in Accepted
                             /\ p \in Accepted => post[p].pc = "done"
                             /\ p \in Running => upload[p] # "none"
    BY TypeParts DEF TypeInv, AcceptedOK, Accepted, Running
  <1>2. ASSUME NEW p \in Photos, EarlyPostEffect(p) PROVE TypeInv'
    <2>1. Accepted' = Accepted /\ AcceptedOK'
      BY <1>1, <1>2 DEF EarlyPostEffect, Accepted, AcceptedOK, TypeInv
    <2>2. RegistryOK'
      BY <1>1, <1>2 DEF EarlyPostEffect, RegistryOK, Running
    <2> QED
      BY <1>1, <1>2, <2>1, <2>2
      DEF EarlyPostEffect, FaultStep, TypeInv, TypeOK, RegistryOK, FaultsOK
  <1>3. ASSUME NEW p \in Photos, AcceptEffect(p) PROVE TypeInv'
    <2>1. Accepted' = Accepted \cup {p} /\ AcceptedOK'
      BY <1>1, <1>3 DEF AcceptEffect, Accepted, AcceptedOK, TypeInv
    <2>2. RegistryOK'
      BY <1>1, <1>3 DEF AcceptEffect, RegistryOK, Running
    <2> QED
      BY <1>1, <1>3, <2>1, <2>2 DEF AcceptEffect, TypeInv, TypeOK, RegistryOK
  <1>4. ASSUME NEW p \in Photos, NEW pc \in UploadPC, UploadEffect(p, pc) PROVE TypeInv'
    <2>1. AcceptedOK'
      BY <1>1, <1>4 DEF UploadEffect, ProceedEffect, Accepted, AcceptedOK, TypeInv
    <2>2. RegistryOK'
      BY <1>1, <1>4 DEF UploadEffect, ProceedEffect, RegistryOK, Running
    <2>3. file' \subseteq Photos /\ unwritten' \subseteq Photos
      BY <1>1, <1>4 DEF UploadEffect, TypeOK
    <2>4. /\ record' \in [Photos -> Statuses] /\ FaultsOK'
          /\ active' \in [Tasks -> SUBSET Photos] /\ upload' \in [Photos -> UploadPC]
          /\ UNCHANGED <<counter, cancelled, post, deletion>>
      BY <1>4 DEF UploadEffect, ProceedEffect, FaultStep
    <2> QED
      BY <1>1, <2>1, <2>2, <2>3, <2>4 DEF TypeInv, TypeOK, RegistryOK, FaultsOK
  <1>5. ASSUME NEW d \in Deletes, ReadEffect(d) PROVE TypeInv'
    <2>1. AcceptedOK' /\ RegistryOK'
      BY <1>1, <1>5 DEF ReadEffect, Accepted, AcceptedOK, RegistryOK, Running, TypeInv
    <2> QED
      BY <1>1, <1>5, <2>1 DEF ReadEffect, FaultStep, TypeInv, TypeOK, RegistryOK, FaultsOK
  <1>6. ASSUME NEW d \in Deletes, CancelEffect(d) \/ EraseEffect(d) PROVE TypeInv'
    <2>1. AcceptedOK' /\ RegistryOK'
      BY <1>1, <1>6
      DEF CancelEffect, EraseEffect, Accepted, AcceptedOK, RegistryOK, Running, TypeInv
    <2> QED
      BY <1>1, <1>6, <2>1
      DEF CancelEffect, EraseEffect, DeleteGoto, FaultStep, TypeInv, TypeOK, RegistryOK, FaultsOK
  <1>7. ASSUME NEW t \in Tasks, ExitEffect(t) PROVE TypeInv'
    <2>1. AcceptedOK'
      BY <1>1, <1>7 DEF ExitEffect, Cut, Accepted, AcceptedOK, TypeInv
    <2>2. RegistryOK'
      BY <1>1, <1>7 DEF ExitEffect, RegistryOK, Running
    <2> QED
      BY <1>1, <1>7, <2>1, <2>2 DEF ExitEffect, FaultStep, TypeInv, TypeOK, RegistryOK, FaultsOK
  <1>8. CASE UNCHANGED vars
    BY <1>1, <1>8 DEF vars, TypeInv, TypeOK, AcceptedOK, Accepted, Running
  <1> QED
    BY <1>2, <1>3, <1>4, <1>5, <1>6, <1>7, <1>8, Steps DEF Step

\* Deletes name accepted photos only.
LEMMA NamedInit == Init => NamedOK
  BY DEF Init, NamedOK

LEMMA NamedStep ==
  ASSUME TypeInv, NamedOK, [Next]_vars
  PROVE  NamedOK'
  <1>1. ASSUME Step PROVE Accepted \subseteq Accepted'
    BY <1>1, AcceptedStays
  <1>2. ASSUME Step, UNCHANGED deletion PROVE NamedOK'
    BY <1>1, <1>2 DEF NamedOK
  <1>3. ASSUME NEW d \in Deletes, ReadEffect(d) PROVE NamedOK'
    BY <1>1, <1>3 DEF ReadEffect, NamedOK, Step
  <1>4. ASSUME NEW d \in Deletes, CancelEffect(d) PROVE NamedOK'
    BY <1>1, <1>4 DEF CancelEffect, DeleteGoto, NamedOK, Step
  <1>5. ASSUME NEW d \in Deletes, EraseEffect(d) PROVE NamedOK'
    BY <1>1, <1>5 DEF EraseEffect, DeleteGoto, NamedOK, Step
  <1>6. ASSUME NEW t \in Tasks, ExitEffect(t) PROVE NamedOK'
    BY <1>1, <1>6 DEF ExitEffect, Cut, NamedOK, Step
  <1>7. CASE UNCHANGED vars
    BY <1>7 DEF vars, NamedOK, Accepted
  <1> QED
    BY <1>2, <1>3, <1>4, <1>5, <1>6, <1>7, Steps
    DEF Step, EarlyPostEffect, AcceptEffect, UploadEffect

TypedInv == TypeInv /\ NamedOK

LEMMA TypedAlways == Spec => []TypedInv
  <1>1. Init => TypedInv
    BY TypeInit, NamedInit DEF TypedInv
  <1>2. TypedInv /\ [Next]_vars => TypedInv'
    BY TypeStep, NamedStep DEF TypedInv
  <1> QED
    BY <1>1, <1>2, PTL DEF Spec

\* Every variable keeps its type, and a task's activeUploads holds only running
\* uploads of that task (PostPhoto, DeletePhoto, the upload goroutines).
THEOREM TypeCorrect == Spec => []TypeOK
  <1>1. TypedInv => TypeOK
    BY DEF TypedInv, TypeInv
  <1> QED
    BY <1>1, TypedAlways, PTL

-----------------------------------------------------------------------------
(* Numbers.  A photo's number is at most its album's counter, and the       *)
(* counter only grows: the next number is above every number given out.     *)

SeqInv ==
    /\ \A p \in Photos :
          /\ post[p].pc \in {"absent", "idle"} => post[p].seq = 0
          /\ post[p].pc \in {"numbered", "stored"} \/ p \in Accepted => post[p].seq > 0
          /\ post[p].seq > 0 => post[p].seq <= counter[post[p].album]
          /\ post[p].before \subseteq Accepted
    /\ SeqFollowsRealTime

LEMMA SeqInit == Init => SeqInv
  <1> SUFFICES ASSUME Init PROVE SeqInv
    OBVIOUS
  <1>1. \A p \in Photos : /\ post[p].seq = 0 /\ post[p].answer = "none" /\ post[p].before = {}
                          /\ post[p].pc \in {"absent", "idle"}
    BY DEF Init
  <1> QED
    BY <1>1 DEF SeqInv, SeqFollowsRealTime, Accepted

\* The steps that give no number.
LEMMA SeqKept ==
  ASSUME TypedInv, SeqInv, Step,
         \A p \in Photos : /\ post'[p].seq = post[p].seq /\ post'[p].album = post[p].album
                           /\ post'[p].before = post[p].before
                           /\ post'[p].pc \in {"absent", "idle"} => post'[p].pc = post[p].pc
                           /\ post'[p].pc \in {"numbered", "stored"} \/ p \in Accepted' =>
                                 post[p].pc \in {"numbered", "stored"} \/ p \in Accepted,
         \A a \in Albums : counter'[a] \in Nat /\ counter'[a] >= counter[a]
  PROVE  SeqInv'
  <1>1. \A p \in Photos : post[p].album \in Albums /\ post[p].seq \in Nat
    BY DEF TypedInv, TypeInv, TypeOK, PostRec
  <1>2. \A a \in Albums : counter[a] \in Nat
    BY DEF TypedInv, TypeInv, TypeOK
  <1>3. Accepted \subseteq Accepted'
    BY AcceptedStays DEF TypedInv
  <1>4. SeqFollowsRealTime'
    BY DEF SeqInv, SeqFollowsRealTime
  <1> QED
    BY <1>1, <1>2, <1>3, <1>4 DEF SeqInv

LEMMA IncrementSeqOK ==
  ASSUME TypedInv, SeqInv, NEW p \in Photos, NEW t \in Tasks, NEW a \in Albums,
         IncrementSeq(p, t, a)
  PROVE  SeqInv'
  <1>1. TypeOK
    BY DEF TypedInv, TypeInv
  <1>2. /\ post'[p].pc = "numbered" /\ post'[p].album = a
        /\ post'[p].seq = counter[a] + 1 /\ post'[p].before = Accepted
        /\ \A q \in Photos \ {p} : post'[q] = post[q]
        /\ counter'[a] = counter[a] + 1 /\ \A b \in Albums \ {a} : counter'[b] = counter[b]
    BY <1>1, IncrementFacts
  <1>3. p \notin Accepted /\ post'[p].answer # "accepted"
    BY <1>1, IncrementFacts DEF TypedInv, TypeInv, AcceptedOK, Accepted, IncrementSeq
  <1>4. /\ \A q \in Photos : post[q].album \in Albums /\ post[q].seq \in Nat
        /\ \A b \in Albums : counter[b] \in Nat
    BY <1>1 DEF TypeOK, PostRec
  <1>5. Accepted' = Accepted
    BY <1>2, <1>3 DEF Accepted
  <1>6. ASSUME NEW q \in Photos
        PROVE  /\ post'[q].pc \in {"absent", "idle"} => post'[q].seq = 0
               /\ post'[q].pc \in {"numbered", "stored"} \/ q \in Accepted' => post'[q].seq > 0
               /\ post'[q].seq > 0 => post'[q].seq <= counter'[post'[q].album]
               /\ post'[q].before \subseteq Accepted'
    <2>1. CASE q = p
      BY <1>2, <1>4, <1>5, <2>1
    <2>2. CASE q # p
      BY <1>2, <1>4, <1>5, <2>2 DEF SeqInv
    <2> QED
      BY <2>1, <2>2
  <1>7. ASSUME NEW q \in Photos, NEW o \in Photos, post'[q].seq > 0, post'[o].seq > 0, q # o,
               post'[q].album = post'[o].album
        PROVE  /\ post'[q].seq # post'[o].seq
               /\ o \in post'[q].before => post'[o].seq < post'[q].seq
    <2>1. CASE q = p
      <3>1. post'[o] = post[o] /\ post[o].album = a /\ post[o].seq > 0
        BY <1>2, <1>7, <2>1
      <3>2. post[o].seq <= counter[a]
        BY <3>1 DEF SeqInv
      <3> QED
        BY <1>2, <1>4, <2>1, <3>1, <3>2
    <2>2. CASE o = p
      <3>1. post'[q] = post[q] /\ post[q].album = a /\ post[q].seq > 0
        BY <1>2, <1>7, <2>2
      <3>2. post[q].seq <= counter[a] /\ o \notin post[q].before
        BY <1>3, <2>2, <3>1 DEF SeqInv
      <3> QED
        BY <1>2, <1>4, <2>2, <3>1, <3>2
    <2>3. CASE q # p /\ o # p
      BY <1>2, <1>7, <2>3 DEF SeqInv, SeqFollowsRealTime
    <2> QED
      BY <2>1, <2>2, <2>3
  <1> QED
    BY <1>6, <1>7 DEF SeqInv, SeqFollowsRealTime

LEMMA SeqStep ==
  ASSUME TypedInv, SeqInv, [Next]_vars
  PROVE  SeqInv'
  <1>1. /\ TypeOK /\ TypeInv /\ NamedOK
        /\ \A a \in Albums : counter[a] \in Nat /\ counter[a] >= counter[a]
        /\ \A p \in Photos : p \in Accepted => post[p].answer = "accepted"
    BY DEF TypedInv, TypeInv, TypeOK, Accepted
  <1>2. CASE post' = post /\ counter' = counter /\ Step
    BY <1>1, <1>2, SeqKept DEF Accepted
  <1>3. ASSUME NEW p \in Photos, EarlyPost(p), EarlyPostEffect(p) PROVE SeqInv'
    <2>1. CASE \E t \in Tasks, a \in Albums : IncrementSeq(p, t, a)
      BY <2>1, IncrementSeqOK
    <2>2. ASSUME PutPhoto(p) \/ PutPhotoFails(p)
                 \/ \E t \in Tasks, a \in Albums : IncrementSeqFails(p, t, a)
          PROVE  SeqInv'
      <3>1. \A a \in Albums : counter'[a] \in Nat /\ counter'[a] >= counter[a]
        BY <1>1, <2>2 DEF PutPhoto, PutPhotoFails, IncrementSeqFails, NextSeq, TypeOK
      <3>2. PICK pc \in {"stored", "done"}, answer \in {"none", "accepted", "error"} :
               /\ \/ post' = [post EXCEPT ![p].pc = pc, ![p].answer = answer]
                  \/ post' = [post EXCEPT ![p].pc = pc] /\ answer = post[p].answer
               /\ pc = "stored" => post[p].pc = "numbered"
        <4>1. CASE PutPhoto(p)
          <5>1. post[p].answer = "none"
            BY <4>1 DEF PutPhoto, TypedInv, TypeInv, AcceptedOK
          <5> QED
            BY <4>1, <5>1 DEF PutPhoto
        <4>2. CASE post' = [post EXCEPT ![p].pc = "done", ![p].answer = "error"]
          BY <4>2
        <4> QED
          BY <2>2, <4>1, <4>2 DEF PutPhotoFails, IncrementSeqFails
      <3>3. /\ post'[p].pc = pc /\ post'[p].answer = answer
            /\ post'[p].seq = post[p].seq /\ post'[p].album = post[p].album
            /\ post'[p].before = post[p].before
            /\ \A q \in Photos \ {p} : post'[q] = post[q]
        <4>1. TypeOK
          BY <1>1
        <4> QED
          BY <3>2, <4>1, PostGotoFacts
      <3>4. p \notin Accepted'
        BY <1>3 DEF EarlyPostEffect, Accepted
      <3>5. ASSUME NEW q \in Photos
            PROVE  /\ post'[q].seq = post[q].seq /\ post'[q].album = post[q].album
                   /\ post'[q].before = post[q].before
                   /\ post'[q].pc \in {"absent", "idle"} => post'[q].pc = post[q].pc
                   /\ post'[q].pc \in {"numbered", "stored"} \/ q \in Accepted' =>
                         post[q].pc \in {"numbered", "stored"} \/ q \in Accepted
        <4>1. CASE q = p
          BY <3>2, <3>3, <3>4, <4>1
        <4>2. CASE q # p
          BY <3>3, <4>2 DEF Accepted
        <4> QED
          BY <4>1, <4>2
      <3>6. Step
        BY <1>3 DEF Step
      <3> QED
        BY <3>1, <3>5, <3>6, SeqKept
    <2> QED
      BY <1>3, <2>1, <2>2 DEF EarlyPost
  <1>4. ASSUME NEW p \in Photos, AcceptEffect(p) PROVE SeqInv'
    BY <1>1, <1>4, SeqKept DEF AcceptEffect, Accepted, Step
  <1>5. ASSUME NEW t \in Tasks, ExitEffect(t) PROVE SeqInv'
    BY <1>1, <1>5, SeqKept DEF ExitEffect, Cut, Accepted, Step
  <1>6. CASE UNCHANGED vars
    BY <1>6 DEF vars, SeqInv, SeqFollowsRealTime, Accepted
  <1> QED
    BY <1>1, <1>2, <1>3, <1>4, <1>5, <1>6, Steps
    DEF Step, UploadEffect, ReadEffect, CancelEffect, EraseEffect

\* Numbers of an album are unique and follow real time, whatever was deleted or
\* failed in between (IncrementSeq).
THEOREM NumbersFollowRealTime == Spec => []SeqFollowsRealTime
  <1>1. TypedInv /\ TypedInv' /\ SeqInv /\ [Next]_vars => SeqInv'
    BY SeqStep
  <1>2. Spec => []SeqInv
    BY <1>1, SeqInit, TypedAlways, PTL DEF Spec
  <1>3. SeqInv => SeqFollowsRealTime
    BY DEF SeqInv
  <1> QED
    BY <1>2, <1>3, PTL

-----------------------------------------------------------------------------
(* A deleted photo.  Its record was there once its post was answered, so    *)
(* nothing writes it again; a status update does not bring it back.         *)

LEMMA DeletedInit == Init => DeletedStaysDeleted
  BY DEF Init, DeletedStaysDeleted

LEMMA DeletedStep ==
  ASSUME TypedInv, DeletedStaysDeleted, [Next]_vars
  PROVE  DeletedStaysDeleted'
  <1>1. /\ TypeInv /\ NamedOK
        /\ \A d \in Deletes : /\ deletion[d].photo \in Photos
                              /\ deletion[d].answer = "deleted" =>
                                    /\ deletion[d].pc = "done" /\ deletion[d].photo \in Accepted
                                    /\ record[deletion[d].photo] = "absent"
    BY DEF TypedInv, TypeInv, TypeOK, NamedOK, DeleteRec, DeletedStaysDeleted
  <1>2. ASSUME NEW p \in Photos, EarlyPostEffect(p) PROVE DeletedStaysDeleted'
    BY <1>1, <1>2 DEF EarlyPostEffect, DeletedStaysDeleted
  <1>3. ASSUME NEW p \in Photos, NEW pc \in UploadPC, UploadEffect(p, pc)
        PROVE  DeletedStaysDeleted'
    BY <1>1, <1>3 DEF UploadEffect, DeletedStaysDeleted
  <1>4. ASSUME NEW d \in Deletes, ReadEffect(d) PROVE DeletedStaysDeleted'
    BY <1>1, <1>4 DEF ReadEffect, DeletedStaysDeleted
  <1>5. ASSUME NEW d \in Deletes, CancelEffect(d) PROVE DeletedStaysDeleted'
    BY <1>1, <1>5 DEF CancelEffect, DeleteGoto, DeletedStaysDeleted
  <1>6. ASSUME NEW d \in Deletes, EraseEffect(d) PROVE DeletedStaysDeleted'
    BY <1>1, <1>6 DEF EraseEffect, DeleteGoto, DeletedStaysDeleted
  <1>7. ASSUME NEW t \in Tasks, ExitEffect(t) PROVE DeletedStaysDeleted'
    BY <1>1, <1>7 DEF ExitEffect, DeletedStaysDeleted
  <1>8. CASE UNCHANGED <<record, deletion>>
    BY <1>8 DEF DeletedStaysDeleted
  <1> QED
    BY <1>1, <1>2, <1>3, <1>4, <1>5, <1>6, <1>7, <1>8, Steps DEF Step, AcceptEffect, vars

\* After a delete was answered 200 the record never comes back, whatever uploads
\* of the photo are still running (UpdatePhotoStatus, DeletePhoto).
THEOREM DeletesAreFinal == Spec => []DeletedStaysDeleted
  <1>1. TypedInv /\ TypedInv' /\ DeletedStaysDeleted /\ [Next]_vars => DeletedStaysDeleted'
    BY DeletedStep
  <1> QED
    BY <1>1, DeletedInit, TypedAlways, PTL DEF Spec

-----------------------------------------------------------------------------
(* A completed photo.  Between the upload of the file and the end of the    *)
(* update the file is there, unless a delete got to it.                     *)

LEMMA DeletesGrow ==
  ASSUME TypedInv, Step, NEW p \in Photos, NEW d \in DeletesOf(p)
  PROVE  /\ d \in DeletesOf(p)'
         /\ deletion[d].pc \in {"unfiled", "done"} => deletion'[d].pc \in {"unfiled", "done"}
         /\ deletion[d].pc = "done" => deletion'[d] = deletion[d]
  <1>1. /\ d \in Deletes /\ deletion[d].pc \notin {"absent", "idle"}
        /\ deletion[d].answer \notin {"unread", "notfound"} /\ deletion[d].photo = p
    BY DEF DeletesOf
  <1>2. ASSUME deletion'[d] = deletion[d] PROVE d \in DeletesOf(p)'
    BY <1>1, <1>2 DEF DeletesOf
  <1>3. ASSUME NEW e \in Deletes, ReadEffect(e) PROVE deletion'[d] = deletion[d]
    BY <1>1, <1>3 DEF ReadEffect
  <1>4. ASSUME NEW e \in Deletes, CancelEffect(e) \/ EraseEffect(e), e # d
        PROVE  deletion'[d] = deletion[d]
    BY <1>1, <1>4 DEF CancelEffect, EraseEffect, DeleteGoto
  <1>5. ASSUME CancelEffect(d) \/ EraseEffect(d)
        PROVE  /\ d \in DeletesOf(p)' /\ deletion[d].pc # "done"
               /\ deletion[d].pc = "unfiled" => deletion'[d].pc = "done"
    BY <1>1, <1>5 DEF CancelEffect, EraseEffect, DeleteGoto, DeletesOf
  <1>6. ASSUME NEW t \in Tasks, ExitEffect(t)
        PROVE  /\ d \in DeletesOf(p)'
               /\ \/ deletion'[d] = deletion[d]
                  \/ deletion[d].pc # "done" /\ deletion'[d].pc = "done"
    BY <1>1, <1>6 DEF ExitEffect, Cut, DeletesOf
  <1>7. CASE UNCHANGED deletion
    BY <1>2, <1>7
  <1> QED
    BY <1>2, <1>3, <1>4, <1>5, <1>6, <1>7 DEF Step, EarlyPostEffect, AcceptEffect, UploadEffect

Excused(p) ==
    \/ \E d \in DeletesOf(p) : deletion[d].pc \in {"unfiled", "done"}
    \/ p \in unwritten

CompletedInv ==
    \A p \in Photos :
        /\ record[p] = "completed" \/ upload[p] \in {"uploaded", "completing"}
              => p \in file \/ Excused(p)
        /\ record[p] = "completed" => upload[p] \in {"ended", "killed"} \/ p \in unwritten

LEMMA CompletedInit == Init => CompletedInv
  BY DEF Init, CompletedInv

LEMMA ExcusedStays ==
  ASSUME TypedInv, Step, NEW p \in Photos, Excused(p)
  PROVE  Excused(p)'
  <1>1. unwritten \subseteq unwritten'
    BY DEF Step, EarlyPostEffect, AcceptEffect, UploadEffect, ReadEffect, CancelEffect,
           EraseEffect, ExitEffect
  <1> QED
    BY <1>1, DeletesGrow DEF Excused

LEMMA CompletedStep ==
  ASSUME TypedInv, CompletedInv, [Next]_vars
  PROVE  CompletedInv'
  <1>1. /\ TypeInv /\ NamedOK /\ TypeOK
        /\ \A d \in Deletes : deletion[d].photo \in Photos
        /\ \A p \in Photos : p \in Accepted <=> upload[p] # "none"
    BY DEF TypedInv, TypeInv, TypeOK, DeleteRec, AcceptedOK
  <1>2. ASSUME Step PROVE \A p \in Photos : Excused(p) => Excused(p)'
    BY <1>2, ExcusedStays
  <1>4. ASSUME NEW p \in Photos, EarlyPostEffect(p), EarlyPost(p) PROVE CompletedInv'
    <2>1. Step
      BY <1>4 DEF Step
    <2>2. \A q \in Photos : record'[q] = "completed" => record[q] = "completed"
      BY <1>4 DEF EarlyPostEffect
    <2> QED
      BY <1>2, <1>4, <2>1, <2>2 DEF EarlyPostEffect, CompletedInv
  <1>5. ASSUME NEW p \in Photos, AcceptEffect(p) PROVE CompletedInv'
    <2>1. Step
      BY <1>5 DEF Step
    <2> QED
      BY <1>2, <1>5, <2>1 DEF AcceptEffect, CompletedInv
  <1>6. ASSUME NEW p \in Photos, NEW pc \in UploadPC, UploadEffect(p, pc) PROVE CompletedInv'
    <2>1. Step /\ p \in Running
      BY <1>6 DEF Step, UploadEffect, ProceedEffect
    <2>2. upload'[p] = pc /\ \A q \in Photos \ {p} : upload'[q] = upload[q]
      BY <1>6 DEF UploadEffect, ProceedEffect
    <2>3. record[p] = "completed" => p \in unwritten
      BY <2>1 DEF CompletedInv, Running
    <2>4. record'[p] = "completed" => \/ pc = "ended" /\ upload[p] = "completing"
                                     \/ p \in unwritten'
      BY <1>6, <2>3 DEF UploadEffect
    <2>5. pc = "completing" => upload[p] = "uploaded"
      BY <1>6 DEF UploadEffect, NextPC
    <2>6. upload[p] \in {"uploaded", "completing"} => p \in file' \/ Excused(p)'
      BY <1>2, <1>6, <2>1 DEF UploadEffect, CompletedInv
    <2>7. pc = "uploaded" => p \in file'
      BY <1>6 DEF UploadEffect
    <2>8. p \in unwritten' => Excused(p)'
      BY DEF Excused
    <2>9. ASSUME NEW q \in Photos \ {p}
          PROVE  /\ record'[q] = record[q] /\ (q \in file' <=> q \in file)
                 /\ (q \in unwritten' <=> q \in unwritten)
      BY <1>6 DEF UploadEffect
    <2> QED
      BY <1>2, <2>1, <2>2, <2>4, <2>5, <2>6, <2>7, <2>8, <2>9 DEF CompletedInv
  <1>7. ASSUME NEW d \in Deletes, ReadEffect(d) \/ CancelEffect(d) PROVE CompletedInv'
    <2>1. Step
      BY <1>7 DEF Step
    <2> QED
      BY <1>2, <1>7, <2>1 DEF ReadEffect, CancelEffect, CompletedInv
  <1>8. ASSUME NEW d \in Deletes, EraseEffect(d) PROVE CompletedInv'
    <2>1. Step
      BY <1>8 DEF Step
    <2>0. PICK p \in Photos : p = deletion[d].photo
      BY <1>1
    <2>2. Excused(p)'
      BY <1>1, <1>8, <2>0 DEF EraseEffect, DeleteGoto, DeletesOf, Excused
    <2>3. \A q \in Photos : record'[q] = "completed" => record[q] = "completed"
      BY <1>8 DEF EraseEffect
    <2>4. \A q \in Photos \ {p} : (q \in file') <=> (q \in file)
      BY <1>8, <2>0 DEF EraseEffect
    <2>5. UNCHANGED <<upload, unwritten>>
      BY <1>8 DEF EraseEffect
    <2>6. ASSUME NEW q \in Photos
          PROVE  record'[q] = "completed" \/ upload'[q] \in {"uploaded", "completing"}
                    => q \in file' \/ Excused(q)'
      <3>1. Excused(q) => Excused(q)'
        BY <1>2, <2>1
      <3>2. CASE q = p
        BY <2>2, <3>2
      <3>3. CASE q # p
        BY <2>3, <2>4, <2>5, <3>1, <3>3 DEF CompletedInv
      <3> QED
        BY <3>2, <3>3
    <2>7. ASSUME NEW q \in Photos
          PROVE  record'[q] = "completed" =>
                    upload'[q] \in {"ended", "killed"} \/ q \in unwritten'
      BY <2>3, <2>5 DEF CompletedInv
    <2> QED
      BY <2>6, <2>7 DEF CompletedInv
  <1>9. ASSUME NEW t \in Tasks, ExitEffect(t) PROVE CompletedInv'
    <2>1. Step
      BY <1>9 DEF Step
    <2> QED
      BY <1>2, <1>9, <2>1 DEF ExitEffect, CompletedInv
  <1>10. CASE UNCHANGED vars
    BY <1>10 DEF vars, CompletedInv, Excused, DeletesOf
  <1> QED
    BY <1>1, <1>4, <1>5, <1>6, <1>7, <1>8, <1>9, <1>10, Steps DEF Step

\* A record says completed only while the file exists, unless a delete got as far
\* as the file, a task exited during a delete or the update reported an error
\* (uploadSmallPhotoAsync).
THEOREM CompletedPhotosHaveFiles == Spec => []CompletedHasFile
  <1>1. TypedInv /\ TypedInv' /\ CompletedInv /\ [Next]_vars => CompletedInv'
    BY CompletedStep
  <1>2. CompletedInv => CompletedHasFile
    BY DEF CompletedInv, CompletedHasFile, Excused
  <1> QED
    BY <1>1, <1>2, CompletedInit, TypedAlways, PTL DEF Spec

-----------------------------------------------------------------------------
(* What a delete leaves when nothing failed and no task exited.  The upload *)
(* of a photo whose deletes ran on its own task is registered until it is   *)
(* cancelled; once the file was deleted, a file that comes back is cleaned  *)
(* up by the goroutine that put it there.                                   *)

Local(p) == \A d \in DeletesOf(p) : deletion[d].task = post[p].task

Registered(p) == p \in Running \ cancelled => p \in active[post[p].task]

Detached(p) ==
    \A d \in DeletesOf(p) :
        /\ deletion[d].pc # "found" => p \in cancelled \/ p \notin Running
        /\ deletion[d].pc \in {"unfiled", "done"} =>
              p \notin file \/ upload[p] \in {"uploaded", "cleaning"}

HasRecord(p) ==
    /\ post[p].pc = "stored" => record[p] # "absent"
    /\ p \in Accepted /\ record[p] = "absent" =>
          \E d \in DeletesOf(p) : deletion[d].answer = "deleted"

OrphanInv ==
    Faultless => \A p \in Photos : /\ HasRecord(p)
                                   /\ p \in file => p \in Accepted
                                   /\ Local(p) => Registered(p) /\ Detached(p)

LEMMA OrphanInit == Init => OrphanInv
  <1> SUFFICES ASSUME Init PROVE OrphanInv
    OBVIOUS
  <1>1. \A p \in Photos : /\ post[p].pc # "stored" /\ post[p].answer = "none"
                          /\ upload[p] = "none" /\ p \notin file
    BY DEF Init
  <1>2. \A d \in Deletes : deletion[d].pc \in {"absent", "idle"}
    BY DEF Init
  <1> QED
    BY <1>1, <1>2
    DEF OrphanInv, HasRecord, Registered, Detached, Accepted, Running, DeletesOf

LEMMA DeletedGrows ==
  ASSUME TypedInv, Step, NEW p \in Photos,
         \E d \in DeletesOf(p) : deletion[d].answer = "deleted"
  PROVE  \E d \in DeletesOf(p)' : deletion'[d].answer = "deleted"
  <1>1. PICK d \in DeletesOf(p) : deletion[d].answer = "deleted"
    OBVIOUS
  <1>2. deletion[d].pc = "done"
    BY <1>1 DEF TypedInv, NamedOK, DeletesOf
  <1> QED
    BY <1>1, <1>2, DeletesGrow

\* A photo with deletes was accepted, and its deletes on other tasks stay.
LEMMA LocalBefore ==
  ASSUME TypedInv, Step, Faultless', NEW p \in Photos, Local(p)'
  PROVE  Local(p)
  <1> SUFFICES ASSUME NEW d \in DeletesOf(p) PROVE deletion[d].task = post[p].task
    BY DEF Local
  <1>1. /\ d \in Deletes /\ deletion[d].pc \notin {"absent", "idle"}
        /\ deletion[d].photo = p /\ p \in Accepted
    BY DEF DeletesOf, TypedInv, NamedOK
  <1>2. d \in DeletesOf(p)' /\ post'[p].task = post[p].task
    BY <1>1, DeletesGrow, AcceptedStays DEF TypedInv
  <1>3. deletion'[d].task = deletion[d].task
    <2>1. ASSUME NEW e \in Deletes, ReadEffect(e) PROVE deletion'[d] = deletion[d]
      BY <1>1, <2>1 DEF ReadEffect
    <2>2. ASSUME NEW e \in Deletes, CancelEffect(e) \/ EraseEffect(e)
          PROVE  deletion'[d].task = deletion[d].task
      BY <1>1, <2>2 DEF CancelEffect, EraseEffect, DeleteGoto
    <2> QED
      BY <2>1, <2>2 DEF Step, EarlyPostEffect, AcceptEffect, UploadEffect, ExitEffect
  <1> QED
    BY <1>2, <1>3 DEF Local

\* Steps of a post or an upload leave the other photos as they were.
Untouched(q) ==
    /\ post'[q] = post[q] /\ upload'[q] = upload[q] /\ record'[q] = record[q]
    /\ (q \in file' <=> q \in file) /\ (q \in cancelled' <=> q \in cancelled)
    /\ \A t \in Tasks : q \in active'[t] <=> q \in active[t]

PhotoOK(p) == /\ HasRecord(p)
              /\ p \in file => p \in Accepted
              /\ Local(p) => Registered(p) /\ Detached(p)

LEMMA UntouchedOK ==
  ASSUME TypedInv, UNCHANGED deletion, NEW q \in Photos, Untouched(q), PhotoOK(q)
  PROVE  PhotoOK(q)'
  <1>1. post[q].task \in Tasks
    BY DEF TypedInv, TypeInv, TypeOK, PostRec
  <1>2. /\ q \in Accepted <=> q \in Accepted'
        /\ q \in Running <=> q \in Running'
        /\ DeletesOf(q)' = DeletesOf(q)
    BY DEF Untouched, Accepted, Running, DeletesOf
  <1>3. HasRecord(q)'
    BY <1>2 DEF PhotoOK, HasRecord, Untouched
  <1>4. Local(q)' => Local(q) /\ (Registered(q) => Registered(q)') /\ (Detached(q) => Detached(q)')
    BY <1>1, <1>2 DEF Local, Registered, Detached, Untouched
  <1> QED
    BY <1>2, <1>3, <1>4 DEF PhotoOK, Untouched

\* A photo that was not accepted has neither an upload nor deletes.
LEMMA NotAccepted ==
  ASSUME TypedInv, NEW p \in Photos, p \notin Accepted
  PROVE  upload[p] = "none" /\ DeletesOf(p) = {}
  BY DEF TypedInv, TypeInv, AcceptedOK, NamedOK, DeletesOf

LEMMA EarlyPostOrphan ==
  ASSUME TypedInv, NEW p \in Photos, EarlyPostEffect(p), \A q \in Photos : PhotoOK(q)
  PROVE  \A q \in Photos : PhotoOK(q)'
  <1>1. \A q \in Photos \ {p} : Untouched(q)
    BY DEF EarlyPostEffect, Untouched
  <1>2. p \notin Accepted /\ p \notin Accepted' /\ upload'[p] = "none" /\ DeletesOf(p)' = {}
    BY NotAccepted DEF EarlyPostEffect, Accepted, DeletesOf
  <1>3. p \notin file'
    BY <1>2 DEF EarlyPostEffect, PhotoOK
  <1>4. PhotoOK(p)'
    BY <1>2, <1>3 DEF EarlyPostEffect, PhotoOK, HasRecord, Registered, Detached, Running
  <1> QED
    BY <1>1, <1>4, UntouchedOK DEF EarlyPostEffect

LEMMA AcceptOrphan ==
  ASSUME TypedInv, NEW p \in Photos, AcceptEffect(p), \A q \in Photos : PhotoOK(q)
  PROVE  \A q \in Photos : PhotoOK(q)'
  <1>1. \A q \in Photos \ {p} : Untouched(q)
    BY DEF AcceptEffect, Untouched
  <1>2. p \in Accepted' /\ DeletesOf(p)' = {} /\ post[p].task \in Tasks
    BY NotAccepted DEF AcceptEffect, Accepted, DeletesOf, TypedInv, TypeInv, TypeOK, PostRec
  <1>3. record'[p] # "absent" /\ p \in active'[post'[p].task] /\ post'[p].pc # "stored"
    BY <1>2 DEF AcceptEffect, PhotoOK, HasRecord
  <1>4. PhotoOK(p)'
    BY <1>2, <1>3 DEF PhotoOK, HasRecord, Registered, Detached
  <1> QED
    BY <1>1, <1>4, UntouchedOK DEF AcceptEffect

LEMMA UploadOrphan ==
  ASSUME TypedInv, Faultless', NEW p \in Photos, NEW pc \in UploadPC, UploadEffect(p, pc),
         \A q \in Photos : PhotoOK(q)
  PROVE  \A q \in Photos : PhotoOK(q)'
  <1>1. \A q \in Photos \ {p} : Untouched(q)
    BY DEF UploadEffect, ProceedEffect, Untouched
  <1>2. /\ p \in Running /\ upload'[p] = pc /\ p \in Accepted /\ p \in Accepted'
        /\ DeletesOf(p)' = DeletesOf(p) /\ UNCHANGED <<post, deletion, cancelled>>
    BY NotAccepted DEF UploadEffect, ProceedEffect, Accepted, DeletesOf, Running
  <1>3. HasRecord(p)'
    BY <1>2 DEF UploadEffect, PhotoOK, HasRecord
  <1>4. ASSUME Local(p)' PROVE Registered(p)' /\ Detached(p)'
    <2>1. Local(p) /\ Registered(p) /\ Detached(p)
      BY <1>2, <1>4 DEF Local, PhotoOK
    <2>2. Registered(p)'
      BY <1>2, <2>1 DEF UploadEffect, ProceedEffect, Registered, Running
    <2>3. ASSUME NEW d \in DeletesOf(p), deletion[d].pc # "found"
          PROVE  p \in cancelled
      BY <1>2, <2>1, <2>3 DEF Detached
    <2>4. ASSUME NEW d \in DeletesOf(p), deletion[d].pc \in {"unfiled", "done"}
          PROVE  p \notin file' \/ pc \in {"uploaded", "cleaning"}
      <3>1. p \in cancelled /\ (p \notin file \/ upload[p] \in {"uploaded", "cleaning"})
        BY <2>1, <2>3, <2>4 DEF Detached
      <3> QED
        BY <3>1 DEF UploadEffect, NextPC
    <2> QED
      BY <1>2, <2>2, <2>3, <2>4 DEF Detached
  <1>5. PhotoOK(p)'
    BY <1>2, <1>3, <1>4 DEF PhotoOK
  <1> QED
    BY <1>1, <1>5, UntouchedOK DEF UploadEffect

LEMMA ReadOrphan ==
  ASSUME TypedInv, Faultless', NEW d \in Deletes, ReadEffect(d), \A q \in Photos : PhotoOK(q)
  PROVE  \A q \in Photos : PhotoOK(q)'
  <1> SUFFICES ASSUME NEW q \in Photos PROVE PhotoOK(q)'
    OBVIOUS
  <1>1. Step /\ Accepted' = Accepted /\ Running' = Running
    BY DEF Step, ReadEffect, Accepted, Running
  <1>2. HasRecord(q)'
    BY <1>1, DeletedGrows DEF ReadEffect, PhotoOK, HasRecord
  <1>3. ASSUME Local(q)' PROVE Registered(q)' /\ Detached(q)'
    <2>1. Registered(q) /\ Detached(q)
      BY <1>1, <1>3, LocalBefore DEF PhotoOK
    <2>2. \A e \in DeletesOf(q)' :
             \/ e \in DeletesOf(q) /\ deletion'[e] = deletion[e]
             \/ e = d /\ deletion'[d].pc = "found"
      BY DEF ReadEffect, DeletesOf
    <2> QED
      BY <1>1, <2>1, <2>2 DEF ReadEffect, Registered, Detached
  <1> QED
    BY <1>1, <1>2, <1>3 DEF ReadEffect, PhotoOK

LEMMA CancelOrphan ==
  ASSUME TypedInv, Faultless', NEW d \in Deletes, CancelEffect(d), \A q \in Photos : PhotoOK(q)
  PROVE  \A q \in Photos : PhotoOK(q)'
  <1> SUFFICES ASSUME NEW q \in Photos PROVE PhotoOK(q)'
    OBVIOUS
  <1>1. /\ Step /\ Accepted' = Accepted /\ Running' = Running
        /\ UNCHANGED <<file, record, post, upload>> /\ DeletesOf(q)' \subseteq DeletesOf(q)
        /\ cancelled \subseteq cancelled' /\ post[q].task \in Tasks
    <2>1. DeletesOf(q)' \subseteq DeletesOf(q)
      BY DEF CancelEffect, DeleteGoto, DeletesOf, TypedInv, NamedOK
    <2>2. post[q].task \in Tasks
      BY DEF TypedInv, TypeInv, TypeOK, PostRec
    <2> QED
      BY <2>1, <2>2 DEF Step, CancelEffect, Accepted, Running
  <1>2. HasRecord(q)'
    BY <1>1, DeletedGrows DEF PhotoOK, HasRecord
  <1>3. ASSUME Local(q)' PROVE Registered(q)' /\ Detached(q)'
    <2>1. Local(q) /\ Registered(q) /\ Detached(q)
      BY <1>1, <1>3, LocalBefore DEF PhotoOK
    <2>2. CASE deletion[d].photo = q
      <3>1. d \in DeletesOf(q) /\ deletion[d].task = post[q].task
        BY <2>1, <2>2 DEF CancelEffect, DeletesOf, Local, TypedInv, NamedOK
      <3>2. q \in cancelled' \/ q \notin Running
        BY <2>1, <2>2, <3>1 DEF CancelEffect, Registered
      <3>3. \A e \in DeletesOf(q) \ {d} : deletion'[e] = deletion[e]
        BY DEF CancelEffect, DeleteGoto, DeletesOf
      <3>4. deletion'[d].pc = "detached"
        BY DEF CancelEffect, DeleteGoto
      <3> QED
        BY <1>1, <2>1, <3>2, <3>3, <3>4 DEF Registered, Detached
    <2>3. CASE deletion[d].photo # q
      <3>1. q \in active[post[q].task] <=> q \in active'[post[q].task]
        BY <1>1, <2>3 DEF CancelEffect
      <3>2. \A e \in DeletesOf(q) : deletion'[e] = deletion[e]
        BY <2>3 DEF CancelEffect, DeleteGoto, DeletesOf
      <3> QED
        BY <1>1, <2>1, <3>1, <3>2 DEF Registered, Detached
    <2> QED
      BY <2>2, <2>3
  <1> QED
    BY <1>1, <1>2, <1>3 DEF PhotoOK

LEMMA EraseOrphan ==
  ASSUME TypedInv, Faultless', NEW d \in Deletes, EraseEffect(d), \A q \in Photos : PhotoOK(q)
  PROVE  \A q \in Photos : PhotoOK(q)'
  <1> SUFFICES ASSUME NEW q \in Photos PROVE PhotoOK(q)'
    OBVIOUS
  <1>1. /\ Step /\ Accepted' = Accepted /\ Running' = Running
        /\ UNCHANGED <<post, upload, active, cancelled>> /\ file' \subseteq file
        /\ DeletesOf(q)' \subseteq DeletesOf(q)
    BY DEF Step, EraseEffect, DeleteGoto, Accepted, Running, DeletesOf, TypedInv, NamedOK
  <1>2. \A e \in DeletesOf(q) \ {d} : deletion'[e] = deletion[e]
    BY DEF EraseEffect, DeleteGoto, DeletesOf
  <1>3. CASE deletion[d].photo # q
    <2>1. /\ record'[q] = record[q]
          /\ \A e \in DeletesOf(q) : deletion'[e] = deletion[e]
      BY <1>2, <1>3 DEF EraseEffect, DeletesOf
    <2>2. HasRecord(q)'
      BY <1>1, <2>1, DeletedGrows DEF PhotoOK, HasRecord
    <2>3. ASSUME Local(q)' PROVE Registered(q)' /\ Detached(q)'
      <3>1. Registered(q) /\ Detached(q)
        BY <1>1, <2>3, LocalBefore DEF PhotoOK
      <3> QED
        BY <1>1, <2>1, <3>1 DEF Registered, Detached
    <2> QED
      BY <1>1, <2>2, <2>3 DEF PhotoOK
  <1>4. CASE deletion[d].photo = q
    <2>1. d \in DeletesOf(q) /\ d \in DeletesOf(q)' /\ q \in Accepted
      BY <1>1, <1>4, DeletesGrow DEF EraseEffect, DeletesOf, TypedInv, NamedOK
    <2>2. HasRecord(q)'
      <3>1. post'[q].pc # "stored"
        BY <1>1, <2>1 DEF TypedInv, TypeInv, AcceptedOK, Accepted
      <3>2. ASSUME record'[q] = "absent"
            PROVE  \E e \in DeletesOf(q)' : deletion'[e].answer = "deleted"
        <4>1. CASE record[q] = "absent"
          BY <1>1, <2>1, <4>1, DeletedGrows DEF PhotoOK, HasRecord
        <4>2. CASE record[q] # "absent"
          <5>1. deletion'[d].answer = "deleted"
            BY <1>4, <3>2, <4>2 DEF EraseEffect, DeleteGoto
          <5> QED
            BY <2>1, <5>1
        <4> QED
          BY <4>1, <4>2
      <3> QED
        BY <3>1, <3>2 DEF HasRecord
    <2>3. ASSUME Local(q)' PROVE Registered(q)' /\ Detached(q)'
      <3>1. Registered(q) /\ Detached(q)
        BY <1>1, <2>3, LocalBefore DEF PhotoOK
      <3>2. q \in cancelled \/ q \notin Running
        BY <2>1, <3>1 DEF EraseEffect, Detached
      <3>3. q \notin file' \/ upload[q] \in {"uploaded", "cleaning"}
        BY <1>4, <2>1, <3>1 DEF EraseEffect, Detached
      <3> QED
        BY <1>1, <1>2, <3>1, <3>2, <3>3 DEF Registered, Detached
    <2> QED
      BY <1>1, <2>1, <2>2, <2>3 DEF PhotoOK
  <1> QED
    BY <1>3, <1>4

LEMMA OrphanStep ==
  ASSUME TypedInv, OrphanInv, [Next]_vars
  PROVE  OrphanInv'
  <1> SUFFICES ASSUME Faultless' PROVE \A q \in Photos : PhotoOK(q)'
    BY DEF OrphanInv, PhotoOK
  <1>1. Step \/ UNCHANGED vars
    BY Steps DEF TypedInv
  <1>2. ASSUME Step PROVE Faultless /\ \A t \in Tasks : ~ExitEffect(t)
    BY <1>2
    DEF Step, EarlyPostEffect, AcceptEffect, UploadEffect, ReadEffect, CancelEffect, EraseEffect,
        ExitEffect, FaultStep, Faultless
  <1>3. CASE Step
    <2>1. \A q \in Photos : PhotoOK(q)
      BY <1>2, <1>3 DEF OrphanInv, PhotoOK
    <2> QED
      BY <1>2, <1>3, <2>1, EarlyPostOrphan, AcceptOrphan, UploadOrphan, ReadOrphan,
         CancelOrphan, EraseOrphan DEF Step
  <1>4. CASE UNCHANGED vars
    <2>1. /\ Faultless /\ UNCHANGED <<record, file, active, cancelled, post, upload, deletion>>
      BY <1>4 DEF vars, Faultless
    <2>2. \A q \in Photos : PhotoOK(q) /\ Untouched(q)
      BY <2>1 DEF OrphanInv, PhotoOK, Untouched
    <2> QED
      BY <2>1, <2>2, UntouchedOK
  <1> QED
    BY <1>1, <1>3, <1>4

\* A deleted photo leaves a file only after a fault or a delete on another task
\* than the upload's (DeletePhoto against the upload goroutine).
THEOREM OrphansJustified == Spec => []OrphanJustified
  <1>1. TypedInv /\ TypedInv' /\ OrphanInv /\ [Next]_vars => OrphanInv'
    BY OrphanStep
  <1>2. TypedInv /\ OrphanInv => OrphanJustified
    <2> SUFFICES ASSUME TypedInv, OrphanInv, NEW p \in Photos \ Running, p \in file,
                        record[p] = "absent", ~(failures > 0 \/ exits > 0)
                 PROVE  \E d \in DeletesOf(p) : deletion[d].task # post[p].task
      BY DEF OrphanJustified
    <2>1. Faultless
      BY DEF Faultless, TypedInv, TypeInv, TypeOK
    <2>2. HasRecord(p) /\ p \in Accepted /\ (Local(p) => Detached(p))
      BY <2>1 DEF OrphanInv
    <2>3. PICK d \in DeletesOf(p) : deletion[d].answer = "deleted"
      BY <2>2 DEF HasRecord
    <2>4. deletion[d].pc = "done"
      BY <2>3 DEF TypedInv, NamedOK, DeletesOf
    <2>5. upload[p] \notin {"uploaded", "cleaning"}
      BY DEF Running
    <2>6. ~Local(p)
      BY <2>2, <2>4, <2>5 DEF Detached
    <2> QED
      BY <2>6 DEF Local
  <1> QED
    BY <1>1, <1>2, OrphanInit, TypedAlways, PTL DEF Spec
=============================================================================
