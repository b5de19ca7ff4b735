------------------------------ MODULE MapReduce ------------------------------
(***************************************************************************)
(* The word count of HW4/mapreduce: a splitter, a mapper and a reducer     *)
(* that share one S3 bucket.  A client runs a job by asking for a split,   *)
(* then for the three maps at once, then for the reduce.  The keys of the  *)
(* chunks, of the results and of the final counts are the same for every   *)
(* job.  Errors of a put, and of a body that ends early, are dropped.      *)
(*                                                                         *)
(* A text is a sequence of what white space separates, and WordsOf gives   *)
(* the lower-case words the mapper's expression finds in such a piece.     *)
(***************************************************************************)
EXTENDS Integers, Sequences, FiniteSets

CONSTANTS Jobs, Texts, Words, WordsOf,
          Missing,        \* there is no such object
          MaxFaults       \* bound: calls of S3 that go wrong

Parts == 0 .. 2

ASSUME TextAssumption == /\ Texts \subseteq Seq(DOMAIN WordsOf)
                         /\ \A piece \in DOMAIN WordsOf : WordsOf[piece] \in Seq(Words)
ASSUME FaultAssumption == MaxFaults \in Nat

VARIABLES input,               \* each job's object
          chunk, result, final,   \* the shared objects
          job,                 \* the client's job and the handlers that work for it
          mapper,              \* the handlers of its three maps
          overlapped,          \* history: jobs another job ran beside
          faults

bucket == <<chunk, result, final>>
vars == <<input, bucket, job, mapper, overlapped, faults>>

Counts == [Words -> Nat]
None == [w \in Words |-> 0]

JobRec == [pc : {"idle", "splitting", "mapping", "reducing", "done"}, text : Seq(DOMAIN WordsOf),
           next : 0 .. 3, total : Counts, answer : {"none", "ok", "error"}]

Init == /\ input \in [Jobs -> Texts]
        /\ chunk = [i \in Parts |-> Missing]
        /\ result = [i \in Parts |-> Missing]
        /\ final = Missing
        /\ job = [j \in Jobs |-> [pc |-> "idle", text |-> <<>>, next |-> 0, total |-> None,
                                  answer |-> "none"]]
        /\ mapper = [j \in Jobs |-> [i \in Parts |-> [pc |-> "idle", counts |-> None]]]
        /\ overlapped = {}
        /\ faults = 0

Fault == faults < MaxFaults /\ faults' = faults + 1
NoFault == faults' = faults

\* What a reader gets of a body that ends early.
Cuts(text) == {SubSeq(text, 1, n) : n \in 0 .. Len(text)}

Answer(j, answer) == job' = [job EXCEPT ![j].pc = "done", ![j].answer = answer]
-----------------------------------------------------------------------------
(* The splitter. *)

Running(j) == job[j].pc \notin {"idle", "done"} \/ \E i \in Parts : mapper[j][i].pc = "counted"

ReadInput(j) ==
    LET others == {k \in Jobs \ {j} : Running(k)} IN
    /\ job[j].pc = "idle"
    /\ \/ NoFault /\ job' = [job EXCEPT ![j].pc = "splitting", ![j].text = input[j]]
       \/ Fault /\ \/ Answer(j, "error")
                   \/ \E text \in Cuts(input[j]) :
                         job' = [job EXCEPT ![j].pc = "splitting", ![j].text = text]
    /\ overlapped' = IF others = {} THEN overlapped ELSE overlapped \cup others \cup {j}
    /\ UNCHANGED <<input, bucket, mapper>>

\* Faulty variant: the last chunk is no longer than the others.
ChunkEqual(text, i) ==
    LET size == Len(text) \div 3 IN SubSeq(text, i * size + 1, (i + 1) * size)

Chunk(text, i) ==
    LET size == Len(text) \div 3
    IN  SubSeq(text, i * size + 1, IF i = 2 THEN Len(text) ELSE (i + 1) * size)

\* Faulty variant: the keys are returned after the first put.
AfterPutFirst(next) == "mapping"

AfterPut(next) == IF next = 2 THEN "mapping" ELSE "splitting"

PutChunk(j) ==
    LET i == job[j].next IN
    /\ job[j].pc = "splitting"
    /\ \/ NoFault /\ chunk' = [chunk EXCEPT ![i] = Chunk(job[j].text, i)]
       \/ Fault /\ chunk' = chunk
    /\ job' = [job EXCEPT ![j].pc = AfterPut(i), ![j].next = i + 1]
    /\ UNCHANGED <<input, result, final, mapper, overlapped>>
-----------------------------------------------------------------------------
(* The mapper. *)

\* The matches that are w, each at its piece of the text and its place in it.
Occurrences(text, w) ==
    UNION {{n} \X {m \in DOMAIN WordsOf[text[n]] : WordsOf[text[n]][m] = w} : n \in DOMAIN text}

Count(text) == [w \in Words |-> Cardinality(Occurrences(text, w))]

ReadChunk(j, i) ==
    /\ job[j].pc = "mapping" /\ mapper[j][i].pc = "idle"
    /\ \/ /\ NoFault /\ chunk[i] # Missing
          /\ mapper' = [mapper EXCEPT ![j][i] = [pc |-> "counted", counts |-> Count(chunk[i])]]
          /\ UNCHANGED job
       \/ NoFault /\ chunk[i] = Missing /\ Answer(j, "error") /\ UNCHANGED mapper
       \/ Fault /\ Answer(j, "error") /\ UNCHANGED mapper
       \/ /\ Fault /\ chunk[i] # Missing
          /\ \E text \in Cuts(chunk[i]) :
                mapper' = [mapper EXCEPT ![j][i] = [pc |-> "counted", counts |-> Count(text)]]
          /\ UNCHANGED job
    /\ UNCHANGED <<input, bucket, overlapped>>

\* The handler goes on when the client has given the job up.
PutResult(j, i) ==
    /\ mapper[j][i].pc = "counted"
    /\ \/ NoFault /\ result' = [result EXCEPT ![i] = mapper[j][i].counts]
       \/ Fault /\ result' = result
    /\ mapper' = [mapper EXCEPT ![j][i].pc = "done"]
    /\ UNCHANGED <<input, chunk, final, job, overlapped>>
-----------------------------------------------------------------------------
(* The reducer. *)

AskReduce(j) ==
    /\ job[j].pc = "mapping"
    /\ \A i \in Parts : mapper[j][i].pc = "done"
    /\ job' = [job EXCEPT ![j].pc = "reducing", ![j].next = 0]
    /\ UNCHANGED <<input, bucket, mapper, overlapped, faults>>

\* Faulty variant: the last result's count of a word replaces the others'.
SummedLast(total, counts) == [w \in Words |-> IF counts[w] > 0 THEN counts[w] ELSE total[w]]

Summed(total, counts) == [w \in Words |-> total[w] + counts[w]]

Added(j, total) == job' = [job EXCEPT ![j].next = job[j].next + 1, ![j].total = total]

\* A result cut short is no JSON, and counts nothing.
ReadResult(j) ==
    LET i == job[j].next IN
    /\ job[j].pc = "reducing" /\ i < 3
    /\ \/ NoFault /\ result[i] # Missing /\ Added(j, Summed(job[j].total, result[i]))
       \/ NoFault /\ result[i] = Missing /\ Answer(j, "error")
       \/ Fault /\ Answer(j, "error")
       \/ Fault /\ result[i] # Missing /\ Added(j, job[j].total)
    /\ UNCHANGED <<input, bucket, mapper, overlapped>>

PutFinal(j) ==
    /\ job[j].pc = "reducing" /\ job[j].next = 3
    /\ \/ NoFault /\ final' = job[j].total
       \/ Fault /\ final' = final
    /\ Answer(j, "ok")
    /\ UNCHANGED <<input, chunk, result, mapper, overlapped>>
-----------------------------------------------------------------------------
Next == \E j \in Jobs : \/ ReadInput(j) \/ PutChunk(j)
                        \/ \E i \in Parts : ReadChunk(j, i) \/ PutResult(j, i)
                        \/ AskReduce(j) \/ ReadResult(j) \/ PutFinal(j)

Spec == Init /\ [][Next]_vars
-----------------------------------------------------------------------------
\* The types; the chunks are put before a client asks for maps.
TypeOK ==
    /\ input \in [Jobs -> Texts]
    /\ \A i \in Parts : /\ chunk[i] = Missing \/ chunk[i] \in Seq(DOMAIN WordsOf)
                        /\ result[i] = Missing \/ result[i] \in Counts
    /\ final = Missing \/ final \in Counts
    /\ job \in [Jobs -> JobRec]
    /\ \A j \in Jobs : job[j].pc = "mapping" => job[j].next = 3
    /\ mapper \in [Jobs -> [Parts -> [pc : {"idle", "counted", "done"}, counts : Counts]]]
    /\ overlapped \subseteq Jobs
    /\ faults \in 0 .. MaxFaults
-----------------------------------------------------------------------------
\* A job that no other ran beside, and no call of which went wrong, answers with
\* the counts that benchmark.go finds in the whole text, whatever earlier jobs
\* left in the bucket and however short the text is.
CountsExact ==
    \A j \in Jobs : job[j].answer = "ok" /\ j \notin overlapped /\ faults = 0 =>
        job[j].total = Count(input[j])

\* Jobs that overlap may count one another's chunks, but each part once and
\* whole: the answer adds up the first chunk of one job, the second of one and
\* the third of one.
PartsWhole ==
    \A j \in Jobs : job[j].answer = "ok" /\ faults = 0 =>
        \E of \in [Parts -> Jobs] :
            LET counts(i) == Count(Chunk(input[of[i]], i))
            IN  \A w \in Words : job[j].total[w] = counts(0)[w] + counts(1)[w] + counts(2)[w]
=============================================================================
