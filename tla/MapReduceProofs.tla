---------------------------- MODULE MapReduceProofs ----------------------------
(***************************************************************************)
(* Theorems about MapReduce, for any number of jobs, texts of any length   *)
(* and any words.  Counting is a cardinality, so that the count of a text  *)
(* and of its three chunks can be compared for every text.                 *)
(***************************************************************************)
EXTENDS MapReduce, FiniteSetTheorems, SequenceTheorems, TLAPS

Text == Seq(DOMAIN WordsOf)

-----------------------------------------------------------------------------
(* The occurrences of a word between two pieces of a text.                  *)

InPiece(piece, w) == {m \in DOMAIN WordsOf[piece] : WordsOf[piece][m] = w}

Between(text, w, a, b) == UNION {{n} \X InPiece(text[n], w) : n \in a .. b}

LEMMA InBetween ==
  ASSUME NEW text, NEW w, NEW a, NEW b, NEW p
  PROVE  p \in Between(text, w, a, b) <=>
           \E n \in a .. b : \E m \in InPiece(text[n], w) : p = <<n, m>>
  BY DEF Between

LEMMA BetweenFinite ==
  ASSUME NEW text \in Text, NEW w, NEW a \in Nat \ {0}, NEW b \in 0 .. Len(text)
  PROVE  /\ IsFiniteSet(Between(text, w, a, b))
         /\ Cardinality(Between(text, w, a, b)) \in Nat
  <1> DEFINE g == [n \in a .. b |-> {n} \X InPiece(text[n], w)]
             T == {{n} \X InPiece(text[n], w) : n \in a .. b}
  <1>1. g \in Surjection(a .. b, T)
    BY DEF Surjection
  <1>2. IsFiniteSet(a .. b)
    BY FS_Interval
  <1>3. IsFiniteSet(T)
    BY <1>1, <1>2, FS_Surjection
  <1>4. ASSUME NEW n \in a .. b PROVE IsFiniteSet({n} \X InPiece(text[n], w))
    <2>1. text[n] \in DOMAIN WordsOf
      BY DEF Text
    <2>2. WordsOf[text[n]] \in Seq(Words)
      BY <2>1, TextAssumption
    <2>3. DOMAIN WordsOf[text[n]] = 1 .. Len(WordsOf[text[n]])
          /\ Len(WordsOf[text[n]]) \in Nat
      BY <2>2
    <2>4. IsFiniteSet(DOMAIN WordsOf[text[n]])
      BY <2>3, FS_Interval
    <2>5. InPiece(text[n], w) \in SUBSET DOMAIN WordsOf[text[n]]
      BY DEF InPiece
    <2>6. IsFiniteSet(InPiece(text[n], w)) /\ IsFiniteSet({n})
      BY <2>4, <2>5, FS_Subset, FS_Singleton
    <2> QED
      BY <2>6, FS_Product
  <1>5. \A X \in T : IsFiniteSet(X)
    BY <1>4
  <1> HIDE DEF T
  <1>6. IsFiniteSet(UNION T)
    BY <1>3, <1>5, FS_UNION
  <1>7. IsFiniteSet(Between(text, w, a, b))
    BY <1>6 DEF T, Between
  <1> QED
    BY <1>7, FS_CardinalityType

\* Two stretches that follow one another.
LEMMA BetweenSplit ==
  ASSUME NEW text \in Text, NEW w, NEW a \in Nat \ {0}, NEW b \in 0 .. Len(text),
         NEW c \in 0 .. Len(text), a <= b + 1, b <= c
  PROVE  Cardinality(Between(text, w, a, c)) =
           Cardinality(Between(text, w, a, b)) + Cardinality(Between(text, w, b + 1, c))
  <1> DEFINE S == Between(text, w, a, b)
             T == Between(text, w, b + 1, c)
  <1>1. \A n : n \in a .. c <=> n \in a .. b \/ n \in b + 1 .. c
    OBVIOUS
  <1>2. Between(text, w, a, c) = S \cup T
    <2>1. \A p : p \in Between(text, w, a, c) <=> p \in S \/ p \in T
      BY <1>1, InBetween
    <2> QED
      BY <2>1
  <1>3. S \cap T = {}
    <2>1. \A n \in a .. b : n \notin b + 1 .. c
      OBVIOUS
    <2>2. ASSUME NEW p \in S, p \in T PROVE FALSE
      <3>1. PICK n \in a .. b : \E m \in InPiece(text[n], w) : p = <<n, m>>
        BY InBetween
      <3>2. PICK k \in b + 1 .. c : \E m \in InPiece(text[k], w) : p = <<k, m>>
        BY <2>2, InBetween
      <3> QED
        BY <2>1, <3>1, <3>2
    <2> QED
      BY <2>2
  <1>4. /\ IsFiniteSet(S) /\ IsFiniteSet(T)
        /\ Cardinality(S) \in Nat /\ Cardinality(T) \in Nat
    BY BetweenFinite
  <1> HIDE DEF S, T
  <1>5. Cardinality(S \cup T) = Cardinality(S) + Cardinality(T) - Cardinality(S \cap T)
    BY <1>4, FS_Union
  <1>6. Cardinality(S \cap T) = 0
    BY <1>3, FS_EmptySet
  <1>7. Cardinality(S \cup T) = Cardinality(S) + Cardinality(T)
    BY <1>4, <1>5, <1>6
  <1> QED
    BY <1>2, <1>7 DEF S, T

LEMMA PartText ==
  ASSUME NEW text \in Text, NEW a \in Nat \ {0}, NEW b \in 0 .. Len(text)
  PROVE  /\ SubSeq(text, a, b) \in Text
         /\ Len(SubSeq(text, a, b)) = IF a <= b THEN b - a + 1 ELSE 0
         /\ \A n \in 1 .. b - a + 1 : SubSeq(text, a, b)[n] = text[n + a - 1]
  <1>1. \A n \in a .. b : text[n] \in DOMAIN WordsOf
    BY DEF Text
  <1>2. a \in Int /\ b \in Int
    OBVIOUS
  <1>3. /\ SubSeq(text, a, b) \in Seq(DOMAIN WordsOf)
        /\ Len(SubSeq(text, a, b)) = IF a <= b THEN b - a + 1 ELSE 0
        /\ \A n \in 1 .. b - a + 1 : SubSeq(text, a, b)[n] = text[a + n - 1]
    BY <1>1, <1>2, SubSeqProperties
  <1> QED
    BY <1>3 DEF Text

\* A part of a text has the occurrences of its stretch.
LEMMA PartCount ==
  ASSUME NEW text \in Text, NEW w, NEW a \in Nat \ {0}, NEW b \in 0 .. Len(text), a <= b + 1
  PROVE  Cardinality(Occurrences(SubSeq(text, a, b), w)) = Cardinality(Between(text, w, a, b))
  <1> DEFINE part == SubSeq(text, a, b)
             S == Between(text, w, a, b)
             T == Occurrences(part, w)
             g == [p \in S |-> <<p[1] - a + 1, p[2]>>]
  <1>1. /\ part \in Text /\ Len(part) = b - a + 1
        /\ \A n \in 1 .. b - a + 1 : part[n] = text[n + a - 1]
    BY PartText
  <1>2. DOMAIN part = 1 .. b - a + 1
    BY <1>1 DEF Text
  <1> HIDE DEF part
  <1>3. \A q : q \in T <=> \E n \in 1 .. b - a + 1 :
                             \E m \in InPiece(text[n + a - 1], w) : q = <<n, m>>
    BY <1>1, <1>2 DEF Occurrences, InPiece
  <1>4. \A p \in S : \E n \in a .. b : \E m \in InPiece(text[n], w) :
                        p = <<n, m>> /\ g[p] = <<n - a + 1, m>>
    BY InBetween
  <1>5. \A n \in a .. b : \A m : m \in InPiece(text[n], w) =>
                        <<n, m>> \in S /\ g[<<n, m>>] = <<n - a + 1, m>>
    BY InBetween
  <1> HIDE DEF S, T
  <1>6. g \in [S -> T]
    <2>1. ASSUME NEW p \in S PROVE g[p] \in T
      <3>1. PICK n, m : n \in a .. b /\ m \in InPiece(text[n], w) /\ g[p] = <<n - a + 1, m>>
        BY <1>4
      <3>2. PICK k \in 1 .. b - a + 1 : k = n - a + 1 /\ k + a - 1 = n
        BY <3>1
      <3>3. m \in InPiece(text[k + a - 1], w) /\ g[p] = <<k, m>>
        BY <3>1, <3>2
      <3> QED
        BY <1>3, <3>3
    <2> QED
      BY <2>1
  <1>7. ASSUME NEW p \in S, NEW q \in S, g[p] = g[q] PROVE p = q
    <2>1. PICK n, m : n \in a .. b /\ p = <<n, m>> /\ g[p] = <<n - a + 1, m>>
      BY <1>4
    <2>2. PICK k, l : k \in a .. b /\ q = <<k, l>> /\ g[q] = <<k - a + 1, l>>
      BY <1>4
    <2> HIDE DEF g
    <2>3. n - a + 1 = k - a + 1 /\ m = l
      BY <1>7, <2>1, <2>2
    <2> QED
      BY <2>1, <2>2, <2>3
  <1>8. ASSUME NEW q \in T PROVE \E p \in S : g[p] = q
    <2>1. PICK k, m : k \in 1 .. b - a + 1 /\ m \in InPiece(text[k + a - 1], w) /\ q = <<k, m>>
      BY <1>3
    <2>2. PICK n \in a .. b : n = k + a - 1 /\ k = n - a + 1
      BY <2>1
    <2> HIDE DEF g
    <2>3. <<n, m>> \in S /\ g[<<n, m>>] = q
      BY <1>5, <2>1, <2>2
    <2> QED
      BY <2>3
  <1> HIDE DEF g
  <1>9. ExistsBijection(S, T)
    <2>1. g \in Injection(S, T)
      BY <1>6, <1>7 DEF Injection, IsInjective
    <2>2. g \in Surjection(S, T)
      BY <1>6, <1>8 DEF Surjection
    <2> QED
      BY <2>1, <2>2 DEF ExistsBijection, Bijection
  <1>10. IsFiniteSet(S)
    BY BetweenFinite DEF S
  <1>11. Cardinality(T) = Cardinality(S)
    BY <1>9, <1>10, FS_Bijection
  <1> QED
    BY <1>11 DEF S, T, part

LEMMA WholeCount ==
  ASSUME NEW text \in Text, NEW w
  PROVE  Occurrences(text, w) = Between(text, w, 1, Len(text))
  <1>1. DOMAIN text = 1 .. Len(text)
    BY DEF Text
  <1> QED
    BY <1>1 DEF Occurrences, Between, InPiece

LEMMA CountType ==
  ASSUME NEW text \in Text
  PROVE  Count(text) \in Counts
  <1>1. ASSUME NEW w \in Words PROVE Cardinality(Occurrences(text, w)) \in Nat
    <2>1. Len(text) \in 0 .. Len(text)
      BY DEF Text
    <2> QED
      BY <2>1, WholeCount, BetweenFinite
  <1> QED
    BY <1>1 DEF Count, Counts

LEMMA ChunkType ==
  ASSUME NEW text \in Text, NEW i \in Parts
  PROVE  Chunk(text, i) \in Text
  <1>1. PICK n \in Nat, s \in Nat : n = Len(text) /\ s = n \div 3 /\ 3 * s <= n
    BY DEF Text
  <1>2. i * s + 1 \in Nat \ {0} /\ (IF i = 2 THEN n ELSE (i + 1) * s) \in 0 .. n
    BY <1>1 DEF Parts
  <1> QED
    BY <1>1, <1>2, PartText DEF Chunk

\* The counts of the three chunks add up to the count of the text.
LEMMA ChunksAddUp ==
  ASSUME NEW text \in Text, NEW w \in Words
  PROVE  /\ Count(text)[w] = Count(Chunk(text, 0))[w] + Count(Chunk(text, 1))[w]
                             + Count(Chunk(text, 2))[w]
         /\ \A i \in Parts : Count(Chunk(text, i))[w] \in Nat
  <1>1. PICK n \in Nat, s \in Nat : n = Len(text) /\ s = n \div 3 /\ 3 * s <= n
    BY DEF Text
  <1>2. /\ Chunk(text, 0) = SubSeq(text, 1, s)
        /\ Chunk(text, 1) = SubSeq(text, s + 1, 2 * s)
        /\ Chunk(text, 2) = SubSeq(text, 2 * s + 1, n)
    BY <1>1 DEF Chunk
  <1>3. /\ Count(Chunk(text, 0))[w] = Cardinality(Between(text, w, 1, s))
        /\ Count(Chunk(text, 1))[w] = Cardinality(Between(text, w, s + 1, 2 * s))
        /\ Count(Chunk(text, 2))[w] = Cardinality(Between(text, w, 2 * s + 1, n))
    <2>1. \A t : Count(t)[w] = Cardinality(Occurrences(t, w))
      BY DEF Count
    <2>2. Cardinality(Occurrences(SubSeq(text, 1, s), w)) = Cardinality(Between(text, w, 1, s))
      BY <1>1, PartCount
    <2>3. Cardinality(Occurrences(SubSeq(text, s + 1, 2 * s), w)) =
            Cardinality(Between(text, w, s + 1, 2 * s))
      BY <1>1, PartCount
    <2>4. Cardinality(Occurrences(SubSeq(text, 2 * s + 1, n), w)) =
            Cardinality(Between(text, w, 2 * s + 1, n))
      BY <1>1, PartCount
    <2> QED
      BY <1>2, <2>1, <2>2, <2>3, <2>4
  <1>4. Count(text)[w] = Cardinality(Between(text, w, 1, n))
    BY <1>1, WholeCount DEF Count
  <1>5. Cardinality(Between(text, w, 1, 2 * s)) =
          Cardinality(Between(text, w, 1, s)) + Cardinality(Between(text, w, s + 1, 2 * s))
    BY <1>1, BetweenSplit
  <1>6. Cardinality(Between(text, w, 1, n)) =
          Cardinality(Between(text, w, 1, 2 * s)) + Cardinality(Between(text, w, 2 * s + 1, n))
    BY <1>1, BetweenSplit
  <1>7. \A i \in Parts : Count(Chunk(text, i))[w] \in Nat
    BY ChunkType, CountType DEF Counts
  <1> QED
    BY <1>3, <1>4, <1>5, <1>6, <1>7

-----------------------------------------------------------------------------
(* The inductive invariant of the types, with the stages of a job: a map is *)
(* only asked for when all chunks are put, and a reduce when all maps have  *)
(* answered.                                                                *)

MapperRec == [pc : {"idle", "counted", "done"}, counts : Counts]

StageOK ==
    \A j \in Jobs :
        /\ job[j].pc = "idle" => job[j].next = 0
        /\ job[j].pc = "splitting" => job[j].next \in 0 .. 2
        /\ job[j].pc \in {"idle", "splitting"} => \A i \in Parts : mapper[j][i].pc = "idle"
        /\ job[j].pc \in {"idle", "splitting", "mapping"} => job[j].total = None
        /\ job[j].pc = "reducing" => \A i \in Parts : mapper[j][i].pc = "done"
        /\ job[j].pc # "done" => job[j].answer = "none"

BucketOK ==
    /\ \A i \in Parts : chunk[i] = Missing \/ chunk[i] \in Text
    /\ \A i \in Parts : result[i] = Missing \/ result[i] \in Counts
    /\ final = Missing \/ final \in Counts
    /\ chunk \in [Parts -> {Missing} \cup Text]
    /\ result \in [Parts -> {Missing} \cup Counts]

TypeInv ==
    /\ input \in [Jobs -> Texts] /\ BucketOK
    /\ job \in [Jobs -> JobRec] /\ mapper \in [Jobs -> [Parts -> MapperRec]]
    /\ \A j \in Jobs : job[j].pc = "mapping" => job[j].next = 3
    /\ overlapped \subseteq Jobs /\ faults \in 0 .. MaxFaults
    /\ StageOK

LEMMA TypeInvType == TypeInv => TypeOK
  BY DEF TypeInv, TypeOK, BucketOK, MapperRec, Text

LEMMA TypeInit == Init => TypeInv
  <1> SUFFICES ASSUME Init PROVE TypeInv
    OBVIOUS
  <1>1. None \in Counts /\ <<>> \in Text
    BY DEF None, Counts, Text
  <1>2. /\ job \in [Jobs -> JobRec]
        /\ \A j \in Jobs : /\ job[j].pc = "idle" /\ job[j].next = 0 /\ job[j].total = None
                            /\ job[j].answer = "none"
    BY <1>1 DEF Init, JobRec, Text
  <1>3. /\ mapper \in [Jobs -> [Parts -> MapperRec]]
        /\ \A j \in Jobs : \A i \in Parts : mapper[j][i].pc = "idle"
    BY <1>1 DEF Init, MapperRec
  <1>4. BucketOK
    BY DEF Init, BucketOK
  <1>5. input \in [Jobs -> Texts] /\ overlapped \subseteq Jobs /\ faults \in 0 .. MaxFaults
    BY FaultAssumption DEF Init
  <1> QED
    BY <1>2, <1>3, <1>4, <1>5 DEF TypeInv, StageOK

-----------------------------------------------------------------------------
(* What the actions do.                                                     *)

\* A step of one job: its record, and no other's.
JobTo(j, pc, text, next, total, answer) ==
    /\ job' \in [Jobs -> JobRec]
    /\ job'[j].pc = pc /\ job'[j].text = text /\ job'[j].next = next
    /\ job'[j].total = total /\ job'[j].answer = answer
    /\ \A k \in Jobs \ {j} : job'[k] = job[k]

\* A step of one map.
MapTo(j, i, pc, counts) ==
    /\ mapper' \in [Jobs -> [Parts -> MapperRec]]
    /\ mapper'[j][i].pc = pc /\ mapper'[j][i].counts = counts
    /\ \A h \in Parts \ {i} : mapper'[j][h] = mapper[j][h]
    /\ \A k \in Jobs \ {j} : mapper'[k] = mapper[k]

FaultsTo == faults' \in 0 .. MaxFaults /\ faults' >= faults

Others(j) == {k \in Jobs \ {j} : Running(k)}

Begun(j) ==
    /\ job[j].pc = "idle" /\ UNCHANGED <<bucket, mapper>>
    /\ \E text \in Text : /\ JobTo(j, "splitting", text, job[j].next, job[j].total, job[j].answer)
                          /\ faults' = 0 => text = input[j]
    /\ overlapped' = IF Others(j) = {} THEN overlapped ELSE overlapped \cup Others(j) \cup {j}
Broken(j) ==
    /\ job[j].pc # "done" /\ UNCHANGED <<bucket, mapper>>
    /\ JobTo(j, "done", job[j].text, job[j].next, job[j].total, "error")
    /\ \/ overlapped' = overlapped
       \/ overlapped' = overlapped \cup Others(j) \cup {j}
ChunkPut(j) ==
    /\ job[j].pc = "splitting" /\ UNCHANGED <<result, final, mapper, overlapped>>
    /\ JobTo(j, AfterPut(job[j].next), job[j].text, job[j].next + 1, job[j].total, job[j].answer)
    /\ chunk' \in [Parts -> {Missing} \cup Text]
    /\ \A h \in Parts \ {job[j].next} : chunk'[h] = chunk[h]
    /\ faults' = 0 => chunk'[job[j].next] = Chunk(job[j].text, job[j].next)
Counted(j, i) ==
    /\ job[j].pc = "mapping" /\ mapper[j][i].pc = "idle" /\ UNCHANGED <<bucket, job, overlapped>>
    /\ chunk[i] # Missing
    /\ \E counts \in Counts : MapTo(j, i, "counted", counts)
                              /\ (faults' = 0 => counts = Count(chunk[i]))
ResultPut(j, i) ==
    /\ mapper[j][i].pc = "counted" /\ UNCHANGED <<chunk, final, job, overlapped>>
    /\ MapTo(j, i, "done", mapper[j][i].counts)
    /\ result' \in [Parts -> {Missing} \cup Counts]
    /\ \A h \in Parts \ {i} : result'[h] = result[h]
    /\ faults' = 0 => result'[i] = mapper[j][i].counts
Reducing(j) ==
    /\ job[j].pc = "mapping" /\ UNCHANGED <<bucket, mapper, overlapped>>
    /\ \A i \in Parts : mapper[j][i].pc = "done"
    /\ JobTo(j, "reducing", job[j].text, 0, job[j].total, job[j].answer)
ResultRead(j) ==
    /\ job[j].pc = "reducing" /\ UNCHANGED <<bucket, mapper, overlapped>>
    /\ job[j].next \in Parts /\ result[job[j].next] # Missing
    /\ \E total \in Counts :
          /\ JobTo(j, "reducing", job[j].text, job[j].next + 1, total, job[j].answer)
          /\ faults' = 0 => total = Summed(job[j].total, result[job[j].next])
FinalPut(j) ==
    /\ job[j].pc = "reducing" /\ job[j].next = 3
    /\ UNCHANGED <<chunk, result, mapper, overlapped>>
    /\ JobTo(j, "done", job[j].text, job[j].next, job[j].total, "ok")
    /\ final' \in {final, job[j].total}

Kind(j) ==
    /\ UNCHANGED input /\ FaultsTo
    /\ \/ Begun(j) \/ Broken(j) \/ ChunkPut(j)
       \/ \E i \in Parts : Counted(j, i) \/ ResultPut(j, i)
       \/ Reducing(j) \/ ResultRead(j) \/ FinalPut(j)

LEMMA RecordTypes ==
  ASSUME TypeInv, NEW j \in Jobs
  PROVE  /\ job[j] \in JobRec /\ job[j].text \in Text /\ job[j].next \in 0 .. 3
         /\ job[j].total \in Counts /\ input[j] \in Text
         /\ \A i \in Parts : mapper[j][i] \in MapperRec /\ mapper[j][i].counts \in Counts
         /\ faults \in Nat
  <1>1. job[j] \in JobRec /\ input[j] \in Texts /\ faults \in 0 .. MaxFaults
        /\ \A i \in Parts : mapper[j][i] \in MapperRec
    BY DEF TypeInv
  <1>2. \A t \in Texts : t \in Text
    BY TextAssumption DEF Text
  <1> QED
    BY <1>1, <1>2, FaultAssumption DEF JobRec, MapperRec, Text

LEMMA FaultFacts ==
  ASSUME TypeInv
  PROVE  /\ NoFault => FaultsTo
         /\ Fault => FaultsTo /\ faults' # 0
  BY FaultAssumption DEF TypeInv, NoFault, Fault, FaultsTo

LEMMA CutType ==
  ASSUME NEW text \in Text, NEW part \in Cuts(text)
  PROVE  part \in Text
  <1>1. PICK n \in 0 .. Len(text) : part = SubSeq(text, 1, n)
    BY DEF Cuts
  <1>2. PICK a \in Nat \ {0} : a = 1
    OBVIOUS
  <1>3. SubSeq(text, a, n) \in Text
    BY PartText
  <1> QED
    BY <1>1, <1>2, <1>3

LEMMA JobStep ==
  ASSUME TypeInv, NEW j \in Jobs, NEW r \in JobRec, job' = [job EXCEPT ![j] = r]
  PROVE  JobTo(j, r.pc, r.text, r.next, r.total, r.answer)
  BY DEF TypeInv, JobTo

LEMMA AnswerStep ==
  ASSUME TypeInv, NEW j \in Jobs, NEW answer \in {"ok", "error"}, Answer(j, answer)
  PROVE  JobTo(j, "done", job[j].text, job[j].next, job[j].total, answer)
  <1> DEFINE r == [job[j] EXCEPT !.pc = "done", !.answer = answer]
  <1>1. /\ r \in JobRec /\ r.pc = "done" /\ r.answer = answer /\ r.text = job[j].text
        /\ r.next = job[j].next /\ r.total = job[j].total
    BY RecordTypes DEF JobRec
  <1>2. job' = [job EXCEPT ![j] = r]
    BY DEF Answer, TypeInv
  <1> HIDE DEF r
  <1> QED
    BY <1>1, <1>2, JobStep

LEMMA MapStep ==
  ASSUME TypeInv, NEW j \in Jobs, NEW i \in Parts, NEW r \in MapperRec,
         mapper' = [mapper EXCEPT ![j][i] = r]
  PROVE  MapTo(j, i, r.pc, r.counts)
  <1>1. PICK m : m = mapper[j] /\ m \in [Parts -> MapperRec]
    BY DEF TypeInv
  <1> DEFINE s == [m EXCEPT ![i] = r]
  <1>2. /\ s \in [Parts -> MapperRec] /\ s[i] = r /\ \A h \in Parts \ {i} : s[h] = m[h]
    BY <1>1
  <1>3. mapper' = [mapper EXCEPT ![j] = s]
    BY <1>1 DEF TypeInv
  <1> HIDE DEF s
  <1> QED
    BY <1>1, <1>2, <1>3 DEF TypeInv, MapTo

LEMMA Kinds ==
  ASSUME TypeInv, [Next]_vars
  PROVE  (\E j \in Jobs : Kind(j)) \/ UNCHANGED vars
  <1> SUFFICES ASSUME NEW j \in Jobs,
                      \/ ReadInput(j) \/ PutChunk(j)
                      \/ \E i \in Parts : ReadChunk(j, i) \/ PutResult(j, i)
                      \/ AskReduce(j) \/ ReadResult(j) \/ PutFinal(j)
               PROVE  Kind(j)
    BY DEF Next
  <1>1. /\ job \in [Jobs -> JobRec] /\ mapper \in [Jobs -> [Parts -> MapperRec]]
        /\ BucketOK /\ StageOK
        /\ job[j] \in JobRec /\ job[j].text \in Text /\ job[j].next \in 0 .. 3
        /\ job[j].total \in Counts /\ input[j] \in Text
        /\ \A i \in Parts : mapper[j][i] \in MapperRec /\ mapper[j][i].counts \in Counts
    BY RecordTypes DEF TypeInv
  <1>2. CASE ReadInput(j)
    <2>1. ASSUME NEW text \in Text,
                 job' = [job EXCEPT ![j].pc = "splitting", ![j].text = text]
          PROVE  JobTo(j, "splitting", text, job[j].next, job[j].total, job[j].answer)
      <3> DEFINE r == [job[j] EXCEPT !.pc = "splitting", !.text = text]
      <3>1. /\ r \in JobRec /\ r.pc = "splitting" /\ r.text = text /\ r.next = job[j].next
            /\ r.total = job[j].total /\ r.answer = job[j].answer
        BY <1>1 DEF JobRec, Text
      <3>2. job' = [job EXCEPT ![j] = r]
        BY <1>1, <2>1
      <3> HIDE DEF r
      <3> QED
        BY <3>1, <3>2, JobStep
    <2>2. /\ job[j].pc = "idle" /\ UNCHANGED <<input, bucket, mapper>>
          /\ overlapped' = IF Others(j) = {} THEN overlapped
                           ELSE overlapped \cup Others(j) \cup {j}
      BY <1>2 DEF ReadInput, Others
    <2>3. CASE NoFault /\ job' = [job EXCEPT ![j].pc = "splitting", ![j].text = input[j]]
      BY <1>1, <2>1, <2>2, <2>3, FaultFacts DEF Kind, Begun
    <2>4. CASE Fault /\ Answer(j, "error")
      BY <2>2, <2>4, AnswerStep, FaultFacts DEF Kind, Broken
    <2>5. ASSUME Fault, NEW text \in Cuts(input[j]),
                 job' = [job EXCEPT ![j].pc = "splitting", ![j].text = text]
          PROVE  Kind(j)
      <3>1. text \in Text
        BY <1>1, <2>5, CutType
      <3> QED
        BY <2>1, <2>2, <2>5, <3>1, FaultFacts DEF Kind, Begun
    <2> QED
      BY <1>2, <2>3, <2>4, <2>5 DEF ReadInput
  <1>3. CASE PutChunk(j)
    <2>1. PICK i \in 0 .. 2 : i = job[j].next /\ job[j].pc = "splitting" /\ i \in Parts
      BY <1>1, <1>3 DEF PutChunk, StageOK, Parts
    <2>2. PICK n \in 0 .. 3 : n = i + 1
      OBVIOUS
    <2> DEFINE pc == AfterPut(i)
               r == [job[j] EXCEPT !.pc = pc, !.next = n]
    <2>3. pc \in {"splitting", "mapping"}
      BY DEF AfterPut
    <2> HIDE DEF pc
    <2>4. /\ r \in JobRec /\ r.pc = pc /\ r.text = job[j].text /\ r.next = n
          /\ r.total = job[j].total /\ r.answer = job[j].answer
      BY <2>3, RecordTypes DEF JobRec
    <2>5. job' = [job EXCEPT ![j] = r]
      BY <1>1, <1>3, <2>2, <2>1 DEF PutChunk, pc
    <2> HIDE DEF r
    <2>6. JobTo(j, pc, job[j].text, i + 1, job[j].total, job[j].answer)
      BY <2>2, <2>4, <2>5, JobStep
    <2>7. PICK part \in Text : part = Chunk(job[j].text, i)
      BY <1>1, <2>1, ChunkType
    <2>8. /\ chunk' \in [Parts -> {Missing} \cup Text]
          /\ \A h \in Parts \ {i} : chunk'[h] = chunk[h]
          /\ faults' = 0 => chunk'[i] = part
          /\ NoFault \/ Fault
      <3>1. chunk \in [Parts -> {Missing} \cup Text]
        BY <1>1 DEF BucketOK
      <3>2. (NoFault /\ chunk' = [chunk EXCEPT ![i] = part]) \/ (Fault /\ chunk' = chunk)
        BY <1>3, <2>1, <2>7 DEF PutChunk
      <3>3. CASE NoFault /\ chunk' = [chunk EXCEPT ![i] = part]
        BY <2>1, <3>1, <3>3
      <3>4. CASE Fault /\ chunk' = chunk
        BY <3>1, <3>4, FaultFacts
      <3> QED
        BY <3>2, <3>3, <3>4
    <2>9. UNCHANGED <<input, result, final, mapper, overlapped>>
      BY <1>3 DEF PutChunk
    <2> QED
      BY <2>1, <2>6, <2>7, <2>8, <2>9, FaultFacts DEF Kind, ChunkPut, pc
  <1>4. ASSUME NEW i \in Parts, ReadChunk(j, i) PROVE Kind(j)
    <2>1. /\ job[j].pc = "mapping" /\ mapper[j][i].pc = "idle"
          /\ UNCHANGED <<input, bucket, overlapped>>
          /\ chunk[i] # Missing => chunk[i] \in Text
      BY <1>1, <1>4 DEF ReadChunk, BucketOK
    <2>2. ASSUME NEW text \in Text,
                 mapper' = [mapper EXCEPT ![j][i] = [pc |-> "counted", counts |-> Count(text)]]
          PROVE  Count(text) \in Counts /\ MapTo(j, i, "counted", Count(text))
      <3>1. PICK c \in Counts : c = Count(text)
        BY CountType
      <3> DEFINE r == [pc |-> "counted", counts |-> c]
      <3>2. r \in MapperRec /\ r.pc = "counted" /\ r.counts = c
        BY DEF MapperRec
      <3>3. mapper' = [mapper EXCEPT ![j][i] = r]
        BY <2>2, <3>1
      <3> HIDE DEF r
      <3> QED
        BY <3>1, <3>2, <3>3, MapStep
    <2>3. ASSUME Answer(j, "error"), UNCHANGED mapper, NoFault \/ Fault PROVE Kind(j)
      BY <2>1, <2>3, AnswerStep, FaultFacts DEF Kind, Broken
    <2>4. CASE /\ NoFault /\ chunk[i] # Missing /\ UNCHANGED job
               /\ mapper' = [mapper EXCEPT ![j][i] = [pc |-> "counted",
                                                      counts |-> Count(chunk[i])]]
      <3>1. Counted(j, i)
        BY <2>1, <2>2, <2>4 DEF Counted
      <3> QED
        BY <2>1, <2>4, <3>1, FaultFacts DEF Kind
    <2>5. ASSUME Fault, chunk[i] # Missing, UNCHANGED job, NEW text \in Cuts(chunk[i]),
                 mapper' = [mapper EXCEPT ![j][i] = [pc |-> "counted", counts |-> Count(text)]]
          PROVE  Kind(j)
      <3>1. text \in Text
        BY <2>1, <2>5, CutType
      <3>2. Counted(j, i)
        BY <2>1, <2>2, <2>5, <3>1, FaultFacts DEF Counted
      <3> QED
        BY <2>1, <2>5, <3>2, FaultFacts DEF Kind
    <2> QED
      BY <1>4, <2>3, <2>4, <2>5 DEF ReadChunk
  <1>5. ASSUME NEW i \in Parts, PutResult(j, i) PROVE Kind(j)
    <2> DEFINE r == [mapper[j][i] EXCEPT !.pc = "done"]
    <2>1. r \in MapperRec /\ r.pc = "done" /\ r.counts = mapper[j][i].counts
      BY <1>1 DEF MapperRec
    <2>2. mapper' = [mapper EXCEPT ![j][i] = r]
      BY <1>1, <1>5 DEF PutResult
    <2> HIDE DEF r
    <2>3. MapTo(j, i, "done", mapper[j][i].counts)
      BY <2>1, <2>2, MapStep
    <2>4. /\ result' \in [Parts -> {Missing} \cup Counts]
          /\ \A h \in Parts \ {i} : result'[h] = result[h]
          /\ faults' = 0 => result'[i] = mapper[j][i].counts
          /\ NoFault \/ Fault
      <3>1. result \in [Parts -> {Missing} \cup Counts]
        BY <1>1 DEF BucketOK
      <3>2. PICK c \in Counts : c = mapper[j][i].counts
        BY <1>1
      <3>3. (NoFault /\ result' = [result EXCEPT ![i] = c]) \/ (Fault /\ result' = result)
        BY <1>5, <3>2 DEF PutResult
      <3>4. CASE NoFault /\ result' = [result EXCEPT ![i] = c]
        BY <3>1, <3>2, <3>4
      <3>5. CASE Fault /\ result' = result
        BY <3>1, <3>5, FaultFacts
      <3> QED
        BY <3>3, <3>4, <3>5
    <2>5. ResultPut(j, i)
      BY <1>5, <2>3, <2>4, FaultFacts DEF PutResult, ResultPut
    <2> QED
      BY <1>5, <2>4, <2>5, FaultFacts DEF PutResult, Kind
  <1>6. CASE AskReduce(j)
    <2> DEFINE r == [job[j] EXCEPT !.pc = "reducing", !.next = 0]
    <2>1. /\ r \in JobRec /\ r.pc = "reducing" /\ r.text = job[j].text /\ r.next = 0
          /\ r.total = job[j].total /\ r.answer = job[j].answer
      <3>1. job[j] \in JobRec /\ 0 \in 0 .. 3
        BY <1>1
      <3> QED
        BY <3>1 DEF JobRec
    <2>2. job' = [job EXCEPT ![j] = r]
      BY <1>1, <1>6 DEF AskReduce
    <2> HIDE DEF r
    <2>3. JobTo(j, "reducing", job[j].text, 0, job[j].total, job[j].answer)
      BY <2>1, <2>2, JobStep
    <2>4. NoFault
      BY <1>6 DEF AskReduce, NoFault
    <2> QED
      BY <1>6, <2>3, <2>4, FaultFacts DEF AskReduce, Kind, Reducing
  <1>7. CASE ReadResult(j)
    <2>1. /\ job[j].pc = "reducing" /\ job[j].next \in 0 .. 2 /\ job[j].next \in Parts
          /\ UNCHANGED <<input, bucket, mapper, overlapped>>
          /\ result[job[j].next] # Missing => result[job[j].next] \in Counts
      BY <1>1, <1>7 DEF ReadResult, BucketOK, Parts
    <2>2. ASSUME NEW total \in Counts, Added(j, total)
          PROVE  JobTo(j, "reducing", job[j].text, job[j].next + 1, total, job[j].answer)
      <3>0. PICK n \in 0 .. 3 : n = job[j].next + 1
        BY <2>1
      <3> DEFINE r == [job[j] EXCEPT !.next = n, !.total = total]
      <3>1. /\ r \in JobRec /\ r.pc = job[j].pc /\ r.text = job[j].text
            /\ r.next = n /\ r.total = total /\ r.answer = job[j].answer
        BY RecordTypes DEF JobRec
      <3>2. job' = [job EXCEPT ![j] = r]
        BY <1>1, <2>2, <3>0 DEF Added
      <3> HIDE DEF r
      <3> QED
        BY <2>1, <3>0, <3>1, <3>2, JobStep
    <2>3. CASE /\ NoFault /\ result[job[j].next] # Missing
               /\ Added(j, Summed(job[j].total, result[job[j].next]))
      <3>1. PICK c, d : c = job[j].total /\ d = result[job[j].next]
        OBVIOUS
      <3>2. Summed(c, d) \in Counts
        BY <1>1, <2>1, <2>3, <3>1 DEF Summed, Counts
      <3>3. JobTo(j, "reducing", job[j].text, job[j].next + 1, Summed(c, d), job[j].answer)
        BY <2>2, <2>3, <3>1, <3>2
      <3>4. ResultRead(j)
        BY <2>1, <2>3, <3>1, <3>2, <3>3 DEF ResultRead
      <3> QED
        BY <2>1, <2>3, <3>4, FaultFacts DEF Kind
    <2>4. ASSUME Answer(j, "error"), NoFault \/ Fault PROVE Kind(j)
      BY <2>1, <2>4, AnswerStep, FaultFacts DEF Kind, Broken
    <2>5. CASE Fault /\ result[job[j].next] # Missing /\ Added(j, job[j].total)
      <3>1. ResultRead(j)
        BY <1>1, <2>1, <2>2, <2>5, FaultFacts DEF ResultRead
      <3> QED
        BY <2>1, <2>5, <3>1, FaultFacts DEF Kind
    <2> QED
      BY <1>7, <2>3, <2>4, <2>5 DEF ReadResult
  <1>8. CASE PutFinal(j)
    <2>1. JobTo(j, "done", job[j].text, job[j].next, job[j].total, "ok")
      BY <1>8, AnswerStep DEF PutFinal
    <2> QED
      BY <1>8, <2>1, FaultFacts DEF PutFinal, Kind, FinalPut
  <1> QED
    BY <1>2, <1>3, <1>4, <1>5, <1>6, <1>7, <1>8

-----------------------------------------------------------------------------
(* The types.                                                               *)

StageOf(j) ==
    /\ job[j].pc = "mapping" => job[j].next = 3
    /\ job[j].pc = "idle" => job[j].next = 0
    /\ job[j].pc = "splitting" => job[j].next \in 0 .. 2
    /\ job[j].pc \in {"idle", "splitting"} => \A i \in Parts : mapper[j][i].pc = "idle"
    /\ job[j].pc \in {"idle", "splitting", "mapping"} => job[j].total = None
    /\ job[j].pc = "reducing" => \A i \in Parts : mapper[j][i].pc = "done"
    /\ job[j].pc # "done" => job[j].answer = "none"

LEMMA TypeStep ==
  ASSUME TypeInv, [Next]_vars
  PROVE  TypeInv'
  <1>1. CASE UNCHANGED vars
    BY <1>1 DEF vars, bucket, TypeInv, BucketOK, StageOK
  <1>2. ASSUME NEW j \in Jobs, Kind(j) PROVE TypeInv'
    <2>1. /\ input' \in [Jobs -> Texts] /\ faults' \in 0 .. MaxFaults
          /\ job \in [Jobs -> JobRec] /\ mapper \in [Jobs -> [Parts -> MapperRec]]
          /\ BucketOK /\ \A k \in Jobs : StageOf(k)
      BY <1>2 DEF TypeInv, StageOK, StageOf, Kind, FaultsTo
    <2>2. BucketOK'
      <3>1. CASE UNCHANGED bucket
        BY <2>1, <3>1 DEF bucket, BucketOK
      <3>2. CASE ChunkPut(j)
        BY <2>1, <3>2 DEF ChunkPut, BucketOK
      <3>3. CASE \E i \in Parts : ResultPut(j, i)
        BY <2>1, <3>3 DEF ResultPut, BucketOK
      <3>4. CASE FinalPut(j)
        BY <2>1, <3>4, RecordTypes DEF FinalPut, BucketOK
      <3> QED
        BY <1>2, <3>1, <3>2, <3>3, <3>4
        DEF Kind, Begun, Broken, Counted, Reducing, ResultRead
    <2>3. /\ job' \in [Jobs -> JobRec] /\ mapper' \in [Jobs -> [Parts -> MapperRec]]
          /\ overlapped' \subseteq Jobs
      BY <1>2, <2>1
      DEF Kind, Begun, Broken, ChunkPut, Counted, ResultPut, Reducing, ResultRead, FinalPut,
          JobTo, MapTo, TypeInv, Others
    <2>4. ASSUME NEW k \in Jobs \ {j} PROVE StageOf(k)'
      <3>1. job'[k] = job[k] /\ mapper'[k] = mapper[k]
        BY <1>2
        DEF Kind, Begun, Broken, ChunkPut, Counted, ResultPut, Reducing, ResultRead, FinalPut,
            JobTo, MapTo
      <3> QED
        BY <2>1, <3>1 DEF StageOf
    <2>5. StageOf(j)'
      <3>1. StageOf(j) /\ job[j].next \in 0 .. 3
        BY <2>1, RecordTypes
      <3>2. CASE Begun(j)
        BY <3>1, <3>2 DEF Begun, JobTo, StageOf
      <3>3. CASE Broken(j) \/ FinalPut(j)
        BY <3>1, <3>3 DEF Broken, FinalPut, JobTo, StageOf
      <3>4. CASE ChunkPut(j)
        BY <3>1, <3>4 DEF ChunkPut, JobTo, StageOf, AfterPut
      <3>5. ASSUME NEW i \in Parts, Counted(j, i) PROVE StageOf(j)'
        BY <3>1, <3>5 DEF Counted, StageOf
      <3>6. ASSUME NEW i \in Parts, ResultPut(j, i) PROVE StageOf(j)'
        <4>1. mapper'[j][i].pc = "done" /\ \A h \in Parts \ {i} : mapper'[j][h] = mapper[j][h]
          BY <3>6 DEF ResultPut, MapTo
        <4> QED
          BY <3>1, <3>6, <4>1 DEF ResultPut, StageOf
      <3>7. CASE Reducing(j) \/ ResultRead(j)
        BY <3>1, <3>7 DEF Reducing, ResultRead, JobTo, StageOf
      <3> QED
        BY <1>2, <3>2, <3>3, <3>4, <3>5, <3>6, <3>7 DEF Kind
    <2> QED
      BY <2>1, <2>2, <2>3, <2>4, <2>5 DEF TypeInv, StageOK, StageOf
  <1> QED
    BY <1>1, <1>2, Kinds

\* Every object of the bucket, job and map has its type, and the chunks are put
\* before a client asks for maps (the handlers of splitter, mapper, reducer).
THEOREM TypeCorrect == Spec => []TypeOK
  <1>1. TypeInv /\ [Next]_vars => TypeInv'
    BY TypeStep
  <1> QED
    BY <1>1, TypeInit, TypeInvType, PTL DEF Spec

-----------------------------------------------------------------------------
(* Jobs that run beside one another are in overlapped.                      *)

OverlapOK ==
    \A j, k \in Jobs : j # k /\ Running(j) /\ Running(k) => j \in overlapped /\ k \in overlapped

LEMMA RunningBefore ==
  ASSUME TypeInv, NEW j \in Jobs, Kind(j), NEW k \in Jobs, Running(k)'
  PROVE  Running(k) \/ (k = j /\ Begun(j))
  <1>1. CASE k # j
    <2>1. job'[k] = job[k] /\ mapper'[k] = mapper[k]
      BY <1>1
      DEF Kind, Begun, Broken, ChunkPut, Counted, ResultPut, Reducing, ResultRead, FinalPut,
          JobTo, MapTo
    <2> QED
      BY <2>1 DEF Running
  <1>2. CASE k = j /\ ~Begun(j)
    <2>1. CASE Broken(j)
      BY <1>2, <2>1 DEF Broken, JobTo, Running
    <2>2. CASE \E i \in Parts : ResultPut(j, i)
      BY <1>2, <2>2 DEF ResultPut, Running
    <2>3. CASE job[j].pc \notin {"idle", "done"}
      BY <1>2, <2>3 DEF Running
    <2> QED
      BY <1>2, <2>1, <2>2, <2>3
      DEF Kind, ChunkPut, Counted, Reducing, ResultRead, FinalPut
  <1> QED
    BY <1>1, <1>2

LEMMA OverlapStep ==
  ASSUME TypeInv, OverlapOK, [Next]_vars
  PROVE  OverlapOK' /\ overlapped \subseteq overlapped'
  <1>1. CASE UNCHANGED vars
    BY <1>1 DEF vars, OverlapOK, Running
  <1>2. ASSUME NEW h \in Jobs, Kind(h) PROVE OverlapOK' /\ overlapped \subseteq overlapped'
    <2>1. overlapped \subseteq overlapped'
      BY <1>2
      DEF Kind, Begun, Broken, ChunkPut, Counted, ResultPut, Reducing, ResultRead, FinalPut
    <2>2. ASSUME NEW k \in Jobs \ {h}, Running(k), Begun(h)
          PROVE  h \in overlapped' /\ k \in overlapped'
      BY <2>2 DEF Begun, Others
    <2>3. ASSUME NEW j \in Jobs, NEW k \in Jobs, j # k, Running(j)', Running(k)'
          PROVE  j \in overlapped' /\ k \in overlapped'
      <3>1. /\ Running(j) \/ (j = h /\ Begun(h))
            /\ Running(k) \/ (k = h /\ Begun(h))
        BY <1>2, <2>3, RunningBefore
      <3> QED
        BY <2>1, <2>2, <2>3, <3>1 DEF OverlapOK
    <2> QED
      BY <2>1, <2>3 DEF OverlapOK
  <1> QED
    BY <1>1, <1>2, Kinds

-----------------------------------------------------------------------------
(* The sums of the first n of three counts.                                 *)

Partial(n, x, w) == (IF n > 0 THEN x[0][w] ELSE 0) + (IF n > 1 THEN x[1][w] ELSE 0)
                                                   + (IF n > 2 THEN x[2][w] ELSE 0)

LEMMA PartialFacts ==
  ASSUME NEW x \in [Parts -> Counts], NEW w \in Words
  PROVE  /\ Partial(0, x, w) = 0
         /\ Partial(3, x, w) = x[0][w] + x[1][w] + x[2][w]
         /\ \A n \in Parts : Partial(n + 1, x, w) = Partial(n, x, w) + x[n][w]
  <1>1. x[0][w] \in Nat /\ x[1][w] \in Nat /\ x[2][w] \in Nat
    BY DEF Parts, Counts
  <1>2. PICK a \in Nat, b \in Nat, c \in Nat : a = x[0][w] /\ b = x[1][w] /\ c = x[2][w]
    BY <1>1
  <1>3. \A n \in Int : Partial(n, x, w) = (IF n > 0 THEN a ELSE 0) + (IF n > 1 THEN b ELSE 0)
                                                             + (IF n > 2 THEN c ELSE 0)
    BY <1>2 DEF Partial
  <1>4. ASSUME NEW n \in Parts PROVE Partial(n + 1, x, w) = Partial(n, x, w) + x[n][w]
    <2>1. CASE n = 0
      BY <1>2, <1>3, <2>1
    <2>2. CASE n = 1
      BY <1>2, <1>3, <2>2
    <2>3. CASE n = 2
      BY <1>2, <1>3, <2>3
    <2> QED
      BY <2>1, <2>2, <2>3 DEF Parts
  <1> QED
    BY <1>2, <1>3, <1>4

LEMMA PartialSame ==
  ASSUME NEW n \in 0 .. 3, NEW x, NEW y, \A i \in Parts : i < n => x[i] = y[i], NEW w
  PROVE  Partial(n, x, w) = Partial(n, y, w)
  <1>1. /\ n > 0 => x[0] = y[0]
        /\ n > 1 => x[1] = y[1]
        /\ n > 2 => x[2] = y[2]
    BY DEF Parts
  <1> QED
    BY <1>1 DEF Partial

\* The counts of the three chunks of a job's text.
PartCounts(j) == [i \in Parts |-> Count(Chunk(input[j], i))]

LEMMA PartCountsType ==
  ASSUME TypeInv, NEW j \in Jobs
  PROVE  PartCounts(j) \in [Parts -> Counts]
  BY RecordTypes, ChunkType, CountType DEF PartCounts

LEMMA InputStays ==
  ASSUME TypeInv, [Next]_vars
  PROVE  /\ input' = input /\ \A j : PartCounts(j)' = PartCounts(j)
         /\ faults \in Nat /\ (faults' = 0 => faults = 0)
  <1>1. input' = input
    BY Kinds DEF Kind, vars
  <1>2. faults \in Nat /\ (faults' = 0 => faults = 0)
    BY Kinds, FaultAssumption DEF Kind, FaultsTo, vars, TypeInv
  <1> QED
    BY <1>1, <1>2 DEF PartCounts

-----------------------------------------------------------------------------
(* A job that no other ran beside works on its own objects.                 *)

SoloOf(j) ==
    /\ job[j].pc = "splitting" =>
         /\ job[j].text = input[j]
         /\ \A i \in Parts : i < job[j].next => chunk[i] = Chunk(input[j], i)
    /\ job[j].pc = "mapping" => \A i \in Parts :
         /\ chunk[i] = Chunk(input[j], i)
         /\ mapper[j][i].pc = "counted" => mapper[j][i].counts = PartCounts(j)[i]
    /\ job[j].pc \in {"mapping", "reducing"} => \A i \in Parts :
         mapper[j][i].pc = "done" => result[i] = PartCounts(j)[i]
    /\ job[j].pc = "reducing" \/ job[j].answer = "ok" => \A w \in Words :
         job[j].total[w] = Partial(job[j].next, PartCounts(j), w)
    /\ job[j].answer = "ok" => job[j].next = 3

SoloOK == faults = 0 => \A j \in Jobs \ overlapped : SoloOf(j)

\* Another job's step.
LEMMA SoloOther ==
  ASSUME TypeInv, OverlapOK, [Next]_vars, NEW k \in Jobs, Kind(k),
         NEW j \in Jobs \ {k}, j \notin overlapped, SoloOf(j)
  PROVE  SoloOf(j)'
  <1>1. /\ job'[j] = job[j] /\ mapper'[j] = mapper[j] /\ input' = input
        /\ PartCounts(j)' = PartCounts(j)
    BY InputStays
    DEF Kind, Begun, Broken, ChunkPut, Counted, ResultPut, Reducing, ResultRead, FinalPut,
        JobTo, MapTo
  <1>2. CASE ~Running(j)
    <2>1. job[j].pc \in {"idle", "done"}
      BY <1>2 DEF Running
    <2> QED
      BY <1>1, <2>1 DEF SoloOf
  <1>3. CASE Running(j)
    <2>1. ~Running(k)
      BY <1>3 DEF OverlapOK
    <2>2. chunk' = chunk /\ result' = result
      BY <2>1
      DEF Running, Kind, Begun, Broken, ChunkPut, Counted, ResultPut, Reducing, ResultRead,
          FinalPut, bucket
    <2> QED
      BY <1>1, <2>2 DEF SoloOf
  <1> QED
    BY <1>2, <1>3

\* A step of its own.
LEMMA SoloOwn ==
  ASSUME TypeInv, [Next]_vars, NEW j \in Jobs, Kind(j), SoloOf(j), faults' = 0
  PROVE  SoloOf(j)'
  <1>1. /\ input' = input /\ PartCounts(j)' = PartCounts(j)
        /\ PartCounts(j) \in [Parts -> Counts] /\ StageOf(j)
        /\ job[j].next \in 0 .. 3 /\ job[j].total \in Counts
        /\ \A i \in Parts : PartCounts(j)[i] = Count(Chunk(input[j], i))
    BY InputStays, PartCountsType, RecordTypes DEF TypeInv, StageOK, StageOf, PartCounts
  <1>2. PICK x \in [Parts -> Counts] : x = PartCounts(j)
    BY <1>1
  <1>3. CASE Begun(j)
    BY <1>1, <1>3 DEF Begun, JobTo, StageOf, SoloOf, Parts
  <1>4. CASE Broken(j)
    BY <1>4 DEF Broken, JobTo, SoloOf
  <1>5. CASE ChunkPut(j)
    <2>1. PICK n \in 0 .. 2 : n = job[j].next /\ n \in Parts
      BY <1>1, <1>5 DEF ChunkPut, StageOf, Parts
    <2>2. /\ job'[j].text = input[j] /\ job'[j].next = n + 1 /\ job'[j].answer = "none"
          /\ job'[j].pc = IF n = 2 THEN "mapping" ELSE "splitting"
          /\ mapper' = mapper /\ result' = result
      BY <1>1, <1>5, <2>1 DEF ChunkPut, JobTo, SoloOf, StageOf, AfterPut
    <2>3. ASSUME NEW i \in Parts, i < n + 1 PROVE chunk'[i] = Chunk(input[j], i)
      <3>1. CASE i = n
        BY <1>5, <2>1, <3>1 DEF ChunkPut, SoloOf
      <3>2. CASE i # n
        <4>1. i < n
          BY <2>3, <3>2 DEF Parts
        <4> QED
          BY <1>5, <2>1, <3>2, <4>1 DEF ChunkPut, SoloOf
      <3> QED
        BY <3>1, <3>2
    <2>4. \A i \in Parts : i < 3
      BY DEF Parts
    <2>5. \A i \in Parts : mapper'[j][i].pc = "idle"
      BY <1>1, <1>5, <2>2 DEF ChunkPut, StageOf
    <2> QED
      BY <1>1, <2>1, <2>2, <2>3, <2>4, <2>5 DEF SoloOf
  <1>6. ASSUME NEW i \in Parts, Counted(j, i) PROVE SoloOf(j)'
    <2>1. /\ mapper'[j][i].pc = "counted" /\ mapper'[j][i].counts = Count(chunk[i])
          /\ \A h \in Parts \ {i} : mapper'[j][h] = mapper[j][h]
          /\ job[j].pc = "mapping" /\ UNCHANGED <<chunk, result, job>>
      BY <1>6 DEF Counted, MapTo, bucket
    <2>2. chunk[i] = Chunk(input[j], i)
      BY <2>1 DEF SoloOf
    <2> QED
      BY <1>1, <2>1, <2>2 DEF SoloOf, StageOf
  <1>7. ASSUME NEW i \in Parts, ResultPut(j, i) PROVE SoloOf(j)'
    <2>1. /\ mapper'[j][i].pc = "done" /\ mapper[j][i].pc = "counted"
          /\ result'[i] = mapper[j][i].counts
          /\ \A h \in Parts \ {i} : mapper'[j][h] = mapper[j][h] /\ result'[h] = result[h]
          /\ UNCHANGED <<chunk, job>>
      BY <1>7 DEF ResultPut, MapTo
    <2>2. CASE job[j].pc = "mapping"
      BY <1>1, <2>1, <2>2 DEF SoloOf, StageOf
    <2>3. CASE job[j].pc # "mapping"
      BY <1>1, <2>1, <2>3 DEF SoloOf, StageOf
    <2> QED
      BY <2>2, <2>3
  <1>8. CASE Reducing(j)
    <2>1. /\ job'[j].pc = "reducing" /\ job'[j].next = 0 /\ job'[j].total = None
          /\ job'[j].answer = "none" /\ UNCHANGED <<mapper, result>>
          /\ job[j].pc = "mapping"
      BY <1>1, <1>8 DEF Reducing, JobTo, StageOf, bucket
    <2>2. \A w \in Words : job'[j].total[w] = Partial(0, x, w)
      BY <2>1, PartialFacts DEF None
    <2> QED
      BY <1>1, <1>2, <2>1, <2>2 DEF SoloOf
  <1>9. CASE ResultRead(j)
    <2>1. PICK n \in Parts, c \in Counts, d \in Counts :
             /\ n = job[j].next /\ c = job[j].total /\ d = x[n]
      BY <1>1, <1>9 DEF ResultRead
    <2>2. result[n] = d
      BY <1>1, <1>2, <1>9, <2>1 DEF ResultRead, StageOf, SoloOf
    <2>3. /\ job'[j].pc = "reducing" /\ job'[j].next = n + 1 /\ job'[j].answer = "none"
          /\ job'[j].total = Summed(c, d) /\ UNCHANGED <<mapper, result>>
          /\ job[j].pc = "reducing"
      BY <1>1, <1>9, <2>1, <2>2 DEF ResultRead, JobTo, StageOf, bucket
    <2>4. \A w \in Words : Summed(c, d)[w] = Partial(n + 1, x, w)
      <3> SUFFICES ASSUME NEW w \in Words PROVE Summed(c, d)[w] = Partial(n + 1, x, w)
        OBVIOUS
      <3>1. c[w] = Partial(n, x, w)
        BY <1>2, <2>1, <2>3 DEF SoloOf
      <3>2. Summed(c, d)[w] = c[w] + d[w]
        BY DEF Summed
      <3>3. Partial(n + 1, x, w) = Partial(n, x, w) + x[n][w]
        BY PartialFacts
      <3> QED
        BY <2>1, <3>1, <3>2, <3>3
    <2> QED
      BY <1>1, <1>2, <2>3, <2>4 DEF SoloOf
  <1>10. CASE FinalPut(j)
    <2>1. /\ job'[j].pc = "done" /\ job'[j].next = 3 /\ job'[j].total = job[j].total
          /\ job[j].pc = "reducing" /\ job[j].next = 3
      BY <1>10 DEF FinalPut, JobTo
    <2> QED
      BY <1>1, <2>1 DEF SoloOf
  <1> QED
    BY <1>3, <1>4, <1>5, <1>6, <1>7, <1>8, <1>9, <1>10 DEF Kind

LEMMA SoloStep ==
  ASSUME TypeInv, OverlapOK, SoloOK, [Next]_vars
  PROVE  SoloOK'
  <1> SUFFICES ASSUME faults' = 0, NEW j \in Jobs, j \notin overlapped' PROVE SoloOf(j)'
    BY DEF SoloOK
  <1>1. faults = 0 /\ j \notin overlapped
    BY InputStays, OverlapStep
  <1>2. SoloOf(j)
    BY <1>1 DEF SoloOK
  <1>3. CASE UNCHANGED vars
    BY <1>2, <1>3 DEF vars, bucket, SoloOf, PartCounts
  <1>4. ASSUME NEW k \in Jobs, Kind(k) PROVE SoloOf(j)'
    BY <1>1, <1>2, <1>4, SoloOther, SoloOwn
  <1> QED
    BY <1>3, <1>4, Kinds

LEMMA OwnInit == Init => OverlapOK /\ SoloOK
  <1> SUFFICES ASSUME Init PROVE OverlapOK /\ SoloOK
    OBVIOUS
  <1>1. \A j \in Jobs : /\ job[j].pc = "idle" /\ job[j].answer = "none"
                        /\ \A i \in Parts : mapper[j][i].pc = "idle"
    BY DEF Init
  <1> QED
    BY <1>1 DEF OverlapOK, Running, SoloOK, SoloOf

LEMMA CountsExactFrom ==
  ASSUME TypeInv, SoloOK
  PROVE  CountsExact
  <1> SUFFICES ASSUME NEW j \in Jobs, job[j].answer = "ok", j \notin overlapped, faults = 0
               PROVE  job[j].total = Count(input[j])
    BY DEF CountsExact
  <1>1. PICK text \in Text, total \in Counts : text = input[j] /\ total = job[j].total
    BY RecordTypes
  <1>2. PICK x \in [Parts -> Counts] : x = PartCounts(j)
    BY PartCountsType
  <1>3. \A w \in Words : total[w] = Partial(3, x, w)
    BY <1>1, <1>2 DEF SoloOK, SoloOf
  <1>4. \A i \in Parts : x[i] = Count(Chunk(text, i))
    BY <1>1, <1>2 DEF PartCounts
  <1>5. ASSUME NEW w \in Words PROVE total[w] = Count(text)[w]
    <2>1. total[w] = x[0][w] + x[1][w] + x[2][w]
      BY <1>3, PartialFacts
    <2>2. 0 \in Parts /\ 1 \in Parts /\ 2 \in Parts
      BY DEF Parts
    <2> QED
      BY <1>4, <2>1, <2>2, ChunksAddUp
  <1>6. Count(text) \in Counts
    BY CountType
  <1>7. total = Count(text)
    BY <1>5, <1>6 DEF Counts
  <1> QED
    BY <1>1, <1>7

\* A job that no other ran beside, and no call of which went wrong, answers with
\* the counts of its whole text, however long or short it is, whatever earlier
\* jobs left in the bucket (splitter, mapper, reducer against benchmark.go).
THEOREM CountsAreExact == Spec => []CountsExact
  <1>1. TypeInv /\ [Next]_vars => TypeInv'
    BY TypeStep
  <1>2. TypeInv /\ OverlapOK /\ [Next]_vars => OverlapOK'
    BY OverlapStep
  <1>3. TypeInv /\ OverlapOK /\ SoloOK /\ [Next]_vars => SoloOK'
    BY SoloStep
  <1>4. TypeInv /\ SoloOK => CountsExact
    BY CountsExactFrom
  <1> QED
    BY <1>1, <1>2, <1>3, <1>4, TypeInit, OwnInit, PTL DEF Spec

-----------------------------------------------------------------------------
(* Jobs that overlap: every object, and every term of a sum, is a whole part *)
(* of one job, and a sum has one term per part.                              *)

\* The counts of part i of job of[i].
Mixed(of) == [i \in Parts |-> PartCounts(of[i])[i]]

BucketWhole ==
    \A i \in Parts :
        /\ chunk[i] # Missing => \E k \in Jobs : chunk[i] = Chunk(input[k], i)
        /\ result[i] # Missing => \E k \in Jobs : result[i] = PartCounts(k)[i]

JobWhole(j) ==
    /\ job[j].pc = "splitting" => job[j].text = input[j]
    /\ \A i \in Parts : mapper[j][i].pc = "counted" =>
         \E k \in Jobs : mapper[j][i].counts = PartCounts(k)[i]
    /\ job[j].pc = "reducing" \/ job[j].answer = "ok" =>
         \E of \in [Parts -> Jobs] : \A w \in Words :
            job[j].total[w] = Partial(job[j].next, Mixed(of), w)
    /\ job[j].answer = "ok" => job[j].next = 3

WholeOK == faults = 0 => BucketWhole /\ \A j \in Jobs : JobWhole(j)

LEMMA MixedFacts ==
  ASSUME TypeInv, NEW of \in [Parts -> Jobs]
  PROVE  Mixed(of) \in [Parts -> Counts] /\ \A i \in Parts : Mixed(of)[i] = PartCounts(of[i])[i]
  <1>1. ASSUME NEW i \in Parts PROVE PartCounts(of[i])[i] \in Counts
    BY PartCountsType
  <1> QED
    BY <1>1 DEF Mixed

LEMMA BucketWholeStep ==
  ASSUME TypeInv, [Next]_vars, NEW j \in Jobs, Kind(j), faults' = 0, BucketWhole, JobWhole(j)
  PROVE  BucketWhole'
  <1>1. /\ input' = input /\ \A k : PartCounts(k)' = PartCounts(k)
        /\ StageOf(j)
    BY InputStays DEF TypeInv, StageOK, StageOf
  <1>2. CASE UNCHANGED <<chunk, result>>
    BY <1>1, <1>2 DEF BucketWhole
  <1>3. CASE ChunkPut(j)
    <2>1. PICK n \in Parts : n = job[j].next
      BY <1>1, <1>3 DEF ChunkPut, StageOf, Parts
    <2>2. /\ chunk'[n] = Chunk(input[j], n) /\ result' = result
          /\ \A h \in Parts \ {n} : chunk'[h] = chunk[h]
      BY <1>3, <2>1 DEF ChunkPut, JobWhole
    <2> QED
      BY <1>1, <2>2 DEF BucketWhole
  <1>4. ASSUME NEW i \in Parts, ResultPut(j, i) PROVE BucketWhole'
    <2>1. /\ \E k \in Jobs : result'[i] = PartCounts(k)[i]
          /\ \A h \in Parts \ {i} : result'[h] = result[h]
          /\ chunk' = chunk
      BY <1>4 DEF ResultPut, JobWhole
    <2> QED
      BY <1>1, <2>1 DEF BucketWhole
  <1> QED
    BY <1>2, <1>3, <1>4
    DEF Kind, Begun, Broken, Counted, Reducing, ResultRead, FinalPut, bucket

LEMMA JobWholeOwn ==
  ASSUME TypeInv, [Next]_vars, NEW j \in Jobs, Kind(j), faults' = 0, BucketWhole, JobWhole(j)
  PROVE  JobWhole(j)'
  <1>1. /\ input' = input /\ \A k : PartCounts(k)' = PartCounts(k)
        /\ StageOf(j) /\ job[j].total \in Counts
        /\ \A of : Mixed(of)' = Mixed(of)
    BY InputStays, RecordTypes DEF TypeInv, StageOK, StageOf, Mixed
  <1>2. \A k \in Jobs : \A i \in Parts : PartCounts(k)[i] = Count(Chunk(input[k], i))
    BY DEF PartCounts
  <1>3. CASE Begun(j)
    BY <1>1, <1>3 DEF Begun, JobTo, StageOf, JobWhole
  <1>4. CASE Broken(j)
    BY <1>1, <1>4 DEF Broken, JobTo, JobWhole, bucket
  <1>5. CASE ChunkPut(j)
    <2>1. /\ job'[j].text = input[j] /\ job'[j].answer = "none" /\ mapper' = mapper
          /\ job'[j].pc # "reducing" /\ \A i \in Parts : mapper[j][i].pc = "idle"
      BY <1>1, <1>5 DEF ChunkPut, JobTo, JobWhole, StageOf, AfterPut
    <2> QED
      BY <1>1, <2>1 DEF JobWhole
  <1>6. ASSUME NEW i \in Parts, Counted(j, i) PROVE JobWhole(j)'
    <2>1. /\ mapper'[j][i].counts = Count(chunk[i]) /\ chunk[i] # Missing
          /\ \A h \in Parts \ {i} : mapper'[j][h] = mapper[j][h]
          /\ job[j].pc = "mapping" /\ job' = job
      BY <1>6 DEF Counted, MapTo
    <2>2. \E k \in Jobs : mapper'[j][i].counts = PartCounts(k)[i]
      BY <1>2, <2>1 DEF BucketWhole
    <2> QED
      BY <1>1, <2>1, <2>2 DEF JobWhole, StageOf
  <1>7. ASSUME NEW i \in Parts, ResultPut(j, i) PROVE JobWhole(j)'
    <2>1. /\ mapper'[j][i].pc = "done" /\ job' = job
          /\ \A h \in Parts \ {i} : mapper'[j][h] = mapper[j][h]
      BY <1>7 DEF ResultPut, MapTo
    <2> QED
      BY <1>1, <2>1 DEF JobWhole
  <1>8. CASE Reducing(j)
    <2>1. /\ job'[j].pc = "reducing" /\ job'[j].next = 0 /\ job'[j].total = None
          /\ job'[j].answer = "none" /\ mapper' = mapper
      BY <1>1, <1>8 DEF Reducing, JobTo, StageOf
    <2>2. PICK of \in [Parts -> Jobs] : of = [i \in Parts |-> j]
      OBVIOUS
    <2>3. PICK x \in [Parts -> Counts] : x = Mixed(of)
      BY MixedFacts
    <2>4. \A w \in Words : job'[j].total[w] = Partial(0, x, w)
      BY <2>1, PartialFacts DEF None
    <2> QED
      BY <1>1, <2>1, <2>3, <2>4 DEF JobWhole
  <1>9. CASE ResultRead(j)
    <2>1. PICK n \in Parts, c \in Counts : n = job[j].next /\ c = job[j].total
      BY <1>1, <1>9 DEF ResultRead
    <2>2. PICK k \in Jobs : result[n] = PartCounts(k)[n]
      BY <1>9, <2>1 DEF ResultRead, BucketWhole
    <2>3. PICK d \in Counts : d = PartCounts(k)[n]
      BY PartCountsType
    <2>4. /\ job'[j].pc = "reducing" /\ job'[j].next = n + 1 /\ job'[j].answer = "none"
          /\ job'[j].total = Summed(c, d) /\ mapper' = mapper /\ job[j].pc = "reducing"
      BY <1>1, <1>9, <2>1, <2>2, <2>3 DEF ResultRead, JobTo, StageOf
    <2>5. PICK of \in [Parts -> Jobs] : \A w \in Words : c[w] = Partial(n, Mixed(of), w)
      BY <2>1, <2>4 DEF JobWhole
    <2>6. PICK now \in [Parts -> Jobs] :
             now[n] = k /\ \A i \in Parts : i < n => now[i] = of[i]
      <3> DEFINE now == [of EXCEPT ![n] = k]
      <3>1. now \in [Parts -> Jobs] /\ now[n] = k /\ \A i \in Parts : i < n => now[i] = of[i]
        BY DEF Parts
      <3> QED
        BY <3>1
    <2>7. PICK x, y \in [Parts -> Counts] : x = Mixed(of) /\ y = Mixed(now)
      BY MixedFacts
    <2>8. y[n] = d /\ \A i \in Parts : i < n => x[i] = y[i]
      BY <2>3, <2>6, <2>7, MixedFacts
    <2>9. \A w \in Words : Summed(c, d)[w] = Partial(n + 1, y, w)
      <3> SUFFICES ASSUME NEW w \in Words PROVE Summed(c, d)[w] = Partial(n + 1, y, w)
        OBVIOUS
      <3>1. n \in 0 .. 3
        BY DEF Parts
      <3>2. Partial(n, x, w) = Partial(n, y, w)
        BY <2>8, <3>1, PartialSame
      <3>3. Partial(n + 1, y, w) = Partial(n, y, w) + y[n][w]
        BY PartialFacts
      <3>4. Summed(c, d)[w] = c[w] + d[w]
        BY DEF Summed
      <3>5. c[w] = Partial(n, x, w)
        BY <2>5, <2>7
      <3> QED
        BY <2>8, <3>2, <3>3, <3>4, <3>5
    <2> QED
      BY <1>1, <2>4, <2>7, <2>9 DEF JobWhole
  <1>10. CASE FinalPut(j)
    <2>1. /\ job'[j].pc = "done" /\ job'[j].next = 3 /\ job'[j].total = job[j].total
          /\ job[j].pc = "reducing" /\ job[j].next = 3 /\ mapper' = mapper
      BY <1>10 DEF FinalPut, JobTo
    <2> QED
      BY <1>1, <2>1 DEF JobWhole
  <1> QED
    BY <1>3, <1>4, <1>5, <1>6, <1>7, <1>8, <1>9, <1>10 DEF Kind

LEMMA WholeStep ==
  ASSUME TypeInv, WholeOK, [Next]_vars
  PROVE  WholeOK'
  <1> SUFFICES ASSUME faults' = 0 PROVE BucketWhole' /\ \A j \in Jobs : JobWhole(j)'
    BY DEF WholeOK
  <1>1. /\ BucketWhole /\ \A j \in Jobs : JobWhole(j)
        /\ \A k : PartCounts(k)' = PartCounts(k)
        /\ input' = input
    BY InputStays DEF WholeOK
  <1>2. \A of : Mixed(of)' = Mixed(of)
    BY <1>1 DEF Mixed
  <1>3. ASSUME NEW j \in Jobs, job'[j] = job[j], mapper'[j] = mapper[j] PROVE JobWhole(j)'
    BY <1>1, <1>2, <1>3 DEF JobWhole
  <1>4. CASE UNCHANGED vars
    BY <1>1, <1>3, <1>4 DEF vars, bucket, BucketWhole
  <1>5. ASSUME NEW k \in Jobs, Kind(k) PROVE BucketWhole' /\ \A j \in Jobs : JobWhole(j)'
    <2>1. BucketWhole' /\ JobWhole(k)'
      BY <1>1, <1>5, BucketWholeStep, JobWholeOwn
    <2>2. \A j \in Jobs \ {k} : job'[j] = job[j] /\ mapper'[j] = mapper[j]
      BY <1>5
      DEF Kind, Begun, Broken, ChunkPut, Counted, ResultPut, Reducing, ResultRead, FinalPut,
          JobTo, MapTo
    <2> QED
      BY <1>3, <2>1, <2>2
  <1> QED
    BY <1>4, <1>5, Kinds

LEMMA WholeInit == Init => WholeOK
  <1> SUFFICES ASSUME Init PROVE WholeOK
    OBVIOUS
  <1>1. \A j \in Jobs : /\ job[j].pc = "idle" /\ job[j].answer = "none"
                        /\ \A i \in Parts : mapper[j][i].pc = "idle"
    BY DEF Init
  <1>2. BucketWhole
    BY DEF Init, BucketWhole
  <1> QED
    BY <1>1, <1>2 DEF WholeOK, JobWhole

LEMMA PartsWholeFrom ==
  ASSUME TypeInv, WholeOK
  PROVE  PartsWhole
  <1> DEFINE counts(of, i) == Count(Chunk(input[of[i]], i))
  <1> SUFFICES ASSUME NEW j \in Jobs, job[j].answer = "ok", faults = 0
               PROVE  \E of \in [Parts -> Jobs] : \A w \in Words :
                         job[j].total[w] = counts(of, 0)[w] + counts(of, 1)[w] + counts(of, 2)[w]
    BY DEF PartsWhole
  <1>1. PICK of \in [Parts -> Jobs] : \A w \in Words :
           job[j].total[w] = Partial(3, Mixed(of), w)
    BY DEF WholeOK, JobWhole
  <1>2. PICK x \in [Parts -> Counts] : x = Mixed(of)
    BY MixedFacts
  <1>3. \A i \in Parts : x[i] = counts(of, i)
    BY <1>2 DEF Mixed, PartCounts
  <1>4. x[0] = counts(of, 0) /\ x[1] = counts(of, 1) /\ x[2] = counts(of, 2)
    BY <1>3 DEF Parts
  <1> HIDE DEF counts
  <1>5. \A w \in Words :
           job[j].total[w] = counts(of, 0)[w] + counts(of, 1)[w] + counts(of, 2)[w]
    BY <1>1, <1>2, <1>4, PartialFacts
  <1> QED
    BY <1>5

\* Jobs that overlap may count one another's chunks, but each part once and
\* whole: a total adds up the first chunk of one job, the second of one and the
\* third of one (the shared keys of splitter, mapper and reducer).
THEOREM PartsAreWhole == Spec => []PartsWhole
  <1>1. TypeInv /\ [Next]_vars => TypeInv'
    BY TypeStep
  <1>2. TypeInv /\ WholeOK /\ [Next]_vars => WholeOK'
    BY WholeStep
  <1>3. TypeInv /\ WholeOK => PartsWhole
    BY PartsWholeFrom
  <1> QED
    BY <1>1, <1>2, <1>3, TypeInit, WholeInit, PTL DEF Spec
=============================================================================
