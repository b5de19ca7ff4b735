-------------------------- MODULE LeaderKVProofs --------------------------
(***************************************************************************)
(* Theorems about LeaderKV, for every set of followers, requests, keys and *)
(* values, every bound, and with any followers written directly.           *)
(***************************************************************************)
EXTENDS LeaderKV, FiniteSetTheorems, FunctionTheorems, TLAPS

-----------------------------------------------------------------------------
(* What the operations of a node's store return.                            *)

LEMMA NewStoreType == NewStore \in Store
  BY DEF NewStore, Store, KVEntry, Absent

\* What Set returns: one more version, stored under the key.
LEMMA SetResult ==
  ASSUME NEW s \in Store, NEW k \in Keys, NEW v \in Values
  PROVE  /\ Set(s, k, v) \in Store
         /\ Set(s, k, v).counter = s.counter + 1
         /\ Get(Set(s, k, v), k) = [value |-> v, version |-> s.counter + 1]
         /\ \A j \in Keys \ {k} : Get(Set(s, k, v), j) = Get(s, j)
  BY DEF Set, Get, Store, KVEntry

\* SetWithVersion keeps the counter and every other key.  Under its key it leaves
\* the old entry or the offered one, at least as new as the offered one and, when
\* there was an entry, at least as new as that.
LEMMA SetWithVersionResult ==
  ASSUME NEW s \in Store, NEW k \in Keys, NEW v \in Values, NEW n \in Int
  PROVE  LET t == SetWithVersion(s, k, v, n) IN
         /\ t \in Store
         /\ t.counter = s.counter
         /\ Get(t, k) \in {Get(s, k), [value |-> v, version |-> n]}
         /\ Get(t, k) # Absent /\ Get(t, k).version >= n
         /\ Get(s, k) # Absent => Get(t, k).version >= Get(s, k).version
         /\ \A j \in Keys \ {k} : Get(t, j) = Get(s, j)
  <1> DEFINE written == [s EXCEPT !.data[k] = [value |-> v, version |-> n]]
  <1>1. /\ s.data \in [Keys -> KVEntry] /\ s.counter \in Nat
        /\ s.data[k].version \in Int
    BY DEF Store, KVEntry
  <1>2. CASE s.data[k] = Absent \/ n > s.data[k].version
    <2>1. SetWithVersion(s, k, v, n) = written
      BY <1>2 DEF SetWithVersion
    <2>2. /\ written \in Store /\ written.counter = s.counter
          /\ written.data[k] = [value |-> v, version |-> n]
          /\ \A j \in Keys \ {k} : written.data[j] = s.data[j]
      BY <1>1 DEF Store, KVEntry
    <2>3. s.data[k] # Absent => n >= s.data[k].version
      BY <1>1, <1>2
    <2>4. [value |-> v, version |-> n] # Absent
      BY DataAssumption DEF Absent
    <2> QED
      BY <2>1, <2>2, <2>3, <2>4 DEF Get
  <1>3. CASE ~(s.data[k] = Absent \/ n > s.data[k].version)
    BY <1>1, <1>3 DEF SetWithVersion, Get
  <1> QED
    BY <1>2, <1>3

\* What the query of an accepted request is parsed to.
LEMMA ParsedResult ==
  ASSUME NEW m, m.key \in Keys, m.value \in Values, m.version \in Int, Accepts(m)
  PROVE  /\ Parsed(m).key \in Keys /\ Parsed(m).value \in Values
         /\ Parsed(m).version \in Int
         /\ Parsed(m).value = Wire[m.key, m.value].value
         /\ Parsed(m).key = Wire[m.key, m.value].key
         /\ Intact(m) => Parsed(m).key = m.key /\ Parsed(m).version = m.version
  <1> DEFINE p == Wire[m.key, m.value]
  <1>1. p \in ParsedRequest
    BY WireAssumption DEF Accepts
  <1>2. /\ p.key \in Keys /\ p.value \in Values
        /\ p = [key |-> p.key, value |-> p.value, version |-> p.version]
        /\ p.version \in Int \cup {Own}
    BY <1>1 DEF ParsedRequest
  <1>3. Parsed(m) = [key |-> p.key, value |-> p.value,
                     version |-> IF p.version = Own THEN m.version ELSE p.version]
    <2>1. Parsed(m) = [p EXCEPT !.version = IF p.version = Own THEN m.version ELSE p.version]
      BY <1>1 DEF Parsed, ParsedRequest
    <2> HIDE DEF p
    <2> QED
      BY <1>1, <2>1 DEF ParsedRequest
  <1>4. Intact(m) => p.key = m.key /\ p.version = Own
    BY DEF Intact
  <1> HIDE DEF p
  <1>5. /\ Parsed(m).key = p.key /\ Parsed(m).value = p.value
        /\ Parsed(m).version = IF p.version = Own THEN m.version ELSE p.version
    BY <1>3
  <1>6. Parsed(m).version \in Int
    BY <1>2, <1>5
  <1> QED
    BY <1>2, <1>4, <1>5, <1>6 DEF p

\* Only the key, the value and the version of a request are in its URL.
SameRequest(a, b) == a.key = b.key /\ a.value = b.value /\ a.version = b.version

LEMMA SameParse ==
  ASSUME NEW a, NEW b, SameRequest(a, b)
  PROVE  /\ Accepts(a) <=> Accepts(b)
         /\ Intact(a) <=> Intact(b)
         /\ Parsed(a) = Parsed(b)
         /\ \A k : LandsOn(a, k) <=> LandsOn(b, k)
         /\ \A s : HandleSet(s, a) = HandleSet(s, b)
         /\ \A s : Holds(s, a) <=> Holds(s, b)
  BY DEF SameRequest, Accepts, Intact, Parsed, LandsOn, HandleSet, Holds

\* /internal/set changes at most the entry the request lands on, to what the
\* request carries, and makes no entry older.
LEMMA HandleSetResult ==
  ASSUME NEW s \in Store, NEW m, m.key \in Keys, m.value \in Values, m.version \in Int
  PROVE  LET t == HandleSet(s, m) IN
         /\ t \in Store
         /\ t.counter = s.counter
         /\ Accepts(m) => Holds(t, m)
         /\ \A k \in Keys :
               /\ \/ Get(t, k) = Get(s, k)
                  \/ /\ LandsOn(m, k)
                     /\ Get(t, k) = [value |-> Parsed(m).value, version |-> Parsed(m).version]
               /\ Get(s, k) # Absent => /\ Get(t, k) # Absent
                                       /\ Get(t, k).version >= Get(s, k).version
  <1> DEFINE t == HandleSet(s, m)
  <1>0. \A k \in Keys : Get(s, k).version \in Int
    BY DEF Get, Store, KVEntry
  <1>1. CASE ~Accepts(m)
    <2>1. t = s
      BY <1>1 DEF HandleSet
    <2> HIDE DEF t
    <2>2. \A k \in Keys : Get(t, k) = Get(s, k) /\ Get(t, k).version >= Get(s, k).version
      <3>1. \A k \in Keys : Get(t, k) = Get(s, k)
        BY <2>1
      <3>2. \A i \in Int : i >= i
        OBVIOUS
      <3> QED
        BY <1>0, <3>1, <3>2, Zenon
    <2>3. t \in Store /\ t.counter = s.counter
      BY <2>1
    <2> QED
      BY <1>1, <2>2, <2>3 DEF t
  <1>2. CASE Accepts(m)
    <2> DEFINE j == Parsed(m).key
               v == Parsed(m).value
               n == Parsed(m).version
    <2>1. j \in Keys /\ v \in Values /\ n \in Int
      BY <1>2, ParsedResult
    <2>2. t = SetWithVersion(s, j, v, n)
      BY <1>2 DEF HandleSet
    <2> HIDE DEF t, j, v, n
    <2>3. /\ t \in Store /\ t.counter = s.counter
          /\ Get(t, j) \in {Get(s, j), [value |-> v, version |-> n]}
          /\ Get(t, j) # Absent /\ Get(t, j).version >= n
          /\ Get(s, j) # Absent => Get(t, j).version >= Get(s, j).version
          /\ \A k \in Keys \ {j} : Get(t, k) = Get(s, k)
      BY <2>1, <2>2, SetWithVersionResult
    <2>4. Holds(t, m)
      BY <1>2, <2>3 DEF Holds, j, n
    <2>5. ASSUME NEW k \in Keys
          PROVE  /\ \/ Get(t, k) = Get(s, k)
                    \/ LandsOn(m, k) /\ Get(t, k) = [value |-> v, version |-> n]
                 /\ Get(s, k) # Absent => /\ Get(t, k) # Absent
                                         /\ Get(t, k).version >= Get(s, k).version
      <3>1. CASE k = j
        BY <1>2, <2>3, <3>1 DEF LandsOn, j
      <3>2. CASE k # j
        BY <1>0, <2>3, <3>2
      <3> QED
        BY <3>1, <3>2
    <2> QED
      BY <2>3, <2>4, <2>5 DEF t, v, n
  <1> QED
    BY <1>1, <1>2

\* /internal/get answers with an entry of the node or with none.
LEMMA HandleGetResult ==
  ASSUME NEW s \in Store, NEW k \in Keys
  PROVE  HandleGet(s, k) \in KVEntry
  <1>1. Absent \in KVEntry
    BY DEF Absent, KVEntry
  <1>2. WireKey[k] # Refused => WireKey[k] \in Keys
    BY WireAssumption
  <1> QED
    BY <1>1, <1>2 DEF HandleGet, Get, Store

-----------------------------------------------------------------------------
(* Type correctness.  TypeOK is inductive together with LoopOK: the loop    *)
(* index stays inside the list while a call is to be made or under way.     *)

LoopOK == \A q \in WriteReqs :
             write[q].pc \in {"sending", "waiting"} => write[q].i \in 1 .. Len(write[q].list)

TypeInv == TypeOK /\ LoopOK

LEMMA ListFacts ==
  ASSUME NEW l \in FollowerLists
  PROVE  l \in Seq(Followers) /\ Len(l) \in Nat /\ Range(l) \subseteq Followers
         /\ \A i \in 1 .. Len(l) : l[i] \in Followers /\ l[i] \in Range(l)
  BY ListAssumption DEF Range

LEMMA NeedType ==
  ASSUME NEW s \in Strategies, NEW l \in FollowerLists
  PROVE  Need(s, l) \in Nat
  BY ListFacts DEF Need

\* The switch leaves the record well typed, with the loop's index in range.
LEMMA DispatchType ==
  ASSUME NEW w \in WriteRec, NEW s \in Strategies
  PROVE  /\ Dispatch(w, s) \in WriteRec
         /\ Dispatch(w, s).pc \in {"sending", "waiting"} =>
               Dispatch(w, s).i \in 1 .. Len(Dispatch(w, s).list)
  <1>1. Len(w.list) \in Nat /\ w.list \in Seq(Followers)
    BY ListFacts DEF WriteRec
  <1>2. w.list # <<>> => 1 \in 1 .. Len(w.list)
    BY <1>1
  <1>3. Need(s, w.list) \in Nat
    BY NeedType DEF WriteRec
  <1>4. Dispatch(w, s) \in WriteRec
    BY <1>3 DEF Dispatch, WriteRec
  <1> QED
    BY <1>2, <1>4 DEF Dispatch, WriteRec

\* So does the end of an iteration.
LEMMA AfterCallType ==
  ASSUME NEW w \in WriteRec, w.i \in 1 .. Len(w.list)
  PROVE  /\ AfterCall(w) \in WriteRec
         /\ AfterCall(w).pc \in {"sending", "waiting"} =>
               AfterCall(w).i \in 1 .. Len(AfterCall(w).list)
  <1>1. Len(w.list) \in Nat
    BY ListFacts DEF WriteRec
  <1>2. AnswerAfterCall(w) \in {"none", "created", "error"}
    BY DEF AnswerAfterCall, WriteRec
  <1>3. w.i + 1 \in Nat
    BY DEF WriteRec
  <1>4. AfterCall(w) \in WriteRec
    BY <1>2, <1>3 DEF AfterCall, WriteRec
  <1> QED
    BY <1>1, <1>4 DEF AfterCall, WriteRec

LEMMA ReplicationType ==
  ASSUME NEW w \in WriteRec, w.i \in 1 .. Len(w.list)
  PROVE  Replication(w) \in Message /\ Target(w) \in Followers
  <1>1. Target(w) \in Followers
    BY ListFacts DEF WriteRec, Target
  <1> QED
    BY <1>1 DEF Replication, Message, WriteRec

LEMMA RespondedType ==
  ASSUME NEW w \in WriteRec, w.i \in 1 .. Len(w.list)
  PROVE  /\ Responded(w) \in WriteRec
         /\ SameRequest(Responded(w), w)
         /\ Responded(w).i = w.i /\ Responded(w).list = w.list /\ Responded(w).pc = w.pc
         /\ Responded(w).need = w.need /\ Responded(w).answer = w.answer
         /\ Responded(w).strategy = w.strategy
         /\ Responded(w).acked = IF Accepts(w) THEN w.acked \cup {Target(w)} ELSE w.acked
  BY ReplicationType DEF Responded, WriteRec, SameRequest

LEMMA NodeTypes == Leader \in Nodes /\ Followers \subseteq Nodes
  BY DEF Nodes

LEMMA TypeInit == Init => TypeInv
  <1> SUFFICES ASSUME Init PROVE TypeInv
    OBVIOUS
  <1>1. store \in [Nodes -> Store]
    BY NewStoreType DEF Init
  <1>2. /\ (CHOOSE k \in Keys : TRUE) \in Keys
        /\ (CHOOSE v \in Values : TRUE) \in Values
    BY DataAssumption
  <1>3. IdleWrite \in WriteRec /\ IdleWrite.pc = "idle"
    BY <1>2 DEF IdleWrite, WriteRec, Init
  <1>4. IdleRead \in ReadRec
    BY <1>2 DEF IdleRead, ReadRec, Init, KVEntry, Absent
  <1> QED
    BY <1>1, <1>3, <1>4, BoundAssumption DEF Init, TypeInv, TypeOK, LoopOK

LEMMA ReceivedType ==
  ASSUME NEW r \in ReadRec, NEW x \in r.fetched
  PROVE  Received(r, x) \in ReadRec
  <1>1. x.entry \in KVEntry /\ Better(x.entry, r.best) \in KVEntry
    BY DEF Better, ReadRec
  <1>2. r.fetched \ {x} \in SUBSET [from : Followers, entry : KVEntry]
    BY DEF ReadRec
  <1>3. r.received + 1 \in Nat
    BY DEF ReadRec
  <1> QED
    BY <1>1, <1>2, <1>3 DEF Received, ReadRec

\* Type correctness of the read requests' steps.
LEMMA ReadStepType ==
  ASSUME TypeInv, NEW q \in ReadReqs,
         \/ \E k \in Keys : LeaderGet(q, k)
         \/ Reading(q)
         \/ \E f \in Followers : FetchReturns(q, f) \/ FetchFails(q, f)
  PROVE  TypeInv'
  <1> USE DEF TypeInv, TypeOK
  <1>1. read[q] \in ReadRec
    OBVIOUS
  <1>2. \A n \in Nodes, j \in Keys : Get(store[n], j) \in KVEntry
    BY DEF Get, Store
  <1>3. ASSUME NEW k \in Keys, LeaderGet(q, k) PROVE TypeInv'
    <2>1. Get(store[Leader], k).version \in Int
      BY <1>2, NodeTypes DEF KVEntry
    <2> QED
      BY <1>1, <1>3, <2>1 DEF LeaderGet, LoopOK, ReadRec
  <1>4. CASE RouteRead(q)
    BY <1>1, <1>4 DEF RouteRead, LoopOK, ReadRec
  <1>5. CASE ReadLocal(q)
    <2>1. Get(store[Leader], read[q].key) \in KVEntry
      BY <1>1, <1>2, NodeTypes DEF ReadRec
    <2>2. Range(read[q].list) \in SUBSET Followers
      BY <1>1, ListFacts DEF ReadRec
    <2> QED
      BY <1>1, <1>5, <2>1, <2>2 DEF ReadLocal, LoopOK, ReadRec
  <1>6. CASE Receive(q)
    <2>1. PICK x \in read[q].fetched :
            read' = [read EXCEPT ![q] =
                       IF EnoughResponses(Received(read[q], x))
                       THEN [Received(read[q], x) EXCEPT !.pc = "done", !.asked = {},
                                                         !.fetched = {}]
                       ELSE Received(read[q], x)]
      BY <1>6 DEF Receive
    <2>3. Received(read[q], x) \in ReadRec
      BY <1>1, ReceivedType
    <2>4. [Received(read[q], x) EXCEPT !.pc = "done", !.asked = {}, !.fetched = {}]
             \in ReadRec
      BY <2>3 DEF ReadRec
    <2>5. read' \in [ReadReqs -> ReadRec]
      BY <2>1, <2>3, <2>4
    <2> QED
      BY <1>6, <2>5 DEF Receive, LoopOK
  <1>7. ASSUME NEW f \in Followers, NEW e \in KVEntry, Fetched(q, f, e)
        PROVE  read' \in [ReadReqs -> ReadRec]
    <2>1. read[q].fetched \cup {[from |-> f, entry |-> e]}
             \in SUBSET [from : Followers, entry : KVEntry]
      BY <1>1 DEF ReadRec
    <2> QED
      BY <1>1, <1>7, <2>1 DEF Fetched, ReadRec
  <1>8. ASSUME NEW f \in Followers, FetchReturns(q, f) PROVE TypeInv'
    <2>1. HandleGet(store[f], read[q].key) \in KVEntry
      BY <1>1, NodeTypes, HandleGetResult DEF ReadRec
    <2> QED
      BY <1>7, <1>8, <2>1 DEF FetchReturns, Fetched, LoopOK
  <1>9. ASSUME NEW f \in Followers, FetchFails(q, f) PROVE TypeInv'
    <2>1. Absent \in KVEntry
      BY DEF Absent, KVEntry
    <2>2. failures' \in 0 .. MaxFailures
      BY <1>9, BoundAssumption DEF FetchFails
    <2> QED
      BY <1>7, <1>9, <2>1, <2>2 DEF FetchFails, Fetched, LoopOK
  <1> QED
    BY <1>3, <1>4, <1>5, <1>6, <1>8, <1>9 DEF Reading

\* Type correctness of the write requests' steps.
LEMMA WriteStepType ==
  ASSUME TypeInv, NEW q \in WriteReqs, Writing(q) \/ CallFails(q)
  PROVE  TypeInv'
  <1> USE DEF TypeInv, TypeOK
  <1>1. write[q] \in WriteRec
    OBVIOUS
  <1>2. ASSUME NEW w \in WriteRec, write' = [write EXCEPT ![q] = w],
               w.pc \in {"sending", "waiting"} => w.i \in 1 .. Len(w.list)
        PROVE  write' \in [WriteReqs -> WriteRec] /\ LoopOK'
    BY <1>2 DEF LoopOK
  <1>3. CASE ReadFollowers(q)
    <2>1. [write[q] EXCEPT !.pc = "listed", !.list = followers] \in WriteRec
      BY <1>1 DEF WriteRec
    <2> QED
      BY <1>1, <1>2, <1>3, <2>1 DEF ReadFollowers, WriteRec
  <1>4. CASE ReadStrategy(q)
    BY <1>1, <1>2, <1>4, DispatchType DEF ReadStrategy
  <1>5. CASE SendReplication(q)
    <2>1. write[q].i \in 1 .. Len(write[q].list)
      BY <1>5 DEF SendReplication, LoopOK
    <2>2. Replication(write[q]) \in Message
      BY <1>1, <2>1, ReplicationType
    <2>3. [write[q] EXCEPT !.pc = "waiting"] \in WriteRec
      BY <1>1 DEF WriteRec
    <2>4. /\ write' = [write EXCEPT ![q] = [write[q] EXCEPT !.pc = "waiting"]]
          /\ net' = net \cup {Replication(write[q])}
      BY <1>1, <1>5 DEF SendReplication
    <2>5. write' \in [WriteReqs -> WriteRec] /\ LoopOK'
      BY <1>1, <1>2, <2>1, <2>3, <2>4 DEF WriteRec
    <2>6. net' \in SUBSET Message
      BY <2>2, <2>4
    <2> QED
      BY <1>5, <2>5, <2>6 DEF SendReplication
  <1>6. ASSUME write[q].pc = "waiting"
        PROVE  /\ write[q].i \in 1 .. Len(write[q].list)
               /\ Target(write[q]) \in Followers
    BY <1>1, <1>6, ReplicationType DEF LoopOK
  <1>7. CASE CallReturns(q)
    <2>1. /\ Responded(write[q]) \in WriteRec
          /\ Responded(write[q]).i \in 1 .. Len(Responded(write[q]).list)
      BY <1>1, <1>6, <1>7, RespondedType DEF CallReturns
    <2>2. write' = [write EXCEPT ![q] = AfterCall(Responded(write[q]))]
      BY <1>7 DEF CallReturns
    <2> QED
      BY <1>2, <1>7, <2>1, <2>2, AfterCallType DEF CallReturns
  <1>8. CASE CallFails(q)
    <2> DEFINE w == [write[q] EXCEPT !.missed = write[q].missed \cup {Target(write[q])}]
    <2>1. w \in WriteRec /\ w.i \in 1 .. Len(w.list)
      BY <1>1, <1>6, <1>8 DEF CallFails, WriteRec
    <2>2. \/ write' = [write EXCEPT ![q] = AfterCall(write[q])]
          \/ write' = [write EXCEPT ![q] = AfterCall(w)]
      BY <1>8 DEF CallFails
    <2>3. write[q].i \in 1 .. Len(write[q].list)
      BY <1>6, <1>8 DEF CallFails
    <2> HIDE DEF w
    <2>4. write' \in [WriteReqs -> WriteRec] /\ LoopOK'
      BY <1>1, <1>2, <2>1, <2>2, <2>3, AfterCallType
    <2>5. net' \in SUBSET Message
      BY <1>8 DEF CallFails
    <2>6. failures' \in 0 .. MaxFailures
      BY <1>8, BoundAssumption DEF CallFails
    <2> QED
      BY <1>8, <2>4, <2>5, <2>6 DEF CallFails
  <1> QED
    BY <1>3, <1>4, <1>5, <1>7, <1>8 DEF Writing

LEMMA TypeStep == TypeInv /\ [Next]_vars => TypeInv'
  <1> SUFFICES ASSUME TypeInv, [Next]_vars PROVE TypeInv'
    OBVIOUS
  <1>1. ASSUME NEW l \in FollowerLists, SetFollowers(l) PROVE TypeInv'
    BY <1>1, BoundAssumption DEF SetFollowers, TypeInv, TypeOK, LoopOK
  <1>2. ASSUME NEW s \in Strategies, SetStrategy(s) PROVE TypeInv'
    BY <1>2, BoundAssumption DEF SetStrategy, TypeInv, TypeOK, LoopOK
  <1>3. ASSUME NEW f \in DirectWriters, NEW k \in Keys, NEW v \in Values,
               FollowerSet(f, k, v)
        PROVE  TypeInv'
    <2>1. f \in Nodes
      BY NodeAssumption, NodeTypes
    <2>2. Set(store[f], k, v) \in Store
      BY <2>1, SetResult DEF TypeInv, TypeOK
    <2> QED
      BY <1>3, <2>2 DEF FollowerSet, TypeInv, TypeOK, LoopOK
  <1>4. ASSUME NEW q \in WriteReqs, NEW k \in Keys, NEW v \in Values, LeaderSet(q, k, v)
        PROVE  TypeInv'
    <2> USE DEF TypeInv, TypeOK
    <2>1. Set(store[Leader], k, v) \in Store /\ store[Leader].counter + 1 \in Nat
      BY NodeTypes, SetResult DEF Store
    <2>2. [write[q] EXCEPT !.pc = "stored", !.key = k, !.value = v,
                           !.version = store[Leader].counter + 1] \in WriteRec
      <3>1. write[q] \in WriteRec
        OBVIOUS
      <3> HIDE DEF TypeInv, TypeOK
      <3> QED
        BY <2>1, <3>1 DEF WriteRec
    <2>3. LoopOK'
      BY <1>4 DEF LeaderSet, LoopOK, WriteRec
    <2>4. store' \in [Nodes -> Store] /\ write' \in [WriteReqs -> WriteRec]
      BY <1>4, <2>1, <2>2 DEF LeaderSet
    <2> QED
      BY <1>4, <2>3, <2>4 DEF LeaderSet
  <1>5. ASSUME NEW q \in WriteReqs, Writing(q) \/ CallFails(q) PROVE TypeInv'
    BY <1>5, WriteStepType
  <1>6. ASSUME NEW m \in net, InternalSet(m) PROVE TypeInv'
    <2>1. m \in Message /\ m.to \in Nodes
      BY NodeTypes DEF TypeInv, TypeOK, Message
    <2>2. HandleSet(store[m.to], m) \in Store
      BY <2>1, HandleSetResult DEF TypeInv, TypeOK, Message
    <2> QED
      BY <1>6, <2>2 DEF InternalSet, TypeInv, TypeOK, LoopOK
  <1>7. ASSUME NEW q \in ReadReqs,
               \/ \E k \in Keys : LeaderGet(q, k)
               \/ Reading(q)
               \/ \E f \in Followers : FetchReturns(q, f) \/ FetchFails(q, f)
        PROVE  TypeInv'
    BY <1>7, ReadStepType
  <1>8. CASE UNCHANGED vars
    BY <1>8 DEF vars, TypeInv, TypeOK, LoopOK
  <1> QED
    BY <1>1, <1>2, <1>3, <1>4, <1>5, <1>6, <1>7, <1>8 DEF Next

\* Type correctness of every reachable state.
THEOREM TypeCorrect == Spec => []TypeOK
  <1>1. Spec => []TypeInv
    BY TypeInit, TypeStep, PTL DEF Spec
  <1> QED
    BY <1>1, PTL DEF TypeInv
-----------------------------------------------------------------------------
(* The inductive invariant.  DataInv is about the entries: the leader's     *)
(* counter numbers the writes, its store holds the newest write of a key,   *)
(* and replications under way and entries of followers are those of writes. *)

Numbering ==
    /\ \A k \in Keys : Version(Leader, k) \in 0 .. store[Leader].counter
    /\ \A q \in WriteReqs :
          Started(q) => write[q].version \in 1 .. store[Leader].counter
    /\ \A p, q \in WriteReqs :
          Started(p) /\ Started(q) /\ p # q => write[p].version # write[q].version

LeaderNewest ==
    \A q \in WriteReqs :
        Started(q) => Version(Leader, write[q].key) >= write[q].version

NetFromWrites ==
    \A m \in net :
        \E q \in WriteReqs : Started(q) /\ SameRequest(m, write[q])

DataInv == Numbering /\ LeaderNewest /\ NetFromWrites /\ Provenance

(* AckInv is about the calls: once a call the follower accepts is no longer *)
(* under way the follower holds what its URL carries, so the followers      *)
(* counted as acks do, and an answer was given on enough of them.           *)

Has(f, w) == f \in DirectWriters \/ Holds(store[f], w)

CallInv ==
    \A q \in WriteReqs :
        write[q].pc = "waiting" =>
            \/ Replication(write[q]) \in net
            \/ ~Accepts(write[q])
            \/ Has(Target(write[q]), write[q])

Counted ==
    \A q \in WriteReqs :
        LET w == write[q] IN
        /\ w.pc \in {"idle", "stored", "listed"} => w.acked = {} /\ w.answer = "none"
        /\ w.pc \in {"sending", "waiting", "done"} => w.need = Need(w.strategy, w.list)
        /\ w.acked \subseteq Range(w.list)
        /\ \A f \in w.acked : Has(f, w)
        /\ w.answer = "created" /\ w.strategy \in {"w5r1", "w3r3"} => Enough(w)

AckInv == CallInv /\ Counted

IInv == TypeInv /\ DataInv /\ AckInv
-----------------------------------------------------------------------------
(* DataInv.                                                                *)

\* A step of a write handler changes no store and no write's identity, and
\* puts nothing on the network but its own replication.
LEMMA WriteStepKeeps ==
  ASSUME TypeInv, NEW q \in WriteReqs, Writing(q) \/ CallFails(q)
  PROVE  /\ store' = store
         /\ net' \subseteq net \cup {Replication(write[q])}
         /\ Started(q)
         /\ \A p \in WriteReqs : /\ Started(p)' <=> Started(p)
                                 /\ SameRequest(write'[p], write[p])
         /\ \A p \in WriteReqs \ {q} : write'[p] = write[p]
  <1> DEFINE Keeps(w) == /\ w.pc # "idle" /\ w.key = write[q].key
                         /\ w.value = write[q].value /\ w.version = write[q].version
  <1>1. write \in [WriteReqs -> WriteRec] /\ write[q] \in WriteRec
    BY DEF TypeInv, TypeOK
  <1>2. /\ store' = store
        /\ net' \subseteq net \cup {Replication(write[q])}
        /\ write[q].pc # "idle"
    BY DEF Writing, ReadFollowers, ReadStrategy, SendReplication, CallReturns, CallFails
  <1>3. ASSUME NEW w, write' = [write EXCEPT ![q] = w], Keeps(w)
        PROVE  /\ Keeps(write'[q])
               /\ \A p \in WriteReqs \ {q} : write'[p] = write[p]
    BY <1>1, <1>3
  <1>4. ASSUME NEW w \in WriteRec, Keeps(w) PROVE Keeps(AfterCall(w))
    BY <1>4 DEF AfterCall, WriteRec
  <1>5. /\ Keeps(write'[q])
        /\ \A p \in WriteReqs \ {q} : write'[p] = write[p]
    <2>1. CASE ReadFollowers(q)
      <3>1. Keeps([write[q] EXCEPT !.pc = "listed", !.list = followers])
        BY <1>1 DEF WriteRec
      <3> QED
        BY <1>3, <2>1, <3>1 DEF ReadFollowers
    <2>2. CASE ReadStrategy(q)
      <3>1. Keeps(Dispatch(write[q], strategy))
        BY <1>1 DEF Dispatch, WriteRec
      <3> QED
        BY <1>3, <2>2, <3>1 DEF ReadStrategy
    <2>3. CASE SendReplication(q)
      <3>1. write' = [write EXCEPT ![q] = [write[q] EXCEPT !.pc = "waiting"]]
        BY <1>1, <2>3 DEF SendReplication
      <3>2. Keeps([write[q] EXCEPT !.pc = "waiting"])
        BY <1>1 DEF WriteRec
      <3> QED
        BY <1>3, <3>1, <3>2
    <2>4. CASE CallReturns(q)
      <3>0. write[q].i \in 1 .. Len(write[q].list)
        BY <2>4 DEF CallReturns, TypeInv, LoopOK
      <3>1. Responded(write[q]) \in WriteRec /\ Keeps(Responded(write[q]))
        BY <1>1, <1>2, <3>0, RespondedType DEF SameRequest
      <3>2. write' = [write EXCEPT ![q] = AfterCall(Responded(write[q]))]
        BY <2>4 DEF CallReturns
      <3> QED
        BY <1>3, <1>4, <3>1, <3>2
    <2>5. CASE CallFails(q)
      <3>1. [write[q] EXCEPT !.missed = write[q].missed \cup {Target(write[q])}] \in WriteRec
        BY <1>1, <2>5, ReplicationType DEF CallFails, WriteRec, TypeInv, LoopOK
      <3>2. Keeps([write[q] EXCEPT !.missed = write[q].missed \cup {Target(write[q])}])
        BY <1>1, <1>2 DEF WriteRec
      <3> QED
        BY <1>1, <1>2, <1>3, <1>4, <2>5, <3>1, <3>2 DEF CallFails
    <2> QED
      BY <2>1, <2>2, <2>3, <2>4, <2>5 DEF Writing
  <1> QED
    BY <1>1, <1>2, <1>5 DEF Started, SameRequest

LEMMA DataInit == Init => DataInv
  <1> SUFFICES ASSUME Init PROVE DataInv
    OBVIOUS
  <1>1. \A n \in Nodes, k \in Keys : Get(store[n], k) = Absent /\ store[n].counter = 0
    BY DEF Init, NewStore, Get
  <1>2. \A q \in WriteReqs : ~Started(q)
    BY DEF Init, IdleWrite, Started
  <1>3. Absent.version = 0
    BY DEF Absent
  <1> QED
    BY <1>1, <1>2, <1>3, NodeTypes
    DEF Init, DataInv, Numbering, LeaderNewest, NetFromWrites, Provenance, Version

LEMMA VersionType ==
  ASSUME TypeInv, NEW n \in Nodes, NEW k \in Keys
  PROVE  Get(store[n], k) \in KVEntry /\ Version(n, k) \in Int /\ store[n].counter \in Nat
  BY DEF TypeInv, TypeOK, Version, Get, Store, KVEntry

LEMMA DataWrite ==
  ASSUME TypeInv, DataInv, NEW q \in WriteReqs, Writing(q) \/ CallFails(q)
  PROVE  DataInv'
  <1>1. /\ store' = store
        /\ net' \subseteq net \cup {Replication(write[q])}
        /\ Started(q)
        /\ \A p \in WriteReqs : /\ Started(p)' <=> Started(p)
                                /\ SameRequest(write'[p], write[p])
    BY WriteStepKeeps
  <1>2. Numbering'
    BY <1>1 DEF DataInv, Numbering, Version, SameRequest
  <1>3. LeaderNewest'
    BY <1>1 DEF DataInv, LeaderNewest, Version, SameRequest
  <1>4. NetFromWrites'
    BY <1>1 DEF DataInv, NetFromWrites, Replication, SameRequest
  <1>5. Provenance'
    <2>1. \A p \in WriteReqs :
             /\ Parsed(write'[p]) = Parsed(write[p])
             /\ \A k : LandsOn(write'[p], k) <=> LandsOn(write[p], k)
      BY <1>1, SameParse
    <2> QED
      BY <1>1, <2>1 DEF DataInv, Provenance, SameRequest
  <1> QED
    BY <1>2, <1>3, <1>4, <1>5 DEF DataInv

LEMMA DataSet ==
  ASSUME TypeInv, DataInv, NEW q \in WriteReqs, NEW k \in Keys, NEW v \in Values,
         LeaderSet(q, k, v)
  PROVE  DataInv'
  <1> DEFINE n == store[Leader].counter + 1
  <1>1. n \in Nat /\ store[Leader] \in Store
    BY NodeTypes, VersionType DEF TypeInv, TypeOK
  <1>2. /\ store'[Leader].counter = n
        /\ Get(store'[Leader], k) = [value |-> v, version |-> n]
        /\ \A j \in Keys \ {k} : Get(store'[Leader], j) = Get(store[Leader], j)
        /\ \A f \in Nodes \ {Leader} : store'[f] = store[f]
    BY <1>1, SetResult, NodeAssumption, NodeTypes DEF LeaderSet, TypeInv, TypeOK
  <1>3. /\ ~Started(q) /\ Started(q)'
        /\ write'[q].key = k /\ write'[q].value = v /\ write'[q].version = n
        /\ \A p \in WriteReqs \ {q} : write'[p] = write[p]
    BY DEF LeaderSet, Started, TypeInv, TypeOK, WriteRec
  <1>4. \A p \in WriteReqs \ {q} : Started(p)' <=> Started(p)
    BY <1>3 DEF Started
  <1>5. net' = net
    BY DEF LeaderSet
  <1>6. \A j \in Keys : Version(Leader, j) \in Nat /\ Version(Leader, j) < n
    BY <1>1, VersionType, NodeTypes DEF DataInv, Numbering
  <1>7. \A j \in Keys :
           Get(store'[Leader], j).version = IF j = k THEN n ELSE Version(Leader, j)
    BY <1>2 DEF Version
  <1>8. \A p \in WriteReqs : Started(p) => /\ write[p].version \in Nat
                                           /\ write[p].version < n
    BY <1>1 DEF DataInv, Numbering, Store
  <1> HIDE DEF n
  <1>9. Numbering'
    <2>1. \A j \in Keys : Get(store'[Leader], j).version \in 0 .. store'[Leader].counter
      BY <1>1, <1>2, <1>6, <1>7
    <2>2. \A p \in WriteReqs : Started(p)' => write'[p].version \in 1 .. n
      <3>1. n \in 1 .. n
        BY <1>1 DEF n, Store
      <3>2. \A p \in WriteReqs : Started(p) => write[p].version \in 1 .. n
        BY <1>1, <1>8 DEF DataInv, Numbering, n, Store
      <3> QED
        BY <1>3, <1>4, <3>1, <3>2
    <2>3. \A p, r \in WriteReqs :
             Started(p)' /\ Started(r)' /\ p # r => write'[p].version # write'[r].version
      BY <1>1, <1>3, <1>4, <1>8 DEF DataInv, Numbering
    <2> QED
      BY <1>2, <2>1, <2>2, <2>3 DEF Numbering, Version
  <1>10. LeaderNewest'
    <2> SUFFICES ASSUME NEW p \in WriteReqs, Started(p)'
                 PROVE  Get(store'[Leader], write'[p].key).version >= write'[p].version
      BY DEF LeaderNewest, Version
    <2>1. CASE p = q
      BY <1>1, <1>3, <1>7, <2>1
    <2>2. CASE p # q
      <3>1. write[p].key \in Keys /\ write'[p] = write[p] /\ Started(p)
        BY <1>3, <1>4, <2>2 DEF TypeInv, TypeOK, WriteRec
      <3> QED
        BY <1>1, <1>6, <1>7, <1>8, <3>1 DEF DataInv, LeaderNewest
    <2> QED
      BY <2>1, <2>2
  <1>11. NetFromWrites'
    BY <1>3, <1>4, <1>5 DEF DataInv, NetFromWrites
  <1>12. Provenance'
    <2> SUFFICES ASSUME NEW d \in Nodes, NEW j \in Keys, Get(store'[d], j) # Absent
                 PROVE  \/ d # Leader /\ \E p \in WriteReqs :
                              /\ Started(p)' /\ LandsOn(write'[p], j)
                              /\ Get(store'[d], j).value = Parsed(write'[p]).value
                              /\ Get(store'[d], j).version = Parsed(write'[p]).version
                        \/ d = Leader /\ \E p \in WriteReqs :
                              /\ Started(p)' /\ write'[p].key = j
                              /\ Get(store'[d], j).value = write'[p].value
                              /\ Get(store'[d], j).version = write'[p].version
                        \/ /\ d \in DirectWriters
                           /\ Get(store'[d], j).version \in 1 .. store'[d].counter
      BY DEF Provenance
    <2>1. CASE d = Leader /\ j = k
      BY <1>2, <1>3, <2>1
    <2>2. CASE ~(d = Leader /\ j = k)
      <3>1. Get(store'[d], j) = Get(store[d], j) /\ (d # Leader => store'[d] = store[d])
        BY <1>2, <2>2
      <3>2. \A p \in WriteReqs : Started(p) => write'[p] = write[p] /\ Started(p)'
        BY <1>3, <1>4
      <3>3. Get(store[d], j) # Absent
        BY <3>1
      <3>4. CASE \E p \in WriteReqs : /\ d # Leader /\ Started(p) /\ LandsOn(write[p], j)
                                     /\ Get(store[d], j).value = Parsed(write[p]).value
                                     /\ Get(store[d], j).version = Parsed(write[p]).version
        BY <3>1, <3>2, <3>4
      <3>5. CASE \E p \in WriteReqs : /\ d = Leader /\ Started(p) /\ write[p].key = j
                                     /\ Get(store[d], j).value = write[p].value
                                     /\ Get(store[d], j).version = write[p].version
        BY <3>1, <3>2, <3>5
      <3>6. CASE d \in DirectWriters /\ Get(store[d], j).version \in 1 .. store[d].counter
        <4>1. d # Leader
          BY <3>6, NodeAssumption
        <4> QED
          BY <3>1, <3>6, <4>1
      <3> QED
        BY <3>3, <3>4, <3>5, <3>6 DEF DataInv, Provenance
    <2> QED
      BY <2>1, <2>2
  <1> QED
    BY <1>9, <1>10, <1>11, <1>12 DEF DataInv

LEMMA DataInternalSet ==
  ASSUME TypeInv, DataInv, NEW m \in net, InternalSet(m)
  PROVE  DataInv'
  <1>1. /\ m \in Message /\ m.to \in Followers /\ m.to \in Nodes /\ m.to # Leader
        /\ m.key \in Keys /\ m.value \in Values /\ m.version \in Nat
        /\ store[m.to] \in Store
    BY NodeTypes, NodeAssumption DEF TypeInv, TypeOK, Message
  <1>2. /\ \A j \in Keys :
              \/ Get(store'[m.to], j) = Get(store[m.to], j)
              \/ /\ LandsOn(m, j)
                 /\ Get(store'[m.to], j) = [value |-> Parsed(m).value,
                                            version |-> Parsed(m).version]
        /\ store'[m.to].counter = store[m.to].counter
        /\ \A d \in Nodes \ {m.to} : store'[d] = store[d]
    <2>1. store' = [store EXCEPT ![m.to] = HandleSet(store[m.to], m)]
      BY DEF InternalSet
    <2>2. store'[m.to] = HandleSet(store[m.to], m)
          /\ \A d \in Nodes \ {m.to} : store'[d] = store[d]
      BY <1>1, <2>1 DEF TypeInv, TypeOK
    <2> QED
      BY <1>1, <2>2, HandleSetResult
  <1>3. net' \subseteq net /\ write' = write
    BY DEF InternalSet
  <1>4. PICK q \in WriteReqs : Started(q) /\ SameRequest(m, write[q])
    BY DEF DataInv, NetFromWrites
  <1>5. store'[Leader] = store[Leader]
    BY <1>1, <1>2, NodeTypes
  <1>6. Numbering'
    BY <1>3, <1>5 DEF DataInv, Numbering, Version, Started
  <1>7. LeaderNewest'
    BY <1>3, <1>5 DEF DataInv, LeaderNewest, Version, Started
  <1>8. NetFromWrites'
    BY <1>3 DEF DataInv, NetFromWrites, Started
  <1>9. Provenance'
    <2> SUFFICES ASSUME NEW d \in Nodes, NEW j \in Keys, Get(store'[d], j) # Absent
                 PROVE  \/ d # Leader /\ \E p \in WriteReqs :
                              /\ Started(p) /\ LandsOn(write[p], j)
                              /\ Get(store'[d], j).value = Parsed(write[p]).value
                              /\ Get(store'[d], j).version = Parsed(write[p]).version
                        \/ d = Leader /\ \E p \in WriteReqs :
                              /\ Started(p) /\ write[p].key = j
                              /\ Get(store'[d], j).value = write[p].value
                              /\ Get(store'[d], j).version = write[p].version
                        \/ /\ d \in DirectWriters
                           /\ Get(store'[d], j).version \in 1 .. store'[d].counter
      BY <1>3 DEF Provenance, Started
    <2>1. store'[d].counter = store[d].counter
      BY <1>2
    <2>2. CASE Get(store'[d], j) = Get(store[d], j)
      BY <2>1, <2>2 DEF DataInv, Provenance
    <2>3. CASE Get(store'[d], j) # Get(store[d], j)
      <3>1. /\ d = m.to /\ LandsOn(m, j)
            /\ Get(store'[d], j) = [value |-> Parsed(m).value, version |-> Parsed(m).version]
        BY <1>2, <2>3
      <3>2. LandsOn(write[q], j) /\ Parsed(write[q]) = Parsed(m)
        BY <1>4, <3>1, SameParse
      <3> QED
        BY <1>1, <1>4, <3>1, <3>2
    <2> QED
      BY <2>2, <2>3
  <1> QED
    BY <1>6, <1>7, <1>8, <1>9 DEF DataInv

LEMMA DataFollowerSet ==
  ASSUME TypeInv, DataInv, NEW f \in DirectWriters, NEW k \in Keys, NEW v \in Values,
         FollowerSet(f, k, v)
  PROVE  DataInv'
  <1>1. /\ f \in Nodes /\ f # Leader /\ f \notin Safe
        /\ store'[f] = Set(store[f], k, v) /\ store[f] \in Store
        /\ \A d \in Nodes \ {f} : store'[d] = store[d]
        /\ net' = net /\ write' = write
    BY NodeAssumption, NodeTypes DEF FollowerSet, Safe, TypeInv, TypeOK
  <1>2. store'[Leader] = store[Leader]
    BY <1>1, NodeTypes
  <1>3. /\ store'[f].counter = store[f].counter + 1 /\ store[f].counter \in Nat
        /\ Get(store'[f], k).version = store[f].counter + 1
        /\ \A j \in Keys \ {k} : Get(store'[f], j) = Get(store[f], j)
    BY <1>1, SetResult DEF Store
  <1>4. Provenance'
    <2> SUFFICES ASSUME NEW d \in Nodes, NEW j \in Keys, Get(store'[d], j) # Absent
                 PROVE  \/ d # Leader /\ \E p \in WriteReqs :
                              /\ Started(p) /\ LandsOn(write[p], j)
                              /\ Get(store'[d], j).value = Parsed(write[p]).value
                              /\ Get(store'[d], j).version = Parsed(write[p]).version
                        \/ d = Leader /\ \E p \in WriteReqs :
                              /\ Started(p) /\ write[p].key = j
                              /\ Get(store'[d], j).value = write[p].value
                              /\ Get(store'[d], j).version = write[p].version
                        \/ /\ d \in DirectWriters
                           /\ Get(store'[d], j).version \in 1 .. store'[d].counter
      BY <1>1 DEF Provenance, Started
    <2>1. CASE d # f
      BY <1>1, <2>1 DEF DataInv, Provenance
    <2>2. CASE d = f /\ j = k
      <3>1. store[f].counter + 1 \in 1 .. (store[f].counter + 1)
        BY <1>3
      <3> QED
        BY <1>3, <2>2, <3>1
    <2>3. CASE d = f /\ j # k
      <3>1. Get(store[d], j) # Absent /\ Get(store'[d], j) = Get(store[d], j)
        BY <1>3, <2>3
      <3>2. 1 .. store[d].counter \subseteq 1 .. store'[d].counter
        BY <1>3, <2>3
      <3> QED
        BY <1>1, <2>3, <3>1, <3>2 DEF DataInv, Provenance
    <2> QED
      BY <2>1, <2>2, <2>3
  <1> QED
    BY <1>1, <1>2, <1>4
    DEF DataInv, Numbering, LeaderNewest, NetFromWrites, Version, Started

\* The remaining steps change no store, no message and no write.
LEMMA DataUnchanged ==
  ASSUME DataInv, UNCHANGED <<store, net, write>>
  PROVE  DataInv'
  BY DEF DataInv, Numbering, LeaderNewest, NetFromWrites, Provenance, Version, Started

LEMMA OtherSteps ==
  ASSUME [Next]_vars
  PROVE  \/ \E f \in DirectWriters, k \in Keys, v \in Values : FollowerSet(f, k, v)
         \/ \E q \in WriteReqs, k \in Keys, v \in Values : LeaderSet(q, k, v)
         \/ \E q \in WriteReqs : Writing(q) \/ CallFails(q)
         \/ \E m \in net : InternalSet(m)
         \/ UNCHANGED <<store, net, write>> /\ failures' \in {failures, failures + 1}
  <1> DEFINE Quiet == UNCHANGED <<store, net, write>> /\ failures' \in {failures, failures + 1}
  <1>1. \A l \in FollowerLists : SetFollowers(l) => Quiet
    BY DEF SetFollowers
  <1>2. \A s \in Strategies : SetStrategy(s) => Quiet
    BY DEF SetStrategy
  <1>3. \A q \in ReadReqs, k \in Keys : LeaderGet(q, k) => Quiet
    BY DEF LeaderGet
  <1>4. \A q \in ReadReqs : Reading(q) => Quiet
    BY DEF Reading, RouteRead, ReadLocal, Receive
  <1>5. \A q \in ReadReqs, f \in Followers : FetchReturns(q, f) \/ FetchFails(q, f) => Quiet
    BY DEF FetchReturns, FetchFails, Fetched
  <1>6. UNCHANGED vars => Quiet
    BY DEF vars
  <1> HIDE DEF Quiet
  <1>7. \/ \E f \in DirectWriters, k \in Keys, v \in Values : FollowerSet(f, k, v)
        \/ \E q \in WriteReqs, k \in Keys, v \in Values : LeaderSet(q, k, v)
        \/ \E q \in WriteReqs : Writing(q) \/ CallFails(q)
        \/ \E m \in net : InternalSet(m)
        \/ Quiet
    BY <1>1, <1>2, <1>3, <1>4, <1>5, <1>6 DEF Next
  <1> QED
    BY <1>7 DEF Quiet

LEMMA DataStep == TypeInv /\ DataInv /\ [Next]_vars => DataInv'
  BY OtherSteps, DataFollowerSet, DataSet, DataWrite, DataInternalSet, DataUnchanged

\* An entry on an intact key is a write's own, so it is not above the newest.
LEMMA IntactIsBehind ==
  ASSUME TypeInv, DataInv, NEW f \in Safe, NEW k \in Keys, KeyIntact(k),
         Get(store[f], k) # Absent
  PROVE  /\ Get(store[f], k).version <= Get(store[Leader], k).version
         /\ Get(store[f], k).version = Get(store[Leader], k).version =>
               Get(store[f], k).value = Wire[k, Get(store[Leader], k).value].value
  <1>1. f \in Nodes /\ f # Leader /\ f \notin DirectWriters
    BY NodeAssumption DEF Safe, Nodes
  <1>2. PICK q \in WriteReqs :
           /\ Started(q) /\ LandsOn(write[q], k)
           /\ Get(store[f], k).value = Parsed(write[q]).value
           /\ Get(store[f], k).version = Parsed(write[q]).version
    BY <1>1 DEF DataInv, Provenance
  <1>3. /\ Intact(write[q]) /\ Accepts(write[q]) /\ Parsed(write[q]).key = k
        /\ write[q].key \in Keys /\ write[q].value \in Values /\ write[q].version \in Nat
    BY <1>2 DEF KeyIntact, LandsOn, TypeInv, TypeOK, WriteRec
  <1>4. /\ write[q].key = k /\ Get(store[f], k).version = write[q].version
        /\ Get(store[f], k).value = Wire[k, write[q].value].value
    <2>1. write[q].version \in Int
      BY <1>3
    <2>2. /\ Parsed(write[q]).value = Wire[write[q].key, write[q].value].value
          /\ Parsed(write[q]).key = write[q].key
          /\ Parsed(write[q]).version = write[q].version
      BY <1>3, <2>1, ParsedResult
    <2> QED
      BY <1>2, <1>3, <2>2
  <1>5. /\ Get(store[Leader], k).version >= write[q].version
        /\ Get(store[Leader], k).version \in Int /\ write[q].version \in 1 .. store[Leader].counter
    BY <1>2, <1>4, VersionType, NodeTypes DEF DataInv, LeaderNewest, Numbering, Version
  <1>6. ASSUME Get(store[Leader], k).version = write[q].version
        PROVE  Get(store[Leader], k).value = write[q].value
    <2>1. Get(store[Leader], k) # Absent
      BY <1>3, <1>5, <1>6 DEF Absent
    <2>2. PICK p \in WriteReqs :
             /\ Started(p) /\ Get(store[Leader], k).value = write[p].value
             /\ Get(store[Leader], k).version = write[p].version
      BY <2>1, NodeTypes, NodeAssumption DEF DataInv, Provenance
    <2>3. p = q
      BY <1>2, <1>6, <2>2 DEF DataInv, Numbering
    <2> QED
      BY <2>2, <2>3
  <1> QED
    BY <1>3, <1>4, <1>5, <1>6

LEMMA DataReached == Spec => [](TypeInv /\ DataInv)
  BY TypeInit, TypeStep, DataInit, DataStep, PTL DEF Spec

\* The leader holds its own writes, and every other node what a write's URL
\* carries, or on a node clients write directly an entry of its own counter.
THEOREM ProvenanceHolds == Spec => []Provenance
  BY DataReached, PTL DEF DataInv

\* No follower that nobody writes directly is ever ahead of the leader on a key
\* whose writes all arrive intact, and equal versions are equal data there.
THEOREM LeaderAheadHolds == Spec => []LeaderAhead
  <1>1. TypeInv /\ DataInv => LeaderAhead
    BY IntactIsBehind DEF LeaderAhead
  <1> QED
    BY <1>1, DataReached, PTL
-----------------------------------------------------------------------------
(* Versions never go backward, and with them acks.                         *)

LEMMA Monotone ==
  ASSUME TypeInv, DataInv, [Next]_vars, NEW n \in Safe \cup {Leader}, NEW k \in Keys,
         Get(store[n], k) # Absent
  PROVE  Get(store'[n], k) # Absent /\ Get(store'[n], k).version >= Get(store[n], k).version
  <1>1. n \in Nodes /\ n \notin DirectWriters
    BY NodeAssumption DEF Safe, Nodes
  <1>2. Get(store[n], k).version \in Int
    BY <1>1, VersionType DEF Version
  <1> DEFINE Kept == /\ Get(store'[n], k) # Absent
                     /\ Get(store'[n], k).version >= Get(store[n], k).version
  <1>3. ASSUME Get(store'[n], k) = Get(store[n], k) PROVE Kept
    BY <1>2, <1>3
  <1>4. ASSUME NEW f \in DirectWriters, NEW j \in Keys, NEW v \in Values, FollowerSet(f, j, v)
        PROVE  Kept
    <2>1. store'[n] = store[n]
      BY <1>1, <1>4 DEF FollowerSet, TypeInv, TypeOK
    <2> HIDE DEF Kept
    <2> QED
      BY <1>3, <2>1
  <1>5. ASSUME NEW q \in WriteReqs, NEW j \in Keys, NEW v \in Values, LeaderSet(q, j, v)
        PROVE  Kept
    <2>1. CASE n # Leader
      <3>1. store'[n] = store[n]
        BY <1>1, <1>5, <2>1 DEF LeaderSet, TypeInv, TypeOK
      <3> HIDE DEF Kept
      <3> QED
        BY <1>3, <3>1
    <2>2. CASE n = Leader
      <3>1. store[Leader] \in Store /\ store'[Leader] = Set(store[Leader], j, v)
        BY <1>5, NodeTypes DEF LeaderSet, TypeInv, TypeOK
      <3>2. CASE j = k
        <4>1. Get(store'[n], k) = [value |-> v, version |-> store[Leader].counter + 1]
          BY <2>2, <3>1, <3>2, SetResult
        <4>2. Get(store[n], k).version \in 0 .. store[Leader].counter
          BY <2>2 DEF DataInv, Numbering, Version
        <4>3. [value |-> v, version |-> store[Leader].counter + 1] # Absent
          BY DataAssumption DEF Absent
        <4> QED
          BY <1>2, <3>1, <4>1, <4>2, <4>3 DEF Store
      <3>3. CASE j # k
        <4>1. Get(store'[n], k) = Get(store[n], k)
          BY <2>2, <3>1, <3>3, SetResult
        <4> HIDE DEF Kept
        <4> QED
          BY <1>3, <4>1
      <3> QED
        BY <3>2, <3>3
    <2> QED
      BY <2>1, <2>2
  <1>6. ASSUME NEW m \in net, InternalSet(m) PROVE Kept
    <2>1. /\ m.to \in Nodes /\ m.key \in Keys /\ m.value \in Values /\ m.version \in Int
          /\ store[m.to] \in Store
      BY NodeTypes DEF TypeInv, TypeOK, Message
    <2>2. store' = [store EXCEPT ![m.to] = HandleSet(store[m.to], m)]
      BY <1>6 DEF InternalSet
    <2>3. CASE n = m.to
      <3>1. store'[n] = HandleSet(store[n], m) /\ store[n] \in Store
        BY <2>1, <2>2, <2>3 DEF TypeInv, TypeOK
      <3> QED
        BY <2>1, <3>1, HandleSetResult
    <2>4. CASE n # m.to
      <3>1. store'[n] = store[n]
        BY <1>1, <2>1, <2>2, <2>4 DEF TypeInv, TypeOK
      <3> HIDE DEF Kept
      <3> QED
        BY <1>3, <3>1
    <2> QED
      BY <2>3, <2>4
  <1>7. ASSUME store' = store PROVE Kept
    <2> HIDE DEF Kept
    <2> QED
      BY <1>3, <1>7
  <1>8. ASSUME NEW q \in WriteReqs, Writing(q) \/ CallFails(q) PROVE Kept
    <2>1. store' = store
      BY <1>8, WriteStepKeeps
    <2> HIDE DEF Kept
    <2> QED
      BY <1>7, <2>1
  <1> HIDE DEF Kept
  <1>9. Kept
    BY <1>4, <1>5, <1>6, <1>7, <1>8, OtherSteps
  <1> QED
    BY <1>9 DEF Kept

\* No entry is ever replaced by an older one.
THEOREM NeverBackwardHolds == Spec => NeverBackward
  <1>1. TypeInv /\ DataInv /\ [Next]_vars =>
           [\A n \in Safe \cup {Leader}, k \in Keys :
               Get(store[n], k) # Absent =>
                   /\ Get(store'[n], k) # Absent
                   /\ Version(n, k) <= Get(store'[n], k).version]_vars
    <2> SUFFICES ASSUME TypeInv, DataInv, [Next]_vars,
                        NEW n \in Safe \cup {Leader}, NEW k \in Keys,
                        Get(store[n], k) # Absent
                 PROVE  /\ Get(store'[n], k) # Absent
                        /\ Version(n, k) <= Get(store'[n], k).version
      OBVIOUS
    <2>1. Get(store'[n], k) # Absent /\ Get(store'[n], k).version >= Version(n, k)
      BY Monotone DEF Version
    <2>2. n \in Nodes
      BY DEF Safe, Nodes
    <2>3. Version(n, k) \in Int
      BY <2>2, VersionType
    <2>4. TypeInv'
      BY TypeStep
    <2>5. Get(store'[n], k).version \in Int
      BY <2>2, <2>4 DEF TypeInv, TypeOK, Get, Store, KVEntry
    <2> QED
      BY <2>1, <2>3, <2>5
  <1> QED
    BY <1>1, DataReached, PTL DEF Spec, NeverBackward
-----------------------------------------------------------------------------
(* AckInv.                                                                 *)

AckOK(w) ==
    /\ w.pc \in {"idle", "stored", "listed"} => w.acked = {} /\ w.answer = "none"
    /\ w.pc \in {"sending", "waiting", "done"} => w.need = Need(w.strategy, w.list)
    /\ w.acked \subseteq Range(w.list)
    /\ w.answer = "created" /\ w.strategy \in {"w5r1", "w3r3"} => Enough(w)

LEMMA CountedSplit ==
  Counted <=> \A q \in WriteReqs : /\ AckOK(write[q])
                                   /\ \A f \in write[q].acked : Has(f, write[q])
  BY DEF Counted, AckOK

\* More acks are still enough.
LEMMA EnoughMonotone ==
  ASSUME NEW w \in WriteRec, NEW v \in WriteRec, w.acked \subseteq v.acked,
         v.need = w.need, Enough(w)
  PROVE  Enough(v)
  <1>1. IsFiniteSet(v.acked) /\ IsFiniteSet(w.acked)
    BY FiniteAssumption, FS_Subset DEF WriteRec
  <1>2. /\ Cardinality(w.acked) <= Cardinality(v.acked)
        /\ Cardinality(v.acked) \in Nat /\ Cardinality(w.acked) \in Nat
    BY <1>1, FS_Subset, FS_CardinalityType
  <1> QED
    BY <1>2 DEF Enough, WriteRec

\* The answer at the end of an iteration is backed by enough acks.
LEMMA AfterCallAck ==
  ASSUME NEW w \in WriteRec, AckOK(w), w.pc = "waiting", w.i \in 1 .. Len(w.list)
  PROVE  AckOK(AfterCall(w)) /\ AfterCall(w).acked = w.acked
  <1>1. /\ AfterCall(w).acked = w.acked /\ AfterCall(w).need = w.need
        /\ AfterCall(w).list = w.list /\ AfterCall(w).strategy = w.strategy
        /\ AfterCall(w).answer = AnswerAfterCall(w)
        /\ AfterCall(w).pc \in {"sending", "done"}
    BY DEF AfterCall, WriteRec
  <1>2. AnswerAfterCall(w) = "created" => w.answer = "created" \/ Enough(w)
    BY DEF AnswerAfterCall, WriteRec
  <1>3. Enough(AfterCall(w)) <=> Enough(w)
    BY <1>1 DEF Enough
  <1> QED
    BY <1>1, <1>2, <1>3 DEF AckOK

LEMMA DispatchAck ==
  ASSUME NEW w \in WriteRec, NEW s \in Strategies, AckOK(w), w.pc = "listed"
  PROVE  AckOK(Dispatch(w, s)) /\ Dispatch(w, s).acked = w.acked
  <1>1. w.acked = {} /\ Len(w.list) \in Nat /\ w.list \in Seq(Followers)
    BY ListFacts DEF AckOK, WriteRec
  <1> DEFINE d == Dispatch(w, s)
  <1>2. /\ d.acked = {} /\ d.list = w.list /\ d.strategy = s
        /\ d.need = Need(s, w.list) /\ d.pc \in {"sending", "done"}
    BY <1>1 DEF Dispatch, WriteRec
  <1>3. d.answer = "created" /\ s \in {"w5r1", "w3r3"} => s = "w5r1" /\ w.list = <<>>
    BY DEF Dispatch, WriteRec
  <1>4. Cardinality({}) = 0
    BY FS_EmptySet
  <1>5. d.answer = "created" /\ s \in {"w5r1", "w3r3"} => Enough(d)
    BY <1>1, <1>2, <1>3, <1>4 DEF Enough, Need
  <1> HIDE DEF d
  <1>6. AckOK(d) /\ d.acked = w.acked
    BY <1>1, <1>2, <1>5 DEF AckOK
  <1> QED
    BY <1>6 DEF d

LEMMA AckInit == Init => AckInv
  <1> SUFFICES ASSUME Init PROVE AckInv
    OBVIOUS
  <1>1. \A q \in WriteReqs : /\ write[q].pc = "idle" /\ write[q].acked = {}
                             /\ write[q].answer = "none"
    BY DEF Init, IdleWrite
  <1> QED
    BY <1>1 DEF AckInv, CallInv, Counted

\* A follower that holds what a request carries keeps it, whoever steps.
LEMMA HasStable ==
  ASSUME TypeInv, DataInv, [Next]_vars, NEW f \in Followers, NEW w \in WriteRec, Has(f, w)
  PROVE  f \in DirectWriters \/ Holds(store'[f], w)
  <1>1. CASE f \in DirectWriters
    BY <1>1
  <1>2. CASE f \notin DirectWriters
    <2> DEFINE j == Parsed(w).key
               n == Parsed(w).version
    <2>1. /\ Accepts(w) /\ Get(store[f], j) # Absent /\ Get(store[f], j).version >= n
          /\ f \in Safe
      BY <1>2 DEF Has, Holds, Safe
    <2>2. j \in Keys /\ n \in Int
      <3>1. w.key \in Keys /\ w.value \in Values /\ w.version \in Int
        BY DEF WriteRec
      <3> QED
        BY <2>1, <3>1, ParsedResult
    <2> HIDE DEF j, n
    <2>3. /\ Get(store'[f], j) # Absent
          /\ Get(store'[f], j).version >= Get(store[f], j).version
      BY <2>1, <2>2, Monotone
    <2>4. Get(store[f], j).version \in Int
      BY <2>2, VersionType, NodeTypes DEF Version
    <2>5. TypeInv'
      BY TypeStep
    <2>6. Get(store'[f], j).version \in Int
      BY <2>2, <2>5, NodeTypes DEF TypeInv, TypeOK, Get, Store, KVEntry
    <2> QED
      BY <2>1, <2>2, <2>3, <2>4, <2>6 DEF Holds, j, n
  <1> QED
    BY <1>1, <1>2

\* A call's target and the acks are followers.
LEMMA CallTypes ==
  ASSUME TypeInv, NEW q \in WriteReqs
  PROVE  /\ write[q] \in WriteRec /\ write[q].acked \subseteq Followers
         /\ write[q].pc = "waiting" =>
               /\ write[q].i \in 1 .. Len(write[q].list)
               /\ Target(write[q]) \in Followers
               /\ Target(write[q]) \in Range(write[q].list)
  <1>1. write[q] \in WriteRec /\ write[q].acked \subseteq Followers
    BY DEF TypeInv, TypeOK, WriteRec
  <1>2. write[q].pc = "waiting" => write[q].i \in 1 .. Len(write[q].list)
    BY DEF TypeInv, LoopOK
  <1>3. write[q].list \in FollowerLists
    BY <1>1 DEF WriteRec
  <1> QED
    BY <1>1, <1>2, <1>3, ListFacts DEF Target

\* Steps that change no write: applied replications, direct writes, reads.
LEMMA AckNodeStep ==
  ASSUME TypeInv, DataInv, AckInv, [Next]_vars, write' = write,
         net' = net \/ \E m \in net : InternalSet(m)
  PROVE  AckInv'
  <1>1. CallInv'
    <2> SUFFICES ASSUME NEW q \in WriteReqs, write[q].pc = "waiting",
                        Replication(write[q]) \notin net', Accepts(write[q])
                 PROVE  \/ Target(write[q]) \in DirectWriters
                        \/ Holds(store'[Target(write[q])], write[q])
      BY DEF CallInv, Has, Replication, Target
    <2>1. write[q] \in WriteRec /\ Target(write[q]) \in Followers
      BY CallTypes
    <2>2. CASE Replication(write[q]) \notin net
      BY <2>1, <2>2, HasStable DEF AckInv, CallInv
    <2>3. CASE Replication(write[q]) \in net
      <3>1. InternalSet(Replication(write[q]))
        BY <2>3 DEF InternalSet
      <3>2. store' = [store EXCEPT ![Target(write[q])] =
                         HandleSet(store[Target(write[q])], Replication(write[q]))]
        BY <3>1 DEF InternalSet, Replication
      <3>3. /\ write[q].key \in Keys /\ write[q].value \in Values /\ write[q].version \in Int
        BY <2>1 DEF WriteRec
      <3>4. Target(write[q]) \in Nodes /\ store[Target(write[q])] \in Store
        BY <2>1, NodeTypes DEF TypeInv, TypeOK
      <3>5. SameRequest(Replication(write[q]), write[q])
        BY DEF Replication, SameRequest
      <3>6. store'[Target(write[q])] = HandleSet(store[Target(write[q])], write[q])
        BY <3>2, <3>4, <3>5, SameParse DEF TypeInv, TypeOK
      <3> QED
        BY <3>3, <3>4, <3>6, HandleSetResult
    <2> QED
      BY <2>2, <2>3
  <1>2. Counted'
    <2>1. \A q \in WriteReqs : AckOK(write[q])
      BY CountedSplit DEF AckInv
    <2>2. ASSUME NEW q \in WriteReqs, NEW f \in write[q].acked
          PROVE  f \in DirectWriters \/ Holds(store'[f], write[q])
      <3>1. Has(f, write[q])
        BY CountedSplit DEF AckInv
      <3> QED
        BY <3>1, CallTypes, HasStable
    <2> QED
      BY <2>1, <2>2 DEF Counted, AckOK, Has, Enough
  <1> QED
    BY <1>1, <1>2 DEF AckInv

LEMMA AckSet ==
  ASSUME TypeInv, DataInv, AckInv, [Next]_vars,
         NEW q \in WriteReqs, NEW k \in Keys, NEW v \in Values, LeaderSet(q, k, v)
  PROVE  AckInv'
  <1>1. /\ write'[q].pc = "stored" /\ write'[q].acked = write[q].acked
        /\ write'[q].answer = write[q].answer /\ write'[q].list = write[q].list
        /\ write[q].pc = "idle"
        /\ \A p \in WriteReqs \ {q} : write'[p] = write[p]
    BY DEF LeaderSet, TypeInv, TypeOK, WriteRec
  <1>2. write'[q].acked = {} /\ write'[q].answer = "none"
    BY <1>1 DEF AckInv, Counted
  <1>3. net' = net
    BY DEF LeaderSet
  <1>4. CallInv'
    <2> SUFFICES ASSUME NEW p \in WriteReqs, write'[p].pc = "waiting",
                        Replication(write'[p]) \notin net, Accepts(write'[p])
                 PROVE  \/ Target(write'[p]) \in DirectWriters
                        \/ Holds(store'[Target(write'[p])], write'[p])
      BY <1>3 DEF CallInv, Has, Replication, Target
    <2>1. p # q /\ write'[p] = write[p]
      BY <1>1
    <2>2. write[p] \in WriteRec /\ Target(write[p]) \in Followers
      BY <2>1, CallTypes
    <2> QED
      BY <2>1, <2>2, HasStable DEF AckInv, CallInv
  <1>5. Counted'
    <2>1. ASSUME NEW p \in WriteReqs
          PROVE  /\ AckOK(write'[p])
                 /\ \A f \in write'[p].acked :
                       f \in DirectWriters \/ Holds(store'[f], write'[p])
      <3>1. CASE p = q
        BY <1>1, <1>2, <3>1 DEF AckOK
      <3>2. CASE p # q
        BY <1>1, <3>2, CountedSplit, CallTypes, HasStable DEF AckInv
      <3> QED
        BY <3>1, <3>2
    <2> QED
      BY <2>1 DEF Counted, AckOK, Has, Enough
  <1> QED
    BY <1>4, <1>5 DEF AckInv

\* Two writes under way never send the same replication.
LEMMA ReplicationsDiffer ==
  ASSUME TypeInv, DataInv, NEW p \in WriteReqs, NEW q \in WriteReqs, p # q,
         Started(p), Started(q)
  PROVE  Replication(write[p]) # Replication(write[q])
  BY DEF DataInv, Numbering, Replication

\* What a step of q's handler makes of q's record.
LEMMA AckWriteRecord ==
  ASSUME TypeInv, AckInv, NEW q \in WriteReqs, Writing(q) \/ CallFails(q)
  PROVE  /\ write'[q] \in WriteRec /\ AckOK(write'[q])
         /\ write'[q].pc = "waiting" => Replication(write'[q]) \in net'
         /\ \A f \in write'[q].acked : Has(f, write[q])
  <1>1. /\ write \in [WriteReqs -> WriteRec] /\ write[q] \in WriteRec
        /\ AckOK(write[q]) /\ \A f \in write[q].acked : Has(f, write[q])
    BY CountedSplit DEF AckInv, TypeInv, TypeOK
  <1>2. CASE ReadFollowers(q)
    <2>1. /\ write'[q] = [write[q] EXCEPT !.pc = "listed", !.list = followers]
          /\ write[q].pc = "stored" /\ followers \in FollowerLists
      BY <1>1, <1>2 DEF ReadFollowers, TypeInv, TypeOK
    <2> QED
      BY <1>1, <2>1 DEF AckOK, WriteRec
  <1>3. CASE ReadStrategy(q)
    <2>1. /\ write'[q] = Dispatch(write[q], strategy) /\ strategy \in Strategies
          /\ write[q].pc = "listed"
      BY <1>1, <1>3 DEF ReadStrategy, TypeInv, TypeOK
    <2>2. Dispatch(write[q], strategy).pc # "waiting"
      BY <1>1 DEF Dispatch, WriteRec
    <2> QED
      BY <1>1, <2>1, <2>2, DispatchType, DispatchAck
  <1>4. CASE SendReplication(q)
    <2>1. /\ write'[q] = [write[q] EXCEPT !.pc = "waiting"]
          /\ net' = net \cup {Replication(write[q])}
          /\ write[q].pc = "sending"
      BY <1>1, <1>4 DEF SendReplication
    <2>2. Replication(write'[q]) = Replication(write[q])
      BY <1>1, <2>1 DEF Replication, Target, WriteRec
    <2> QED
      BY <1>1, <2>1, <2>2 DEF AckOK, Enough, WriteRec
  <1>5. ASSUME NEW w \in WriteRec, AckOK(w), w.pc = "waiting", w.i \in 1 .. Len(w.list),
               write' = [write EXCEPT ![q] = AfterCall(w)],
               \A f \in w.acked : Has(f, write[q])
        PROVE  /\ write'[q] \in WriteRec /\ AckOK(write'[q])
               /\ write'[q].pc # "waiting"
               /\ \A f \in write'[q].acked : Has(f, write[q])
    <2>1. write'[q] = AfterCall(w)
      BY <1>1, <1>5
    <2>2. AfterCall(w).pc # "waiting"
      BY <1>5 DEF AfterCall, WriteRec
    <2> QED
      BY <1>5, <2>1, <2>2, AfterCallType, AfterCallAck
  <1>6. CASE CallReturns(q)
    <2> DEFINE w == Responded(write[q])
    <2>1. /\ write' = [write EXCEPT ![q] = AfterCall(w)]
          /\ write[q].pc = "waiting" /\ Replication(write[q]) \notin net
          /\ write[q].i \in 1 .. Len(write[q].list)
      BY <1>6, CallTypes DEF CallReturns
    <2>2. /\ w \in WriteRec /\ w.pc = "waiting" /\ w.i \in 1 .. Len(w.list)
          /\ w.acked = IF Accepts(write[q]) THEN write[q].acked \cup {Target(write[q])}
                       ELSE write[q].acked
          /\ w.need = write[q].need /\ w.answer = write[q].answer
          /\ w.strategy = write[q].strategy /\ w.list = write[q].list
      BY <1>1, <2>1, RespondedType
    <2>3. Accepts(write[q]) => Has(Target(write[q]), write[q])
      BY <2>1 DEF AckInv, CallInv
    <2>4. w.acked \subseteq Range(w.list)
      BY <1>1, <2>1, <2>2, CallTypes DEF AckOK
    <2> HIDE DEF w
    <2>5. Enough(write[q]) => Enough(w)
      BY <1>1, <2>2, EnoughMonotone
    <2>6. AckOK(w)
      BY <1>1, <2>1, <2>2, <2>4, <2>5 DEF AckOK
    <2> QED
      BY <1>1, <1>5, <2>1, <2>2, <2>3, <2>6
  <1>7. CASE CallFails(q)
    <2> DEFINE w == [write[q] EXCEPT !.missed = write[q].missed \cup {Target(write[q])}]
    <2>1. /\ \/ write' = [write EXCEPT ![q] = AfterCall(write[q])]
             \/ write' = [write EXCEPT ![q] = AfterCall(w)]
          /\ write[q].pc = "waiting"
      BY <1>7 DEF CallFails
    <2>2. /\ w \in WriteRec /\ w.pc = "waiting" /\ w.i \in 1 .. Len(w.list)
          /\ w.acked = write[q].acked
          /\ w.need = write[q].need /\ w.answer = write[q].answer
          /\ w.strategy = write[q].strategy /\ w.list = write[q].list
          /\ write[q].i \in 1 .. Len(write[q].list)
      BY <1>1, <2>1, CallTypes DEF WriteRec
    <2> HIDE DEF w
    <2>3. AckOK(w)
      BY <1>1, <2>1, <2>2 DEF AckOK, Enough
    <2> QED
      BY <1>1, <1>5, <2>1, <2>2, <2>3
  <1> QED
    BY <1>2, <1>3, <1>4, <1>6, <1>7 DEF Writing

LEMMA AckWrite ==
  ASSUME TypeInv, DataInv, AckInv, [Next]_vars, NEW q \in WriteReqs, Writing(q) \/ CallFails(q)
  PROVE  AckInv'
  <1>1. /\ store' = store /\ Started(q)
        /\ \A p \in WriteReqs : SameRequest(write'[p], write[p])
        /\ \A p \in WriteReqs \ {q} : write'[p] = write[p]
    BY WriteStepKeeps
  <1>2. net \ {Replication(write[q])} \subseteq net'
    BY DEF Writing, ReadFollowers, ReadStrategy, SendReplication, CallReturns, CallFails
  <1>3. /\ AckOK(write'[q])
        /\ write'[q].pc = "waiting" => Replication(write'[q]) \in net'
        /\ \A f \in write'[q].acked : Has(f, write[q])
    BY AckWriteRecord
  <1>4. CallInv'
    <2> SUFFICES ASSUME NEW p \in WriteReqs, write'[p].pc = "waiting",
                        Replication(write'[p]) \notin net', Accepts(write'[p])
                 PROVE  \/ Target(write'[p]) \in DirectWriters
                        \/ Holds(store[Target(write'[p])], write'[p])
      BY <1>1 DEF CallInv, Has, Replication, Target
    <2>1. p # q /\ write'[p] = write[p]
      BY <1>1, <1>3
    <2>2. Replication(write[p]) # Replication(write[q])
      BY <1>1, <2>1, ReplicationsDiffer DEF Started
    <2>3. Replication(write[p]) \notin net
      BY <1>2, <2>1, <2>2
    <2> QED
      BY <2>1, <2>3 DEF AckInv, CallInv, Has
  <1>5. Counted'
    <2>1. ASSUME NEW p \in WriteReqs
          PROVE  /\ AckOK(write'[p])
                 /\ \A f \in write'[p].acked :
                       f \in DirectWriters \/ Holds(store[f], write'[p])
      <3>1. CASE p = q
        <4>1. \A f : Holds(store[f], write'[q]) <=> Holds(store[f], write[q])
          BY <1>1, SameParse
        <4> QED
          BY <1>3, <3>1, <4>1 DEF Has
      <3>2. CASE p # q
        BY <1>1, <3>2, CountedSplit DEF AckInv, Has
      <3> QED
        BY <3>1, <3>2
    <2> QED
      BY <1>1, <2>1 DEF Counted, AckOK, Has, Enough
  <1> QED
    BY <1>4, <1>5 DEF AckInv

LEMMA AckStep == TypeInv /\ DataInv /\ AckInv /\ [Next]_vars => AckInv'
  <1> SUFFICES ASSUME TypeInv, DataInv, AckInv, [Next]_vars PROVE AckInv'
    OBVIOUS
  <1>1. ASSUME NEW f \in DirectWriters, NEW k \in Keys, NEW v \in Values, FollowerSet(f, k, v)
        PROVE  AckInv'
    BY <1>1, AckNodeStep DEF FollowerSet
  <1>2. ASSUME NEW m \in net, InternalSet(m) PROVE AckInv'
    <2>1. write' = write
      BY <1>2 DEF InternalSet
    <2> QED
      BY <1>2, <2>1, AckNodeStep
  <1>3. ASSUME UNCHANGED <<store, net, write>> PROVE AckInv'
    BY <1>3, AckNodeStep
  <1> QED
    BY <1>1, <1>2, <1>3, AckSet, AckWrite, OtherSteps

\* Enough acks are the replication the answer stands for: the acks are distinct
\* followers of the list, so Len(list) of them are all of it.
LEMMA EnoughIsReplicated ==
  ASSUME TypeInv, AckInv, NEW q \in WriteReqs
  PROVE  LET w == write[q]
             have == {f \in Range(w.list) : f \in DirectWriters \/ Holds(store[f], w)}
         IN  w.answer = "created" =>
                 /\ w.strategy = "w5r1" => have = Range(w.list)
                 /\ w.strategy = "w3r3" => Cardinality(have) >= 2
  <1> DEFINE w == write[q]
             have == {f \in Range(w.list) : Has(f, w)}
  <1> SUFFICES ASSUME w.answer = "created"
               PROVE  /\ w.strategy = "w5r1" => have = Range(w.list)
                      /\ w.strategy = "w3r3" => Cardinality(have) >= 2
    BY DEF Has
  <1>1. /\ w \in WriteRec /\ w.list \in Seq(Followers) /\ Len(w.list) \in Nat
        /\ Range(w.list) \subseteq Followers
    BY ListFacts DEF TypeInv, TypeOK, WriteRec
  <1>2. w.acked \subseteq have /\ have \subseteq Range(w.list)
    BY DEF AckInv, Counted
  <1>3. IsFiniteSet(Range(w.list)) /\ Cardinality(Range(w.list)) <= Len(w.list)
    <2>1. w.list \in Surjection(1 .. Len(w.list), Range(w.list))
      BY <1>1 DEF Surjection, Range
    <2> QED
      BY <1>1, <2>1, FS_SurjCardinalityBound, FS_Subset, FiniteAssumption
      DEF ExistsSurjection
  <1>4. /\ IsFiniteSet(have) /\ IsFiniteSet(w.acked)
        /\ Cardinality(w.acked) <= Cardinality(have)
        /\ Cardinality(have) <= Cardinality(Range(w.list))
        /\ Cardinality(have) = Cardinality(Range(w.list)) => have = Range(w.list)
        /\ Cardinality(have) \in Nat /\ Cardinality(w.acked) \in Nat
        /\ Cardinality(Range(w.list)) \in Nat
    BY <1>2, <1>3, FS_Subset, FS_CardinalityType
  <1>5. w.strategy \in {"w5r1", "w3r3"} =>
           Cardinality(w.acked) >= Need(w.strategy, w.list)
    BY <1>1 DEF AckInv, Counted, Enough, WriteRec
  <1> HIDE DEF w, have
  <1> QED
    BY <1>1, <1>3, <1>4, <1>5 DEF Need

\* A 201 under w5r1 means every follower of the list holds what the replication's
\* URL carries or something newer, under w3r3 at least two do.
THEOREM AckedReplicatedHolds == Spec => []AckedReplicated
  <1>1. TypeInv /\ AckInv => AckedReplicated
    BY EnoughIsReplicated DEF AckedReplicated
  <1>2. Spec => [](TypeInv /\ DataInv /\ AckInv)
    BY DataReached, AckInit, AckStep, PTL DEF Spec
  <1> QED
    BY <1>1, <1>2, PTL
-----------------------------------------------------------------------------
(* ErrorInv: as long as no call has failed or been refused, the acks are    *)
(* the whole prefix of the list the loop has been through.                  *)

Prefix(w) == {w.list[j] : j \in 1 .. (w.i - 1)}
Unjustified(w) ==
    \/ w.strategy = "w1r5"
    \/ ~(failures > 0 \/ ~Accepts(w) \/ (w.strategy = "w3r3" /\ Len(w.list) < 2))

ErrorInv ==
    \A q \in WriteReqs :
        LET w == write[q] IN
        /\ w.pc \in {"sending", "waiting"} =>
              /\ w.strategy \in {"w5r1", "w1r5", "w3r3"}
              /\ w.strategy = "w1r5" => w.answer = "created"
              /\ failures = 0 /\ Accepts(w) => w.acked = Prefix(w)
        /\ w.answer = "error" => ~Unjustified(w)

LEMMA ErrorInit == Init => ErrorInv
  BY DEF Init, ErrorInv, IdleWrite

\* With every follower of an injective list acked, the acks number the list.
LEMMA AllAcked ==
  ASSUME NEW w \in WriteRec, w.i = Len(w.list),
         w.acked = {w.list[j] : j \in 1 .. w.i}
  PROVE  Cardinality(w.acked) = Len(w.list)
  <1>1. /\ w.list \in Seq(Followers) /\ Len(w.list) \in Nat
        /\ DOMAIN w.list = 1 .. Len(w.list) /\ IsInjective(w.list)
    BY ListAssumption DEF WriteRec
  <1>2. w.list \in Surjection(1 .. Len(w.list), w.acked)
    BY <1>1 DEF Surjection
  <1>3. w.list \in Injection(1 .. Len(w.list), w.acked)
    BY <1>1, <1>2 DEF Surjection, Injection, IsInjective
  <1>4. Cardinality(1 .. Len(w.list)) = Len(w.list) /\ IsFiniteSet(1 .. Len(w.list))
    BY <1>1, FS_Interval
  <1> QED
    BY <1>2, <1>3, <1>4, FS_Surjection

\* One returned call keeps ErrorInv's part for its write.
LEMMA ReturnJustified ==
  ASSUME NEW w \in WriteRec, w.pc = "waiting", w.i \in 1 .. Len(w.list),
         w.strategy \in {"w5r1", "w1r5", "w3r3"},
         w.need = Need(w.strategy, w.list),
         w.strategy = "w1r5" => w.answer = "created",
         failures \in Nat,
         failures = 0 /\ Accepts(w) => w.acked = {w.list[j] : j \in 1 .. w.i},
         w.answer = "error" => ~Unjustified(w)
  PROVE  LET a == AfterCall(w) IN
         /\ a.strategy = w.strategy
         /\ a.strategy = "w1r5" => a.answer = "created"
         /\ failures = 0 /\ Accepts(a) => a.acked = Prefix(a)
         /\ a.answer = "error" => ~Unjustified(a)
  <1> DEFINE a == AfterCall(w)
  <1>1. /\ a.strategy = w.strategy /\ a.list = w.list /\ a.acked = w.acked
        /\ a.i = w.i + 1 /\ a.answer = AnswerAfterCall(w)
        /\ w.i \in Nat /\ Len(w.list) \in Nat
        /\ SameRequest(a, w)
    BY ListFacts DEF AfterCall, WriteRec, SameRequest
  <1>a. Accepts(a) <=> Accepts(w)
    BY <1>1, SameParse
  <1>2. w.strategy = "w1r5" => AnswerAfterCall(w) = "created"
    BY DEF AnswerAfterCall
  <1>3. failures = 0 /\ Accepts(w) => a.acked = Prefix(a)
    <2>1. a.i - 1 = w.i
      BY <1>1
    <2>2. Prefix(a) = {w.list[j] : j \in 1 .. w.i}
      BY <1>1, <2>1 DEF Prefix
    <2> QED
      BY <1>1, <2>2
  <1>4. w.answer = "error" => ~Unjustified(a)
    BY <1>1, <1>a DEF Unjustified
  <1>5. ASSUME w.answer # "error", AnswerAfterCall(w) = "error", failures = 0, Accepts(w)
        PROVE  w.strategy = "w3r3" /\ Len(w.list) < 2
    <2>1. w.i = Len(w.list) /\ ~Enough(w)
      BY <1>5 DEF AnswerAfterCall, WriteRec
    <2>2. Cardinality(w.acked) = Len(w.list)
      BY <1>5, <2>1, AllAcked
    <2> QED
      BY <1>1, <1>2, <1>5, <2>1, <2>2 DEF Enough, Need
  <1> HIDE DEF a
  <1> QED
    BY <1>1, <1>a, <1>2, <1>3, <1>4, <1>5 DEF Unjustified, a

LEMMA ErrorStep == TypeInv /\ AckInv /\ ErrorInv /\ [Next]_vars => ErrorInv'
  <1> SUFFICES ASSUME TypeInv, AckInv, ErrorInv, [Next]_vars PROVE ErrorInv'
    OBVIOUS
  <1>1. failures \in Nat /\ write \in [WriteReqs -> WriteRec]
    BY BoundAssumption DEF TypeInv, TypeOK
  <1>2. ASSUME write' = write, failures' \in {failures, failures + 1} PROVE ErrorInv'
    BY <1>1, <1>2 DEF ErrorInv, Prefix, Unjustified
  <1>3. ASSUME NEW q \in WriteReqs, \A p \in WriteReqs \ {q} : write'[p] = write[p],
               failures' \in {failures, failures + 1},
               /\ write'[q].pc \in {"sending", "waiting"} =>
                     /\ write'[q].strategy \in {"w5r1", "w1r5", "w3r3"}
                     /\ write'[q].strategy = "w1r5" => write'[q].answer = "created"
                     /\ failures' = 0 /\ Accepts(write'[q]) =>
                           write'[q].acked = Prefix(write'[q])
               /\ write'[q].answer = "error" =>
                     /\ write'[q].strategy # "w1r5"
                     /\ \/ failures' > 0
                        \/ ~Accepts(write'[q])
                        \/ write'[q].strategy = "w3r3" /\ Len(write'[q].list) < 2
        PROVE  ErrorInv'
    <2> SUFFICES ASSUME NEW p \in WriteReqs
                 PROVE  /\ write'[p].pc \in {"sending", "waiting"} =>
                              /\ write'[p].strategy \in {"w5r1", "w1r5", "w3r3"}
                              /\ write'[p].strategy = "w1r5" => write'[p].answer = "created"
                              /\ failures' = 0 /\ Accepts(write'[p]) =>
                                    write'[p].acked = Prefix(write'[p])
                        /\ write'[p].answer = "error" =>
                              /\ write'[p].strategy # "w1r5"
                              /\ \/ failures' > 0
                                 \/ ~Accepts(write'[p])
                                 \/ write'[p].strategy = "w3r3" /\ Len(write'[p].list) < 2
      BY DEF ErrorInv, Unjustified, Prefix
    <2>1. CASE p = q
      BY <1>3, <2>1
    <2>2. CASE p # q
      BY <1>1, <1>3, <2>2 DEF ErrorInv, Unjustified
    <2> QED
      BY <2>1, <2>2
  <1>4. ASSUME NEW q \in WriteReqs, NEW k \in Keys, NEW v \in Values, LeaderSet(q, k, v)
        PROVE  ErrorInv'
    <2>1. /\ write'[q].pc = "stored" /\ write'[q].answer = write[q].answer
          /\ write[q].pc = "idle" /\ failures' = failures
          /\ \A p \in WriteReqs \ {q} : write'[p] = write[p]
      BY <1>1, <1>4 DEF LeaderSet, WriteRec
    <2>2. write'[q].answer = "none"
      BY <2>1 DEF AckInv, Counted
    <2> QED
      BY <1>3, <2>1, <2>2
  <1>5. ASSUME NEW q \in WriteReqs, Writing(q) \/ CallFails(q)
        PROVE  ErrorInv'
    <2>1. \A p \in WriteReqs \ {q} : write'[p] = write[p]
      BY <1>5, WriteStepKeeps
    <2>2. write[q] \in WriteRec
      BY <1>1
    <2>a. Accepts(write'[q]) <=> Accepts(write[q])
      BY <1>5, WriteStepKeeps, SameParse
    <2>3. CASE ReadFollowers(q)
      <3>1. /\ write'[q].pc = "listed" /\ write'[q].answer = write[q].answer
            /\ write[q].pc = "stored" /\ failures' = failures
        BY <1>1, <2>2, <2>3 DEF ReadFollowers, WriteRec
      <3>2. write'[q].answer = "none"
        BY <3>1 DEF AckInv, Counted
      <3> QED
        BY <1>3, <2>1, <3>1, <3>2
    <2>4. CASE ReadStrategy(q)
      <3> DEFINE d == Dispatch(write[q], strategy)
      <3>1. write'[q] = d /\ failures' = failures /\ write[q].pc = "listed"
        BY <1>1, <2>4 DEF ReadStrategy
      <3>2. write[q].acked = {} /\ write[q].list \in Seq(Followers)
        BY <2>2, <3>1, ListFacts DEF AckInv, Counted, WriteRec
      <3>3. /\ d.pc \in {"sending", "done"} /\ d.i = 1 /\ d.acked = {}
            /\ d.strategy = strategy /\ d.list = write[q].list
            /\ d.pc = "sending" => strategy \in {"w5r1", "w1r5", "w3r3"}
            /\ strategy = "w1r5" => d.answer = "created"
            /\ d.answer = "error" => strategy = "w3r3" /\ write[q].list = <<>>
        BY <2>2, <3>2 DEF Dispatch, WriteRec
      <3>4. d.acked = Prefix(d)
        BY <3>3 DEF Prefix
      <3> HIDE DEF d
      <3>5. d.answer = "error" => Len(d.list) < 2
        BY <3>3
      <3> QED
        BY <1>3, <2>1, <3>1, <3>3, <3>4, <3>5
    <2>5. CASE SendReplication(q)
      <3>1. /\ write'[q] = [write[q] EXCEPT !.pc = "waiting"]
            /\ write[q].pc = "sending" /\ failures' = failures
        BY <1>1, <2>5 DEF SendReplication
      <3>2. /\ write'[q].strategy = write[q].strategy /\ write'[q].answer = write[q].answer
            /\ write'[q].acked = write[q].acked /\ write'[q].list = write[q].list
            /\ write'[q].i = write[q].i
        BY <2>2, <3>1 DEF WriteRec
      <3>3. Prefix(write'[q]) = Prefix(write[q])
        BY <3>2 DEF Prefix
      <3>4. /\ write[q].strategy \in {"w5r1", "w1r5", "w3r3"}
            /\ write[q].strategy = "w1r5" => write[q].answer = "created"
            /\ failures = 0 /\ Accepts(write[q]) => write[q].acked = Prefix(write[q])
            /\ write[q].answer = "error" => ~Unjustified(write[q])
        BY <3>1 DEF ErrorInv
      <3> QED
        BY <1>3, <2>1, <2>a, <3>1, <3>2, <3>3, <3>4 DEF Unjustified
    <2>6. ASSUME write[q].pc = "waiting"
          PROVE  /\ write[q].i \in 1 .. Len(write[q].list)
                 /\ write[q].strategy \in {"w5r1", "w1r5", "w3r3"}
                 /\ write[q].need = Need(write[q].strategy, write[q].list)
                 /\ write[q].strategy = "w1r5" => write[q].answer = "created"
                 /\ write[q].answer = "error" => ~Unjustified(write[q])
                 /\ failures = 0 /\ Accepts(write[q]) => write[q].acked = Prefix(write[q])
      BY <2>6, CallTypes DEF ErrorInv, AckInv, Counted
    <2>7. CASE CallReturns(q)
      <3> DEFINE w == Responded(write[q])
      <3>1. /\ write'[q] = AfterCall(w) /\ failures' = failures
            /\ write[q].pc = "waiting"
        BY <1>1, <2>7 DEF CallReturns
      <3>2. /\ w \in WriteRec /\ w.pc = "waiting" /\ w.i = write[q].i
            /\ w.list = write[q].list /\ w.strategy = write[q].strategy
            /\ w.need = write[q].need /\ w.answer = write[q].answer
            /\ Accepts(write[q]) => w.acked = write[q].acked \cup {w.list[w.i]}
            /\ SameRequest(w, write[q])
        BY <2>2, <2>6, <3>1, RespondedType DEF Target
      <3>a. Accepts(w) <=> Accepts(write[q])
        BY <3>2, SameParse
      <3> HIDE DEF w
      <3>3. failures = 0 /\ Accepts(w) => w.acked = {w.list[j] : j \in 1 .. w.i}
        <4>1. w.i \in Nat \ {0} /\ w.i \in 1 .. Len(w.list) /\ Len(w.list) \in Nat
          BY <2>6, <3>1, <3>2, ListFacts DEF WriteRec
        <4>2. 1 .. w.i = (1 .. (w.i - 1)) \cup {w.i}
          BY <4>1
        <4> QED
          BY <2>6, <3>1, <3>2, <3>a, <4>2 DEF Prefix
      <3>4. /\ AfterCall(w).strategy = w.strategy
            /\ AfterCall(w).strategy = "w1r5" => AfterCall(w).answer = "created"
            /\ failures = 0 /\ Accepts(AfterCall(w)) =>
                  AfterCall(w).acked = Prefix(AfterCall(w))
            /\ AfterCall(w).answer = "error" => ~Unjustified(AfterCall(w))
        BY <1>1, <2>6, <3>1, <3>2, <3>a, <3>3, ReturnJustified DEF Unjustified
      <3> QED
        BY <1>3, <2>1, <2>6, <3>1, <3>2, <3>4 DEF Unjustified
    <2>8. CASE CallFails(q)
      <3> DEFINE skipped == [write[q] EXCEPT !.missed = write[q].missed \cup {Target(write[q])}]
      <3>a. write[q].pc = "waiting"
        BY <2>8 DEF CallFails
      <3>b. write'[q] = AfterCall(write[q]) \/ write'[q] = AfterCall(skipped)
        BY <1>1, <2>8 DEF CallFails
      <3>c. /\ skipped \in WriteRec
            /\ skipped.strategy = write[q].strategy /\ skipped.answer = write[q].answer
        BY <2>2, <3>a, CallTypes DEF WriteRec
      <3> HIDE DEF skipped
      <3>1. \E w : /\ write'[q] = AfterCall(w) /\ w \in WriteRec
                   /\ w.strategy = write[q].strategy /\ w.answer = write[q].answer
        BY <2>2, <3>b, <3>c
      <3>2. PICK w : /\ write'[q] = AfterCall(w) /\ w \in WriteRec
                     /\ w.strategy = write[q].strategy /\ w.answer = write[q].answer
        BY <3>1
      <3>3. failures' = failures + 1 /\ write[q].pc = "waiting"
        BY <2>8 DEF CallFails
      <3>4. /\ AfterCall(w).strategy = w.strategy
            /\ w.answer = "created" => AfterCall(w).answer = "created"
        BY <3>2 DEF AfterCall, AnswerAfterCall, WriteRec
      <3> QED
        BY <1>1, <1>3, <2>1, <2>6, <3>2, <3>3, <3>4
    <2> QED
      BY <1>5, <2>3, <2>4, <2>5, <2>7, <2>8 DEF Writing
  <1>6. ASSUME NEW f \in DirectWriters, NEW k \in Keys, NEW v \in Values, FollowerSet(f, k, v)
        PROVE  ErrorInv'
    BY <1>2, <1>6 DEF FollowerSet
  <1>7. ASSUME NEW m \in net, InternalSet(m) PROVE ErrorInv'
    BY <1>2, <1>7 DEF InternalSet
  <1> QED
    BY <1>2, <1>4, <1>5, <1>6, <1>7, OtherSteps

\* A 500 always has a failed call, a refused URL or a w3r3 list of fewer than two
\* behind it.
THEOREM ErrorJustifiedHolds == Spec => []ErrorJustified
  <1>1. TypeInv /\ ErrorInv => ErrorJustified
    BY DEF ErrorInv, ErrorJustified, Unjustified
  <1>2. Spec => [](TypeInv /\ DataInv /\ AckInv /\ ErrorInv)
    BY DataReached, AckInit, AckStep, ErrorInit, ErrorStep, PTL DEF Spec
  <1> QED
    BY <1>1, <1>2, PTL
-----------------------------------------------------------------------------
(* The leader implements VersionedRegister, when no follower is written     *)
(* directly, the strategies are the three the code knows and the URLs carry  *)
(* keys, values and versions unharmed: otherwise a read may return an entry  *)
(* of no write of the leader, an empty body, or a cut value.                 *)

Clean == /\ DirectWriters = {}
         /\ Strategies \subseteq {"w5r1", "w1r5", "w3r3"}
         /\ \A k \in Keys, v \in Values :
               Wire[k, v] = [key |-> k, value |-> v, version |-> Own]
         /\ \A k \in Keys : WireKey[k] = k

EntryOf(w) == [value |-> w.value, version |-> w.version]

\* e was an entry of key k at the leader.
Wrote(k, e) ==
    \/ e = Absent
    \/ \E q \in WriteReqs : Started(q) /\ write[q].key = k /\ e = EntryOf(write[q])

\* A read that is open has seen entries of the leader only, and its candidate is
\* at least as new as the leader's entry when the read came.
ReadOK(q) ==
    LET r == read[q] IN
    /\ r.pc \in {"idle", "listed", "routed"} => r.fetched = {}
    /\ r.pc \in {"listed", "routed", "collecting"} =>
          r.since \in Nat /\ r.since <= Version(Leader, r.key)
    /\ r.pc = "collecting" => /\ r.since <= r.best.version
                              /\ Wrote(r.key, r.best)
                              /\ \A x \in r.fetched : Wrote(r.key, x.entry)

ReadInv == \A q \in ReadReqs : ReadOK(q)

LEMMA WroteEntries ==
  ASSUME Clean, TypeInv, DataInv, NEW n \in Nodes, NEW k \in Keys
  PROVE  Wrote(k, Get(store[n], k)) /\ HandleGet(store[n], k) = Get(store[n], k)
  <1> DEFINE e == Get(store[n], k)
  <1>1. e \in KVEntry
    BY VersionType
  <1>2. ASSUME e = Absent PROVE Wrote(k, e)
    BY <1>2 DEF Wrote
  <1>3. ASSUME e # Absent PROVE Wrote(k, e)
    <2>1. \A q \in WriteReqs :
             LandsOn(write[q], k) =>
                /\ write[q].key = k /\ Parsed(write[q]).value = write[q].value
                /\ Parsed(write[q]).version = write[q].version
      <3> SUFFICES ASSUME NEW q \in WriteReqs, LandsOn(write[q], k)
                   PROVE  /\ write[q].key = k /\ Parsed(write[q]).value = write[q].value
                          /\ Parsed(write[q]).version = write[q].version
        OBVIOUS
      <3>1. /\ write[q].key \in Keys /\ write[q].value \in Values /\ write[q].version \in Int
            /\ Accepts(write[q]) /\ Parsed(write[q]).key = k
        BY DEF TypeInv, TypeOK, WriteRec, LandsOn
      <3> DEFINE p == Wire[write[q].key, write[q].value]
      <3>2. p = [key |-> write[q].key, value |-> write[q].value, version |-> Own]
        BY <3>1 DEF Clean
      <3> HIDE DEF p
      <3>3. p.key = write[q].key /\ p.value = write[q].value /\ p.version = Own
        BY <3>2
      <3>4. Intact(write[q])
        BY <3>1, <3>3 DEF Intact, p
      <3>5. /\ Parsed(write[q]).value = p.value
            /\ Parsed(write[q]).key = write[q].key
            /\ Parsed(write[q]).version = write[q].version
        BY <3>1, <3>4, ParsedResult DEF p
      <3> QED
        BY <3>1, <3>3, <3>5
    <2>2. n \notin DirectWriters
      BY DEF Clean
    <2>3. PICK q \in WriteReqs :
             /\ Started(q) /\ write[q].key = k /\ write[q].version = e.version
             /\ e.value = write[q].value
      BY <1>3, <2>1, <2>2 DEF DataInv, Provenance
    <2>4. e = EntryOf(write[q])
      BY <1>1, <2>3 DEF KVEntry, EntryOf
    <2> QED
      BY <2>3, <2>4 DEF Wrote
  <1>4. k # Refused /\ WireKey[k] = k
    BY WireAssumption DEF Clean
  <1>5. HandleGet(store[n], k) = Get(store[n], k)
    BY <1>4 DEF HandleGet
  <1> QED
    BY <1>2, <1>3, <1>5

LEMMA WritesStay ==
  ASSUME TypeInv, [Next]_vars, NEW q \in WriteReqs, Started(q)
  PROVE  /\ Started(q)' /\ write'[q].key = write[q].key
         /\ EntryOf(write'[q]) = EntryOf(write[q])
  <1>1. write \in [WriteReqs -> WriteRec]
    BY DEF TypeInv, TypeOK
  <1>2. ASSUME NEW p \in WriteReqs, NEW k \in Keys, NEW v \in Values, LeaderSet(p, k, v)
        PROVE  write'[q] = write[q]
    BY <1>1, <1>2 DEF LeaderSet, Started
  <1>3. ASSUME NEW p \in WriteReqs, Writing(p) \/ CallFails(p)
        PROVE  /\ Started(q)' /\ write'[q].key = write[q].key
               /\ EntryOf(write'[q]) = EntryOf(write[q])
    BY <1>3, WriteStepKeeps DEF EntryOf, SameRequest
  <1>4. ASSUME NEW f \in DirectWriters, NEW k \in Keys, NEW v \in Values, FollowerSet(f, k, v)
        PROVE  write'[q] = write[q]
    BY <1>4 DEF FollowerSet
  <1>5. ASSUME NEW m \in net, InternalSet(m) PROVE write'[q] = write[q]
    BY <1>5 DEF InternalSet
  <1> QED
    BY <1>2, <1>3, <1>4, <1>5, OtherSteps DEF Started

LEMMA WroteStays ==
  ASSUME TypeInv, [Next]_vars, NEW k, NEW e, Wrote(k, e)
  PROVE  Wrote(k, e)'
  BY WritesStay DEF Wrote

\* The steps of a read request.
ReadStep(q) == \/ \E k \in Keys : LeaderGet(q, k)
               \/ Reading(q)
               \/ \E f \in Followers : FetchReturns(q, f) \/ FetchFails(q, f)

LEMMA ReadsOrNot ==
  ASSUME [Next]_vars
  PROVE  (\E q \in ReadReqs : ReadStep(q)) \/ UNCHANGED read
  <1>1. ASSUME NEW q \in WriteReqs, Writing(q) \/ CallFails(q) PROVE UNCHANGED read
    BY <1>1 DEF Writing, ReadFollowers, ReadStrategy, SendReplication, CallReturns, CallFails
  <1>2. ASSUME NEW q \in WriteReqs, NEW k \in Keys, NEW v \in Values, LeaderSet(q, k, v)
        PROVE  UNCHANGED read
    BY <1>2 DEF LeaderSet
  <1>3. ASSUME NEW f \in DirectWriters, NEW k \in Keys, NEW v \in Values, FollowerSet(f, k, v)
        PROVE  UNCHANGED read
    BY <1>3 DEF FollowerSet
  <1>4. ASSUME NEW m \in net, InternalSet(m) PROVE UNCHANGED read
    BY <1>4 DEF InternalSet
  <1>5. ASSUME NEW l \in FollowerLists, SetFollowers(l) PROVE UNCHANGED read
    BY <1>5 DEF SetFollowers
  <1>6. ASSUME NEW s \in Strategies, SetStrategy(s) PROVE UNCHANGED read
    BY <1>6 DEF SetStrategy
  <1>7. UNCHANGED vars => UNCHANGED read
    BY DEF vars
  <1> QED
    BY <1>1, <1>2, <1>3, <1>4, <1>5, <1>6, <1>7 DEF Next, ReadStep

\* What each step does to the record of the read: it is invoked, it goes on
\* without an answer, or it is answered.
Same(s, r) == s.key = r.key /\ s.since = r.since

Invoked(q) ==
    \E k \in Keys : /\ read[q].pc = "idle" /\ read'[q].pc = "listed" /\ read'[q].key = k
                    /\ read'[q].since = Version(Leader, k)

GoesOn(q) ==
    /\ read[q].pc \notin {"idle", "done"} /\ read'[q].pc \notin {"idle", "done"}
    /\ Same(read'[q], read[q])

Answered(q) ==
    /\ read[q].pc \notin {"idle", "done"} /\ read'[q].pc = "done"
    /\ Same(read'[q], read[q])
    /\ Wrote(read[q].key, read'[q].best)
    /\ read[q].since \in Nat /\ read[q].since <= read'[q].best.version

LEMMA ReadTypes ==
  ASSUME TypeInv, NEW q \in ReadReqs
  PROVE  /\ read \in [ReadReqs -> ReadRec] /\ read[q] \in ReadRec /\ read[q].key \in Keys
         /\ read[q].since \in Int /\ read[q].best \in KVEntry /\ read[q].best.version \in Int
         /\ \A x \in read[q].fetched : x.entry \in KVEntry /\ x.entry.version \in Int
         /\ read[q].strategy \in Strategies
  BY DEF TypeInv, TypeOK, ReadRec, KVEntry

LEMMA BestReceived ==
  ASSUME TypeInv, ReadInv, NEW q \in ReadReqs, read[q].pc = "collecting",
         NEW x \in read[q].fetched
  PROVE  /\ Same(Received(read[q], x), read[q])
         /\ Received(read[q], x).pc = "collecting"
         /\ Received(read[q], x).fetched = read[q].fetched \ {x}
         /\ Wrote(read[q].key, Received(read[q], x).best)
         /\ read[q].since <= Received(read[q], x).best.version
  <1>1. /\ Wrote(read[q].key, x.entry) /\ Wrote(read[q].key, read[q].best)
        /\ read[q].since <= read[q].best.version /\ read[q].since \in Nat
    BY DEF ReadInv, ReadOK
  <1>2. /\ read[q].best.version \in Int /\ x.entry.version \in Int
        /\ read[q] \in ReadRec
    BY ReadTypes
  <1>3. /\ Received(read[q], x).key = read[q].key /\ Received(read[q], x).since = read[q].since
        /\ Received(read[q], x).pc = read[q].pc
        /\ Received(read[q], x).fetched = read[q].fetched \ {x}
        /\ Received(read[q], x).best = Better(x.entry, read[q].best)
    BY <1>2 DEF Received, ReadRec
  <1>4. \/ /\ Better(x.entry, read[q].best) = x.entry /\ x.entry # Absent
           /\ read[q].best = Absent \/ x.entry.version > read[q].best.version
        \/ Better(x.entry, read[q].best) = read[q].best
    BY DEF Better
  <1>5. x.entry # Absent => x.entry.version \in Nat
    <2>1. \A p \in WriteReqs : write[p].version \in Nat
      BY DEF TypeInv, TypeOK, WriteRec
    <2>2. \A p \in WriteReqs : EntryOf(write[p]).version \in Nat
      BY <2>1 DEF EntryOf
    <2> QED
      BY <1>1, <2>2 DEF Wrote
  <1>6. read[q].best = Absent => read[q].since = 0
    BY <1>1 DEF Absent
  <1> QED
    BY <1>1, <1>2, <1>3, <1>4, <1>5, <1>6 DEF Same

LEMMA ReadEffect ==
  ASSUME Clean, TypeInv, DataInv, ReadInv, NEW q \in ReadReqs, ReadStep(q)
  PROVE  /\ Invoked(q) \/ GoesOn(q) \/ Answered(q)
         /\ \A p \in ReadReqs \ {q} : read'[p] = read[p]
         /\ UNCHANGED <<store, write>> /\ ReadOK(q)'
  <1> DEFINE r == read[q]
  <1>1. /\ read \in [ReadReqs -> ReadRec] /\ r \in ReadRec /\ r.key \in Keys
        /\ r.since \in Int /\ ReadOK(q) /\ r.strategy \in Strategies
    BY ReadTypes DEF ReadInv
  <1>2. UNCHANGED <<store, write>>
    BY DEF ReadStep, LeaderGet, Reading, RouteRead, ReadLocal, Receive, FetchReturns, FetchFails,
           Fetched
  <1>3. \A k, e : Wrote(k, e)' <=> Wrote(k, e)
    BY <1>2 DEF Wrote, Started
  <1>4. \A k : Version(Leader, k)' = Version(Leader, k)
    BY <1>2 DEF Version
  <1>5. ASSUME NEW k \in Keys, LeaderGet(q, k)
        PROVE  /\ Invoked(q) /\ ReadOK(q)' /\ \A p \in ReadReqs \ {q} : read'[p] = read[p]
    <2>1. /\ r.pc = "idle" /\ read'[q].pc = "listed" /\ read'[q].key = k
          /\ read'[q].since = Version(Leader, k) /\ read'[q].fetched = r.fetched
          /\ \A p \in ReadReqs \ {q} : read'[p] = read[p]
      BY <1>1, <1>5 DEF LeaderGet, Version, ReadRec
    <2>2. Version(Leader, k) \in Nat
      BY DEF DataInv, Numbering
    <2> QED
      BY <1>1, <1>4, <2>1, <2>2 DEF Invoked, ReadOK
  <1>6. ASSUME RouteRead(q)
        PROVE  /\ GoesOn(q) /\ ReadOK(q)' /\ \A p \in ReadReqs \ {q} : read'[p] = read[p]
    <2>1. strategy \in {"w5r1", "w1r5", "w3r3"}
      BY DEF Clean, TypeInv, TypeOK
    <2>2. /\ r.pc = "listed" /\ read'[q].pc = "routed" /\ Same(read'[q], r)
          /\ read'[q].fetched = r.fetched /\ \A p \in ReadReqs \ {q} : read'[p] = read[p]
      BY <1>1, <1>6, <2>1 DEF RouteRead, ReadRec, Same
    <2> QED
      BY <1>1, <1>4, <2>2 DEF GoesOn, ReadOK, Same
  <1>7. ASSUME ReadLocal(q)
        PROVE  /\ GoesOn(q) \/ Answered(q)
               /\ ReadOK(q)' /\ \A p \in ReadReqs \ {q} : read'[p] = read[p]
    <2>1. /\ r.pc = "routed" /\ read'[q].pc \in {"done", "collecting"} /\ Same(read'[q], r)
          /\ read'[q].best = Get(store[Leader], r.key) /\ read'[q].fetched = r.fetched
          /\ \A p \in ReadReqs \ {q} : read'[p] = read[p]
      BY <1>1, <1>7 DEF ReadLocal, ReadRec, Same
    <2>2. r.since <= read'[q].best.version /\ Wrote(r.key, read'[q].best)
      BY <1>1, <2>1, WroteEntries, NodeTypes DEF ReadOK, Version
    <2>3. r.fetched = {}
      BY <1>1, <2>1 DEF ReadOK
    <2>4. ReadOK(q)'
      BY <1>1, <1>3, <1>4, <2>1, <2>2, <2>3 DEF ReadOK, Same
    <2> QED
      BY <1>1, <2>1, <2>2, <2>4 DEF GoesOn, Answered, ReadOK
  <1>8. ASSUME NEW f \in Followers, FetchReturns(q, f) \/ FetchFails(q, f)
        PROVE  /\ GoesOn(q) /\ ReadOK(q)' /\ \A p \in ReadReqs \ {q} : read'[p] = read[p]
    <2>1. PICK e : Fetched(q, f, e) /\ Wrote(r.key, e)
      <3>1. Wrote(r.key, Absent)
        BY DEF Wrote
      <3>2. Wrote(r.key, HandleGet(store[f], r.key))
        <4>1. f \in Nodes
          BY NodeTypes
        <4>2. /\ Wrote(r.key, Get(store[f], r.key))
              /\ HandleGet(store[f], r.key) = Get(store[f], r.key)
          BY <1>1, <4>1, WroteEntries
        <4> QED
          BY <4>2
      <3> QED
        BY <1>8, <3>1, <3>2 DEF FetchReturns, FetchFails
    <2>2. /\ r.pc = "collecting" /\ read'[q].pc = "collecting" /\ Same(read'[q], r)
          /\ read'[q].best = r.best
          /\ read'[q].fetched = r.fetched \cup {[from |-> f, entry |-> e]}
          /\ \A p \in ReadReqs \ {q} : read'[p] = read[p]
      BY <1>1, <2>1 DEF Fetched, ReadRec, Same
    <2>3. \A x \in read'[q].fetched : Wrote(r.key, x.entry)
      BY <1>1, <2>1, <2>2 DEF ReadOK
    <2>4. ReadOK(q)'
      BY <1>1, <1>3, <1>4, <2>2, <2>3 DEF ReadOK, Same
    <2> QED
      BY <2>2, <2>4 DEF GoesOn
  <1>9. ASSUME Receive(q)
        PROVE  /\ GoesOn(q) \/ Answered(q)
               /\ ReadOK(q)' /\ \A p \in ReadReqs \ {q} : read'[p] = read[p]
    <2>1. PICK x \in r.fetched :
             /\ r.pc = "collecting"
             /\ read' = [read EXCEPT ![q] =
                           IF EnoughResponses(Received(r, x))
                           THEN [Received(r, x) EXCEPT !.pc = "done", !.asked = {},
                                                       !.fetched = {}]
                           ELSE Received(r, x)]
      BY <1>9 DEF Receive
    <2> DEFINE s == Received(r, x)
    <2>2. /\ s \in ReadRec /\ Same(s, r) /\ s.pc = "collecting" /\ s.fetched = r.fetched \ {x}
          /\ Wrote(r.key, s.best) /\ r.since <= s.best.version
      BY <1>1, <2>1, ReceivedType, BestReceived
    <2> HIDE DEF s
    <2>3. /\ read'[q].pc \in {"done", "collecting"} /\ Same(read'[q], s)
          /\ read'[q].best = s.best /\ read'[q].fetched \in {{}, s.fetched}
          /\ \A p \in ReadReqs \ {q} : read'[p] = read[p]
      <3>1. read' = [read EXCEPT ![q] =
                       IF EnoughResponses(s)
                       THEN [s EXCEPT !.pc = "done", !.asked = {}, !.fetched = {}] ELSE s]
        BY <2>1 DEF s
      <3> QED
        BY <1>1, <2>2, <3>1 DEF ReadRec, Same
    <2>4. ReadOK(q)'
      BY <1>1, <1>3, <1>4, <2>1, <2>2, <2>3 DEF ReadOK, Same
    <2> QED
      BY <1>1, <2>1, <2>2, <2>3, <2>4 DEF GoesOn, Answered, Same, ReadOK
  <1> QED
    BY <1>2, <1>5, <1>6, <1>7, <1>8, <1>9 DEF ReadStep, Reading

LEMMA ReadInvStep ==
  ASSUME Clean, TypeInv, DataInv, ReadInv, [Next]_vars
  PROVE  ReadInv'
  <1> SUFFICES ASSUME NEW q \in ReadReqs PROVE ReadOK(q)'
    BY DEF ReadInv
  <1>1. CASE read'[q] = read[q]
    <2>1. PICK k \in Keys : k = read[q].key
      BY ReadTypes
    <2>2. read[q].since \in Int /\ ReadOK(q) /\ Version(Leader, k) \in Nat
      BY ReadTypes DEF ReadInv, DataInv, Numbering
    <2>3. Version(Leader, k)' \in Nat
      <3>1. DataInv'
        BY DataStep
      <3> QED
        BY <3>1 DEF DataInv, Numbering
    <2>4. Version(Leader, k) <= Version(Leader, k)'
      <3>1. CASE Get(store[Leader], k) = Absent
        BY <2>3, <3>1 DEF Version, Absent
      <3>2. CASE Get(store[Leader], k) # Absent
        BY <2>2, <2>3, <3>2, Monotone DEF Version
      <3> QED
        BY <3>1, <3>2
    <2>5. \A e : Wrote(k, e) => Wrote(k, e)'
      <3> SUFFICES ASSUME NEW e, Wrote(k, e) PROVE Wrote(k, e)'
        OBVIOUS
      <3> QED
        BY WroteStays
    <2> QED
      BY <1>1, <2>1, <2>2, <2>3, <2>4, <2>5 DEF ReadOK
  <1>2. CASE \E p \in ReadReqs : ReadStep(p)
    BY <1>1, <1>2, ReadEffect
  <1> QED
    BY <1>1, <1>2, ReadsOrNot

-----------------------------------------------------------------------------
(* Each step, as a step of the register.                                    *)

Views == [q \in ReadReqs |-> RegisterRead(read[q])]

LEMMA ViewOf ==
  ASSUME NEW r
  PROVE  /\ r.pc = "idle" => RegisterRead(r) = [state |-> "idle"]
         /\ r.pc = "done" =>
              RegisterRead(r) = [state |-> "answered", key |-> r.key, result |-> r.best]
         /\ r.pc \notin {"idle", "done"} =>
              RegisterRead(r) = [state |-> "open", key |-> r.key, since |-> r.since]
  BY DEF RegisterRead

LEMMA ViewChange ==
  ASSUME NEW q \in ReadReqs, \A p \in ReadReqs \ {q} : read'[p] = read[p]
  PROVE  Views' = [Views EXCEPT ![q] = RegisterRead(read'[q])]
  BY DEF Views

LEMMA WritesSame ==
  ASSUME TypeInv, [Next]_vars,
         \A q \in WriteReqs : Started(q)' <=> Started(q)
  PROVE  RegisterWrites' = RegisterWrites
  <1>1. \A q \in WriteReqs : Started(q) =>
           /\ write'[q].key = write[q].key /\ write'[q].value = write[q].value
           /\ write'[q].version = write[q].version
    BY WritesStay DEF EntryOf
  <1> QED
    BY <1>1 DEF RegisterWrites

LEMMA SetStep ==
  ASSUME TypeInv, NEW q \in WriteReqs, NEW k \in Keys, NEW v \in Values, LeaderSet(q, k, v)
  PROVE  Register!Write(k, v)
  <1> DEFINE n == store[Leader].counter + 1
             w == [write[q] EXCEPT !.pc = "stored", !.key = k, !.value = v, !.version = n]
  <1>1. store[Leader] \in Store /\ store'[Leader] = Set(store[Leader], k, v)
    BY NodeTypes DEF LeaderSet, TypeInv, TypeOK
  <1>2. store'[Leader].counter = n
    BY <1>1 DEF Set
  <1>3. write \in [WriteReqs -> WriteRec] /\ write[q].pc = "idle" /\ read' = read
    BY DEF LeaderSet, TypeInv, TypeOK
  <1>4. w.pc = "stored" /\ w.key = k /\ w.value = v /\ w.version = n
    BY <1>3 DEF WriteRec
  <1>5. write'[q] = w /\ \A p \in WriteReqs \ {q} : write'[p] = write[p]
    BY <1>3 DEF LeaderSet
  <1> HIDE DEF w
  <1>6. RegisterWrites' = RegisterWrites \cup {[key |-> k, value |-> v, version |-> n]}
    <2>1. \A p \in WriteReqs : Started(p)' <=> Started(p) \/ p = q
      BY <1>4, <1>5 DEF Started
    <2>2. ~Started(q)
      BY <1>3 DEF Started
    <2> QED
      BY <1>4, <1>5, <2>1, <2>2 DEF RegisterWrites
  <1> QED
    BY <1>2, <1>3, <1>6 DEF Register!Write

\* The leader's entry is the current one of its key.
LEMMA LeaderIsCurrent ==
  ASSUME TypeInv, DataInv, NEW k \in Keys
  PROVE  /\ Version(Leader, k) \in Register!Versions(k) \cup {0}
         /\ Register!IsCurrent(k, Version(Leader, k))
  <1> DEFINE e == Get(store[Leader], k)
  <1>1. Version(Leader, k) \in Register!Versions(k) \cup {0}
    <2>1. CASE e = Absent
      BY <2>1 DEF Version, Absent
    <2>2. CASE e # Absent
      <3>1. PICK q \in WriteReqs :
               Started(q) /\ write[q].key = k /\ write[q].version = e.version
        BY <2>2, NodeTypes, NodeAssumption DEF DataInv, Provenance
      <3>2. [key |-> write[q].key, value |-> write[q].value, version |-> write[q].version]
               \in {w \in RegisterWrites : w.key = k}
        BY <3>1 DEF RegisterWrites
      <3> QED
        BY <3>1, <3>2 DEF Register!Versions, Version
    <2> QED
      BY <2>1, <2>2
  <1>2. ASSUME NEW m \in Register!Versions(k) PROVE m <= Version(Leader, k)
    <2>1. PICK q \in WriteReqs : Started(q) /\ write[q].key = k /\ write[q].version = m
      BY DEF Register!Versions, RegisterWrites
    <2>2. m \in Nat /\ Version(Leader, k) \in Nat /\ Version(Leader, k) >= m
      BY <2>1 DEF DataInv, LeaderNewest, Numbering, TypeInv, TypeOK, WriteRec
    <2> QED
      BY <2>2
  <1> QED
    BY <1>1, <1>2 DEF Register!IsCurrent

\* What a read may return is what the register has held since the read came.
LEMMA WroteIsHeld ==
  ASSUME NEW k, NEW e, NEW n \in Nat, Wrote(k, e), n <= e.version
  PROVE  e \in Register!HeldSince(k, n)
  <1>1. CASE e = Absent
    <2>1. n = 0
      BY <1>1 DEF Absent
    <2> QED
      BY <1>1, <2>1 DEF Register!HeldSince, Register!Absent, Absent
  <1>2. CASE e # Absent
    <2>1. PICK q \in WriteReqs : Started(q) /\ write[q].key = k /\ e = EntryOf(write[q])
      BY <1>2 DEF Wrote
    <2> DEFINE w == [key |-> write[q].key, value |-> write[q].value,
                     version |-> write[q].version]
    <2>2. w \in RegisterWrites
      BY <2>1 DEF RegisterWrites
    <2>3. w.key = k /\ w.version >= n /\ e = [value |-> w.value, version |-> w.version]
      BY <2>1 DEF EntryOf
    <2> HIDE DEF w
    <2> QED
      BY <2>2, <2>3 DEF Register!HeldSince
  <1> QED
    BY <1>1, <1>2

LEMMA ReadImplements ==
  ASSUME Clean, TypeInv, DataInv, ReadInv, NEW q \in ReadReqs, ReadStep(q)
  PROVE  Register!Next \/ UNCHANGED Register!vars
  <1> DEFINE r == read[q]
             s == read'[q]
  <1>1. /\ Invoked(q) \/ GoesOn(q) \/ Answered(q)
        /\ UNCHANGED <<store, write>> /\ Views' = [Views EXCEPT ![q] = RegisterRead(s)]
    BY ReadEffect, ViewChange
  <1>2. UNCHANGED <<RegisterWrites, store[Leader].counter>>
    BY <1>1 DEF RegisterWrites, Started
  <1>3. Views[q] = RegisterRead(r) /\ Views = [Views EXCEPT ![q] = RegisterRead(r)]
    BY DEF Views
  <1>4. CASE Invoked(q)
    <2>1. PICK k \in Keys :
             /\ r.pc = "idle" /\ s.pc = "listed" /\ s.key = k /\ s.since = Version(Leader, k)
      BY <1>4 DEF Invoked
    <2>2. /\ RegisterRead(r) = [state |-> "idle"]
          /\ RegisterRead(s) = [state |-> "open", key |-> k, since |-> Version(Leader, k)]
      BY <2>1, ViewOf
    <2>3. Register!Invoke(q, k)
      BY <1>1, <1>2, <1>3, <2>2, LeaderIsCurrent DEF Register!Invoke, Views
    <2> QED
      BY <2>3 DEF Register!Next
  <1>5. CASE GoesOn(q)
    <2>1. RegisterRead(s) = RegisterRead(r)
      BY <1>5, ViewOf DEF GoesOn, Same
    <2> QED
      BY <1>1, <1>2, <1>3, <2>1 DEF Register!vars, Views
  <1>6. CASE Answered(q)
    <2>1. /\ RegisterRead(r) = [state |-> "open", key |-> r.key, since |-> r.since]
          /\ RegisterRead(s) = [state |-> "answered", key |-> r.key, result |-> s.best]
      BY <1>6, ViewOf DEF Answered, Same
    <2>2. s.best \in Register!HeldSince(r.key, r.since)
      BY <1>6, ReadTypes, WroteIsHeld DEF Answered
    <2>3. Views[q].state = "open" /\ Views[q].key = r.key /\ Views[q].since = r.since
      BY <1>3, <2>1
    <2>4. Views' = [Views EXCEPT ![q] = [state |-> "answered", key |-> Views[q].key,
                                         result |-> s.best]]
      BY <1>1, <2>1, <2>3
    <2>5. Register!Respond(q)
      BY <1>2, <2>2, <2>3, <2>4 DEF Register!Respond, Views
    <2> QED
      BY <2>5 DEF Register!Next
  <1> QED
    BY <1>1, <1>4, <1>5, <1>6

LEMMA RegisterStep ==
  ASSUME Clean, TypeInv, DataInv, ReadInv, [Next]_vars
  PROVE  [Register!Next]_Register!vars
  <1>1. CASE \E q \in ReadReqs : ReadStep(q)
    BY <1>1, ReadImplements
  <1>2. CASE \E q \in WriteReqs, k \in Keys, v \in Values : LeaderSet(q, k, v)
    BY <1>2, SetStep DEF Register!Next
  <1>3. ASSUME UNCHANGED read, store'[Leader].counter = store[Leader].counter,
               \A q \in WriteReqs : Started(q)' <=> Started(q)
        PROVE  UNCHANGED Register!vars
    BY <1>3, WritesSame DEF Register!vars
  <1>4. CASE \E q \in WriteReqs : Writing(q) \/ CallFails(q)
    <2>1. PICK q \in WriteReqs : Writing(q) \/ CallFails(q)
      BY <1>4
    <2>2. UNCHANGED <<read, store>> /\ \A p \in WriteReqs : Started(p)' <=> Started(p)
      BY <2>1, WriteStepKeeps
      DEF Writing, ReadFollowers, ReadStrategy, SendReplication, CallReturns, CallFails
    <2> QED
      BY <1>3, <2>2
  <1>5. CASE \E m \in net : InternalSet(m)
    <2>1. PICK m \in net : InternalSet(m)
      BY <1>5
    <2>2. m.to # Leader
      BY NodeAssumption DEF TypeInv, TypeOK, Message
    <2>3. UNCHANGED <<read, write>> /\ store'[Leader] = store[Leader]
      BY <2>1, <2>2, NodeTypes DEF InternalSet, TypeInv, TypeOK
    <2> QED
      BY <1>3, <2>3 DEF Started
  <1>6. CASE UNCHANGED <<read, store, write>>
    BY <1>3, <1>6 DEF Started
  <1>7. DirectWriters = {}
    BY DEF Clean
  <1> QED
    BY <1>1, <1>2, <1>4, <1>5, <1>6, <1>7, OtherSteps, ReadsOrNot

\* Clients of the leader see a linearizable register with numbered writes: a read
\* returns what the leader held at some moment between its request and its answer,
\* in every strategy, whatever followers fail or answer late and whatever the
\* configuration becomes meanwhile (leaderSetHandler, leaderGetHandler).
THEOREM LeaderIsRegister ==
  ASSUME Clean
  PROVE  Spec => RegisterSpec
  <1>1. Init => ReadInv
    <2> SUFFICES ASSUME Init, NEW q \in ReadReqs PROVE ReadOK(q)
      BY DEF ReadInv
    <2>1. read[q].pc = "idle" /\ read[q].fetched = {}
      BY DEF Init, IdleRead
    <2> QED
      BY <2>1 DEF ReadOK
  <1>2. TypeInv /\ DataInv /\ ReadInv /\ [Next]_vars => ReadInv'
    BY ReadInvStep
  <1>3. Init => Register!Init
    <2> SUFFICES ASSUME Init PROVE Register!Init
      OBVIOUS
    <2>1. store[Leader].counter = 0
      BY NodeTypes DEF Init, NewStore
    <2>2. RegisterWrites = {}
      BY DEF Init, IdleWrite, RegisterWrites, Started
    <2>3. \A q \in ReadReqs : RegisterRead(read[q]) = [state |-> "idle"]
      BY DEF Init, IdleRead, RegisterRead
    <2> QED
      BY <2>1, <2>2, <2>3 DEF Register!Init
  <1>4. TypeInv /\ DataInv /\ ReadInv /\ [Next]_vars => [Register!Next]_Register!vars
    BY RegisterStep
  <1> QED
    BY <1>1, <1>2, <1>3, <1>4, TypeInit, TypeStep, DataInit, DataStep,
       PTL DEF Spec, RegisterSpec, Register!Spec
=============================================================================
