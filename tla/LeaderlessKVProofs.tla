------------------------ MODULE LeaderlessKVProofs ------------------------
(***************************************************************************)
(* Theorems about LeaderlessKV, for every set of nodes, writes, keys and   *)
(* values, all peer lists and bounds, and whichever nodes clients write a  *)
(* key through.                                                            *)
(***************************************************************************)
EXTENDS LeaderlessKV, TLAPS

-----------------------------------------------------------------------------
(* What the operations of a node's store return: as in LeaderKVProofs,      *)
(* for the nodes and keys of this service.                                  *)

LEMMA NewStoreType == NewStore \in Store
  BY DEF NewStore, Store, KVEntry, Absent

\* What Set returns: one more version, stored under the key.
LEMMA SetResult ==
  ASSUME NEW s \in Store, NEW k \in Keys, NEW v \in Values
  PROVE  /\ Set(s, k, v) \in Store
         /\ Set(s, k, v).counter = s.counter + 1
         /\ Get(Set(s, k, v), k) = [value |-> v, version |-> s.counter + 1]
         /\ \A j \in Keys \ {k} : Get(Set(s, k, v), j) = Get(s, j)
  BY DEF Set, Get, Store, KVEntry

\* SetWithVersion keeps the counter and every other key.  Under its key it leaves
\* the old entry or the offered one, at least as new as the offered one and, when
\* there was an entry, at least as new as that.
LEMMA SetWithVersionResult ==
  ASSUME NEW s \in Store, NEW k \in Keys, NEW v \in Values, NEW n \in Int
  PROVE  LET t == SetWithVersion(s, k, v, n) IN
         /\ t \in Store
         /\ t.counter = s.counter
         /\ Get(t, k) \in {Get(s, k), [value |-> v, version |-> n]}
         /\ Get(t, k) # Absent /\ Get(t, k).version >= n
         /\ Get(s, k) # Absent => Get(t, k).version >= Get(s, k).version
         /\ \A j \in Keys \ {k} : Get(t, j) = Get(s, j)
  <1> DEFINE written == [s EXCEPT !.data[k] = [value |-> v, version |-> n]]
  <1>1. /\ s.data \in [Keys -> KVEntry] /\ s.counter \in Nat
        /\ s.data[k].version \in Int
    BY DEF Store, KVEntry
  <1>2. CASE s.data[k] = Absent \/ n > s.data[k].version
    <2>1. SetWithVersion(s, k, v, n) = written
      BY <1>2 DEF SetWithVersion
    <2>2. /\ written \in Store /\ written.counter = s.counter
          /\ written.data[k] = [value |-> v, version |-> n]
          /\ \A j \in Keys \ {k} : written.data[j] = s.data[j]
      BY <1>1 DEF Store, KVEntry
    <2>3. s.data[k] # Absent => n >= s.data[k].version
      BY <1>1, <1>2
    <2>4. [value |-> v, version |-> n] # Absent
      BY DataAssumption DEF Absent
    <2> QED
      BY <2>1, <2>2, <2>3, <2>4 DEF Get
  <1>3. CASE ~(s.data[k] = Absent \/ n > s.data[k].version)
    BY <1>1, <1>3 DEF SetWithVersion, Get
  <1> QED
    BY <1>2, <1>3

\* What the query of an accepted request is parsed to.
LEMMA ParsedResult ==
  ASSUME NEW m, m.key \in Keys, m.value \in Values, m.version \in Int, Accepts(m)
  PROVE  /\ Parsed(m).key \in Keys /\ Parsed(m).value \in Values
         /\ Parsed(m).version \in Int
         /\ Parsed(m).value = Wire[m.key, m.value].value
         /\ Parsed(m).key = Wire[m.key, m.value].key
         /\ Intact(m) => Parsed(m).key = m.key /\ Parsed(m).version = m.version
  <1> DEFINE p == Wire[m.key, m.value]
  <1>1. p \in ParsedRequest
    BY WireAssumption DEF Accepts
  <1>2. /\ p.key \in Keys /\ p.value \in Values
        /\ p = [key |-> p.key, value |-> p.value, version |-> p.version]
        /\ p.version \in Int \cup {Own}
    BY <1>1 DEF ParsedRequest
  <1>3. Parsed(m) = [key |-> p.key, value |-> p.value,
                     version |-> IF p.version = Own THEN m.version ELSE p.version]
    <2>1. Parsed(m) = [p EXCEPT !.version = IF p.version = Own THEN m.version ELSE p.version]
      BY <1>1 DEF Parsed, ParsedRequest
    <2> HIDE DEF p
    <2> QED
      BY <1>1, <2>1 DEF ParsedRequest
  <1>4. Intact(m) => p.key = m.key /\ p.version = Own
    BY DEF Intact
  <1> HIDE DEF p
  <1>5. /\ Parsed(m).key = p.key /\ Parsed(m).value = p.value
        /\ Parsed(m).version = IF p.version = Own THEN m.version ELSE p.version
    BY <1>3
  <1>6. Parsed(m).version \in Int
    BY <1>2, <1>5
  <1> QED
    BY <1>2, <1>4, <1>5, <1>6 DEF p

\* Only the key, the value and the version of a request are in its URL.
SameRequest(a, b) == a.key = b.key /\ a.value = b.value /\ a.version = b.version

LEMMA SameParse ==
  ASSUME NEW a, NEW b, SameRequest(a, b)
  PROVE  /\ Accepts(a) <=> Accepts(b)
         /\ Intact(a) <=> Intact(b)
         /\ Parsed(a) = Parsed(b)
         /\ \A k : LandsOn(a, k) <=> LandsOn(b, k)
         /\ \A s : HandleSet(s, a) = HandleSet(s, b)
         /\ \A s : Holds(s, a) <=> Holds(s, b)
  BY DEF SameRequest, Accepts, Intact, Parsed, LandsOn, HandleSet, Holds

\* /internal/set changes at most the entry the request lands on, to what the
\* request carries, and makes no entry older.
LEMMA HandleSetResult ==
  ASSUME NEW s \in Store, NEW m, m.key \in Keys, m.value \in Values, m.version \in Int
  PROVE  LET t == HandleSet(s, m) IN
         /\ t \in Store
         /\ t.counter = s.counter
         /\ Accepts(m) => Holds(t, m)
         /\ \A k \in Keys :
               /\ \/ Get(t, k) = Get(s, k)
                  \/ /\ LandsOn(m, k)
                     /\ Get(t, k) = [value |-> Parsed(m).value, version |-> Parsed(m).version]
               /\ Get(s, k) # Absent => /\ Get(t, k) # Absent
                                       /\ Get(t, k).version >= Get(s, k).version
  <1> DEFINE t == HandleSet(s, m)
  <1>0. \A k \in Keys : Get(s, k).version \in Int
    BY DEF Get, Store, KVEntry
  <1>1. CASE ~Accepts(m)
    <2>1. t = s
      BY <1>1 DEF HandleSet
    <2> HIDE DEF t
    <2>2. \A k \in Keys : Get(t, k) = Get(s, k) /\ Get(t, k).version >= Get(s, k).version
      <3>1. \A k \in Keys : Get(t, k) = Get(s, k)
        BY <2>1
      <3>2. \A i \in Int : i >= i
        OBVIOUS
      <3> QED
        BY <1>0, <3>1, <3>2, Zenon
    <2>3. t \in Store /\ t.counter = s.counter
      BY <2>1
    <2> QED
      BY <1>1, <2>2, <2>3 DEF t
  <1>2. CASE Accepts(m)
    <2> DEFINE j == Parsed(m).key
               v == Parsed(m).value
               n == Parsed(m).version
    <2>1. j \in Keys /\ v \in Values /\ n \in Int
      BY <1>2, ParsedResult
    <2>2. t = SetWithVersion(s, j, v, n)
      BY <1>2 DEF HandleSet
    <2> HIDE DEF t, j, v, n
    <2>3. /\ t \in Store /\ t.counter = s.counter
          /\ Get(t, j) \in {Get(s, j), [value |-> v, version |-> n]}
          /\ Get(t, j) # Absent /\ Get(t, j).version >= n
          /\ Get(s, j) # Absent => Get(t, j).version >= Get(s, j).version
          /\ \A k \in Keys \ {j} : Get(t, k) = Get(s, k)
      BY <2>1, <2>2, SetWithVersionResult
    <2>4. Holds(t, m)
      BY <1>2, <2>3 DEF Holds, j, n
    <2>5. ASSUME NEW k \in Keys
          PROVE  /\ \/ Get(t, k) = Get(s, k)
                    \/ LandsOn(m, k) /\ Get(t, k) = [value |-> v, version |-> n]
                 /\ Get(s, k) # Absent => /\ Get(t, k) # Absent
                                         /\ Get(t, k).version >= Get(s, k).version
      <3>1. CASE k = j
        BY <1>2, <2>3, <3>1 DEF LandsOn, j
      <3>2. CASE k # j
        BY <1>0, <2>3, <3>2
      <3> QED
        BY <3>1, <3>2
    <2> QED
      BY <2>3, <2>4, <2>5 DEF t, v, n
  <1> QED
    BY <1>1, <1>2

-----------------------------------------------------------------------------
(* Type correctness.  TypeOK is inductive together with FreshOK: a handler  *)
(* that has not read its list starts the loop at the first peer.            *)

FreshOK == \A q \in WriteReqs :
              /\ write[q].pc \in {"idle", "stored"} => write[q].i = 1
              /\ write[q].pc # "done" => write[q].answer = "none"
              /\ write[q].answer = "error" => write[q].i \in 1 .. Len(write[q].list)

TypeInv == TypeOK /\ FreshOK

LEMMA ListFacts ==
  ASSUME NEW l \in PeerLists
  PROVE  /\ l \in Seq(Nodes) /\ Len(l) \in Nat /\ IsInjective(l)
         /\ Range(l) = {l[j] : j \in 1 .. Len(l)}
         /\ \A i \in 1 .. Len(l) : l[i] \in Nodes
  BY PeerAssumption DEF Range

LEMMA InjectiveList ==
  ASSUME NEW l \in Seq(Nodes), IsInjective(l), NEW i \in 1 .. Len(l), NEW j \in 1 .. Len(l),
         l[i] = l[j]
  PROVE  i = j
  BY DEF IsInjective

LEMMA ReplicationType ==
  ASSUME NEW w \in WriteRec, w.i \in 1 .. Len(w.list)
  PROVE  Replication(w) \in Message /\ Target(w) \in Nodes
  BY DEF Replication, Target, Message, WriteRec

\* The end of an iteration keeps the record typed and the index in the list.
LEMMA AfterReturnType ==
  ASSUME NEW w \in WriteRec, w.i \in 1 .. Len(w.list)
  PROVE  /\ AfterReturn(w) \in WriteRec
         /\ AfterReturn(w).pc \in {"sending", "done"}
         /\ AfterReturn(w).pc = "sending" =>
               /\ AfterReturn(w).i \in 1 .. Len(AfterReturn(w).list)
               /\ AfterReturn(w).answer = w.answer
         /\ AfterReturn(w).answer \in {w.answer, "created"}
  <1>1. Len(w.list) \in Nat /\ w.i \in Nat /\ w.i + 1 \in Nat
    BY DEF WriteRec
  <1>2. CASE w.i = Len(w.list)
    BY <1>2 DEF AfterReturn, WriteRec
  <1>3. CASE w.i # Len(w.list)
    <2>1. AfterReturn(w) = [w EXCEPT !.pc = "sending", !.i = w.i + 1]
      BY <1>3 DEF AfterReturn
    <2>2. w.i + 1 \in 1 .. Len(w.list)
      BY <1>1, <1>3
    <2> QED
      BY <1>1, <2>1, <2>2 DEF WriteRec
  <1> QED
    BY <1>2, <1>3

LEMMA TypeInit == Init => TypeInv
  <1> SUFFICES ASSUME Init PROVE TypeInv
    OBVIOUS
  <1>1. store \in [Nodes -> Store]
    BY NewStoreType DEF Init
  <1>2. /\ (CHOOSE k \in Keys : TRUE) \in Keys
        /\ (CHOOSE v \in Values : TRUE) \in Values
        /\ (CHOOSE n \in Nodes : TRUE) \in Nodes
    BY DataAssumption, PeerAssumption
  <1> DEFINE idle == [pc |-> "idle", answer |-> "none", node |-> CHOOSE n \in Nodes : TRUE,
                      key |-> CHOOSE k \in Keys : TRUE, value |-> CHOOSE v \in Values : TRUE,
                      version |-> 0, list |-> <<>>, i |-> 1, before |-> {}]
  <1>6. idle \in WriteRec /\ idle.i = 1 /\ idle.answer = "none"
    BY <1>2 DEF WriteRec
  <1>7. write = [q \in WriteReqs |-> idle]
    BY DEF Init
  <1> HIDE DEF idle
  <1>3. write \in [WriteReqs -> WriteRec] /\ FreshOK
    BY <1>6, <1>7 DEF FreshOK
  <1>4. \A q \in WriteReqs : write[q].pc = "idle"
    BY DEF Init
  <1>5. /\ peers \in [Nodes -> PeerLists] /\ net \in SUBSET Message
        /\ failures \in 0 .. MaxFailures /\ reconfigs \in 0 .. MaxReconfigs
    BY BoundAssumption DEF Init
  <1> QED
    BY <1>1, <1>3, <1>4, <1>5 DEF TypeInv, TypeOK

\* Type correctness of a write handler's steps.
LEMMA HandlerType ==
  ASSUME TypeInv, NEW q \in WriteReqs, Handling(q) \/ CallFails(q)
  PROVE  TypeInv'
  <1> DEFINE w == write[q]
             Fits(r) == /\ r \in WriteRec
                        /\ r.pc \in {"sending", "waiting"} => r.i \in 1 .. Len(r.list)
                        /\ r.pc \notin {"idle", "stored"}
                        /\ r.pc # "done" => r.answer = "none"
                        /\ r.answer = "error" => r.i \in 1 .. Len(r.list)
  <1>1. w \in WriteRec /\ write \in [WriteReqs -> WriteRec]
    BY DEF TypeInv, TypeOK
  <1>2. ASSUME NEW r, Fits(r), write' = [write EXCEPT ![q] = r],
               net' \in SUBSET Message, UNCHANGED <<store, peers, reconfigs>>,
               failures' \in 0 .. MaxFailures
        PROVE  TypeInv'
    BY <1>1, <1>2 DEF TypeInv, TypeOK, FreshOK
  <1>3. net \in SUBSET Message /\ failures \in 0 .. MaxFailures
    BY DEF TypeInv, TypeOK
  <1>4. ASSUME w.pc = "waiting" PROVE w.i \in 1 .. Len(w.list) /\ w.answer = "none"
    BY <1>4 DEF TypeInv, TypeOK, FreshOK
  <1>5. CASE ReadPeers(q)
    <2> DEFINE l == peers[w.node]
               r == [w EXCEPT !.list = l,
                              !.pc = IF l = <<>> THEN "done" ELSE "sending",
                              !.answer = IF l = <<>> THEN "created" ELSE "none"]
    <2>1. l \in PeerLists /\ w.i = 1
      BY <1>1, <1>5 DEF ReadPeers, TypeInv, TypeOK, FreshOK, WriteRec
    <2>2. l \in Seq(Nodes) /\ (l # <<>> => 1 \in 1 .. Len(l))
      BY <2>1, ListFacts
    <2>3. r \in WriteRec
      BY <1>1, <2>2 DEF WriteRec
    <2>4. Fits(r)
      BY <1>1, <2>1, <2>2, <2>3 DEF WriteRec
    <2>5. write' = [write EXCEPT ![q] = r]
      BY <1>5 DEF ReadPeers
    <2> HIDE DEF r, Fits
    <2> QED
      BY <1>2, <1>3, <1>5, <2>4, <2>5 DEF ReadPeers
  <1>6. CASE SendReplication(q)
    <2>1. w.i \in 1 .. Len(w.list) /\ w.answer = "none"
      BY <1>6 DEF SendReplication, TypeInv, TypeOK, FreshOK
    <2>2. Fits([w EXCEPT !.pc = "waiting"])
      BY <1>1, <2>1 DEF WriteRec
    <2>3. write' = [write EXCEPT ![q] = [w EXCEPT !.pc = "waiting"]]
      BY <1>1, <1>6 DEF SendReplication
    <2>4. Replication(w) \in Message
      BY <1>1, <2>1, ReplicationType
    <2> HIDE DEF Fits
    <2> QED
      BY <1>2, <1>3, <1>6, <2>2, <2>3, <2>4 DEF SendReplication
  <1>7. CASE CallReturns(q)
    <2>1. w.i \in 1 .. Len(w.list) /\ w.answer = "none"
      BY <1>4, <1>7 DEF CallReturns
    <2>2. Fits(AfterReturn(w))
      BY <1>1, <2>1, AfterReturnType
    <2>3. Fits(AfterFailure(w))
      BY <1>1, <2>1 DEF AfterFailure, WriteRec
    <2>4. \/ write' = [write EXCEPT ![q] = AfterReturn(w)]
          \/ write' = [write EXCEPT ![q] = AfterFailure(w)]
      BY <1>7 DEF CallReturns
    <2> HIDE DEF Fits
    <2> QED
      BY <1>2, <1>3, <1>7, <2>2, <2>3, <2>4 DEF CallReturns
  <1>8. CASE CallFails(q)
    <2>0. w.i \in 1 .. Len(w.list)
      BY <1>4, <1>8 DEF CallFails
    <2>1. Fits(AfterFailure(w))
      BY <1>1, <2>0 DEF AfterFailure, WriteRec
    <2>2. write' = [write EXCEPT ![q] = AfterFailure(w)]
      BY <1>8 DEF CallFails
    <2>3. failures' \in 0 .. MaxFailures
      BY <1>3, <1>8, BoundAssumption DEF CallFails
    <2>4. net' \in SUBSET Message
      BY <1>3, <1>8 DEF CallFails
    <2> HIDE DEF Fits
    <2> QED
      BY <1>2, <1>8, <2>1, <2>2, <2>3, <2>4 DEF CallFails
  <1> HIDE DEF w, Fits
  <1> QED
    BY <1>5, <1>6, <1>7, <1>8 DEF Handling

LEMMA SetType ==
  ASSUME TypeInv, NEW q \in WriteReqs, NEW n \in Nodes, NEW k \in Keys, NEW v \in Values,
         CoordinatorSet(q, n, k, v)
  PROVE  TypeInv'
  <1> DEFINE w == [write[q] EXCEPT !.pc = "stored", !.node = n, !.key = k, !.value = v,
                                   !.version = store[n].counter + 1, !.before = Answered]
  <1>1. write[q] \in WriteRec /\ write[q].pc = "idle" /\ store[n] \in Store
    BY DEF CoordinatorSet, TypeInv, TypeOK
  <1>2. Set(store[n], k, v) \in Store /\ store[n].counter + 1 \in Nat
    BY <1>1, SetResult DEF Store
  <1>3. w \in WriteRec /\ w.pc = "stored" /\ w.i = write[q].i /\ w.answer = write[q].answer
    BY <1>1, <1>2 DEF WriteRec, Answered
  <1>4. write' = [write EXCEPT ![q] = w] /\ store' = [store EXCEPT ![n] = Set(store[n], k, v)]
    BY DEF CoordinatorSet
  <1> HIDE DEF w
  <1>5. write' \in [WriteReqs -> WriteRec] /\ store' \in [Nodes -> Store]
    BY <1>2, <1>3, <1>4 DEF TypeInv, TypeOK
  <1>6. \A p \in WriteReqs : write'[p] = IF p = q THEN w ELSE write[p]
    BY <1>4 DEF TypeInv, TypeOK
  <1> QED
    BY <1>1, <1>3, <1>5, <1>6 DEF CoordinatorSet, TypeInv, TypeOK, FreshOK

LEMMA TypeStep == TypeInv /\ [Next]_vars => TypeInv'
  <1> SUFFICES ASSUME TypeInv, [Next]_vars PROVE TypeInv'
    OBVIOUS
  <1>1. ASSUME NEW n \in Nodes, NEW l \in PeerLists, SetPeers(n, l) PROVE TypeInv'
    BY <1>1, BoundAssumption DEF SetPeers, TypeInv, TypeOK, FreshOK
  <1>2. ASSUME NEW q \in WriteReqs, NEW v \in Values, NEW t \in MayWrite,
               CoordinatorSet(q, t[1], t[2], v)
        PROVE  TypeInv'
    BY <1>2, SetType, PeerAssumption
  <1>3. ASSUME NEW q \in WriteReqs, Handling(q) \/ CallFails(q) PROVE TypeInv'
    BY <1>3, HandlerType
  <1>4. ASSUME NEW m \in net, InternalSet(m) PROVE TypeInv'
    <2>1. m \in Message /\ store[m.to] \in Store
      BY DEF TypeInv, TypeOK, Message
    <2>2. HandleSet(store[m.to], m) \in Store
      BY <2>1, HandleSetResult DEF Message
    <2> QED
      BY <1>4, <2>2 DEF InternalSet, TypeInv, TypeOK, FreshOK
  <1>5. CASE UNCHANGED vars
    BY <1>5 DEF vars, TypeInv, TypeOK, FreshOK
  <1> QED
    BY <1>1, <1>2, <1>3, <1>4, <1>5 DEF Next

\* Every variable keeps its type, and the loop index stays in the captured list.
THEOREM TypeCorrect == Spec => []TypeOK
  <1>1. Spec => []TypeInv
    BY TypeInit, TypeStep, PTL DEF Spec
  <1> QED
    BY <1>1, PTL DEF TypeInv

-----------------------------------------------------------------------------
(* What the steps do to the stores and to the writes.                       *)

\* Steps other than setHandler's local write keep what a write is.
SameWrite(q) == /\ (write'[q].pc = "idle") <=> (write[q].pc = "idle")
                /\ write'[q].node = write[q].node
                /\ write'[q].key = write[q].key
                /\ write'[q].value = write[q].value
                /\ write'[q].version = write[q].version
                /\ write'[q].before = write[q].before

LEMMA HandlerKeepsWrites ==
  ASSUME TypeInv, NEW q \in WriteReqs, Handling(q) \/ CallFails(q)
  PROVE  /\ UNCHANGED <<store, peers>>
         /\ \A p \in WriteReqs \ {q} : write'[p] = write[p]
         /\ SameWrite(q)
  <1>1. write \in [WriteReqs -> WriteRec] /\ write[q] \in WriteRec
    BY DEF TypeInv, TypeOK
  <1>2. CASE ReadPeers(q)
    BY <1>1, <1>2 DEF ReadPeers, SameWrite, WriteRec
  <1>3. CASE SendReplication(q)
    BY <1>1, <1>3 DEF SendReplication, SameWrite, WriteRec
  <1>4. CASE CallReturns(q)
    BY <1>1, <1>4 DEF CallReturns, AfterReturn, AfterFailure, SameWrite, WriteRec
  <1>5. CASE CallFails(q)
    BY <1>1, <1>5 DEF CallFails, AfterFailure, SameWrite, WriteRec
  <1> QED
    BY <1>2, <1>3, <1>4, <1>5 DEF Handling

\* What setHandler's local write does to the writes and to the stores.
SetEffect(q, n, k, v) ==
    /\ store[n].counter \in Nat
    /\ write[q].pc = "idle" /\ write'[q].pc = "stored"
    /\ write'[q].node = n /\ write'[q].key = k /\ write'[q].value = v
    /\ write'[q].version = store[n].counter + 1
    /\ write'[q].before = Answered
    /\ write'[q].list = write[q].list
    /\ \A p \in WriteReqs \ {q} : write'[p] = write[p]
    /\ store'[n].counter = store[n].counter + 1
    /\ Get(store'[n], k) = [value |-> v, version |-> store[n].counter + 1]
    /\ \A j \in Keys \ {k} : Get(store'[n], j) = Get(store[n], j)
    /\ \A o \in Nodes \ {n} : store'[o] = store[o]

LEMMA SetFacts ==
  ASSUME TypeInv, NEW q \in WriteReqs, NEW n \in Nodes, NEW k \in Keys, NEW v \in Values,
         CoordinatorSet(q, n, k, v)
  PROVE  SetEffect(q, n, k, v)
  <1>1. store[n] \in Store /\ write[q] \in WriteRec
    BY DEF TypeInv, TypeOK
  <1>2. store' = [store EXCEPT ![n] = Set(store[n], k, v)] /\ store \in [Nodes -> Store]
    BY DEF CoordinatorSet, TypeInv, TypeOK
  <1>3. /\ store'[n] = Set(store[n], k, v)
        /\ \A o \in Nodes \ {n} : store'[o] = store[o]
    BY <1>2
  <1>4. write'[q] = [write[q] EXCEPT !.pc = "stored", !.node = n, !.key = k, !.value = v,
                                     !.version = store[n].counter + 1, !.before = Answered]
    BY DEF CoordinatorSet, TypeInv, TypeOK
  <1>5. /\ write[q].pc = "idle"
        /\ \A p \in WriteReqs \ {q} : write'[p] = write[p]
    BY DEF CoordinatorSet, TypeInv, TypeOK
  <1>6. /\ write'[q].pc = "stored" /\ write'[q].node = n /\ write'[q].key = k
        /\ write'[q].value = v /\ write'[q].version = store[n].counter + 1
        /\ write'[q].before = Answered /\ write'[q].list = write[q].list
    BY <1>1, <1>4 DEF WriteRec
  <1> QED
    BY <1>1, <1>3, <1>5, <1>6, SetResult DEF Store, SetEffect

\* What a peer's /internal/set does to its store.
InternalSetEffect(m) ==
    /\ m \in Message
    /\ store'[m.to].counter = store[m.to].counter
    /\ Accepts(m) => Holds(store'[m.to], m)
    /\ \A k \in Keys :
          /\ \/ Get(store'[m.to], k) = Get(store[m.to], k)
             \/ /\ LandsOn(m, k)
                /\ Get(store'[m.to], k) =
                      [value |-> Parsed(m).value, version |-> Parsed(m).version]
          /\ Get(store[m.to], k) # Absent =>
                /\ Get(store'[m.to], k) # Absent
                /\ Get(store'[m.to], k).version >= Get(store[m.to], k).version
    /\ \A o \in Nodes \ {m.to} : store'[o] = store[o]

LEMMA InternalSetFacts ==
  ASSUME TypeInv, NEW m \in net, InternalSet(m)
  PROVE  InternalSetEffect(m)
  <1>1. m \in Message /\ store[m.to] \in Store /\ m.to \in Nodes
    BY DEF TypeInv, TypeOK, Message
  <1>2. /\ store'[m.to] = HandleSet(store[m.to], m)
        /\ \A o \in Nodes \ {m.to} : store'[o] = store[o]
    BY <1>1 DEF InternalSet, TypeInv, TypeOK
  <1>3. m.key \in Keys /\ m.value \in Values /\ m.version \in Int
    BY <1>1 DEF Message
  <1> QED
    BY <1>1, <1>2, <1>3, HandleSetResult DEF InternalSetEffect

LEMMA EntryTypes ==
  ASSUME TypeInv, NEW n \in Nodes, NEW k \in Keys
  PROVE  Get(store[n], k) \in KVEntry /\ Version(n, k) \in Int
  BY DEF TypeInv, TypeOK, Store, KVEntry, Get, Version

LEMMA NothingStarted == Init => \A q \in WriteReqs : ~Started(q)
  BY DEF Init, Started

-----------------------------------------------------------------------------
(* Where messages and entries come from.  What is in the network was sent   *)
(* by a handler that still waits for it or that has answered 500; so a      *)
(* write answered 201 has nothing under way any more, and what lands on a   *)
(* coordinator comes from a write it was not preceded by, or from a failed  *)
(* one.                                                                     *)

\* The counter bounds the versions a node has assigned.
CounterOK == \A q \in WriteReqs :
                Started(q) => write[q].version \in 1 .. store[write[q].node].counter

OwnerOK ==
    /\ \A n \in Nodes : n \notin Range(peers[n])
    /\ \A q \in WriteReqs :
          /\ Started(q) => <<write[q].node, write[q].key>> \in MayWrite
          /\ write[q].pc \in {"idle", "stored"} => write[q].list = <<>>
          /\ IsInjective(write[q].list)
          /\ \A j \in 1 .. Len(write[q].list) : write[q].list[j] # write[q].node

OrderOK ==
    \A p, q \in WriteReqs :
        Started(q) =>
            /\ p \in write[q].before =>
                  /\ Started(p) /\ write[p].answer # "none"
                  /\ write[p].node = write[q].node => write[p].version < write[q].version
            /\ Started(p) /\ write[p].node = write[q].node
                  /\ write[p].version = write[q].version => p = q

Sends(w, m) == /\ w.pc # "idle" /\ SameRequest(m, w) /\ m.to # w.node
               /\ w.answer = "error" \/ (w.pc = "waiting" /\ m.to = Target(w))

NetOK == \A m \in net : \E p \in WriteReqs : Sends(write[p], m)

\* What a write's URL carries, and what it set on its coordinator.
Carries(w, e, k) ==
    /\ w.pc # "idle" /\ LandsOn(w, k)
    /\ e = [value |-> Parsed(w).value, version |-> Parsed(w).version]

Sets(w, e, n, k) ==
    /\ w.pc # "idle" /\ w.node = n /\ w.key = k
    /\ e = [value |-> w.value, version |-> w.version]

Origin(w, e, n, k) == Carries(w, e, k) \/ Sets(w, e, n, k)

EntryOK ==
    \A n \in Nodes, k \in Keys :
        \/ Get(store[n], k) = Absent
        \/ \E p \in WriteReqs : Origin(write[p], Get(store[n], k), n, k)

\* CoordinatorReadsOwnWrites for one write, on the records W.
Serves(W, q, e) ==
    \/ Sets(W[q], e, W[q].node, W[q].key)
    \/ \E p \in WriteReqs \ {q} :
          /\ p \notin W[q].before \/ W[p].answer = "error"
          /\ Origin(W[p], e, W[q].node, W[q].key)

OwnOK == \A q \in WriteReqs :
            Started(q) => Serves(write, q, Get(store[write[q].node], write[q].key))

HistoryInv ==
    TypeInv /\ CounterOK /\ OwnerOK /\ OrderOK /\ NetOK /\ EntryOK /\ OwnOK

LEMMA OwnIsProperty == OwnOK <=> CoordinatorReadsOwnWrites
  BY Zenon DEF OwnOK, CoordinatorReadsOwnWrites, Serves, Origin, Carries, Sets, IsFrom, IsSetBy,
               Started

\* The fields of a write, with their types.
LEMMA WriteTypes ==
  ASSUME TypeInv, NEW q \in WriteReqs
  PROVE  /\ write[q] \in WriteRec /\ write[q].node \in Nodes /\ write[q].key \in Keys
         /\ write[q].value \in Values /\ write[q].version \in Nat
         /\ write[q].list \in Seq(Nodes) /\ Len(write[q].list) \in Nat
         /\ write[q].i \in Nat /\ write[q].before \subseteq WriteReqs
         /\ write[q].answer = "error" => write[q].pc = "done"
  BY DEF TypeInv, TypeOK, WriteRec, FreshOK

\* Only what a write is decides what it carries and sets.
LEMMA OriginSame ==
  ASSUME NEW w, NEW x, SameRequest(w, x), w.node = x.node, w.pc = "idle" <=> x.pc = "idle",
         NEW e, NEW n, NEW k
  PROVE  /\ Origin(w, e, n, k) <=> Origin(x, e, n, k)
         /\ Sets(w, e, n, k) <=> Sets(x, e, n, k)
  <1>1. Parsed(w) = Parsed(x) /\ (LandsOn(w, k) <=> LandsOn(x, k))
    BY SameParse
  <1> QED
    BY <1>1 DEF Origin, Carries, Sets, SameRequest

LEMMA PeersOfWrite ==
  ASSUME TypeInv, OwnerOK, NEW p \in WriteReqs, NEW j \in 1 .. Len(write[p].list)
  PROVE  write[p].list[j] \in Nodes \ {write[p].node}
  <1>1. write[p].list \in Seq(Nodes)
    BY WriteTypes
  <1>2. write[p].list[j] \in Nodes
    BY <1>1
  <1> QED
    BY <1>2 DEF OwnerOK

LEMMA EmptyInjective == IsInjective(<<>>)
  BY DEF IsInjective

LEMMA HistoryInit == Init => HistoryInv
  <1> SUFFICES ASSUME Init PROVE HistoryInv
    OBVIOUS
  <1>1. TypeInv /\ \A q \in WriteReqs : ~Started(q)
    BY TypeInit, NothingStarted
  <1>2. \A q \in WriteReqs : write[q].list = <<>>
    BY DEF Init
  <1>3. \A n \in Nodes : n \notin Range(peers[n])
    BY DEF Init
  <1>4. OwnerOK
    BY <1>1, <1>2, <1>3, EmptyInjective DEF OwnerOK
  <1>5. CounterOK /\ OrderOK /\ OwnOK
    BY <1>1 DEF CounterOK, OrderOK, OwnOK
  <1>6. NetOK /\ EntryOK
    BY DEF Init, NetOK, EntryOK, NewStore, Get
  <1> QED
    BY <1>1, <1>4, <1>5, <1>6 DEF HistoryInv

\* The four ways in which a write's handler goes on.
HandlerEffect(q) ==
    LET w == write[q]  x == write'[q] IN
    /\ w.answer = "none"
    /\ \/ /\ w.pc = "stored" /\ x.list = peers[w.node] /\ x.i = w.i /\ net' = net
          /\ \/ x.pc = "sending" /\ x.answer = w.answer
             \/ x.pc = "done" /\ x.list = <<>> /\ x.answer = "created"
       \/ /\ w.pc = "sending" /\ x.pc = "waiting" /\ x.list = w.list /\ x.i = w.i
          /\ x.answer = w.answer /\ net' = net \cup {Replication(w)}
       \/ /\ w.pc = "waiting" /\ Replication(w) \notin net /\ Accepts(w)
          /\ x.list = w.list /\ net' = net
          /\ \/ x.pc = "done" /\ x.i = w.i /\ w.i = Len(w.list) /\ x.answer = "created"
             \/ x.pc = "sending" /\ x.i = w.i + 1 /\ x.answer = w.answer
       \/ /\ w.pc = "waiting" /\ x.pc = "done" /\ x.list = w.list /\ x.i = w.i
          /\ x.answer = "error" /\ net' \subseteq net /\ net \subseteq net' \cup {Replication(w)}

LEMMA HandlerFacts ==
  ASSUME TypeInv, NEW q \in WriteReqs, Handling(q) \/ CallFails(q)
  PROVE  HandlerEffect(q)
  <1>1. write \in [WriteReqs -> WriteRec] /\ write[q] \in WriteRec
    BY DEF TypeInv, TypeOK
  <1>2. write[q].pc \in {"stored", "sending", "waiting"} => write[q].answer = "none"
    BY DEF TypeInv, FreshOK
  <1>3. CASE ReadPeers(q)
    BY <1>1, <1>2, <1>3 DEF ReadPeers, HandlerEffect, WriteRec
  <1>4. CASE SendReplication(q)
    BY <1>1, <1>2, <1>4 DEF SendReplication, HandlerEffect, WriteRec
  <1>5. CASE CallReturns(q)
    <2>1. CASE Accepts(write[q])
      BY <1>1, <1>2, <1>5, <2>1 DEF CallReturns, AfterReturn, HandlerEffect, WriteRec
    <2>2. CASE ~Accepts(write[q])
      BY <1>1, <1>2, <1>5, <2>2 DEF CallReturns, AfterFailure, HandlerEffect, WriteRec
    <2> QED
      BY <2>1, <2>2
  <1>6. CASE CallFails(q)
    BY <1>1, <1>2, <1>6 DEF CallFails, AfterFailure, HandlerEffect, WriteRec
  <1> QED
    BY <1>3, <1>4, <1>5, <1>6 DEF Handling

LEMMA SetHistory ==
  ASSUME HistoryInv, NEW q \in WriteReqs, NEW n \in Nodes, NEW k \in Keys, NEW v \in Values,
         <<n, k>> \in MayWrite, CoordinatorSet(q, n, k, v)
  PROVE  CounterOK' /\ OwnerOK' /\ OrderOK' /\ NetOK' /\ EntryOK' /\ OwnOK'
  <1> USE DEF HistoryInv
  <1>1. SetEffect(q, n, k, v) /\ net' = net /\ peers' = peers
    BY SetFacts DEF CoordinatorSet
  <1>2. \A p \in WriteReqs :
           /\ write[p].node \in Nodes /\ write[p].key \in Keys /\ write[p].version \in Nat
           /\ write[p].list \in Seq(Nodes) /\ Len(write[p].list) \in Nat
    BY WriteTypes
  <1>3. \A p \in WriteReqs :
           Started(p) /\ write[p].node = n => write[p].version < store[n].counter + 1
    BY <1>1, <1>2 DEF CounterOK, SetEffect
  <1>4. CounterOK'
    <2>1. ASSUME NEW p \in WriteReqs, write'[p].pc # "idle"
          PROVE  write'[p].version \in 1 .. store'[write'[p].node].counter
      <3>1. CASE p = q
        BY <1>1, <3>1 DEF SetEffect
      <3>2. CASE p # q
        <4>1. write'[p] = write[p] /\ write[p].version \in 1 .. store[write[p].node].counter
          BY <1>1, <2>1, <3>2 DEF CounterOK, Started, SetEffect
        <4>2. \/ store'[write[p].node] = store[write[p].node]
              \/ /\ write[p].node = n
                 /\ store'[n].counter = store[n].counter + 1 /\ store[n].counter \in Nat
          BY <1>1, <1>2 DEF SetEffect
        <4> QED
          BY <4>1, <4>2
      <3> QED
        BY <3>1, <3>2
    <2> QED
      BY <2>1 DEF CounterOK, Started
  <1>5. OwnerOK'
    <2>1. write[q].list = <<>> /\ Len(<<>>) = 0
      BY <1>1 DEF OwnerOK, SetEffect
    <2>2. \A o \in Nodes : o \notin Range(peers'[o])
      BY <1>1 DEF OwnerOK
    <2>3. ASSUME NEW p \in WriteReqs
          PROVE  /\ write'[p].pc # "idle" => <<write'[p].node, write'[p].key>> \in MayWrite
                 /\ write'[p].pc \in {"idle", "stored"} => write'[p].list = <<>>
                 /\ IsInjective(write'[p].list)
                 /\ \A j \in 1 .. Len(write'[p].list) : write'[p].list[j] # write'[p].node
      <3>1. CASE p = q
        BY <1>1, <2>1, <3>1, EmptyInjective DEF SetEffect
      <3>2. CASE p # q
        <4>1. write'[p] = write[p]
          BY <1>1, <3>2 DEF SetEffect
        <4> QED
          BY <4>1 DEF OwnerOK, Started
      <3> QED
        BY <3>1, <3>2
    <2> QED
      BY <2>2, <2>3 DEF OwnerOK, Started
  <1>6. OrderOK'
    <2>1. \A p \in WriteReqs : p \in Answered => Started(p) /\ write[p].answer # "none"
      BY DEF Answered, Started, TypeInv, FreshOK
    <2>2. ASSUME NEW p \in WriteReqs, NEW r \in WriteReqs, write'[r].pc # "idle"
          PROVE  /\ p \in write'[r].before =>
                       /\ write'[p].pc # "idle" /\ write'[p].answer # "none"
                       /\ write'[p].node = write'[r].node =>
                             write'[p].version < write'[r].version
                 /\ write'[p].pc # "idle" /\ write'[p].node = write'[r].node
                       /\ write'[p].version = write'[r].version => p = r
      <3>1. CASE r = q
        BY <1>1, <1>2, <1>3, <2>1, <3>1 DEF SetEffect, Started
      <3>2. CASE r # q /\ p = q
        BY <1>1, <1>2, <1>3, <2>2, <3>2 DEF OrderOK, SetEffect, Started
      <3>3. CASE r # q /\ p # q
        BY <1>1, <2>2, <3>3 DEF OrderOK, SetEffect, Started
      <3> QED
        BY <3>1, <3>2, <3>3
    <2> QED
      BY <2>2 DEF OrderOK, Started
  <1>7. \A p \in WriteReqs \ {q} : write'[p] = write[p]
    BY <1>1 DEF SetEffect
  <1>8. NetOK'
    <2>1. ASSUME NEW m \in net PROVE \E p \in WriteReqs : Sends(write'[p], m)
      <3>1. PICK p \in WriteReqs : Sends(write[p], m)
        BY DEF NetOK
      <3>2. p # q
        BY <1>1, <3>1 DEF Sends, SetEffect
      <3> QED
        BY <1>7, <3>1, <3>2
    <2> QED
      BY <1>1, <2>1 DEF NetOK
  \* A write that has set an entry is not this one.
  <1>9. \A p \in WriteReqs : \A e, o, j : Origin(write[p], e, o, j) => p # q
    BY <1>1 DEF Origin, Carries, Sets, SetEffect
  <1>10. Sets(write'[q], Get(store'[n], k), n, k)
    BY <1>1 DEF Sets, SetEffect
  <1>11. \A o \in Nodes, j \in Keys : o # n \/ j # k => Get(store'[o], j) = Get(store[o], j)
    BY <1>1 DEF SetEffect
  <1>12. EntryOK'
    <2>1. ASSUME NEW o \in Nodes, NEW j \in Keys
          PROVE  \/ Get(store'[o], j) = Absent
                 \/ \E p \in WriteReqs : Origin(write'[p], Get(store'[o], j), o, j)
      <3>1. CASE o = n /\ j = k
        BY <1>10, <3>1 DEF Origin
      <3>2. CASE o # n \/ j # k
        BY <1>7, <1>9, <1>11, <3>2 DEF EntryOK
      <3> QED
        BY <3>1, <3>2
    <2> QED
      BY <2>1 DEF EntryOK
  <1>13. OwnOK'
    <2>1. ASSUME NEW p \in WriteReqs, write'[p].pc # "idle"
          PROVE  Serves(write', p, Get(store'[write'[p].node], write'[p].key))
      <3>1. CASE p = q
        <4>1. write'[q].node = n /\ write'[q].key = k
          BY <1>1 DEF SetEffect
        <4> QED
          BY <1>10, <3>1, <4>1 DEF Serves
      <3>2. CASE p # q /\ write[p].node = n /\ write[p].key = k
        <4>1. q \notin write[p].before
          BY <1>1, <1>7, <2>1, <3>2 DEF OrderOK, Started, SetEffect
        <4> QED
          BY <1>7, <1>10, <3>2, <4>1 DEF Serves, Origin
      <3>3. CASE p # q /\ ~(write[p].node = n /\ write[p].key = k)
        <4> DEFINE e == Get(store[write[p].node], write[p].key)
        <4>1. write'[p] = write[p] /\ e = Get(store'[write[p].node], write[p].key)
          BY <1>2, <1>7, <1>11, <3>3
        <4>2. Serves(write, p, e)
          BY <2>1, <4>1 DEF OwnOK, Started
        <4> HIDE DEF e
        <4>3. Serves(write', p, e)
          <5>1. CASE Sets(write[p], e, write[p].node, write[p].key)
            BY <4>1, <5>1 DEF Serves
          <5>2. CASE \E r \in WriteReqs \ {p} :
                       /\ r \notin write[p].before \/ write[r].answer = "error"
                       /\ Origin(write[r], e, write[p].node, write[p].key)
            BY <1>7, <1>9, <4>1, <5>2 DEF Serves
          <5> QED
            BY <4>2, <5>1, <5>2 DEF Serves
        <4> QED
          BY <4>1, <4>3
      <3> QED
        BY <3>1, <3>2, <3>3
    <2> QED
      BY <2>1 DEF OwnOK, Started, Serves
  <1> QED
    BY <1>4, <1>5, <1>6, <1>8, <1>12, <1>13

LEMMA HandlerHistory ==
  ASSUME HistoryInv, NEW q \in WriteReqs, Handling(q) \/ CallFails(q)
  PROVE  CounterOK' /\ OwnerOK' /\ OrderOK' /\ NetOK' /\ EntryOK' /\ OwnOK'
  <1> DEFINE w == write[q]
             x == write'[q]
  <1> USE DEF HistoryInv
  <1>1. /\ store' = store /\ peers' = peers
        /\ \A p \in WriteReqs \ {q} : write'[p] = write[p]
        /\ SameWrite(q)
    BY HandlerKeepsWrites
  <1>2. HandlerEffect(q)
    BY HandlerFacts
  <1>3. /\ w \in WriteRec /\ w.node \in Nodes /\ w.key \in Keys /\ w.value \in Values
        /\ w.version \in Nat /\ w.list \in Seq(Nodes) /\ Len(w.list) \in Nat /\ w.i \in Nat
    BY WriteTypes
  <1>4. /\ w.pc # "idle" /\ x.pc \in {"sending", "waiting", "done"} /\ w.answer = "none"
        /\ w.pc # "done"
        /\ x.node = w.node /\ x.key = w.key /\ x.value = w.value /\ x.version = w.version
        /\ x.before = w.before
    BY <1>1, <1>2 DEF HandlerEffect, SameWrite
  <1>5. x.list = peers[w.node] \/ x.list = w.list
    BY <1>2 DEF HandlerEffect
  <1>6. \A p \in WriteReqs : /\ Started(p)' <=> Started(p)
                             /\ write'[p].node = write[p].node
                             /\ write'[p].key = write[p].key
                             /\ write'[p].value = write[p].value
                             /\ write'[p].version = write[p].version
                             /\ write'[p].before = write[p].before
                             /\ write[p].answer # "none" => write'[p].answer # "none"
                             /\ write[p].answer = "error" => write'[p].answer = "error"
    BY <1>1, <1>4 DEF SameWrite, Started
  <1>7. \A p \in WriteReqs : \A e, n, k :
           /\ Origin(write'[p], e, n, k) <=> Origin(write[p], e, n, k)
           /\ Sets(write'[p], e, n, k) <=> Sets(write[p], e, n, k)
    BY <1>6, OriginSame DEF SameRequest, Started
  <1>8. CounterOK' /\ OrderOK'
    BY <1>1, <1>6 DEF CounterOK, OrderOK
  <1>9. OwnerOK'
    <2>1. IsInjective(x.list) /\ \A j \in 1 .. Len(x.list) : x.list[j] # x.node
      <3>1. CASE x.list = w.list
        BY <1>4, <3>1 DEF OwnerOK
      <3>2. CASE x.list = peers[w.node]
        <4>1. peers[w.node] \in PeerLists /\ w.node \notin Range(peers[w.node])
          BY <1>3 DEF OwnerOK, TypeInv, TypeOK
        <4> QED
          BY <1>4, <3>2, <4>1, ListFacts
      <3> QED
        BY <1>5, <3>1, <3>2
    <2>2. <<x.node, x.key>> \in MayWrite
      BY <1>4 DEF OwnerOK, Started
    <2>3. ASSUME NEW p \in WriteReqs \ {q}
          PROVE  write'[p] = write[p]
      BY <1>1
    <2> HIDE DEF w, x
    <2>4. \A n \in Nodes : n \notin Range(peers'[n])
      BY <1>1 DEF OwnerOK
    <2>5. ASSUME NEW p \in WriteReqs
          PROVE  /\ Started(p)' => <<write'[p].node, write'[p].key>> \in MayWrite
                 /\ write'[p].pc \in {"idle", "stored"} => write'[p].list = <<>>
                 /\ IsInjective(write'[p].list)
                 /\ \A j \in 1 .. Len(write'[p].list) : write'[p].list[j] # write'[p].node
      <3>1. CASE p = q
        BY <1>4, <2>1, <2>2, <3>1 DEF x
      <3>2. CASE p # q
        BY <1>6, <2>3, <3>2 DEF OwnerOK
      <3> QED
        BY <3>1, <3>2
    <2> QED
      BY <2>4, <2>5 DEF OwnerOK
  <1>10. NetOK'
    <2>1. ASSUME NEW m \in net, m \in net' PROVE \E p \in WriteReqs : Sends(write'[p], m)
      <3>1. PICK p \in WriteReqs : Sends(write[p], m)
        BY DEF NetOK
      <3>2. CASE p # q
        BY <1>1, <3>1, <3>2
      <3>3. CASE p = q
        <4>1. w.pc = "waiting" /\ m.to = Target(w) /\ SameRequest(m, w) /\ m.to # w.node
          BY <1>4, <3>1, <3>3 DEF Sends
        <4>2. m = Replication(w)
          BY <4>1 DEF Replication, SameRequest, TypeInv, TypeOK, Message
        <4>3. x.answer = "error"
          BY <1>2, <2>1, <4>1, <4>2 DEF HandlerEffect
        <4>4. SameRequest(m, x)
          BY <1>4, <4>1 DEF SameRequest
        <4> QED
          BY <1>4, <3>3, <4>1, <4>3, <4>4 DEF Sends
      <3> QED
        BY <3>2, <3>3
    <2>2. ASSUME NEW m \in net' \ net PROVE Sends(x, m)
      <3>1. m = Replication(w) /\ w.pc = "sending" /\ x.pc = "waiting"
            /\ x.list = w.list /\ x.i = w.i
        BY <1>2, <2>2 DEF HandlerEffect
      <3>2. m.to = Target(x) /\ SameRequest(m, x)
        BY <1>4, <3>1 DEF Replication, Target, SameRequest
      <3>3. w.i \in 1 .. Len(w.list)
        BY <3>1 DEF TypeInv, TypeOK
      <3>4. Target(w) # w.node
        BY <3>3, PeersOfWrite DEF Target
      <3> QED
        BY <1>4, <3>1, <3>2, <3>4 DEF Sends, Target
    <2> QED
      BY <2>1, <2>2 DEF NetOK
  <1>11. EntryOK'
    BY <1>1, <1>7 DEF EntryOK
  <1>12. OwnOK'
    <2>1. ASSUME NEW p \in WriteReqs, Started(p)
          PROVE  Serves(write', p, Get(store[write[p].node], write[p].key))
      <3> DEFINE e == Get(store[write[p].node], write[p].key)
      <3>1. Serves(write, p, e)
        BY <2>1 DEF OwnOK
      <3> HIDE DEF e
      <3>2. CASE Sets(write[p], e, write[p].node, write[p].key)
        BY <1>6, <1>7, <3>2 DEF Serves, e
      <3>3. ASSUME NEW r \in WriteReqs \ {p},
                   r \notin write[p].before \/ write[r].answer = "error",
                   Origin(write[r], e, write[p].node, write[p].key)
            PROVE  Serves(write', p, e)
        BY <1>6, <1>7, <3>3 DEF Serves
      <3> QED
        BY <3>1, <3>2, <3>3 DEF Serves, e
    <2>2. \A p \in WriteReqs : /\ write'[p].node = write[p].node /\ write'[p].key = write[p].key
                               /\ Started(p)' => Started(p)
      BY <1>6
    <2> QED
      BY <1>1, <2>1, <2>2 DEF OwnOK, Serves
  <1> QED
    BY <1>8, <1>9, <1>10, <1>11, <1>12

LEMMA InternalSetHistory ==
  ASSUME HistoryInv, NEW m \in net, InternalSet(m)
  PROVE  CounterOK' /\ OwnerOK' /\ OrderOK' /\ NetOK' /\ EntryOK' /\ OwnOK'
  <1> USE DEF HistoryInv
  <1>1. write' = write /\ peers' = peers /\ net' \subseteq net
    BY DEF InternalSet
  <1>2. InternalSetEffect(m)
    BY InternalSetFacts
  <1>3. \A n \in Nodes : store'[n].counter = store[n].counter
    BY <1>2 DEF InternalSetEffect
  <1>4. CounterOK' /\ OwnerOK' /\ OrderOK' /\ NetOK'
    BY <1>1, <1>3, WriteTypes DEF CounterOK, OwnerOK, OrderOK, NetOK, Started
  <1>5. PICK p \in WriteReqs : Sends(write[p], m)
    BY DEF NetOK
  <1>6. ASSUME NEW n \in Nodes, NEW k \in Keys, Get(store'[n], k) # Get(store[n], k)
        PROVE  n = m.to /\ Carries(write[p], Get(store'[n], k), k)
    <2>1. /\ n = m.to /\ LandsOn(m, k)
          /\ Get(store'[n], k) = [value |-> Parsed(m).value, version |-> Parsed(m).version]
      BY <1>2, <1>6 DEF InternalSetEffect
    <2>2. Parsed(m) = Parsed(write[p]) /\ LandsOn(write[p], k)
      BY <1>5, <2>1, SameParse DEF Sends
    <2> QED
      BY <1>5, <2>1, <2>2 DEF Carries, Sends
  <1>7. EntryOK'
    BY <1>1, <1>6 DEF EntryOK, Origin
  <1>8. OwnOK'
    <2>1. ASSUME NEW q \in WriteReqs, Started(q)
          PROVE  Serves(write, q, Get(store'[write[q].node], write[q].key))
      <3>1. write[q].node \in Nodes /\ write[q].key \in Keys
        BY WriteTypes
      <3>2. CASE Get(store'[write[q].node], write[q].key)
                    = Get(store[write[q].node], write[q].key)
        BY <2>1, <3>2 DEF OwnOK
      <3>3. CASE Get(store'[write[q].node], write[q].key)
                    # Get(store[write[q].node], write[q].key)
        <4>1. /\ write[q].node = m.to
              /\ Carries(write[p], Get(store'[write[q].node], write[q].key), write[q].key)
          BY <1>6, <3>1, <3>3
        <4>2. p # q
          BY <1>5, <4>1 DEF Sends
        <4>3. p \notin write[q].before \/ write[p].answer = "error"
          <5>1. write[p].answer = "error" \/ write[p].pc = "waiting"
            BY <1>5 DEF Sends
          <5>2. write[p].pc = "waiting" => write[p].answer = "none"
            BY DEF TypeInv, FreshOK
          <5> QED
            BY <2>1, <5>1, <5>2 DEF OrderOK
        <4> QED
          BY <4>1, <4>2, <4>3 DEF Serves, Origin
      <3> QED
        BY <3>2, <3>3
    <2> QED
      BY <1>1, <2>1 DEF OwnOK, Started
  <1> QED
    BY <1>4, <1>7, <1>8

LEMMA UnchangedHistory ==
  ASSUME HistoryInv, UNCHANGED <<store, net, write>>, \A n \in Nodes : n \notin Range(peers'[n])
  PROVE  CounterOK' /\ OwnerOK' /\ OrderOK' /\ NetOK' /\ EntryOK' /\ OwnOK'
  <1>1. store' = store /\ net' = net /\ write' = write
    OBVIOUS
  <1>2. CounterOK' /\ OwnerOK' /\ OrderOK'
    BY <1>1 DEF HistoryInv, CounterOK, OwnerOK, OrderOK, Started
  <1>3. NetOK' /\ EntryOK' /\ OwnOK'
    BY <1>1 DEF HistoryInv, NetOK, EntryOK, OwnOK, Started
  <1> QED
    BY <1>2, <1>3

LEMMA PeersStep ==
  ASSUME HistoryInv, NEW n \in Nodes, NEW l \in PeerLists, SetPeers(n, l)
  PROVE  /\ UNCHANGED <<store, net, write>>
         /\ \A o \in Nodes : o \notin Range(peers'[o])
  <1>1. peers \in [Nodes -> PeerLists] /\ peers' = [peers EXCEPT ![n] = l] /\ n \notin Range(l)
    BY DEF SetPeers, HistoryInv, TypeInv, TypeOK
  <1>2. \A o \in Nodes : o \notin Range(peers'[o])
    BY <1>1 DEF HistoryInv, OwnerOK
  <1> QED
    BY <1>2 DEF SetPeers

LEMMA HistoryStep == HistoryInv /\ [Next]_vars => HistoryInv'
  <1> SUFFICES ASSUME HistoryInv, [Next]_vars PROVE HistoryInv'
    OBVIOUS
  <1>1. TypeInv'
    BY TypeStep DEF HistoryInv
  <1> DEFINE Goal == CounterOK' /\ OwnerOK' /\ OrderOK' /\ NetOK' /\ EntryOK' /\ OwnOK'
  <1>2. ASSUME NEW n \in Nodes, NEW l \in PeerLists, SetPeers(n, l) PROVE Goal
    BY <1>2, PeersStep, UnchangedHistory
  <1>3. ASSUME NEW q \in WriteReqs, NEW v \in Values, NEW t \in MayWrite,
               CoordinatorSet(q, t[1], t[2], v)
        PROVE  Goal
    <2>1. t[1] \in Nodes /\ t[2] \in Keys /\ <<t[1], t[2]>> \in MayWrite
      BY PeerAssumption
    <2> QED
      BY <1>3, <2>1, SetHistory
  <1>4. ASSUME NEW q \in WriteReqs, Handling(q) \/ CallFails(q) PROVE Goal
    BY <1>4, HandlerHistory
  <1>5. ASSUME NEW m \in net, InternalSet(m) PROVE Goal
    BY <1>5, InternalSetHistory
  <1>6. ASSUME UNCHANGED vars PROVE Goal
    <2>1. UNCHANGED <<store, net, write>>
      BY <1>6 DEF vars
    <2>2. \A n \in Nodes : n \notin Range(peers'[n])
      BY <1>6 DEF vars, HistoryInv, OwnerOK
    <2> QED
      BY <2>1, <2>2, UnchangedHistory
  <1> HIDE DEF Goal
  <1>7. Goal
    BY <1>2, <1>3, <1>4, <1>5, <1>6 DEF Next
  <1> QED
    BY <1>1, <1>7 DEF HistoryInv, Goal

\* LL2: what replaces a write on its coordinator is a write it was not preceded
\* by or one that answered 500, never one that was answered 201 before it came.
THEOREM CoordinatorServesOwn == Spec => []CoordinatorReadsOwnWrites
  <1>1. Spec => []HistoryInv
    BY HistoryInit, HistoryStep, PTL DEF Spec
  <1>2. HistoryInv => CoordinatorReadsOwnWrites
    BY OwnIsProperty DEF HistoryInv
  <1> QED
    BY <1>1, <1>2, PTL

-----------------------------------------------------------------------------
(* Keys of one coordinator whose writes arrive intact.  All their versions  *)
(* come from one counter, so they order the writes of the key; every entry  *)
(* and every message is a copy of one of these writes; and the loop's index *)
(* separates the peers that have the write from those it was never sent to. *)

Single(q) == Started(q) /\ write[q].key \in SingleKeys

Sound(q) == Single(q) /\ KeyIntact(write[q].key)

Reached(n, q) == Version(n, write[q].key) >= write[q].version

UnderWay(n, q) == \E m \in net : /\ m.to = n /\ m.key = write[q].key
                                 /\ m.version = write[q].version

PrefixOK ==
    \A q \in WriteReqs :
        Sound(q) => \A j \in 1 .. Len(write[q].list) :
                        j < write[q].i \/ write[q].answer = "created" =>
                            Reached(write[q].list[j], q)

CallOK ==
    \A q \in WriteReqs :
        Sound(q) /\ write[q].pc = "waiting" /\ Accepts(write[q]) =>
            Replication(write[q]) \in net \/ Reached(Target(write[q]), q)

Tried(n, w) == \E j \in 1 .. Len(w.list) :
                  w.list[j] = n /\ j <= w.i /\ (w.pc = "sending" => j < w.i)

SentOK ==
    \A q \in WriteReqs :
        Sound(q) =>
            \A n \in Nodes \ {write[q].node} :
                UnderWay(n, q) \/ Version(n, write[q].key) = write[q].version =>
                    Tried(n, write[q])

LoopInv == HistoryInv /\ PrefixOK /\ CallOK /\ SentOK

\* All writes of a key that is written through one node have the same node.
LEMMA OneOwner ==
  ASSUME NEW s \in MayWrite, NEW t \in MayWrite, s[2] \in SingleKeys, s[2] = t[2]
  PROVE  s[1] = t[1]
  BY DEF SingleKeys

LEMMA SameOwner ==
  ASSUME TypeInv, OwnerOK, NEW p \in WriteReqs, NEW q \in WriteReqs,
         Started(p), Single(q), write[p].key = write[q].key
  PROVE  write[p].node = write[q].node
  <1> DEFINE s == <<write[p].node, write[p].key>>
             t == <<write[q].node, write[q].key>>
  <1>1. s \in MayWrite /\ t \in MayWrite
    BY DEF OwnerOK, Single
  <1>2. s[2] \in SingleKeys /\ s[2] = t[2]
    BY DEF Single
  <1> HIDE DEF s, t
  <1>3. s[1] = t[1]
    BY <1>1, <1>2, OneOwner
  <1> QED
    BY <1>3 DEF s, t

\* A version of a single key belongs to one write.
LEMMA OneWrite ==
  ASSUME HistoryInv, NEW p \in WriteReqs, NEW q \in WriteReqs, Single(p), Started(q),
         write[p].key = write[q].key, write[p].version = write[q].version
  PROVE  p = q
  <1>1. write[q].node = write[p].node
    BY SameOwner DEF HistoryInv
  <1> QED
    BY <1>1 DEF HistoryInv, OrderOK, Single

\* What lands on an intact key is what was sent under it.
LEMMA IntactLands ==
  ASSUME TypeInv, NEW p \in WriteReqs, Started(p), NEW k \in Keys, KeyIntact(k)
  PROVE  /\ LandsOn(write[p], k) =>
               write[p].key = k /\ Parsed(write[p]).version = write[p].version
         /\ write[p].key = k /\ Accepts(write[p]) =>
               LandsOn(write[p], k) /\ Parsed(write[p]).version = write[p].version
  <1>1. write[p].key \in Keys /\ write[p].value \in Values /\ write[p].version \in Int
    BY WriteTypes
  <1>2. Accepts(write[p]) /\ Intact(write[p]) =>
           Parsed(write[p]).key = write[p].key /\ Parsed(write[p]).version = write[p].version
    BY <1>1, ParsedResult
  <1>3. LandsOn(write[p], k) => Accepts(write[p]) /\ Parsed(write[p]).key = k
    BY DEF LandsOn
  <1>4. Accepts(write[p]) /\ (write[p].key = k \/ LandsOn(write[p], k)) => Intact(write[p])
    BY DEF KeyIntact
  <1> QED
    BY <1>2, <1>3, <1>4 DEF LandsOn

\* Every entry of an intact key has the version of a write of that key.
LEMMA EntryOfKey ==
  ASSUME HistoryInv, NEW n \in Nodes, NEW k \in Keys, KeyIntact(k), Get(store[n], k) # Absent
  PROVE  \E p \in WriteReqs : /\ Started(p) /\ write[p].key = k
                              /\ Version(n, k) = write[p].version
                              /\ Origin(write[p], Get(store[n], k), n, k)
  <1>1. PICK p \in WriteReqs : Origin(write[p], Get(store[n], k), n, k)
    BY DEF HistoryInv, EntryOK
  <1>2. Started(p)
    BY <1>1 DEF Origin, Carries, Sets, Started
  <1>3. CASE Carries(write[p], Get(store[n], k), k)
    <2>1. write[p].key = k /\ Parsed(write[p]).version = write[p].version
      BY <1>2, <1>3, IntactLands DEF Carries, HistoryInv
    <2> QED
      BY <1>1, <1>2, <1>3, <2>1 DEF Carries, Version
  <1>4. CASE Sets(write[p], Get(store[n], k), n, k)
    BY <1>1, <1>2, <1>4 DEF Sets, Version
  <1> QED
    BY <1>1, <1>3, <1>4 DEF Origin

LEMMA LoopInit == Init => LoopInv
  BY HistoryInit, NothingStarted DEF LoopInv, PrefixOK, CallOK, SentOK, Sound, Single

\* A write that starts makes no key intact.
LEMMA IntactBefore ==
  ASSUME NEW k, KeyIntact(k)',
         \A p \in WriteReqs : Started(p) => Started(p)' /\ SameRequest(write[p], write'[p])
  PROVE  KeyIntact(k)
  <1> SUFFICES ASSUME NEW p \in WriteReqs, Started(p), Accepts(write[p]),
                      write[p].key = k \/ LandsOn(write[p], k)
               PROVE  Intact(write[p])
    BY DEF KeyIntact
  <1>1. Started(p)' /\ SameRequest(write[p], write'[p])
    OBVIOUS
  <1>2. /\ Accepts(write'[p]) /\ (Intact(write[p]) <=> Intact(write'[p]))
        /\ write'[p].key = k \/ LandsOn(write'[p], k)
    BY <1>1, SameParse DEF SameRequest
  <1> QED
    BY <1>1, <1>2 DEF KeyIntact

VersionAfter(n, k) == Get(store'[n], k).version
ReachedAfter(n, q) == VersionAfter(n, write'[q].key) >= write'[q].version

LEMMA SetLoop ==
  ASSUME LoopInv, NEW q \in WriteReqs, NEW n \in Nodes, NEW k \in Keys, NEW v \in Values,
         <<n, k>> \in MayWrite, CoordinatorSet(q, n, k, v)
  PROVE  PrefixOK' /\ CallOK' /\ SentOK'
  <1> USE DEF LoopInv, HistoryInv
  <1>1. SetEffect(q, n, k, v) /\ net' = net
    BY SetFacts DEF CoordinatorSet
  <1>2. \A p \in WriteReqs :
           /\ write[p].node \in Nodes /\ write[p].key \in Keys /\ write[p].version \in Nat
           /\ write[p].list \in Seq(Nodes) /\ Len(write[p].list) \in Nat
    BY WriteTypes
  <1>3. ASSUME NEW p \in WriteReqs, Started(p), write[p].key = k, k \in SingleKeys
        PROVE  write[p].node = n /\ write[p].version < store[n].counter + 1
    <2>1. <<write[p].node, write[p].key>> \in MayWrite
      BY <1>3 DEF OwnerOK
    <2>2. write[p].node = n
      BY <1>3, <2>1 DEF SingleKeys
    <2> QED
      BY <1>1, <1>2, <1>3, <2>2 DEF CounterOK, SetEffect
  <1>4. \A p \in WriteReqs : Started(p) => p # q
    BY <1>1 DEF Started, SetEffect
  <1>5. \A p \in WriteReqs \ {q} : write'[p] = write[p]
    BY <1>1 DEF SetEffect
  <1>6. ASSUME NEW j, KeyIntact(j)' PROVE KeyIntact(j)
    <2>1. \A p \in WriteReqs : Started(p) => Started(p)' /\ SameRequest(write[p], write'[p])
      BY <1>4, <1>5 DEF Started, SameRequest
    <2> QED
      BY <1>6, <2>1, IntactBefore
  <1>7. ASSUME NEW p \in WriteReqs \ {q}, Sound(p)'
        PROVE  Sound(p) /\ write'[p] = write[p]
    BY <1>5, <1>6, <1>7 DEF Sound, Single, Started
  \* A single key's entries on the peers are left alone.
  <1>8. ASSUME NEW p \in WriteReqs \ {q}, Sound(p), NEW o \in Nodes \ {write[p].node}
        PROVE  VersionAfter(o, write[p].key) = Version(o, write[p].key)
    <2>1. o # n \/ write[p].key # k
      BY <1>3, <1>8 DEF Sound, Single
    <2>2. Get(store'[o], write[p].key) = Get(store[o], write[p].key)
      BY <1>1, <1>2, <2>1 DEF SetEffect
    <2> QED
      BY <2>2 DEF Version, VersionAfter
  <1>9. PrefixOK'
    <2>1. write'[q].list = <<>> /\ Len(<<>>) = 0
      BY <1>1 DEF OwnerOK, SetEffect
    <2>2. ASSUME NEW p \in WriteReqs \ {q}, Sound(p)', NEW j \in 1 .. Len(write'[p].list),
                 j < write'[p].i \/ write'[p].answer = "created"
          PROVE  ReachedAfter(write'[p].list[j], p)
      <3>1. Sound(p) /\ write'[p] = write[p]
        BY <1>7, <2>2
      <3>2. write[p].list[j] \in Nodes \ {write[p].node}
        BY <2>2, <3>1, PeersOfWrite
      <3>3. Reached(write[p].list[j], p)
        BY <2>2, <3>1 DEF PrefixOK
      <3> QED
        BY <1>8, <3>1, <3>2, <3>3 DEF Reached, ReachedAfter
    <2> QED
      BY <2>1, <2>2 DEF PrefixOK, Reached, ReachedAfter, Version, VersionAfter
  <1>10. CallOK'
    <2>1. ASSUME NEW p \in WriteReqs, Sound(p)', write'[p].pc = "waiting", Accepts(write'[p])
          PROVE  Replication(write'[p]) \in net' \/ ReachedAfter(Target(write'[p]), p)
      <3>1. p # q
        BY <1>1, <2>1 DEF SetEffect
      <3>2. Sound(p) /\ write'[p] = write[p]
        BY <1>7, <2>1, <3>1
      <3>3. write[p].i \in 1 .. Len(write[p].list)
        BY <2>1, <3>2 DEF TypeInv, TypeOK
      <3>4. Target(write[p]) \in Nodes \ {write[p].node}
        BY <3>3, PeersOfWrite DEF Target
      <3>5. Replication(write[p]) \in net \/ Reached(Target(write[p]), p)
        BY <2>1, <3>2 DEF CallOK
      <3> QED
        BY <1>1, <1>8, <3>1, <3>2, <3>4, <3>5 DEF Reached, ReachedAfter
    <2> QED
      BY <2>1 DEF CallOK, Reached, ReachedAfter, Version, VersionAfter
  <1>11. SentOK'
    \* The new version is on no peer and in no message.
    <2>1. ASSUME Sound(q)', NEW o \in Nodes \ {n}
          PROVE  ~UnderWay(o, q)' /\ VersionAfter(o, k) # store[n].counter + 1
      <3>1. k \in SingleKeys /\ KeyIntact(k)
        BY <1>1, <1>6, <2>1 DEF Sound, Single, SetEffect
      <3>2. ASSUME NEW m \in net, m.key = k PROVE m.version # store[n].counter + 1
        <4>1. PICK p \in WriteReqs : Sends(write[p], m)
          BY DEF NetOK
        <4>2. Started(p) /\ write[p].key = k /\ write[p].version = m.version
          BY <3>2, <4>1 DEF Sends, SameRequest, Started
        <4> QED
          BY <1>1, <1>2, <1>3, <3>1, <4>2 DEF SetEffect
      <3>3. VersionAfter(o, k) = Version(o, k)
        BY <1>1 DEF SetEffect, Version, VersionAfter
      <3>4. ASSUME Get(store[o], k) = Absent
            PROVE  VersionAfter(o, k) # store[n].counter + 1
        BY <1>1, <3>3, <3>4 DEF Version, VersionAfter, Absent, SetEffect
      <3>5. ASSUME Get(store[o], k) # Absent
            PROVE  VersionAfter(o, k) # store[n].counter + 1
        <4>1. PICK p \in WriteReqs : /\ Started(p) /\ write[p].key = k
                                     /\ Version(o, k) = write[p].version
          BY <3>1, <3>5, EntryOfKey
        <4> QED
          BY <1>1, <1>2, <1>3, <3>1, <3>3, <4>1 DEF SetEffect
      <3>6. VersionAfter(o, k) # store[n].counter + 1
        BY <3>4, <3>5
      <3>7. ~UnderWay(o, q)'
        BY <1>1, <3>2 DEF UnderWay, SetEffect
      <3> QED
        BY <3>6, <3>7
    <2>2. ASSUME NEW p \in WriteReqs \ {q}, Sound(p)', NEW o \in Nodes \ {write'[p].node},
                 UnderWay(o, p)' \/ VersionAfter(o, write'[p].key) = write'[p].version
          PROVE  Tried(o, write'[p])
      <3>1. Sound(p) /\ write'[p] = write[p]
        BY <1>7, <2>2
      <3>2. UnderWay(o, p)' => UnderWay(o, p)
        BY <1>1, <3>1 DEF UnderWay
      <3>3. VersionAfter(o, write[p].key) = Version(o, write[p].key)
        BY <1>8, <2>2, <3>1
      <3> QED
        BY <2>2, <3>1, <3>2, <3>3 DEF SentOK
    <2>3. ASSUME NEW p \in WriteReqs, Sound(p)', NEW o \in Nodes \ {write'[p].node},
                 UnderWay(o, p)' \/ VersionAfter(o, write'[p].key) = write'[p].version
          PROVE  Tried(o, write'[p])
      <3>1. CASE p = q
        BY <1>1, <2>1, <2>3, <3>1 DEF SetEffect
      <3>2. CASE p # q
        BY <2>2, <2>3, <3>2
      <3> QED
        BY <3>1, <3>2
    <2> QED
      BY <2>3 DEF SentOK, Version, VersionAfter
  <1> QED
    BY <1>9, <1>10, <1>11

LEMMA HandlerLoop ==
  ASSUME LoopInv, NEW q \in WriteReqs, Handling(q) \/ CallFails(q)
  PROVE  PrefixOK' /\ CallOK' /\ SentOK'
  <1> DEFINE w == write[q]
             x == write'[q]
  <1>1. HistoryInv /\ TypeInv /\ OwnerOK /\ PrefixOK /\ CallOK /\ SentOK
    BY DEF LoopInv, HistoryInv
  <1>2. /\ store' = store
        /\ \A p \in WriteReqs \ {q} : write'[p] = write[p]
        /\ SameWrite(q)
    BY <1>1, HandlerKeepsWrites
  <1>3. HandlerEffect(q)
    BY <1>1, HandlerFacts
  <1>4. /\ w \in WriteRec /\ w.node \in Nodes /\ w.key \in Keys /\ w.value \in Values
        /\ w.version \in Nat /\ w.list \in Seq(Nodes) /\ Len(w.list) \in Nat /\ w.i \in Nat
    BY <1>1, WriteTypes
  <1>5. /\ Started(q) /\ w.answer = "none" /\ x.pc \in {"sending", "waiting", "done"}
        /\ x.node = w.node /\ x.key = w.key /\ x.value = w.value /\ x.version = w.version
    BY <1>2, <1>3 DEF HandlerEffect, SameWrite, Started
  <1>6. net' \subseteq net \cup {Replication(w)} /\ net \subseteq net' \cup {Replication(w)}
    BY <1>3 DEF HandlerEffect
  <1>7. \A p \in WriteReqs : /\ Started(p)' <=> Started(p)
                             /\ SameRequest(write[p], write'[p])
                             /\ write'[p].key = write[p].key /\ write'[p].node = write[p].node
                             /\ write'[p].version = write[p].version
    BY <1>2 DEF SameWrite, Started, SameRequest
  <1>8. ASSUME NEW p \in WriteReqs, Sound(p)' PROVE Sound(p)
    <2>1. PICK k : k = write[p].key
      OBVIOUS
    <2>2. write'[p].key = k
      BY <1>7, <2>1
    <2>3. KeyIntact(k)'
      BY <1>8, <2>2 DEF Sound, KeyIntact
    <2>4. KeyIntact(k)
      BY <1>7, <2>3, IntactBefore
    <2> QED
      BY <1>7, <1>8, <2>1, <2>4 DEF Sound, Single
  <1>9. Replication(w).key = w.key /\ Replication(w).value = w.value
        /\ Replication(w).version = w.version /\ Replication(w).to = Target(w)
    BY DEF Replication
  <1>10. \A n, p : p \in WriteReqs => (ReachedAfter(n, p) <=> Reached(n, p))
    BY <1>2, <1>7 DEF Reached, ReachedAfter, Version, VersionAfter
  <1>11. ASSUME NEW p \in WriteReqs \ {q}, Sound(p)
         PROVE  write[p].key # w.key \/ write[p].version # w.version
    BY <1>1, <1>5, <1>11, OneWrite DEF Sound
  <1>12. PrefixOK'
    <2>1. ASSUME NEW j \in 1 .. Len(x.list), j < x.i \/ x.answer = "created", Sound(q)
          PROVE  Reached(x.list[j], q)
      <3>1. CASE w.pc = "stored"
        <4>1. w.i = 1
          BY <1>1, <3>1 DEF TypeInv, FreshOK
        <4>2. x.i = 1 /\ (x.answer = "created" => x.list = <<>>)
          BY <1>3, <3>1, <4>1 DEF HandlerEffect
        <4> QED
          BY <2>1, <4>2
      <3>2. CASE w.pc = "sending"
        BY <1>1, <1>3, <2>1, <3>2 DEF HandlerEffect, PrefixOK
      <3>3. CASE w.pc = "waiting"
        <4>1. x.list = w.list /\ j \in 1 .. Len(w.list)
          BY <1>3, <2>1, <3>3 DEF HandlerEffect
        <4>2. CASE j < w.i
          BY <1>1, <2>1, <4>1, <4>2 DEF PrefixOK
        <4>3. CASE ~(j < w.i)
          <5>1. j = w.i /\ Replication(w) \notin net /\ Accepts(w)
            BY <1>3, <1>4, <2>1, <3>3, <4>1, <4>3 DEF HandlerEffect
          <5> QED
            BY <1>1, <2>1, <3>3, <4>1, <5>1 DEF CallOK, Target
        <4> QED
          BY <4>2, <4>3
      <3> QED
        BY <1>3, <3>1, <3>2, <3>3 DEF HandlerEffect
    <2> HIDE DEF w, x
    <2>2. ASSUME NEW p \in WriteReqs, Sound(p)', NEW j \in 1 .. Len(write'[p].list),
                 j < write'[p].i \/ write'[p].answer = "created"
          PROVE  ReachedAfter(write'[p].list[j], p)
      <3>1. CASE p = q
        BY <1>8, <1>10, <2>1, <2>2, <3>1 DEF x
      <3>2. CASE p # q
        <4>1. write'[p] = write[p] /\ Sound(p)
          BY <1>2, <1>8, <2>2, <3>2
        <4> QED
          BY <1>1, <1>10, <2>2, <4>1 DEF PrefixOK
      <3> QED
        BY <3>1, <3>2
    <2> QED
      BY <2>2 DEF PrefixOK, Reached, ReachedAfter, Version, VersionAfter
  <1>13. CallOK'
    <2>1. ASSUME NEW p \in WriteReqs, Sound(p)', write'[p].pc = "waiting", Accepts(write'[p])
          PROVE  Replication(write'[p]) \in net' \/ ReachedAfter(Target(write'[p]), p)
      <3>1. CASE p = q
        <4>1. w.pc = "sending" /\ x.list = w.list /\ x.i = w.i
              /\ net' = net \cup {Replication(w)}
          BY <1>3, <2>1, <3>1 DEF HandlerEffect
        <4>2. Replication(x) = Replication(w)
          BY <1>5, <4>1 DEF Replication, Target
        <4> QED
          BY <3>1, <4>1, <4>2
      <3>2. CASE p # q
        <4>1. write'[p] = write[p] /\ Sound(p)
          BY <1>2, <1>8, <2>1, <3>2
        <4>2. Replication(write[p]) # Replication(w)
          BY <1>11, <3>2, <4>1 DEF Replication
        <4>3. Replication(write[p]) \in net \/ Reached(Target(write[p]), p)
          BY <1>1, <2>1, <4>1 DEF CallOK
        <4> QED
          BY <1>6, <1>10, <4>1, <4>2, <4>3
      <3> QED
        BY <3>1, <3>2
    <2> QED
      BY <2>1 DEF CallOK, Reached, ReachedAfter, Version, VersionAfter, Target, Replication
  <1>14. SentOK'
    <2>1. ASSUME NEW p \in WriteReqs \ {q}, Sound(p), NEW n
          PROVE  UnderWay(n, p)' => UnderWay(n, p)
      BY <1>2, <1>6, <1>9, <1>11, <2>1 DEF UnderWay
    <2>2. ASSUME NEW n \in Nodes \ {w.node}, Sound(q),
                 UnderWay(n, q)' \/ Version(n, w.key) = w.version
          PROVE  Tried(n, x)
      <3>1. CASE UnderWay(n, q) \/ Version(n, w.key) = w.version
        <4>1. Tried(n, w)
          BY <1>1, <2>2, <3>1 DEF SentOK
        <4>2. PICK j \in 1 .. Len(w.list) :
                 w.list[j] = n /\ j <= w.i /\ (w.pc = "sending" => j < w.i)
          BY <4>1 DEF Tried
        <4>3. w.pc # "stored"
          <5>1. w.pc = "stored" => w.list = <<>>
            BY <1>1 DEF OwnerOK
          <5>2. w.list = <<>> => 1 .. Len(w.list) = {}
            OBVIOUS
          <5> QED
            BY <4>2, <5>1, <5>2
        <4>4. x.list = w.list /\ j <= x.i /\ (x.pc = "sending" => j < x.i)
          BY <1>3, <1>4, <4>2, <4>3 DEF HandlerEffect
        <4> QED
          BY <4>2, <4>4 DEF Tried
      <3>2. CASE ~(UnderWay(n, q) \/ Version(n, w.key) = w.version)
        <4>1. PICK m \in net' : m.to = n /\ m.key = x.key /\ m.version = x.version
          BY <2>2, <3>2 DEF UnderWay
        <4>2. m \notin net
          BY <1>5, <3>2, <4>1 DEF UnderWay
        <4>3. w.pc = "sending" /\ x.pc = "waiting" /\ x.list = w.list /\ x.i = w.i
          BY <1>3, <4>2 DEF HandlerEffect
        <4>4. m = Replication(w)
          BY <1>6, <4>2
        <4>5. n = w.list[w.i] /\ w.i \in 1 .. Len(w.list)
          BY <1>1, <1>9, <4>1, <4>3, <4>4 DEF Target, TypeInv, TypeOK
        <4> QED
          BY <1>4, <4>3, <4>5 DEF Tried
      <3> QED
        BY <3>1, <3>2
    <2> HIDE DEF w, x
    <2>3. \A n, k : VersionAfter(n, k) = Version(n, k)
      BY <1>2 DEF Version, VersionAfter
    <2>4. ASSUME NEW p \in WriteReqs, Sound(p)', NEW n \in Nodes \ {write'[p].node},
                 UnderWay(n, p)' \/ Version(n, write'[p].key) = write'[p].version
          PROVE  Tried(n, write'[p])
      <3>1. CASE p = q
        BY <1>5, <1>8, <2>2, <2>4, <3>1 DEF w, x
      <3>2. CASE p # q
        <4>1. write'[p] = write[p] /\ Sound(p)
          BY <1>2, <1>8, <2>4, <3>2
        <4> QED
          BY <1>1, <2>1, <2>4, <3>2, <4>1 DEF SentOK
      <3> QED
        BY <3>1, <3>2
    <2> QED
      BY <2>3, <2>4 DEF SentOK, Version, VersionAfter
  <1> QED
    BY <1>12, <1>13, <1>14

LEMMA InternalSetLoop ==
  ASSUME LoopInv, NEW m \in net, InternalSet(m)
  PROVE  PrefixOK' /\ CallOK' /\ SentOK'
  <1>1. HistoryInv /\ TypeInv /\ OwnerOK /\ PrefixOK /\ CallOK /\ SentOK
    BY DEF LoopInv, HistoryInv
  <1>2. write' = write /\ net' = net \ {m}
    BY DEF InternalSet
  <1>3. InternalSetEffect(m)
    BY <1>1, InternalSetFacts
  <1>4. \A p \in WriteReqs : Sound(p)' <=> Sound(p)
    BY <1>2 DEF Sound, Single, KeyIntact, Started
  <1>5. \A p \in WriteReqs : Sound(p) => /\ write[p].key \in Keys /\ write[p].version \in Nat
                                         /\ write[p].version >= 1
    BY <1>1, WriteTypes DEF HistoryInv, CounterOK, Sound, Single, TypeInv, TypeOK, Store
  <1>6. ASSUME NEW p \in WriteReqs, Sound(p), NEW n \in Nodes, Reached(n, p)
        PROVE  ReachedAfter(n, p)
    <2>1. Get(store[n], write[p].key) \in KVEntry
      BY <1>1, <1>5, <1>6, EntryTypes
    <2>2. Get(store[n], write[p].key) # Absent
      BY <1>5, <1>6 DEF Reached, Version, Absent
    <2>3. CASE n = m.to
      <3>1. Get(store'[n], write[p].key).version >= Get(store[n], write[p].key).version
        BY <1>3, <1>5, <1>6, <2>2, <2>3 DEF InternalSetEffect
      <3>2. \/ Get(store'[n], write[p].key) = Get(store[n], write[p].key)
            \/ Get(store'[n], write[p].key).version = Parsed(m).version /\ Accepts(m)
        BY <1>3, <1>5, <1>6, <2>3 DEF InternalSetEffect, LandsOn
      <3>3. Accepts(m) => Parsed(m).version \in Int
        <4>1. m.key \in Keys /\ m.value \in Values /\ m.version \in Int
          BY <1>3 DEF InternalSetEffect, Message
        <4> QED
          BY <4>1, ParsedResult
      <3> QED
        BY <1>2, <1>5, <1>6, <2>1, <3>1, <3>2, <3>3
           DEF Reached, ReachedAfter, Version, VersionAfter, KVEntry
    <2>4. CASE n # m.to
      BY <1>2, <1>3, <1>6, <2>4
         DEF InternalSetEffect, Reached, ReachedAfter, Version, VersionAfter
    <2> QED
      BY <2>3, <2>4
  <1>7. PrefixOK'
    <2>1. ASSUME NEW p \in WriteReqs, Sound(p), NEW j \in 1 .. Len(write[p].list),
                 j < write[p].i \/ write[p].answer = "created"
          PROVE  ReachedAfter(write[p].list[j], p)
      <3>1. write[p].list[j] \in Nodes
        BY <1>1, PeersOfWrite
      <3>2. Reached(write[p].list[j], p)
        BY <1>1, <2>1 DEF PrefixOK
      <3> QED
        BY <1>6, <2>1, <3>1, <3>2
    <2> QED
      BY <1>2, <1>4, <2>1 DEF PrefixOK, Reached, ReachedAfter, Version, VersionAfter
  <1>8. CallOK'
    <2>1. ASSUME NEW p \in WriteReqs, Sound(p), write[p].pc = "waiting", Accepts(write[p])
          PROVE  Replication(write[p]) \in net' \/ ReachedAfter(Target(write[p]), p)
      <3>1. write[p].i \in 1 .. Len(write[p].list)
        BY <1>1, <2>1 DEF TypeInv, TypeOK
      <3>2. Target(write[p]) \in Nodes
        BY <1>1, <3>1, PeersOfWrite DEF Target
      <3>3. CASE Reached(Target(write[p]), p)
        BY <1>6, <2>1, <3>2, <3>3
      <3>4. CASE Replication(write[p]) = m
        <4>1. m.to = Target(write[p]) /\ SameRequest(m, write[p])
          BY <3>4 DEF Replication, SameRequest
        <4>2. Accepts(m) /\ Parsed(m) = Parsed(write[p])
          BY <2>1, <4>1, SameParse
        <4>3. /\ Parsed(write[p]).version = write[p].version
              /\ Parsed(write[p]).key = write[p].key
          BY <1>1, <1>5, <2>1, IntactLands DEF Sound, Single, LandsOn
        <4> QED
          BY <1>2, <1>3, <4>1, <4>2, <4>3
             DEF InternalSetEffect, Holds, ReachedAfter, VersionAfter
      <3> QED
        BY <1>1, <1>2, <2>1, <3>3, <3>4 DEF CallOK
    <2> QED
      BY <1>2, <1>4, <2>1 DEF CallOK, Reached, ReachedAfter, Version, VersionAfter
  <1>9. SentOK'
    <2>1. ASSUME NEW p \in WriteReqs, Sound(p), NEW n \in Nodes \ {write[p].node},
                 UnderWay(n, p)' \/ VersionAfter(n, write[p].key) = write[p].version
          PROVE  Tried(n, write[p])
      <3>1. UnderWay(n, p)' => UnderWay(n, p)
        BY <1>2 DEF UnderWay
      <3>2. CASE Get(store'[n], write[p].key) = Get(store[n], write[p].key)
        <4>1. UnderWay(n, p) \/ Version(n, write[p].key) = write[p].version
          BY <2>1, <3>1, <3>2 DEF Version, VersionAfter
        <4> QED
          BY <1>1, <2>1, <4>1 DEF SentOK
      \* A copy of p that has just landed was under way.
      <3>3. CASE /\ Get(store'[n], write[p].key) # Get(store[n], write[p].key)
                 /\ VersionAfter(n, write[p].key) = write[p].version
        <4>1. /\ n = m.to /\ LandsOn(m, write[p].key)
              /\ Get(store'[n], write[p].key).version = Parsed(m).version
          BY <1>3, <1>5, <2>1, <3>3 DEF InternalSetEffect
        <4>2. PICK r \in WriteReqs : Sends(write[r], m)
          BY <1>1 DEF HistoryInv, NetOK
        <4>3. Started(r) /\ LandsOn(write[r], write[p].key) /\ Parsed(m) = Parsed(write[r])
          BY <4>1, <4>2, SameParse DEF Sends, Started
        <4>4. write[r].key = write[p].key /\ Parsed(m).version = write[r].version
          BY <1>1, <1>5, <2>1, <4>3, IntactLands DEF Sound
        <4>5. m.key = write[p].key /\ m.version = write[p].version
          BY <3>3, <4>1, <4>2, <4>4 DEF Sends, SameRequest, VersionAfter
        <4>6. UnderWay(n, p)
          BY <4>1, <4>5 DEF UnderWay
        <4> QED
          BY <1>1, <2>1, <4>6 DEF SentOK
      <3> QED
        BY <1>1, <2>1, <3>1, <3>2, <3>3 DEF SentOK
    <2> QED
      BY <1>2, <1>4, <2>1 DEF SentOK, Version, VersionAfter
  <1> QED
    BY <1>7, <1>8, <1>9

LEMMA UnchangedLoop ==
  ASSUME LoopInv, UNCHANGED <<store, net, write>>
  PROVE  PrefixOK' /\ CallOK' /\ SentOK'
  <1>1. store' = store /\ net' = net /\ write' = write
    OBVIOUS
  <1>2. PrefixOK' /\ CallOK'
    BY <1>1 DEF LoopInv, PrefixOK, CallOK, Sound, Single, KeyIntact, Started, Reached, Version
  <1>3. SentOK'
    BY <1>1 DEF LoopInv, SentOK, Sound, Single, KeyIntact, Started, UnderWay, Version
  <1> QED
    BY <1>2, <1>3

LEMMA LoopStep == LoopInv /\ [Next]_vars => LoopInv'
  <1> SUFFICES ASSUME LoopInv, [Next]_vars PROVE LoopInv'
    OBVIOUS
  <1>1. HistoryInv /\ HistoryInv'
    BY HistoryStep DEF LoopInv
  <1> DEFINE Goal == PrefixOK' /\ CallOK' /\ SentOK'
  <1>2. ASSUME NEW n \in Nodes, NEW l \in PeerLists, SetPeers(n, l) PROVE Goal
    BY <1>2, UnchangedLoop DEF SetPeers
  <1>3. ASSUME NEW q \in WriteReqs, NEW v \in Values, NEW t \in MayWrite,
               CoordinatorSet(q, t[1], t[2], v)
        PROVE  Goal
    <2>1. t[1] \in Nodes /\ t[2] \in Keys /\ <<t[1], t[2]>> \in MayWrite
      BY PeerAssumption
    <2> QED
      BY <1>3, <2>1, SetLoop
  <1>4. ASSUME NEW q \in WriteReqs, Handling(q) \/ CallFails(q) PROVE Goal
    BY <1>4, HandlerLoop
  <1>5. ASSUME NEW m \in net, InternalSet(m) PROVE Goal
    BY <1>5, InternalSetLoop
  <1>6. ASSUME UNCHANGED vars PROVE Goal
    BY <1>6, UnchangedLoop DEF vars
  <1> HIDE DEF Goal
  <1>7. Goal
    BY <1>2, <1>3, <1>4, <1>5, <1>6 DEF Next
  <1> QED
    BY <1>1, <1>7 DEF LoopInv, Goal

LEMMA LoopInvariant == Spec => []LoopInv
  BY LoopInit, LoopStep, PTL DEF Spec

\* LL3 where it holds: for a key written through one node only, and whose writes
\* all arrive intact, a 201 means that no peer of the write's list serves anything
\* older, as far as the URL carries the value.
THEOREM AckedEverywhereHolds == Spec => []AckedEverywhere
  <1>1. LoopInv => AckedEverywhere
    <2> SUFFICES ASSUME LoopInv, NEW q \in WriteReqs, write[q].answer = "created",
                        write[q].key \in SingleKeys, KeyIntact(write[q].key),
                        NEW n \in Range(write[q].list)
                 PROVE  \E p \in WriteReqs :
                           /\ p = q \/ p \notin write[q].before
                           /\ IsFrom(Get(store[n], write[q].key), p, write[q].key)
      BY DEF AckedEverywhere, AckedOn
    <2> DEFINE k == write[q].key
               e == Get(store[n], k)
    <2>1. HistoryInv /\ TypeInv /\ CounterOK /\ OwnerOK /\ OrderOK /\ PrefixOK
      BY DEF LoopInv, HistoryInv
    <2>2. Sound(q) /\ Single(q)
      BY <2>1 DEF Sound, Single, Started, TypeInv, FreshOK
    <2>3. PICK j \in 1 .. Len(write[q].list) : n = write[q].list[j]
      BY <2>1, WriteTypes DEF Range
    <2>4. n \in Nodes \ {write[q].node} /\ Reached(n, q)
      BY <2>1, <2>2, <2>3, PeersOfWrite DEF PrefixOK
    <2>5. k \in Keys /\ write[q].node \in Nodes /\ write[q].version \in Nat
      BY <2>1, WriteTypes
    <2>6. write[q].version >= 1
      BY <2>1, <2>2, <2>5 DEF CounterOK, Single, TypeInv, TypeOK, Store
    <2>7. e \in KVEntry /\ e.version >= write[q].version
      BY <2>1, <2>4, <2>5, EntryTypes DEF Reached, Version
    <2>8. e # Absent
      BY <2>5, <2>6, <2>7 DEF Absent
    <2>9. PICK p \in WriteReqs : /\ Started(p) /\ write[p].key = k
                                 /\ Version(n, k) = write[p].version
                                 /\ Origin(write[p], e, n, k)
      BY <2>1, <2>2, <2>4, <2>5, <2>8, EntryOfKey DEF Sound
    <2>10. write[p].node = write[q].node
      BY <2>1, <2>2, <2>9, SameOwner
    <2>11. Carries(write[p], e, k)
      BY <2>4, <2>9, <2>10 DEF Origin, Sets
    <2>12. p \notin write[q].before
      BY <2>1, <2>2, <2>5, <2>7, <2>9, <2>10 DEF OrderOK, Single, Version, KVEntry
    <2> QED
      BY <2>9, <2>11, <2>12 DEF Carries, IsFrom
  <1> QED
    BY <1>1, LoopInvariant, PTL

\* A 500 leaves a write of such a key on the peers before the one whose call
\* failed, and on none after it.
THEOREM ErrorLeavesPrefixHolds == Spec => []ErrorLeavesPrefix
  <1>1. LoopInv => ErrorLeavesPrefix
    <2> SUFFICES ASSUME LoopInv, NEW q \in WriteReqs, write[q].answer = "error",
                        write[q].key \in SingleKeys, KeyIntact(write[q].key)
                 PROVE  /\ \A j \in 1 .. (write[q].i - 1) :
                              Version(write[q].list[j], write[q].key) >= write[q].version
                        /\ \A j \in (write[q].i + 1) .. Len(write[q].list) :
                              /\ [Replication(write[q]) EXCEPT !.to = write[q].list[j]] \notin net
                              /\ Version(write[q].list[j], write[q].key) # write[q].version
      BY DEF ErrorLeavesPrefix
    <2>1. HistoryInv /\ TypeInv /\ OwnerOK /\ PrefixOK /\ SentOK
      BY DEF LoopInv, HistoryInv
    <2>2. Sound(q) /\ write[q].i \in 1 .. Len(write[q].list)
      BY <2>1 DEF Sound, Single, Started, TypeInv, FreshOK
    <2>3. write[q].list \in Seq(Nodes) /\ Len(write[q].list) \in Nat /\ write[q].i \in Nat
      BY <2>1, WriteTypes
    <2>4. ASSUME NEW j \in 1 .. (write[q].i - 1)
          PROVE  Version(write[q].list[j], write[q].key) >= write[q].version
      BY <2>1, <2>2, <2>3 DEF PrefixOK, Reached
    <2>5. ASSUME NEW j \in (write[q].i + 1) .. Len(write[q].list)
          PROVE  /\ [Replication(write[q]) EXCEPT !.to = write[q].list[j]] \notin net
                 /\ Version(write[q].list[j], write[q].key) # write[q].version
      <3>1. j \in 1 .. Len(write[q].list) /\ write[q].list[j] \in Nodes \ {write[q].node}
        BY <2>1, <2>3, PeersOfWrite
      <3>2. ~Tried(write[q].list[j], write[q])
        <4>1. IsInjective(write[q].list)
          BY <2>1 DEF OwnerOK
        <4> QED
          BY <2>3, <2>5, <3>1, <4>1, InjectiveList DEF Tried
      <3>3. ~UnderWay(write[q].list[j], q)
            /\ Version(write[q].list[j], write[q].key) # write[q].version
        BY <2>1, <2>2, <3>1, <3>2 DEF SentOK
      <3> QED
        BY <3>3 DEF UnderWay, Replication
    <2> QED
      BY <2>4, <2>5
  <1> QED
    BY <1>1, LoopInvariant, PTL

\* An entry is replaced by an older one only where a node coordinates a write of
\* the key itself, and never for a key of one coordinator with intact writes.
THEOREM OnlyOwnSetHolds == Spec => OnlyOwnSetGoesBackward
  <1> DEFINE Back == \A n \in Nodes, k \in Keys :
                        Get(store[n], k) # Absent /\ Version(n, k) > Get(store'[n], k).version =>
                            /\ k \notin SingleKeys \/ ~KeyIntact(k)
                            /\ store'[n].counter > store[n].counter
  <1>1. ASSUME HistoryInv, Next PROVE Back
    <2>1. TypeInv /\ OwnerOK /\ CounterOK
      BY <1>1 DEF HistoryInv
    <2>2. ASSUME NEW q \in WriteReqs, NEW v \in Values, NEW t \in MayWrite,
                 CoordinatorSet(q, t[1], t[2], v), NEW n \in Nodes, NEW k \in Keys,
                 Get(store[n], k) # Absent, Version(n, k) > Get(store'[n], k).version
          PROVE  /\ k \notin SingleKeys \/ ~KeyIntact(k)
                 /\ store'[n].counter > store[n].counter
      <3>1. t[1] \in Nodes /\ t[2] \in Keys /\ <<t[1], t[2]>> \in MayWrite
        BY PeerAssumption
      <3>2. SetEffect(q, t[1], t[2], v)
        BY <2>1, <2>2, <3>1, SetFacts
      <3>3. Get(store[n], k) \in KVEntry /\ Version(n, k) = Get(store[n], k).version
        BY <2>1, EntryTypes DEF Version
      <3>4. n = t[1] /\ k = t[2]
        BY <2>2, <3>1, <3>2, <3>3 DEF SetEffect, KVEntry
      <3>5. /\ store'[n].counter = store[n].counter + 1 /\ store[n].counter \in Nat
            /\ Get(store'[n], k).version = store[n].counter + 1
        BY <3>2, <3>4 DEF SetEffect
      <3>6. ASSUME k \in SingleKeys, KeyIntact(k) PROVE FALSE
        <4>1. PICK p \in WriteReqs : /\ Started(p) /\ write[p].key = k
                                     /\ Version(n, k) = write[p].version
          BY <1>1, <2>2, <3>6, EntryOfKey
        <4>2. <<write[p].node, write[p].key>> \in MayWrite
          BY <2>1, <4>1 DEF OwnerOK
        <4>3. write[p].node = n
          BY <3>1, <3>4, <3>6, <4>1, <4>2 DEF SingleKeys
        <4>4. write[p].version <= store[n].counter
          BY <2>1, <3>5, <4>1, <4>3 DEF CounterOK
        <4> QED
          BY <2>1, <2>2, <3>3, <3>5, <4>1, <4>4, WriteTypes
      <3> QED
        BY <3>5, <3>6
    <2>3. ASSUME NEW m \in net, InternalSet(m), NEW n \in Nodes, NEW k \in Keys,
                 Get(store[n], k) # Absent
          PROVE  ~(Version(n, k) > Get(store'[n], k).version)
      <3>1. InternalSetEffect(m)
        BY <2>1, <2>3, InternalSetFacts
      <3>2. Get(store[n], k).version \in Int
        BY <2>1, EntryTypes DEF Version
      <3>3. Get(store'[n], k).version \in Int
        BY <1>1, <2>1, TypeStep DEF TypeInv, TypeOK, Store, KVEntry, Get
      <3>4. \/ Get(store'[n], k) = Get(store[n], k)
            \/ Get(store'[n], k).version >= Get(store[n], k).version
        BY <2>3, <3>1 DEF InternalSetEffect
      <3> QED
        BY <3>2, <3>3, <3>4 DEF Version
    <2>4. ASSUME store' = store, NEW n \in Nodes, NEW k \in Keys
          PROVE  ~(Version(n, k) > Get(store'[n], k).version)
      <3>1. Version(n, k) \in Int
        BY <2>1, EntryTypes
      <3> QED
        BY <2>4, <3>1 DEF Version
    <2>5. \A q \in WriteReqs : Handling(q) \/ CallFails(q) => store' = store
      BY <2>1, HandlerKeepsWrites
    <2>6. \A n \in Nodes, l \in PeerLists : SetPeers(n, l) => store' = store
      BY DEF SetPeers
    <2> QED
      BY <1>1, <2>2, <2>3, <2>4, <2>5, <2>6 DEF Next
  <1>2. ASSUME HistoryInv, UNCHANGED vars PROVE Back
    <2>1. \A n \in Nodes, k \in Keys : Version(n, k) \in Int
      BY <1>2, EntryTypes DEF HistoryInv
    <2> QED
      BY <1>2, <2>1 DEF vars, Version
  <1>3. HistoryInv /\ [Next]_vars => [Back]_vars
    BY <1>1, <1>2
  <1>4. [][Back]_vars => OnlyOwnSetGoesBackward
    BY DEF OnlyOwnSetGoesBackward
  <1>5. Spec => []HistoryInv
    BY HistoryInit, HistoryStep, PTL DEF Spec
  <1> HIDE DEF Back
  <1> QED
    BY <1>3, <1>4, <1>5, PTL DEF Spec
===========================================================================
