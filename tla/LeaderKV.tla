------------------------------ MODULE LeaderKV ------------------------------
(***************************************************************************)
(* The leader/follower key-value store of HW10/leader/main.go over the     *)
(* stores of HW10/common.  Each client request is one handler goroutine of *)
(* the leader; a w1r5 write, and the tail of a w3r3 write, keep running in *)
(* a background goroutine after the answer.  A replication is an HTTP POST *)
(* with no timeout: it returns 200 after the follower applied it, or it    *)
(* fails, and a failed one may have been lost, may have been applied, or   *)
(* may still be applied later (the follower sleeps before it writes).      *)
(***************************************************************************)
EXTENDS KVStore, Sequences, FiniteSets, Functions

CONSTANTS Leader, Followers,
          WriteReqs, ReadReqs,   \* identities of the clients' requests
          FollowerLists,         \* lists POST /config/followers may install
          Strategies,            \* strings POST /config/strategy may install
          MaxFailures,           \* bound: failed follower calls
          MaxReconfigs,          \* bound: runtime configuration changes
          DirectWriters,         \* followers whose own /set a client calls
          MaxDirect              \* bound: such calls per follower

Nodes == Followers \cup {Leader}
Safe == Followers \ DirectWriters

ASSUME NodeAssumption == Leader \notin Followers /\ DirectWriters \subseteq Followers
ASSUME FiniteAssumption == IsFiniteSet(Followers)
ASSUME ListAssumption ==
    FollowerLists \subseteq {l \in Seq(Followers) : IsInjective(l)}
ASSUME BoundAssumption ==
    MaxFailures \in Nat /\ MaxReconfigs \in Nat /\ MaxDirect \in Nat

VARIABLES store,       \* each node's Store
          followers,   \* config.followers of the leader
          strategy,    \* config.strategy of the leader
          net,         \* replications sent and not yet applied or lost
          write,       \* each write request and its goroutine
          read,        \* each read request and its goroutine
          failures, reconfigs

vars == <<store, followers, strategy, net, write, read, failures, reconfigs>>

Message == [to : Followers, key : Keys, value : Values, version : Nat]

\* i indexes followers as the loop does; acked holds the followers counted in
\* acks.  missed (those a replication never reached) is a history variable.
WriteRec == [pc : {"idle", "stored", "listed", "sending", "waiting", "done"},
             answer : {"none", "created", "error"}, key : Keys,
             value : Values, version : Nat, strategy : Strategies,
             list : FollowerLists, i : Nat, need : Nat,
             acked : SUBSET Followers, missed : SUBSET Followers]

\* fetched is the channel's content; since is a history variable, the leader's
\* version of the key when the request arrived.
ReadRec == [pc : {"idle", "listed", "routed", "collecting", "done"},
            key : Keys, strategy : Strategies, list : FollowerLists,
            asked : SUBSET Followers,
            fetched : SUBSET [from : Followers, entry : KVEntry],
            received : Nat, best : KVEntry, since : Int]

IdleWrite == [pc |-> "idle", answer |-> "none",
              key |-> CHOOSE k \in Keys : TRUE, value |-> CHOOSE v \in Values : TRUE,
              version |-> 0, strategy |-> strategy, list |-> followers, i |-> 1,
              need |-> 0, acked |-> {}, missed |-> {}]
IdleRead == [pc |-> "idle", key |-> CHOOSE k \in Keys : TRUE, strategy |-> strategy,
             list |-> followers, asked |-> {}, fetched |-> {}, received |-> 0,
             best |-> Absent, since |-> 0]

Init == /\ store = [n \in Nodes |-> NewStore]
        /\ followers \in FollowerLists
        /\ strategy \in Strategies
        /\ net = {}
        /\ write = [q \in WriteReqs |-> IdleWrite]
        /\ read = [q \in ReadReqs |-> IdleRead]
        /\ failures = 0
        /\ reconfigs = 0
-----------------------------------------------------------------------------
(* Runtime configuration. *)

SetFollowers(l) ==
    /\ reconfigs < MaxReconfigs
    /\ followers' = l
    /\ reconfigs' = reconfigs + 1
    /\ UNCHANGED <<store, strategy, net, write, read, failures>>

SetStrategy(s) ==
    /\ reconfigs < MaxReconfigs
    /\ strategy' = s
    /\ reconfigs' = reconfigs + 1
    /\ UNCHANGED <<store, followers, net, write, read, failures>>

\* A follower's own /set: its own counter, no version comparison.
FollowerSet(f, k, v) ==
    /\ store[f].counter < MaxDirect
    /\ store' = [store EXCEPT ![f] = Set(@, k, v)]
    /\ UNCHANGED <<followers, strategy, net, write, read, failures, reconfigs>>
-----------------------------------------------------------------------------
(* leaderSetHandler and replicateSequential. *)

LeaderSet(q, k, v) ==
    /\ write[q].pc = "idle"
    /\ store' = [store EXCEPT ![Leader] = Set(@, k, v)]
    /\ write' = [write EXCEPT ![q] = [@ EXCEPT !.pc = "stored", !.key = k, !.value = v,
                                               !.version = store[Leader].counter + 1]]
    /\ UNCHANGED <<followers, strategy, net, read, failures, reconfigs>>

ReadFollowers(q) ==
    /\ write[q].pc = "stored"
    /\ write' = [write EXCEPT ![q] = [@ EXCEPT !.pc = "listed", !.list = followers]]
    /\ UNCHANGED <<store, followers, strategy, net, read, failures, reconfigs>>

\* Faulty variant: one node too few, as if the leader were in the list.
NeedOneLess(s, list) == IF s = "w3r3" THEN 2 ELSE Len(list) - 1

\* Acks a write waits for, responses a read waits for.
Need(s, list) == IF s = "w3r3" THEN 2 ELSE Len(list)

\* Faulty variants: one ack too many is asked for; failed calls count.
EnoughStrict(w) == Cardinality(w.acked) > w.need
EnoughAnyReply(w) == w.i >= w.need

\* acks >= minAcks
Enough(w) == Cardinality(w.acked) >= w.need

\* How the handler answers after the call to list[i], when it has not yet: with
\* enough acks below the list's length at once, otherwise after the last call.
AnswerAfterCall(w) ==
    CASE w.answer # "none" -> w.answer
      [] w.answer = "none" /\ Enough(w) /\ (w.need < Len(w.list) \/ w.i = Len(w.list))
           -> "created"
      [] w.answer = "none" /\ ~Enough(w) /\ w.i = Len(w.list) -> "error"
      [] OTHER -> "none"

\* Faulty variant: the remaining followers are forgotten after the answer.
AfterCallDropsRest(w) ==
    [w EXCEPT !.i = @ + 1, !.answer = AnswerAfterCall(w),
              !.pc = IF w.i = Len(w.list) \/ AnswerAfterCall(w) # w.answer
                     THEN "done" ELSE "sending"]

\* The end of one iteration of the loop over list[i].  What is left of the list
\* after the answer is the background goroutine's.
AfterCall(w) ==
    [w EXCEPT !.i = @ + 1, !.answer = AnswerAfterCall(w),
              !.pc = IF w.i = Len(w.list) THEN "done" ELSE "sending"]

\* The switch on the strategy.  A w1r5 write is answered and replicated in the
\* background; an unknown strategy replicates nothing and answers 201; with an
\* empty list the loop ends at once, 2 acks short for w3r3.
Dispatch(w, s) ==
    LET loop == s \in {"w5r1", "w1r5", "w3r3"} /\ w.list # <<>>
    IN  [w EXCEPT !.strategy = s, !.need = Need(s, w.list), !.i = 1,
                  !.pc = IF loop THEN "sending" ELSE "done",
                  !.answer = IF loop /\ s # "w1r5" THEN "none"
                             ELSE IF s = "w3r3" THEN "error" ELSE "created"]

ReadStrategy(q) ==
    /\ write[q].pc = "listed"
    /\ write' = [write EXCEPT ![q] = Dispatch(@, strategy)]
    /\ UNCHANGED <<store, followers, strategy, net, read, failures, reconfigs>>

Target(w) == w.list[w.i]

\* Faulty variant: the version is read again when the request is built.
ReplicationLatest(w) == [to |-> Target(w), key |-> w.key, value |-> w.value,
                         version |-> Get(store[Leader], w.key).version]

Replication(w) == [to |-> Target(w), key |-> w.key, value |-> w.value,
                   version |-> w.version]

SendReplication(q) ==
    /\ write[q].pc = "sending"
    /\ net' = net \cup {Replication(write[q])}
    /\ write' = [write EXCEPT ![q].pc = "waiting"]
    /\ UNCHANGED <<store, followers, strategy, read, failures, reconfigs>>

\* The follower's /internal/set, after its sleep; a refusal needs none.
InternalSet(m) ==
    /\ store' = [store EXCEPT ![m.to] = HandleSet(@, m)]
    /\ net' = net \ {m}
    /\ UNCHANGED <<followers, strategy, write, read, failures, reconfigs>>

\* acks counts the answers 200 and no others.
Responded(w) == IF Accepts(w) THEN [w EXCEPT !.acked = @ \cup {Target(w)}] ELSE w

\* The POST returns: the follower has applied it, or answered 400.
CallReturns(q) ==
    /\ write[q].pc = "waiting"
    /\ Replication(write[q]) \notin net
    /\ write' = [write EXCEPT ![q] = AfterCall(Responded(@))]
    /\ UNCHANGED <<store, followers, strategy, net, read, failures, reconfigs>>

\* The POST fails, before or after the follower applied it; a replication that
\* is still on its way is lost or will be applied later.
CallFails(q) ==
    LET w == write[q]  m == Replication(w) IN
    /\ w.pc = "waiting"
    /\ failures < MaxFailures
    /\ failures' = failures + 1
    /\ \/ /\ net' = net
          /\ write' = [write EXCEPT ![q] = AfterCall(w)]
       \/ /\ m \in net
          /\ net' = net \ {m}
          /\ write' = [write EXCEPT ![q] =
                          AfterCall([w EXCEPT !.missed = w.missed \cup {Target(w)}])]
    /\ UNCHANGED <<store, followers, strategy, read, reconfigs>>
-----------------------------------------------------------------------------
(* leaderGetHandler and readFromNodes. *)

LeaderGet(q, k) ==
    /\ read[q].pc = "idle"
    /\ read' = [read EXCEPT ![q] = [@ EXCEPT !.pc = "listed", !.key = k, !.list = followers,
                                             !.since = Get(store[Leader], k).version]]
    /\ UNCHANGED <<store, followers, strategy, net, write, failures, reconfigs>>

\* An unknown strategy answers 200 with an empty body.
RouteRead(q) ==
    /\ read[q].pc = "listed"
    /\ read' = [read EXCEPT ![q] =
                  [@ EXCEPT !.strategy = strategy,
                            !.pc = IF strategy \in {"w5r1", "w1r5", "w3r3"}
                                   THEN "routed" ELSE "done"]]
    /\ UNCHANGED <<store, followers, strategy, net, write, failures, reconfigs>>

\* The local entry: the answer of w5r1, the first candidate of the others,
\* which then start one goroutine per follower.
ReadLocal(q) ==
    /\ read[q].pc = "routed"
    /\ LET r == read[q]
           seen == [r EXCEPT !.best = Get(store[Leader], r.key)]
       IN  read' = [read EXCEPT ![q] =
                      IF r.strategy = "w5r1" \/ r.list = <<>>
                      THEN [seen EXCEPT !.pc = "done"]
                      ELSE [seen EXCEPT !.pc = "collecting", !.asked = Range(r.list)]]
    /\ UNCHANGED <<store, followers, strategy, net, write, failures, reconfigs>>

\* One fetch goroutine puts its result on the channel.
Fetched(q, f, e) ==
    /\ read[q].pc = "collecting"
    /\ f \in read[q].asked
    /\ read' = [read EXCEPT
                  ![q].asked = @ \ {f},
                  ![q].fetched = @ \cup {[from |-> f, entry |-> e]}]
    /\ UNCHANGED <<store, followers, strategy, net, write, reconfigs>>

\* The follower's entry, or an answer without one.
FetchReturns(q, f) == Fetched(q, f, HandleGet(store[f], read[q].key)) /\ failures' = failures

\* The GET fails, which counts as a response without an entry.
FetchFails(q, f) ==
    /\ failures < MaxFailures
    /\ Fetched(q, f, Absent)
    /\ failures' = failures + 1

\* Faulty variant: the last response with an entry wins.
BetterLast(e, best) == IF e # Absent THEN e ELSE best

\* The newer of a response and the best entry so far; a failed, 400 or 404
\* response never wins.
Better(e, best) ==
    IF e # Absent /\ (best = Absent \/ e.version > best.version) THEN e ELSE best

\* Faulty variant: only responses that carry an entry are counted.
EnoughResponsesFound(r) ==
    r.best # Absent /\ r.received >= Need(r.strategy, r.list)

\* received >= minFollowerResponses, or every follower has answered.
EnoughResponses(r) ==
    r.received >= Need(r.strategy, r.list) \/ r.received = Len(r.list)

Received(r, x) == [r EXCEPT !.fetched = @ \ {x}, !.received = @ + 1,
                            !.best = Better(x.entry, @)]

\* The collecting loop takes one result from the channel; what the other
\* goroutines send after the answer is never received.
Receive(q) ==
    /\ read[q].pc = "collecting"
    /\ \E x \in read[q].fetched :
         LET r == Received(read[q], x)
         IN  read' = [read EXCEPT ![q] =
                        IF EnoughResponses(r)
                        THEN [r EXCEPT !.pc = "done", !.asked = {}, !.fetched = {}]
                        ELSE r]
    /\ UNCHANGED <<store, followers, strategy, net, write, failures, reconfigs>>
-----------------------------------------------------------------------------
Writing(q) == ReadFollowers(q) \/ ReadStrategy(q) \/ SendReplication(q) \/ CallReturns(q)
Reading(q) == RouteRead(q) \/ ReadLocal(q) \/ Receive(q)

Next == \/ \E l \in FollowerLists : SetFollowers(l)
        \/ \E s \in Strategies : SetStrategy(s)
        \/ \E f \in DirectWriters, k \in Keys, v \in Values : FollowerSet(f, k, v)
        \/ \E q \in WriteReqs, k \in Keys, v \in Values : LeaderSet(q, k, v)
        \/ \E q \in WriteReqs : Writing(q) \/ CallFails(q)
        \/ \E m \in net : InternalSet(m)
        \/ \E q \in ReadReqs, k \in Keys : LeaderGet(q, k)
        \/ \E q \in ReadReqs : Reading(q)
        \/ \E q \in ReadReqs, f \in Followers : FetchReturns(q, f) \/ FetchFails(q, f)

Spec == Init /\ [][Next]_vars

\* The goroutines of a handler and the followers keep running; clients, failing
\* calls and the operator need not act.
Fairness == /\ \A q \in WriteReqs : WF_vars(Writing(q))
            /\ \A q \in ReadReqs :
                 /\ WF_vars(Reading(q))
                 /\ \A f \in Followers : WF_vars(FetchReturns(q, f))
            /\ WF_vars(\E m \in net : InternalSet(m))

FairSpec == Spec /\ Fairness
-----------------------------------------------------------------------------
TypeOK == /\ store \in [Nodes -> Store]
          /\ followers \in FollowerLists
          /\ strategy \in Strategies
          /\ net \in SUBSET Message
          /\ write \in [WriteReqs -> WriteRec]
          /\ read \in [ReadReqs -> ReadRec]
          /\ failures \in 0 .. MaxFailures
          /\ reconfigs \in 0 .. MaxReconfigs
-----------------------------------------------------------------------------
(* Safety. *)

Version(n, k) == Get(store[n], k).version
Started(q) == write[q].pc # "idle"

\* No write that lands on the key has been given another key or version by its
\* URL.
KeyIntact(k) ==
    \A q \in WriteReqs : Started(q) /\ LandsOn(write[q], k) => Intact(write[q])

\* Every entry of the leader is one of the writes it numbered.  Every entry of a
\* follower is what one such write's replication URL carries, never a mixture of
\* two, whatever the order they arrive in; on a follower that a client writes
\* directly it may also be one of that follower's own, under its own counter
\* (SetWithVersion, sendReplication, the nodes' /set).
Provenance ==
    \A n \in Nodes, k \in Keys :
        LET e == Get(store[n], k) IN
        e # Absent =>
            \/ n # Leader /\ \E q \in WriteReqs :
                   /\ Started(q) /\ LandsOn(write[q], k)
                   /\ e.value = Parsed(write[q]).value
                   /\ e.version = Parsed(write[q]).version
            \/ n = Leader /\ \E q \in WriteReqs :
                   /\ Started(q) /\ write[q].key = k
                   /\ e.value = write[q].value /\ e.version = write[q].version
            \/ n \in DirectWriters /\ e.version \in 1 .. store[n].counter

\* On a key that only intact writes land on, a follower nobody writes directly is
\* never ahead of the leader, so the local entry readFromNodes starts from is
\* never the older one, and equal versions mean equal data, as far as the URL
\* carries it.  A version parameter or an ampersand in a key or a value of a
\* client breaks both.
LeaderAhead ==
    \A f \in Safe, k \in Keys :
        LET e == Get(store[f], k)
            own == Get(store[Leader], k)
        IN  KeyIntact(k) /\ e # Absent =>
                /\ e.version <= own.version
                /\ e.version = own.version => e.value = Wire[k, own.value].value

\* A 201 under w5r1 means that every follower of the list the handler captured
\* holds what the replication's URL carries or something newer, and under w3r3
\* at least two of them, although the loop goes on past failed and refused calls
\* and the list and the strategy may change meanwhile (replicateSequential).
\* For an intact write that is its own key and version.
AckedReplicated ==
    \A q \in WriteReqs :
        LET w == write[q]
            have == {f \in Range(w.list) : f \in DirectWriters \/ Holds(store[f], w)}
        IN  w.answer = "created" =>
                /\ w.strategy = "w5r1" => have = Range(w.list)
                /\ w.strategy = "w3r3" => Cardinality(have) >= 2

\* A 500 is never spurious: a call of some write failed, the followers refuse
\* this one's URL, or w3r3 was asked of fewer than two followers.  w1r5 never
\* answers 500.
ErrorJustified ==
    \A q \in WriteReqs :
        LET w == write[q] IN
        w.answer = "error" =>
            /\ w.strategy # "w1r5"
            /\ \/ failures > 0
               \/ ~Accepts(w)
               \/ w.strategy = "w3r3" /\ Len(w.list) < 2

\* No node that is not written directly ever replaces an entry by an older one,
\* however late a replication is applied (SetWithVersion, Set).
NeverBackward ==
    [][\A n \in Safe \cup {Leader}, k \in Keys :
          Get(store[n], k) # Absent =>
              /\ Get(store'[n], k) # Absent
              /\ Version(n, k) <= Get(store'[n], k).version]_vars

\* The leader is a linearizable versioned register for its clients: a read
\* returns an entry the leader held between the request and the response, in
\* all three strategies (leaderSetHandler, leaderGetHandler).
RegisterWrites ==
    {[key |-> write[q].key, value |-> write[q].value, version |-> write[q].version] :
        q \in {q \in WriteReqs : Started(q)}}
RegisterRead(r) ==
    CASE r.pc = "idle" -> [state |-> "idle"]
      [] r.pc = "done" -> [state |-> "answered", key |-> r.key, result |-> r.best]
      [] OTHER -> [state |-> "open", key |-> r.key, since |-> r.since]

Register == INSTANCE VersionedRegister WITH
                Reads <- ReadReqs,
                written <- RegisterWrites,
                last <- store[Leader].counter,
                reads <- [q \in ReadReqs |-> RegisterRead(read[q])]
RegisterSpec == Register!Spec
-----------------------------------------------------------------------------
(* Liveness. *)

\* Every request is answered, whatever calls fail: neither the ack loop nor the
\* collecting loop can wait for a response that no goroutine will produce.
EveryRequestAnswered ==
    /\ \A q \in WriteReqs : Started(q) ~> write[q].answer # "none"
    /\ \A q \in ReadReqs : read[q].pc # "idle" ~> read[q].pc = "done"

\* A write handled under one of the three strategies reaches every follower of
\* the captured list, as its URL carries it, before or after its answer and
\* whatever its answer, save those a failed call never reached, which nothing
\* retries, and a write whose URL they refuse.
ReplicasCatchUp ==
    \A q \in WriteReqs :
        Started(q) ~>
            \/ write[q].strategy \notin {"w5r1", "w1r5", "w3r3"}
            \/ ~Accepts(write[q])
            \/ \A f \in Range(write[q].list) \ (write[q].missed \cup DirectWriters) :
                  Holds(store[f], write[q])
=============================================================================
