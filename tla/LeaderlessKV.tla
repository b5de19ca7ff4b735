---------------------------- MODULE LeaderlessKV ----------------------------
(***************************************************************************)
(* The leaderless key-value store of HW10/leaderless/main.go over the      *)
(* stores of HW10/common.  The node a client writes to coordinates the     *)
(* write: it sets its own store under its own counter, then replicates to  *)
(* its peers one at a time and answers 500 at the first call that fails.   *)
(* A read is the local entry of the node it is sent to.                    *)
(***************************************************************************)
EXTENDS KVStore, Sequences, FiniteSets, Functions

CONSTANTS Nodes,
          WriteReqs,      \* identities of the clients' writes
          PeerLists,      \* lists a node's /config/peers may install
          MayWrite,       \* pairs <<node, key>>: where clients write a key
          MaxFailures,    \* bound: failed replication calls
          MaxReconfigs    \* bound: runtime changes of the peer lists

ASSUME PeerAssumption ==
    /\ Nodes # {}
    /\ MayWrite \subseteq Nodes \X Keys
    /\ PeerLists \subseteq {l \in Seq(Nodes) : IsInjective(l)}
ASSUME BoundAssumption == MaxFailures \in Nat /\ MaxReconfigs \in Nat

VARIABLES store,     \* each node's Store
          peers,     \* each node's peerList
          net,       \* replications sent and not yet applied or lost
          write,     \* each write request and its handler
          failures, reconfigs

vars == <<store, peers, net, write, failures, reconfigs>>

Message == [to : Nodes, key : Keys, value : Values, version : Nat]

\* before is a history variable: the writes answered when this one arrived.
WriteRec == [pc : {"idle", "stored", "sending", "waiting", "done"},
             answer : {"none", "created", "error"}, node : Nodes, key : Keys,
             value : Values, version : Nat, list : Seq(Nodes), i : Nat,
             before : SUBSET WriteReqs]

Init == /\ store = [n \in Nodes |-> NewStore]
        /\ peers \in [Nodes -> PeerLists]
        /\ \A n \in Nodes : n \notin Range(peers[n])
        /\ net = {}
        /\ write = [q \in WriteReqs |->
                      [pc |-> "idle", answer |-> "none", node |-> CHOOSE n \in Nodes : TRUE,
                       key |-> CHOOSE k \in Keys : TRUE, value |-> CHOOSE v \in Values : TRUE,
                       version |-> 0, list |-> <<>>, i |-> 1, before |-> {}]]
        /\ failures = 0
        /\ reconfigs = 0
-----------------------------------------------------------------------------
SetPeers(n, l) ==
    /\ reconfigs < MaxReconfigs
    /\ n \notin Range(l)
    /\ peers' = [peers EXCEPT ![n] = l]
    /\ reconfigs' = reconfigs + 1
    /\ UNCHANGED <<store, net, write, failures>>

Answered == {p \in WriteReqs : write[p].answer # "none"}

\* setHandler: the local write.
CoordinatorSet(q, n, k, v) ==
    /\ write[q].pc = "idle"
    /\ store' = [store EXCEPT ![n] = Set(@, k, v)]
    /\ write' = [write EXCEPT ![q] =
                   [@ EXCEPT !.pc = "stored", !.node = n, !.key = k, !.value = v,
                             !.version = store[n].counter + 1, !.before = Answered]]
    /\ UNCHANGED <<peers, net, failures, reconfigs>>

\* pl.Get(): with no peer the handler answers at once.
ReadPeers(q) ==
    /\ write[q].pc = "stored"
    /\ LET l == peers[write[q].node] IN
       write' = [write EXCEPT ![q] =
                   [@ EXCEPT !.list = l,
                             !.pc = IF l = <<>> THEN "done" ELSE "sending",
                             !.answer = IF l = <<>> THEN "created" ELSE "none"]]
    /\ UNCHANGED <<store, peers, net, failures, reconfigs>>

Target(w) == w.list[w.i]

Replication(w) ==
    [to |-> Target(w), key |-> w.key, value |-> w.value, version |-> w.version]

SendReplication(q) ==
    /\ write[q].pc = "sending"
    /\ net' = net \cup {Replication(write[q])}
    /\ write' = [write EXCEPT ![q].pc = "waiting"]
    /\ UNCHANGED <<store, peers, failures, reconfigs>>

\* The peer's /internal/set, after its sleep; a refusal needs none.
InternalSet(m) ==
    /\ store' = [store EXCEPT ![m.to] = HandleSet(@, m)]
    /\ net' = net \ {m}
    /\ UNCHANGED <<peers, write, failures, reconfigs>>

\* Faulty variant: the handler answers as soon as the first peer has the write.
AfterReturnEarly(w) == [w EXCEPT !.pc = "done", !.answer = "created"]

\* Faulty variant: the loop runs one iteration past the list.
AfterReturnPastEnd(w) ==
    IF w.i > Len(w.list)
    THEN [w EXCEPT !.pc = "done", !.answer = "created"]
    ELSE [w EXCEPT !.pc = "sending", !.i = @ + 1]

\* The end of an iteration whose call succeeded.
AfterReturn(w) ==
    IF w.i = Len(w.list)
    THEN [w EXCEPT !.pc = "done", !.answer = "created"]
    ELSE [w EXCEPT !.pc = "sending", !.i = @ + 1]

\* Faulty variant: the handler answers, but the loop goes on.
AfterFailureGoesOn(w) == [AfterReturn(w) EXCEPT !.answer = "error"]

\* The first failed call answers 500; no later peer is tried and nothing is
\* rolled back.
AfterFailure(w) == [w EXCEPT !.pc = "done", !.answer = "error"]

\* Faulty variant: the POST runs in a goroutine that nobody waits for.
CallReturnsAtOnce(q) ==
    /\ write[q].pc = "waiting"
    /\ write' = [write EXCEPT ![q] = IF Accepts(@) THEN AfterReturn(@) ELSE AfterFailure(@)]
    /\ UNCHANGED <<store, peers, net, failures, reconfigs>>

\* The POST returns: the peer has applied it, or answered 400, which is an error
\* for the handler as well.
CallReturns(q) ==
    /\ write[q].pc = "waiting"
    /\ Replication(write[q]) \notin net
    /\ write' = [write EXCEPT ![q] = IF Accepts(@) THEN AfterReturn(@) ELSE AfterFailure(@)]
    /\ UNCHANGED <<store, peers, net, failures, reconfigs>>

CallFails(q) ==
    /\ write[q].pc = "waiting"
    /\ failures < MaxFailures
    /\ failures' = failures + 1
    /\ \/ net' = net
       \/ Replication(write[q]) \in net /\ net' = net \ {Replication(write[q])}
    /\ write' = [write EXCEPT ![q] = AfterFailure(@)]
    /\ UNCHANGED <<store, peers, reconfigs>>
-----------------------------------------------------------------------------
Handling(q) == ReadPeers(q) \/ SendReplication(q) \/ CallReturns(q)

Next == \/ \E n \in Nodes, l \in PeerLists : SetPeers(n, l)
        \/ \E q \in WriteReqs, v \in Values, t \in MayWrite :
              CoordinatorSet(q, t[1], t[2], v)
        \/ \E q \in WriteReqs : Handling(q) \/ CallFails(q)
        \/ \E m \in net : InternalSet(m)

Spec == Init /\ [][Next]_vars

\* Some handler or peer that can move does; no fairness among them is needed, since
\* each ends after finitely many steps.  Clients, failures and the operator need
\* not act.
FairSpec == /\ Spec
            /\ WF_vars(\/ \E q \in WriteReqs : Handling(q)
                       \/ \E m \in net : InternalSet(m))
-----------------------------------------------------------------------------
\* The types, and the loop index, which stays within the captured list.
TypeOK == /\ store \in [Nodes -> Store]
          /\ peers \in [Nodes -> PeerLists]
          /\ net \in SUBSET Message
          /\ write \in [WriteReqs -> WriteRec]
          /\ \A q \in WriteReqs :
                write[q].pc \in {"sending", "waiting"} =>
                    write[q].i \in 1 .. Len(write[q].list)
          /\ failures \in 0 .. MaxFailures
          /\ reconfigs \in 0 .. MaxReconfigs
-----------------------------------------------------------------------------
Version(n, k) == Get(store[n], k).version
Started(q) == write[q].pc # "idle"

\* Keys that clients write through one node only.
SingleKeys == {k \in Keys : \A s, t \in MayWrite : s[2] = k /\ t[2] = k => s = t}

\* No write of the key, and none that lands on it, has been given another key or
\* version by its URL.
KeyIntact(k) ==
    \A q \in WriteReqs :
        Started(q) /\ Accepts(write[q]) /\ (write[q].key = k \/ LandsOn(write[q], k)) =>
            Intact(write[q])

\* The entry of key k is what the URL of p's write carries.
IsFrom(e, p, k) ==
    /\ Started(p) /\ LandsOn(write[p], k)
    /\ e = [value |-> Parsed(write[p]).value, version |-> Parsed(write[p]).version]

\* The entry of key k is what p set on node n, its coordinator.
IsSetBy(e, p, n, k) ==
    /\ Started(p) /\ write[p].node = n /\ write[p].key = k
    /\ e = [value |-> write[p].value, version |-> write[p].version]

\* leaderless_test.go LL2: on the coordinator a write is never undone by one that
\* was answered 201 before it came, whatever the other coordinators replicate and
\* although their version numbers are unrelated to its own.  What replaces it is
\* a write it raced with, or one answered 500, whose last replication may still
\* be under way (setHandler, Set, SetWithVersion).
CoordinatorReadsOwnWrites ==
    \A q \in WriteReqs :
        LET w == write[q]  e == Get(store[w.node], w.key) IN
        Started(q) =>
            \/ IsSetBy(e, q, w.node, w.key)
            \/ \E p \in WriteReqs \ {q} :
                  /\ p \notin w.before \/ write[p].answer = "error"
                  /\ IsFrom(e, p, w.key) \/ IsSetBy(e, p, w.node, w.key)

AckedOn(K) ==
    \A q \in WriteReqs :
        LET w == write[q] IN
        w.answer = "created" /\ w.key \in K /\ KeyIntact(w.key) =>
            \A n \in Range(w.list) :
                \E p \in WriteReqs :
                    /\ p = q \/ p \notin w.before
                    /\ IsFrom(Get(store[n], w.key), p, w.key)

\* leaderless_test.go LL3 (W=N) where it holds: for a key written through one
\* node only, and whose writes all arrive intact, a 201 means that no peer serves
\* anything older, as far as the URL carries the value.
AckedEverywhere == AckedOn(SingleKeys)

\* leaderless_test.go LL3 as the test states it, for every key.
AckedOnAllNodes == AckedOn(Keys)

\* A 500 leaves the write on the coordinator and on the peers before the one
\* whose call failed, and never on a peer after it (keys of one coordinator whose
\* writes arrive intact).
ErrorLeavesPrefix ==
    \A q \in WriteReqs :
        LET w == write[q] IN
        w.answer = "error" /\ w.key \in SingleKeys /\ KeyIntact(w.key) =>
            /\ \A j \in 1 .. (w.i - 1) : Version(w.list[j], w.key) >= w.version
            /\ \A j \in (w.i + 1) .. Len(w.list) :
                  /\ [Replication(w) EXCEPT !.to = w.list[j]] \notin net
                  /\ Version(w.list[j], w.key) # w.version

\* An entry is replaced by an older one only on a node that is itself
\* coordinating a write of that key, and so never for a key written through one
\* node whose writes arrive intact.
OnlyOwnSetGoesBackward ==
    [][\A n \in Nodes, k \in Keys :
          Get(store[n], k) # Absent /\ Version(n, k) > Get(store'[n], k).version =>
              /\ k \notin SingleKeys \/ ~KeyIntact(k)
              /\ store'[n].counter > store[n].counter]_vars

\* A key written through one node, whose writes arrive intact, ends equal on every
\* node of the last write's list, unless a call failed: nothing retries.
SingleKeysConverge ==
    <>[](\A q \in WriteReqs :
            LET w == write[q] IN
            /\ Started(q) /\ Accepts(w) /\ w.key \in SingleKeys /\ KeyIntact(w.key)
            /\ failures = 0
            => \A p \in Range(w.list) : Version(p, w.key) >= w.version)
=============================================================================
