------------------------------ MODULE KVStore ------------------------------
(***************************************************************************)
(* One node's in-memory store: HW10/common/store.go.  Every operation runs *)
(* under the store's mutex, so each is one operator from a store to a      *)
(* store.  A key that is not in the Go map is mapped to Absent, whose      *)
(* version 0 is Go's zero value.                                           *)
(* Between nodes a key, a value and a version travel in the query of a URL *)
(* built without escaping them, so what the receiving handler parses may   *)
(* be another key, another value and another version, of any sign, or the  *)
(* request may be refused.                                                 *)
(***************************************************************************)
EXTENDS Integers

CONSTANTS Keys,      \* keys a client uses, and what a URL makes of them
          Values,    \* payloads, and what a URL makes of them
          NoValue,   \* the payload of a key that is not stored
          Own,       \* the version parsed is the one the sender put last
          Refused,   \* the request is answered 400
          Wire,      \* what a key and a value become in /internal/set's query
          WireKey    \* what a key becomes in /internal/get's

ParsedRequest == [key : Keys, value : Values, version : Int \cup {Own}]

ASSUME DataAssumption == Keys # {} /\ Values # {} /\ NoValue \notin Values
ASSUME WireAssumption ==
    /\ Own \notin Int /\ Refused \notin ParsedRequest \cup Keys
    /\ Wire \in [Keys \X Values -> ParsedRequest \cup {Refused}]
    /\ WireKey \in [Keys -> Keys \cup {Refused}]

Absent == [value |-> NoValue, version |-> 0]
KVEntry == [value : Values \cup {NoValue}, version : Int]
Store == [data : [Keys -> KVEntry], counter : Nat]

NewStore == [data |-> [k \in Keys |-> Absent], counter |-> 0]

\* Faulty variant: the entry gets the counter's old value, the caller the new one.
SetPostIncrement(s, k, v) ==
    [counter |-> s.counter + 1,
     data    |-> [s.data EXCEPT ![k] = [value |-> v, version |-> s.counter]]]

\* Set: the next version of this node's own counter, written unconditionally.
Set(s, k, v) ==
    [counter |-> s.counter + 1,
     data    |-> [s.data EXCEPT ![k] = [value |-> v, version |-> s.counter + 1]]]

\* Faulty variant: an overwrite that does not compare versions.
SetWithVersionBlind(s, k, v, n) ==
    [s EXCEPT !.data[k] = [value |-> v, version |-> n]]

\* SetWithVersion: written only over an absent key or an older version; the
\* node's own counter is left alone.
SetWithVersion(s, k, v, n) ==
    IF s.data[k] = Absent \/ n > s.data[k].version
    THEN [s EXCEPT !.data[k] = [value |-> v, version |-> n]]
    ELSE s

\* Get, /local_read and a node's plain /get: the stored entry.
Get(s, k) == s.data[k]
-----------------------------------------------------------------------------
(* /internal/set and /internal/get, for a request with fields key, value    *)
(* and version.                                                             *)

Accepts(m) == Wire[m.key, m.value] # Refused

\* The first parameter of a name counts: a version inside a key or a value
\* comes before the sender's own.
Parsed(m) ==
    LET p == Wire[m.key, m.value]
    IN  [p EXCEPT !.version = IF @ = Own THEN m.version ELSE @]

\* An accepted request that arrives under its own key and version.
Intact(m) ==
    /\ Accepts(m)
    /\ Wire[m.key, m.value].key = m.key
    /\ Wire[m.key, m.value].version = Own

LandsOn(m, k) == Accepts(m) /\ Parsed(m).key = k

\* /internal/set: a missing key or a version that is no number is refused.
HandleSet(s, m) ==
    IF Accepts(m)
    THEN SetWithVersion(s, Parsed(m).key, Parsed(m).value, Parsed(m).version)
    ELSE s

\* /internal/get: the entry, or what the caller takes for a missing one.
HandleGet(s, k) == IF WireKey[k] = Refused THEN Absent ELSE Get(s, WireKey[k])

\* The node holds what the request carries, or something newer.
Holds(s, m) ==
    /\ Accepts(m)
    /\ Get(s, Parsed(m).key) # Absent
    /\ Get(s, Parsed(m).key).version >= Parsed(m).version
=============================================================================
