------------------------- MODULE VersionedRegister -------------------------
(***************************************************************************)
(* What the leader promises its clients, without nodes or messages: one    *)
(* register per key whose writes are numbered, and reads that return what  *)
(* the register held at some moment between their invocation and their     *)
(* response.  A read invoked after another operation answered therefore    *)
(* never returns an older version.                                         *)
(***************************************************************************)
EXTENDS Naturals

CONSTANTS Keys, Values, NoValue, Reads

VARIABLES written,   \* every numbered write
          last,      \* the number of the last one
          reads      \* each read: its state, key, floor and result

vars == <<written, last, reads>>

Absent == [value |-> NoValue, version |-> 0]
Versions(k) == {e.version : e \in {w \in written : w.key = k}}
IsCurrent(k, n) ==
    /\ n \in Versions(k) \cup {0}
    /\ \A m \in Versions(k) : m <= n

Init == /\ written = {}
        /\ last = 0
        /\ reads = [q \in Reads |-> [state |-> "idle"]]

Write(k, v) ==
    /\ last' = last + 1
    /\ written' = written \cup {[key |-> k, value |-> v, version |-> last + 1]}
    /\ reads' = reads

Invoke(q, k) ==
    /\ reads[q].state = "idle"
    /\ \E n \in Versions(k) \cup {0} :
          /\ IsCurrent(k, n)
          /\ reads' = [reads EXCEPT ![q] = [state |-> "open", key |-> k, since |-> n]]
    /\ UNCHANGED <<written, last>>

\* What the register of key k has held since version n.
HeldSince(k, n) ==
    {[value |-> w.value, version |-> w.version] :
        w \in {w \in written : w.key = k /\ w.version >= n}}
    \cup (IF n = 0 THEN {Absent} ELSE {})

Respond(q) ==
    /\ reads[q].state = "open"
    /\ \E e \in HeldSince(reads[q].key, reads[q].since) :
          reads' = [reads EXCEPT ![q] = [state |-> "answered", key |-> reads[q].key,
                                         result |-> e]]
    /\ UNCHANGED <<written, last>>

Next == \/ \E k \in Keys, v \in Values : Write(k, v)
        \/ \E q \in Reads : Respond(q) \/ \E k \in Keys : Invoke(q, k)

Spec == Init /\ [][Next]_vars
=============================================================================
