---------------------------- MODULE OrderService ----------------------------
(***************************************************************************)
(* The order service of Midterm/order-system: orders reserve stock of the  *)
(* inventory service by an HTTP call inside a circuit breaker, whose mutex *)
(* is held during the call (order_service/circuitbreaker.go, main.go,      *)
(* inventory_service/main.go).                                             *)
(***************************************************************************)
EXTENDS Integers, Sequences, FiniteSets

CONSTANTS Orders, HealthChecks,
          Items, KnownItems,   \* items clients ask for; items of the inventory
          Quantities,          \* quantities clients ask for
          Workloads,           \* what the orders may ask for together
          FailureThreshold, SuccessThreshold, Timeout,
          MaxQuantity,         \* 1000
          InitialStock,
          Restock,             \* 1_000_000
          NoOne,
          MaxFailures,         \* bound: calls that fail without an answer
          MaxTime              \* bound: the clock

ASSUME BreakerAssumption ==
    /\ FailureThreshold \in Nat \ {0} /\ SuccessThreshold \in Nat \ {0}
    /\ Timeout \in Nat \ {0}
ASSUME StockAssumption ==
    /\ KnownItems \subseteq Items /\ Quantities \subseteq Int
    /\ MaxQuantity \in Nat /\ InitialStock \in Nat /\ Restock \in Nat
    /\ MaxQuantity <= Restock
    /\ Workloads \subseteq [Orders -> Items \X Quantities]
ASSUME ClientAssumption == /\ Orders \cap HealthChecks = {} /\ NoOne \notin Orders
                           /\ MaxFailures \in Nat /\ MaxTime \in Nat

VARIABLES cb,        \* the circuit breaker
          holder,    \* who holds its mutex
          order,     \* the handlers of /order
          request,   \* the reservation call of each order
          health,    \* the handlers of /healthz
          stock,     \* the inventory
          now, failures,
          recent     \* history: outcomes since the breaker's state was entered

callVars == <<order, request, stock>>
vars == <<cb, holder, callVars, health, now, failures, recent>>

Breaker == [state : {"closed", "open", "half-open"}, failureCount : Nat,
            successCount : Nat, openedAt : Nat]
OrderRec == [pc : {"idle", "waiting", "calling", "done"}, item : Items,
             quantity : Quantities,
             answer : {"none", "invalid", "circuit open", "failed", "success"}]
RequestState == {"none", "sent", "reserved", "refused", "lost"}

Init == /\ cb = [state |-> "closed", failureCount |-> 0, successCount |-> 0, openedAt |-> 0]
        /\ holder = NoOne
        /\ \E w \in Workloads :
             order = [o \in Orders |-> [pc |-> "idle", item |-> w[o][1], quantity |-> w[o][2],
                                        answer |-> "none"]]
        /\ request = [o \in Orders |-> "none"]
        /\ health = [h \in HealthChecks |-> "idle"]
        /\ stock = [i \in KnownItems |-> InitialStock]
        /\ now = 0
        /\ failures = 0
        /\ recent = <<>>

Goto(o, pc) == order' = [order EXCEPT ![o].pc = pc]
Answer(o, a) == order' = [order EXCEPT ![o].pc = "done", ![o].answer = a]
-----------------------------------------------------------------------------
(* The breaker. *)

Trip(b) == [b EXCEPT !.state = "open", !.openedAt = now]

OnFailure(b) ==
    LET c == [b EXCEPT !.successCount = 0,
                       !.failureCount = IF b.state = "closed" THEN b.failureCount + 1
                                                              ELSE b.failureCount]
    IN  IF b.state = "half-open" \/ (b.state = "closed" /\ c.failureCount >= FailureThreshold)
        THEN Trip(c) ELSE c

\* Faulty variant: failures are counted since the breaker closed.
OnSuccessKeepsFailures(b) ==
    IF b.state # "half-open" THEN b
    ELSE [b EXCEPT !.successCount = b.successCount + 1,
                   !.state = IF b.successCount + 1 >= SuccessThreshold
                             THEN "closed" ELSE "half-open"]

OnSuccess(b) ==
    LET c == [b EXCEPT !.failureCount = 0] IN
    IF b.state # "half-open" THEN c
    ELSE [c EXCEPT !.successCount = b.successCount + 1,
                   !.state = IF b.successCount + 1 >= SuccessThreshold
                             THEN "closed" ELSE "half-open"]

Tested(b) == [b EXCEPT !.state = "half-open", !.successCount = 0]
Rejecting == cb.state = "open" /\ now - cb.openedAt < Timeout
-----------------------------------------------------------------------------
(* placeOrder. *)

\* Faulty variant: no upper limit.
ValidUnlimited(q) == q > 0

Valid(q) == q > 0 /\ q <= MaxQuantity

PlaceOrder(o) ==
    /\ order[o].pc = "idle"
    /\ IF Valid(order[o].quantity) THEN Goto(o, "waiting") ELSE Answer(o, "invalid")
    /\ UNCHANGED <<cb, holder, request, health, stock, now, failures, recent>>

\* The order gets the mutex, and an open breaker rejects it at once.
Reject(o) ==
    /\ order[o].pc = "waiting" /\ holder = NoOne
    /\ Rejecting
    /\ Answer(o, "circuit open")
    /\ UNCHANGED <<cb, holder, request, health, stock, now, failures, recent>>

StartCall(o) ==
    /\ order[o].pc = "waiting" /\ holder = NoOne
    /\ ~Rejecting
    /\ IF cb.state = "open" THEN cb' = Tested(cb) /\ recent' = <<>>
                            ELSE UNCHANGED <<cb, recent>>
    /\ holder' = o
    /\ Goto(o, "calling")
    /\ request' = [request EXCEPT ![o] = "sent"]
    /\ UNCHANGED <<health, stock, now, failures>>

\* Faulty variant: a failing call returns without unlocking.
UnlockOnSuccess(outcome) == IF outcome = "success" THEN NoOne ELSE holder

\* The deferred unlock.
Unlock(outcome) == NoOne

Count(b, outcome) ==
    /\ cb' = b
    /\ recent' = IF b.state = cb.state THEN Append(recent, outcome) ELSE <<>>
    /\ holder' = Unlock(outcome)

\* Faulty variant: the status of the response is not looked at.
AcceptedAny(o) == request[o] \in {"reserved", "refused"}

Accepted(o) == request[o] = "reserved"

CallReturns(o) ==
    /\ order[o].pc = "calling" /\ request[o] \in {"reserved", "refused"}
    /\ IF Accepted(o) THEN Count(OnSuccess(cb), "success") /\ Answer(o, "success")
                      ELSE Count(OnFailure(cb), "failure") /\ Answer(o, "failed")
    /\ UNCHANGED <<request, health, stock, now, failures>>

\* No answer: the request is lost, not yet handled, or handled.
CallFails(o) ==
    /\ failures < MaxFailures /\ failures' = failures + 1
    /\ order[o].pc = "calling"
    /\ Count(OnFailure(cb), "failure") /\ Answer(o, "failed")
    /\ request' \in {request} \cup (IF request[o] = "sent"
                                    THEN {[request EXCEPT ![o] = "lost"]} ELSE {})
    /\ UNCHANGED <<health, stock, now>>
-----------------------------------------------------------------------------
(* /healthz, which needs the same mutex, the inventory, and time. *)

Healthz(h) ==
    /\ health[h] = "idle"
    /\ health' = [health EXCEPT ![h] = "waiting"]
    /\ UNCHANGED <<cb, holder, callVars, now, failures, recent>>

State(h) ==
    /\ health[h] = "waiting" /\ holder = NoOne
    /\ health' = [health EXCEPT ![h] = cb.state]
    /\ UNCHANGED <<cb, holder, callVars, now, failures, recent>>

\* Stock that does not suffice is replaced, then taken from.
AfterReserve(s, q) == (IF s < q THEN Restock ELSE s) - q

\* The inventory handles a request, even one nobody waits for any more.
ReserveInventory(o) ==
    LET i == order[o].item IN
    /\ request[o] = "sent"
    /\ IF i \in KnownItems
       THEN /\ stock' = [stock EXCEPT ![i] = AfterReserve(stock[i], order[o].quantity)]
            /\ request' = [request EXCEPT ![o] = "reserved"]
       ELSE /\ request' = [request EXCEPT ![o] = "refused"]
            /\ stock' = stock
    /\ UNCHANGED <<cb, holder, order, health, now, failures, recent>>

Tick == /\ now < MaxTime
        /\ now' = now + 1
        /\ UNCHANGED <<cb, holder, callVars, health, failures, recent>>
-----------------------------------------------------------------------------
Handling(o) == PlaceOrder(o) \/ Reject(o) \/ StartCall(o) \/ CallReturns(o)

Next == \/ \E o \in Orders : Handling(o) \/ CallFails(o) \/ ReserveInventory(o)
        \/ \E h \in HealthChecks : Healthz(h) \/ State(h)
        \/ Tick

Spec == Init /\ [][Next]_vars

\* Handlers and the inventory keep running, and a Go mutex starves nobody;
\* clients, failing calls and the clock need not act.
FairSpec == /\ Spec
            /\ \A o \in Orders : /\ WF_vars(Reject(o)) /\ WF_vars(StartCall(o))
                                 /\ WF_vars(CallReturns(o)) /\ WF_vars(ReserveInventory(o))
            /\ \A h \in HealthChecks : WF_vars(State(h))
-----------------------------------------------------------------------------
\* The types, and the mutex: held by the one order that is calling.  Valid orders
\* never make the stock negative, whatever was lost or came late.
TypeOK == /\ cb \in Breaker
          /\ cb.openedAt <= now
          /\ order \in [Orders -> OrderRec]
          /\ \A o \in Orders : order[o].pc = "calling" <=> holder = o
          /\ holder \in Orders \cup {NoOne}
          /\ request \in [Orders -> RequestState]
          /\ health \in [HealthChecks -> {"idle", "waiting", "closed", "open", "half-open"}]
          /\ stock \in [KnownItems -> Nat]
          /\ now \in 0 .. MaxTime
          /\ failures \in 0 .. MaxFailures
          /\ recent \in Seq({"success", "failure"})
-----------------------------------------------------------------------------
\* An answer tells the truth about the inventory: a success is reserved, and an
\* order rejected for its input or by the breaker never reaches it; a failed one
\* may be reserved (placeOrder, reserveInventory).
AnswersTruthful ==
    \A o \in Orders :
        /\ order[o].answer = "success" => request[o] = "reserved"
        /\ order[o].answer \in {"invalid", "circuit open"} => request[o] = "none"

\* The counters, shared by the three states, implement the breaker's promise: five
\* consecutive failures open it, two consecutive successes in half-open close it,
\* no count is left over from an earlier phase, and an open breaker rejects for
\* the whole timeout (CircuitBreaker).
Promise == INSTANCE BreakerPromise WITH
               Failures <- FailureThreshold, Successes <- SuccessThreshold,
               state <- cb.state, recent <- recent, cooling <- Rejecting
BreakerSpec == Promise!Spec

\* Every order and health check is answered while the inventory answers: the
\* mutex, held during the call, is released on every path (Call, State).
EveryRequestAnswered ==
    /\ \A o \in Orders : order[o].pc = "waiting" ~> order[o].pc = "done"
    /\ \A h \in HealthChecks : health[h] = "waiting" ~> health[h] # "waiting"
=============================================================================
