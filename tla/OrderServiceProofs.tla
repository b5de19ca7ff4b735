------------------------- MODULE OrderServiceProofs -------------------------
(***************************************************************************)
(* Theorems about OrderService, for every set of orders, items and health  *)
(* checks, all thresholds and timeouts, and any number of failing calls:   *)
(* the types and the mutex, what answers say of the inventory, and that    *)
(* the breaker's counters implement BreakerPromise.                        *)
(***************************************************************************)
EXTENDS OrderService, SequenceTheorems, TLAPS

-----------------------------------------------------------------------------
(* Type correctness.  The stock stays natural because only valid quantities *)
(* reach the inventory.                                                     *)

AskedOK ==
    \A o \in Orders :
        order[o].pc \in {"waiting", "calling"} \/ request[o] # "none" => Valid(order[o].quantity)

TypeInv == TypeOK /\ AskedOK

Outcomes == {"success", "failure"}

LEMMA StateTypes ==
  ASSUME TypeOK
  PROVE  /\ cb \in Breaker /\ cb.failureCount \in Nat /\ cb.successCount \in Nat
         /\ cb.openedAt \in Nat /\ cb.openedAt <= now /\ now \in Nat
         /\ cb.state \in {"closed", "open", "half-open"}
         /\ recent \in Seq(Outcomes) /\ Len(recent) \in Nat
  BY ClientAssumption DEF TypeOK, Breaker, Outcomes

\* What a step of a handler does to the orders.
GotoEffect(o, pc, answer) ==
    /\ order' \in [Orders -> OrderRec]
    /\ order'[o].pc = pc /\ order'[o].answer = answer
    /\ order'[o].item = order[o].item /\ order'[o].quantity = order[o].quantity
    /\ \A p \in Orders \ {o} : order'[p] = order[p]

LEMMA GotoFacts ==
  ASSUME TypeOK, NEW o \in Orders, NEW pc \in {"waiting", "calling"}, Goto(o, pc)
  PROVE  GotoEffect(o, pc, order[o].answer)
  <1> DEFINE r == [order[o] EXCEPT !.pc = pc]
  <1>1. order \in [Orders -> OrderRec] /\ order[o] \in OrderRec
    BY DEF TypeOK
  <1>2. /\ r \in OrderRec /\ r.pc = pc /\ r.answer = order[o].answer
        /\ r.item = order[o].item /\ r.quantity = order[o].quantity
    BY <1>1 DEF OrderRec
  <1>3. order' = [order EXCEPT ![o] = r]
    BY <1>1 DEF Goto
  <1> HIDE DEF r
  <1>4. /\ order' \in [Orders -> OrderRec] /\ order'[o] = r
        /\ \A p \in Orders \ {o} : order'[p] = order[p]
    BY <1>1, <1>2, <1>3
  <1> QED
    BY <1>2, <1>4 DEF GotoEffect

LEMMA AnswerFacts ==
  ASSUME TypeOK, NEW o \in Orders,
         NEW a \in {"invalid", "circuit open", "failed", "success"}, Answer(o, a)
  PROVE  GotoEffect(o, "done", a)
  <1> DEFINE r == [order[o] EXCEPT !.pc = "done", !.answer = a]
  <1>1. order \in [Orders -> OrderRec] /\ order[o] \in OrderRec
    BY DEF TypeOK
  <1>2. /\ r \in OrderRec /\ r.pc = "done" /\ r.answer = a
        /\ r.item = order[o].item /\ r.quantity = order[o].quantity
    BY <1>1 DEF OrderRec
  <1>3. order' = [order EXCEPT ![o] = r]
    BY <1>1 DEF Answer
  <1> HIDE DEF r
  <1>4. /\ order' \in [Orders -> OrderRec] /\ order'[o] = r
        /\ \A p \in Orders \ {o} : order'[p] = order[p]
    BY <1>1, <1>2, <1>3
  <1> QED
    BY <1>2, <1>4 DEF GotoEffect

\* The breaker's own operations, on a breaker of the right type.
BreakerIs(c, state, failureCount, successCount, openedAt) ==
    /\ c \in Breaker /\ c.state = state /\ c.failureCount = failureCount
    /\ c.successCount = successCount /\ c.openedAt = openedAt

LEMMA OnSuccessFacts ==
  ASSUME NEW b \in Breaker
  PROVE  /\ b.state # "half-open" =>
              BreakerIs(OnSuccess(b), b.state, 0, b.successCount, b.openedAt)
         /\ b.state = "half-open" =>
              BreakerIs(OnSuccess(b),
                        IF b.successCount + 1 >= SuccessThreshold THEN "closed" ELSE "half-open",
                        0, b.successCount + 1, b.openedAt)
  <1>1. CASE b.state # "half-open"
    <2>1. OnSuccess(b) = [b EXCEPT !.failureCount = 0]
      BY <1>1 DEF OnSuccess
    <2> QED
      BY <1>1, <2>1 DEF Breaker, BreakerIs
  <1>2. CASE b.state = "half-open"
    <2> DEFINE s == IF b.successCount + 1 >= SuccessThreshold THEN "closed" ELSE "half-open"
    <2>1. OnSuccess(b) = [b EXCEPT !.failureCount = 0, !.successCount = b.successCount + 1,
                                   !.state = s]
      BY <1>2 DEF OnSuccess
    <2>2. s \in {"closed", "half-open"}
      OBVIOUS
    <2>3. /\ OnSuccess(b) \in Breaker /\ OnSuccess(b).state = s
          /\ OnSuccess(b).failureCount = 0 /\ OnSuccess(b).openedAt = b.openedAt
          /\ OnSuccess(b).successCount = b.successCount + 1
      <3> DEFINE m == b.successCount + 1
                 c == [state |-> s, failureCount |-> 0, successCount |-> m,
                       openedAt |-> b.openedAt]
      <3>1. m \in Nat /\ b.openedAt \in Nat
        BY DEF Breaker
      <3>2. OnSuccess(b) = [b EXCEPT !.failureCount = 0, !.successCount = m, !.state = s]
        BY <2>1
      <3> HIDE DEF m, s
      <3>4. OnSuccess(b) = c
        BY <3>2 DEF Breaker
      <3>3. /\ c \in Breaker /\ c.state = s /\ c.failureCount = 0
            /\ c.openedAt = b.openedAt /\ c.successCount = m
        BY <2>2, <3>1 DEF Breaker
      <3> QED
        BY <3>3, <3>4 DEF m
    <2> QED
      BY <1>2, <2>3 DEF BreakerIs
  <1> QED
    BY <1>1, <1>2

LEMMA OnFailureFacts ==
  ASSUME NEW b \in Breaker, now \in Nat, b.state # "open"
  PROVE  /\ b.state = "closed" /\ b.failureCount + 1 < FailureThreshold =>
              BreakerIs(OnFailure(b), "closed", b.failureCount + 1, 0, b.openedAt)
         /\ b.state = "closed" /\ b.failureCount + 1 >= FailureThreshold =>
              BreakerIs(OnFailure(b), "open", b.failureCount + 1, 0, now)
         /\ b.state = "half-open" =>
              BreakerIs(OnFailure(b), "open", b.failureCount, 0, now)
  <1> DEFINE n == IF b.state = "closed" THEN b.failureCount + 1 ELSE b.failureCount
             c == [b EXCEPT !.successCount = 0, !.failureCount = n]
  <1>1. n \in Nat
    BY DEF Breaker
  <1>2. /\ c \in Breaker /\ c.state = b.state /\ c.failureCount = n
        /\ c.successCount = 0 /\ c.openedAt = b.openedAt
    <2> HIDE DEF n
    <2> QED
      BY <1>1 DEF Breaker
  <1>3. OnFailure(b) = IF b.state = "half-open" \/ (b.state = "closed" /\ n >= FailureThreshold)
                       THEN Trip(c) ELSE c
    <2>1. c.failureCount = n
      BY <1>2
    <2> QED
      BY <2>1 DEF OnFailure
  <1> HIDE DEF c
  <1>4. BreakerIs(Trip(c), "open", n, 0, now)
    <2> HIDE DEF n
    <2> QED
      BY <1>2 DEF Trip, Breaker, BreakerIs
  <1>5. CASE b.state = "closed" /\ b.failureCount + 1 < FailureThreshold
    BY <1>2, <1>3, <1>5, BreakerAssumption DEF BreakerIs, Breaker
  <1>6. CASE b.state = "closed" /\ b.failureCount + 1 >= FailureThreshold
    BY <1>3, <1>4, <1>6, BreakerAssumption DEF Breaker
  <1>7. CASE b.state = "half-open"
    BY <1>3, <1>4, <1>7
  <1>8. b.failureCount + 1 < FailureThreshold \/ b.failureCount + 1 >= FailureThreshold
    BY BreakerAssumption DEF Breaker
  <1> QED
    BY <1>5, <1>6, <1>7, <1>8

LEMMA TestedFacts ==
  ASSUME NEW b \in Breaker
  PROVE  BreakerIs(Tested(b), "half-open", b.failureCount, 0, b.openedAt)
  BY DEF Tested, Breaker, BreakerIs

LEMMA TypeInit == Init => TypeInv
  <1> SUFFICES ASSUME Init PROVE TypeInv
    OBVIOUS
  <1>1. PICK w \in Workloads :
           order = [o \in Orders |-> [pc |-> "idle", item |-> w[o][1], quantity |-> w[o][2],
                                      answer |-> "none"]]
    BY DEF Init
  <1>2. \A o \in Orders : w[o][1] \in Items /\ w[o][2] \in Quantities
    BY StockAssumption
  <1>3. order \in [Orders -> OrderRec] /\ \A o \in Orders : order[o].pc = "idle"
    BY <1>1, <1>2 DEF OrderRec
  <1>4. /\ holder = NoOne /\ \A o \in Orders : holder # o
    BY ClientAssumption DEF Init
  <1>5. cb \in Breaker /\ cb.openedAt = 0
    BY DEF Init, Breaker
  <1>6. /\ request \in [Orders -> RequestState] /\ stock \in [KnownItems -> Nat]
        /\ health \in [HealthChecks -> {"idle", "waiting", "closed", "open", "half-open"}]
        /\ now \in 0 .. MaxTime /\ now = 0 /\ failures \in 0 .. MaxFailures
        /\ recent \in Seq({"success", "failure"})
    BY ClientAssumption, StockAssumption DEF Init, RequestState
  <1>7. AskedOK
    BY <1>3 DEF Init, AskedOK
  <1> QED
    BY <1>3, <1>4, <1>5, <1>6, <1>7 DEF TypeInv, TypeOK

\* The mutex: the order that calls, and no other.
MutexOK == /\ holder \in Orders \cup {NoOne}
           /\ \A o \in Orders : order[o].pc = "calling" <=> holder = o

LEMMA CountType ==
  ASSUME TypeOK, NEW b \in Breaker, b.openedAt <= now, NEW r \in Outcomes, Count(b, r)
  PROVE  /\ cb' \in Breaker /\ cb'.openedAt <= now /\ holder' = NoOne
         /\ recent' \in Seq({"success", "failure"})
  <1>1. recent \in Seq(Outcomes)
    BY StateTypes
  <1>2. Append(recent, r) \in Seq(Outcomes) /\ <<>> \in Seq(Outcomes)
    BY <1>1
  <1> QED
    BY <1>1, <1>2 DEF Count, Unlock, Outcomes

LEMMA CallType ==
  ASSUME TypeInv, NEW o \in Orders, CallReturns(o) \/ CallFails(o), cb.state # "open"
  PROVE  TypeInv'
  <1>1. TypeOK /\ order[o].pc = "calling" /\ holder = o
    BY DEF TypeInv, TypeOK, CallReturns, CallFails
  <1>2. PICK a \in {"failed", "success"} :
            /\ GotoEffect(o, "done", a)
            /\ cb' \in Breaker /\ cb'.openedAt <= now /\ holder' = NoOne
            /\ recent' \in Seq({"success", "failure"})
    <2>1. /\ OnSuccess(cb) \in Breaker /\ OnSuccess(cb).openedAt <= now
          /\ OnFailure(cb) \in Breaker /\ OnFailure(cb).openedAt <= now
      <3>1. cb \in Breaker /\ now \in Nat /\ cb.openedAt <= now
        BY <1>1, StateTypes
      <3>2. OnSuccess(cb) \in Breaker /\ OnSuccess(cb).openedAt <= now
        BY <3>1, OnSuccessFacts DEF BreakerIs
      <3>3. OnFailure(cb) \in Breaker /\ OnFailure(cb).openedAt <= now
        BY <3>1, OnFailureFacts, BreakerAssumption DEF BreakerIs, Breaker
      <3> QED
        BY <3>2, <3>3
    <2>2. \/ Count(OnSuccess(cb), "success") /\ Answer(o, "success")
          \/ Count(OnFailure(cb), "failure") /\ Answer(o, "failed")
      BY DEF CallReturns, CallFails
    <2> QED
      BY <1>1, <2>1, <2>2, CountType, AnswerFacts DEF Outcomes
  <1>3. MutexOK'
    BY <1>1, <1>2, ClientAssumption DEF GotoEffect, MutexOK, TypeOK
  <1>4. /\ request' \in [Orders -> RequestState] /\ failures' \in 0 .. MaxFailures
        /\ \A p \in Orders : request'[p] # "none" => request[p] # "none"
    BY <1>1, ClientAssumption DEF CallReturns, CallFails, TypeOK, RequestState
  <1>5. AskedOK'
    BY <1>2, <1>4 DEF TypeInv, AskedOK, GotoEffect
  <1>6. UNCHANGED <<health, stock, now>>
    BY DEF CallReturns, CallFails
  <1> QED
    BY <1>1, <1>2, <1>3, <1>4, <1>5, <1>6 DEF TypeInv, TypeOK, MutexOK, GotoEffect

LEMMA HandlerType ==
  ASSUME TypeInv, NEW o \in Orders, PlaceOrder(o) \/ Reject(o) \/ StartCall(o)
  PROVE  TypeInv'
  <1>1. TypeOK /\ AskedOK /\ order \in [Orders -> OrderRec]
    BY DEF TypeInv, TypeOK
  <1>2. CASE PlaceOrder(o)
    <2>1. \/ Valid(order[o].quantity) /\ GotoEffect(o, "waiting", order[o].answer)
          \/ GotoEffect(o, "done", "invalid")
      BY <1>1, <1>2, GotoFacts, AnswerFacts DEF PlaceOrder
    <2>2. order[o].pc = "idle"
      BY <1>2 DEF PlaceOrder
    <2>3. MutexOK' /\ AskedOK'
      BY <1>1, <1>2, <2>1, <2>2 DEF PlaceOrder, GotoEffect, MutexOK, AskedOK, TypeOK
    <2> QED
      BY <1>1, <1>2, <2>1, <2>3 DEF PlaceOrder, GotoEffect, MutexOK, TypeInv, TypeOK
  <1>3. CASE Reject(o)
    <2>1. GotoEffect(o, "done", "circuit open") /\ order[o].pc = "waiting"
      BY <1>1, <1>3, AnswerFacts DEF Reject
    <2>2. MutexOK' /\ AskedOK'
      BY <1>1, <1>3, <2>1 DEF Reject, GotoEffect, MutexOK, AskedOK, TypeOK
    <2> QED
      BY <1>1, <1>3, <2>1, <2>2 DEF Reject, GotoEffect, MutexOK, TypeInv, TypeOK
  <1>4. CASE StartCall(o)
    <2>1. GotoEffect(o, "calling", order[o].answer) /\ order[o].pc = "waiting" /\ holder = NoOne
      BY <1>1, <1>4, GotoFacts DEF StartCall
    <2>2. request' \in [Orders -> RequestState] /\ \A p \in Orders \ {o} : request'[p] = request[p]
      BY <1>1, <1>4 DEF StartCall, TypeOK, RequestState
    <2>3. MutexOK' /\ AskedOK'
      BY <1>1, <1>4, <2>1, <2>2, ClientAssumption
      DEF StartCall, GotoEffect, MutexOK, AskedOK, TypeOK
    <2>4. cb' \in Breaker /\ cb'.openedAt <= now /\ recent' \in Seq({"success", "failure"})
      <3>1. /\ cb \in Breaker /\ cb.openedAt <= now /\ recent \in Seq({"success", "failure"})
            /\ Tested(cb) \in Breaker /\ Tested(cb).openedAt = cb.openedAt
        BY <1>1, TestedFacts DEF TypeOK, BreakerIs
      <3>2. CASE cb.state = "open"
        BY <1>4, <3>1, <3>2 DEF StartCall
      <3>3. CASE cb.state # "open"
        BY <1>4, <3>1, <3>3 DEF StartCall
      <3> QED
        BY <3>2, <3>3
    <2> QED
      BY <1>1, <1>4, <2>1, <2>2, <2>3, <2>4 DEF StartCall, GotoEffect, MutexOK, TypeInv, TypeOK
  <1> QED
    BY <1>2, <1>3, <1>4

LEMMA ReserveType ==
  ASSUME TypeInv, NEW o \in Orders, ReserveInventory(o)
  PROVE  TypeInv'
  <1> DEFINE i == order[o].item
             q == order[o].quantity
  <1>1. TypeOK /\ AskedOK /\ request[o] = "sent" /\ order[o] \in OrderRec
    BY DEF TypeInv, TypeOK, ReserveInventory
  <1>2. q > 0 /\ q <= MaxQuantity /\ q \in Int /\ i \in Items
    BY <1>1, StockAssumption DEF AskedOK, Valid, OrderRec
  <1>3. ASSUME NEW s \in Nat PROVE AfterReserve(s, q) \in Nat
    BY <1>2, StockAssumption DEF AfterReserve
  <1>4. stock' \in [KnownItems -> Nat]
    <2>1. stock \in [KnownItems -> Nat]
      BY <1>1 DEF TypeOK
    <2>2. CASE i \notin KnownItems
      BY <2>1, <2>2 DEF ReserveInventory
    <2>3. CASE i \in KnownItems
      <3>1. AfterReserve(stock[i], q) \in Nat
        BY <1>3, <2>1, <2>3
      <3>2. stock' = [stock EXCEPT ![i] = AfterReserve(stock[i], q)]
        BY <2>3 DEF ReserveInventory
      <3> QED
        BY <2>1, <2>3, <3>1, <3>2
    <2> QED
      BY <2>2, <2>3
  <1>5. request' \in [Orders -> RequestState] /\ AskedOK'
    BY <1>1 DEF ReserveInventory, TypeOK, RequestState, AskedOK
  <1> QED
    BY <1>1, <1>4, <1>5 DEF ReserveInventory, TypeInv, TypeOK

-----------------------------------------------------------------------------
(* The counters.  While an order calls, the breaker is not open; while it   *)
(* is closed, failureCount is the length of the run of failures that ends   *)
(* the outcomes since it closed; while it is half-open, those outcomes are  *)
(* successCount successes.                                                  *)

FailingFor(n) ==
    /\ n <= Len(recent)
    /\ \A i \in 1 .. Len(recent) : i > Len(recent) - n => recent[i] = "failure"
    /\ n < Len(recent) => recent[Len(recent) - n] = "success"

CountsOK ==
    /\ holder # NoOne => cb.state # "open"
    /\ cb.state = "closed" => cb.failureCount < FailureThreshold /\ FailingFor(cb.failureCount)
    /\ cb.state = "half-open" =>
          /\ cb.successCount < SuccessThreshold /\ cb.successCount = Len(recent)
          /\ \A i \in 1 .. Len(recent) : recent[i] = "success"

TypedInv == TypeInv /\ CountsOK

\* Everything but the calls leaves the breaker alone or starts a test.
CallStep == \E o \in Orders : CallReturns(o) \/ CallFails(o)

LEMMA AppendFacts ==
  ASSUME TypeOK, NEW r \in Outcomes
  PROVE  /\ Append(recent, r) \in Seq(Outcomes)
         /\ Len(Append(recent, r)) = Len(recent) + 1 /\ Len(recent) \in Nat
         /\ Append(recent, r)[Len(recent) + 1] = r
         /\ \A i \in 1 .. Len(recent) : Append(recent, r)[i] = recent[i]
  BY StateTypes

\* The outcome of a call, as the breaker counts it: what the promise's Outcome
\* and the counters' invariant are proved from.
Success ==
    /\ cb.state # "open" /\ cb'.failureCount = 0
    /\ cb.state = "closed" => cb'.state = "closed" /\ recent' = Append(recent, "success")
    /\ cb.state = "half-open" =>
          /\ cb'.successCount = cb.successCount + 1
          /\ \/ /\ cb.successCount + 1 < SuccessThreshold
                /\ cb'.state = "half-open" /\ recent' = Append(recent, "success")
             \/ /\ cb.successCount + 1 >= SuccessThreshold
                /\ cb'.state = "closed" /\ recent' = <<>>

Failure ==
    /\ cb.state # "open"
    /\ \/ /\ cb.state = "closed" /\ cb.failureCount + 1 < FailureThreshold
          /\ cb'.state = "closed" /\ cb'.failureCount = cb.failureCount + 1
          /\ recent' = Append(recent, "failure")
       \/ /\ cb.state = "half-open" \/ cb.failureCount + 1 >= FailureThreshold
          /\ cb'.state = "open" /\ cb'.openedAt = now /\ recent' = <<>>

LEMMA CallFacts ==
  ASSUME TypedInv, NEW o \in Orders, CallReturns(o) \/ CallFails(o)
  PROVE  Success \/ Failure
  <1>1. TypeOK /\ cb \in Breaker /\ now \in Nat /\ cb.state \in {"closed", "open", "half-open"}
        /\ cb.successCount \in Nat /\ cb.failureCount \in Nat
    BY StateTypes DEF TypedInv, TypeInv
  <1>2. cb.state # "open"
    BY ClientAssumption DEF TypedInv, TypeInv, TypeOK, CountsOK, CallReturns, CallFails
  <1>3. CASE Count(OnSuccess(cb), "success")
    BY <1>1, <1>2, <1>3, OnSuccessFacts, BreakerAssumption DEF Count, BreakerIs, Success
  <1>4. CASE Count(OnFailure(cb), "failure")
    BY <1>1, <1>2, <1>4, OnFailureFacts, BreakerAssumption DEF Count, BreakerIs, Failure
  <1> QED
    BY <1>3, <1>4 DEF CallReturns, CallFails

LEMMA CallCounts ==
  ASSUME TypedInv, NEW o \in Orders, CallReturns(o) \/ CallFails(o)
  PROVE  CountsOK'
  <1>1. Success \/ Failure
    BY CallFacts
  <1>2. holder' = NoOne
    BY DEF CallReturns, CallFails, Count, Unlock
  <1>3. /\ TypeOK /\ cb.failureCount \in Nat /\ cb.successCount \in Nat
        /\ cb.state \in {"closed", "half-open", "open"}
    BY StateTypes DEF TypedInv, TypeInv
  <1>4. CASE Success
    <2>1. CASE cb.state = "closed"
      <3>1. /\ cb'.state = "closed" /\ cb'.failureCount = 0
            /\ Len(recent') = Len(recent) + 1 /\ recent'[Len(recent) + 1] = "success"
        BY <1>3, <1>4, <2>1, AppendFacts DEF Success, Outcomes
      <3>2. FailingFor(cb.failureCount)'
        BY <1>3, <3>1, AppendFacts DEF FailingFor, Outcomes
      <3> QED
        BY <1>2, <3>1, <3>2, BreakerAssumption DEF CountsOK
    <2>2. CASE cb.state = "half-open" /\ cb'.state = "half-open"
      <3>1. /\ cb'.successCount = cb.successCount + 1 /\ cb'.successCount < SuccessThreshold
            /\ recent' = Append(recent, "success")
        BY <1>4, <2>2 DEF Success
      <3>2. Len(recent') = cb'.successCount
            /\ \A i \in 1 .. Len(recent') : recent'[i] = "success"
        BY <1>3, <2>2, <3>1, AppendFacts DEF TypedInv, CountsOK, Outcomes
      <3> QED
        BY <1>2, <2>2, <3>1, <3>2 DEF CountsOK
    <2>3. CASE cb.state = "half-open" /\ cb'.state # "half-open"
      <3>1. cb'.state = "closed" /\ recent' = <<>> /\ cb'.failureCount = 0
        BY <1>4, <2>3 DEF Success
      <3> QED
        BY <1>2, <3>1, BreakerAssumption DEF CountsOK, FailingFor
    <2> QED
      BY <1>3, <1>4, <2>1, <2>2, <2>3 DEF Success
  <1>5. CASE Failure
    <2>1. CASE cb'.state = "closed"
      <3>1. /\ cb.state = "closed" /\ cb'.failureCount = cb.failureCount + 1
            /\ cb'.failureCount < FailureThreshold /\ recent' = Append(recent, "failure")
        BY <1>5, <2>1 DEF Failure
      <3>2. FailingFor(cb.failureCount)
        BY <3>1 DEF TypedInv, CountsOK
      <3>3. FailingFor(cb.failureCount)'
        BY <1>3, <3>1, <3>2, AppendFacts DEF FailingFor, Outcomes
      <3> QED
        BY <1>2, <2>1, <3>1, <3>3 DEF CountsOK
    <2>2. CASE cb'.state # "closed"
      BY <1>2, <1>5, <2>2 DEF Failure, CountsOK
    <2> QED
      BY <2>1, <2>2
  <1> QED
    BY <1>1, <1>4, <1>5

\* StartCall on an open breaker starts a test.
LEMMA StartFacts ==
  ASSUME TypedInv, NEW o \in Orders, StartCall(o)
  PROVE  \/ /\ cb.state = "open" /\ cb'.state = "half-open" /\ ~Rejecting
            /\ cb'.successCount = 0 /\ recent' = <<>>
         \/ cb.state # "open" /\ UNCHANGED <<cb, recent>>
  <1>1. cb \in Breaker
    BY StateTypes DEF TypedInv, TypeInv
  <1> QED
    BY <1>1, TestedFacts DEF StartCall, BreakerIs

\* The steps that do not touch the breaker.
Aside == \/ \E o \in Orders : PlaceOrder(o) \/ Reject(o) \/ ReserveInventory(o)
         \/ \E h \in HealthChecks : Healthz(h) \/ State(h)
         \/ Tick \/ UNCHANGED vars

LEMMA AsideFacts ==
  ASSUME Aside
  PROVE  UNCHANGED <<cb, holder, recent>>
  BY DEF Aside, PlaceOrder, Reject, ReserveInventory, Healthz, State, Tick, vars, callVars

LEMMA StepKinds ==
  ASSUME [Next]_vars
  PROVE  Aside \/ CallStep \/ \E o \in Orders : StartCall(o)
  BY DEF Next, Handling, Aside, CallStep

LEMMA TypedStep ==
  ASSUME TypedInv, [Next]_vars
  PROVE  TypedInv'
  <1>1. TypeInv /\ CountsOK /\ TypeOK
    BY DEF TypedInv, TypeInv
  <1>2. ASSUME NEW o \in Orders, CallReturns(o) \/ CallFails(o) PROVE TypedInv'
    <2>1. cb.state # "open"
      BY <1>2, CallFacts DEF Success, Failure
    <2> QED
      BY <1>1, <1>2, <2>1, CallType, CallCounts DEF TypedInv
  <1>3. ASSUME NEW o \in Orders, StartCall(o) PROVE TypedInv'
    <2>1. cb'.state # "open" /\ CountsOK'
      BY <1>1, <1>3, StartFacts, BreakerAssumption DEF CountsOK, FailingFor
    <2> QED
      BY <1>1, <1>3, <2>1, HandlerType DEF TypedInv
  <1>4. CASE Aside
    <2>1. CountsOK'
      BY <1>1, <1>4, AsideFacts DEF CountsOK, FailingFor
    <2>2. ASSUME NEW h \in HealthChecks, Healthz(h) \/ State(h) PROVE TypeInv'
      BY <1>1, <2>2, StateTypes DEF Healthz, State, callVars, TypeInv, TypeOK, AskedOK
    <2>3. ASSUME Tick PROVE TypeInv'
      <3>1. now \in Nat /\ now' = now + 1 /\ now' \in 0 .. MaxTime /\ cb.openedAt <= now'
        BY <1>1, <2>3, StateTypes, ClientAssumption DEF Tick, TypeOK
      <3>2. UNCHANGED <<cb, holder, order, request, stock, health, failures, recent>>
        BY <2>3 DEF Tick, callVars
      <3>3. AskedOK' /\ MutexOK'
        BY <1>1, <3>2 DEF TypeInv, TypeOK, AskedOK, MutexOK
      <3>4. now' \in 0 .. MaxTime /\ cb'.openedAt <= now'
        BY <3>1, <3>2
      <3> QED
        BY <1>1, <3>2, <3>3, <3>4 DEF MutexOK, TypeInv, TypeOK
    <2>4. ASSUME UNCHANGED vars PROVE TypeInv'
      <3>1. UNCHANGED <<cb, holder, order, request, stock, health, now, failures, recent>>
        BY <2>4 DEF vars, callVars
      <3>2. AskedOK' /\ MutexOK'
        BY <1>1, <3>1 DEF TypeInv, TypeOK, AskedOK, MutexOK
      <3> QED
        BY <1>1, <3>1, <3>2 DEF MutexOK, TypeInv, TypeOK
    <2> QED
      BY <1>1, <1>4, <2>1, <2>2, <2>3, <2>4, HandlerType, ReserveType DEF Aside, TypedInv
  <1> QED
    BY <1>2, <1>3, <1>4, StepKinds DEF CallStep

LEMMA TypedAlways == Spec => []TypedInv
  <1>1. Init => CountsOK
    BY BreakerAssumption DEF Init, CountsOK, FailingFor
  <1>2. Init => TypedInv
    BY <1>1, TypeInit DEF TypedInv
  <1>3. TypedInv /\ [Next]_vars => TypedInv'
    BY TypedStep
  <1> QED
    BY <1>2, <1>3, PTL DEF Spec

\* Every variable keeps its type, one order at a time calls the inventory and holds
\* the mutex, and the stock is never negative (CircuitBreaker.Call, reserveInventory).
THEOREM TypeCorrect == Spec => []TypeOK
  <1>1. TypedInv => TypeOK
    BY DEF TypedInv, TypeInv
  <1> QED
    BY <1>1, TypedAlways, PTL

-----------------------------------------------------------------------------
(* The answers.  Until its call starts, an order has no request; until it is *)
(* done, no answer.                                                          *)

AnswerOK(o) ==
    /\ order[o].pc \in {"idle", "waiting"} => request[o] = "none"
    /\ order[o].pc # "done" => order[o].answer = "none"
    /\ order[o].answer = "success" => request[o] = "reserved"
    /\ order[o].answer \in {"invalid", "circuit open"} => request[o] = "none"

AnswerInv == \A o \in Orders : AnswerOK(o)

LEMMA OneOrder ==
  ASSUME AnswerInv, NEW o \in Orders, AnswerOK(o)',
         \A p \in Orders \ {o} : order'[p] = order[p] /\ request'[p] = request[p]
  PROVE  AnswerInv'
  <1> SUFFICES ASSUME NEW p \in Orders, p # o PROVE AnswerOK(p)'
    BY DEF AnswerInv
  <1> QED
    BY DEF AnswerInv, AnswerOK

LEMMA AnswerStep ==
  ASSUME TypedInv, AnswerInv, [Next]_vars
  PROVE  AnswerInv'
  <1>1. TypeOK /\ order \in [Orders -> OrderRec] /\ request \in [Orders -> RequestState]
    BY DEF TypedInv, TypeInv, TypeOK
  <1>2. ASSUME NEW o \in Orders, PlaceOrder(o) \/ Reject(o) PROVE AnswerInv'
    <2>1. /\ \/ GotoEffect(o, "waiting", order[o].answer)
             \/ GotoEffect(o, "done", "invalid")
             \/ GotoEffect(o, "done", "circuit open")
          /\ order[o].pc \in {"idle", "waiting"} /\ request' = request
      BY <1>1, <1>2, GotoFacts, AnswerFacts DEF PlaceOrder, Reject
    <2>2. AnswerOK(o)'
      BY <2>1 DEF AnswerInv, AnswerOK, GotoEffect
    <2> QED
      BY <2>1, <2>2, OneOrder DEF GotoEffect
  <1>3. ASSUME NEW o \in Orders, StartCall(o) PROVE AnswerInv'
    <2>1. /\ GotoEffect(o, "calling", order[o].answer) /\ order[o].pc = "waiting"
          /\ \A p \in Orders \ {o} : request'[p] = request[p]
      BY <1>1, <1>3, GotoFacts DEF StartCall
    <2>2. AnswerOK(o)'
      BY <2>1 DEF AnswerInv, AnswerOK, GotoEffect
    <2> QED
      BY <2>1, <2>2, OneOrder DEF GotoEffect
  <1>4. ASSUME NEW o \in Orders, CallReturns(o) PROVE AnswerInv'
    <2>1. /\ \/ GotoEffect(o, "done", "success") /\ request[o] = "reserved"
             \/ GotoEffect(o, "done", "failed")
          /\ request' = request
      BY <1>1, <1>4, AnswerFacts DEF CallReturns, Accepted
    <2>2. AnswerOK(o)'
      BY <2>1 DEF AnswerInv, AnswerOK, GotoEffect
    <2> QED
      BY <2>1, <2>2, OneOrder DEF GotoEffect
  <1>5. ASSUME NEW o \in Orders, CallFails(o) PROVE AnswerInv'
    <2>1. /\ GotoEffect(o, "done", "failed")
          /\ \A p \in Orders \ {o} : request'[p] = request[p]
      BY <1>1, <1>5, AnswerFacts DEF CallFails
    <2>2. AnswerOK(o)'
      BY <2>1 DEF AnswerInv, AnswerOK, GotoEffect
    <2> QED
      BY <2>1, <2>2, OneOrder DEF GotoEffect
  <1>6. ASSUME NEW o \in Orders, ReserveInventory(o) PROVE AnswerInv'
    <2>1. /\ order' = order /\ request[o] = "sent"
          /\ \A p \in Orders \ {o} : request'[p] = request[p]
      BY <1>1, <1>6 DEF ReserveInventory
    <2>2. AnswerOK(o)'
      BY <2>1 DEF AnswerInv, AnswerOK
    <2> QED
      BY <2>1, <2>2, OneOrder
  <1>7. CASE UNCHANGED <<order, request>>
    BY <1>7 DEF AnswerInv, AnswerOK
  <1>8. (Tick \/ UNCHANGED vars \/ \E h \in HealthChecks : Healthz(h) \/ State(h))
           => UNCHANGED <<order, request>>
    BY DEF Tick, Healthz, State, vars, callVars
  <1> QED
    BY <1>2, <1>3, <1>4, <1>5, <1>6, <1>7, <1>8 DEF Next, Handling

\* A success is reserved in the inventory, and an order rejected for its input or
\* by the breaker never reached it, whatever was lost or handled late
\* (placeOrder, reserveInventory).
THEOREM AnswersAreTruthful == Spec => []AnswersTruthful
  <1>1. Init => AnswerInv
    BY DEF Init, AnswerInv, AnswerOK
  <1>2. TypedInv /\ AnswerInv /\ [Next]_vars => AnswerInv'
    BY AnswerStep
  <1>3. AnswerInv => AnswersTruthful
    BY DEF AnswerInv, AnswerOK, AnswersTruthful
  <1> QED
    BY <1>1, <1>2, <1>3, TypedAlways, PTL DEF Spec

-----------------------------------------------------------------------------
(* The refinement of BreakerPromise.                                        *)

LEMMA RejectingIsBoolean == Rejecting \in BOOLEAN
  BY DEF Rejecting

\* An unchanged breaker goes on rejecting as long as no time passes, and only an
\* open one rejects.
LEMMA RejectingSame ==
  ASSUME UNCHANGED <<cb, now>>
  PROVE  Rejecting' = Rejecting
  BY DEF Rejecting

LEMMA NotRejecting ==
  ASSUME cb.state # "open"
  PROVE  Rejecting = FALSE
  BY DEF Rejecting

LEMMA NotRejectingNext ==
  ASSUME cb'.state # "open"
  PROVE  Rejecting' = FALSE
  BY DEF Rejecting

LEMMA RejectingNext ==
  ASSUME now \in Nat, cb'.state = "open", cb'.openedAt = now, now' = now
  PROVE  Rejecting' = TRUE
  <1>1. now' - cb'.openedAt < Timeout
    BY BreakerAssumption
  <1> QED
    BY <1>1 DEF Rejecting

\* The promise's window of the last FailureThreshold outcomes, and the counter.
LEMMA ClosedWindow ==
  ASSUME TypedInv, cb.state = "closed", NEW r \in Outcomes
  PROVE  Promise!EndsIn(Append(recent, r), "failure", FailureThreshold)
            <=> r = "failure" /\ cb.failureCount + 1 >= FailureThreshold
  <1> DEFINE s == Append(recent, r)
             n == cb.failureCount
             len == Len(recent)
  <1>1. /\ n \in Nat /\ n < FailureThreshold /\ FailingFor(n) /\ len \in Nat
        /\ FailureThreshold \in Nat \ {0} /\ recent \in Seq(Outcomes)
    BY StateTypes, BreakerAssumption DEF TypedInv, TypeInv, CountsOK
  <1>2. /\ Len(s) = len + 1 /\ s[len + 1] = r /\ \A i \in 1 .. len : s[i] = recent[i]
    BY AppendFacts DEF TypedInv, TypeInv
  <1>3. /\ n <= len /\ \A i \in 1 .. len : i > len - n => recent[i] = "failure"
        /\ n < len => recent[len - n] = "success"
    BY <1>1 DEF FailingFor
  <1>4. Promise!EndsIn(s, "failure", FailureThreshold)
           <=> /\ Len(s) >= FailureThreshold
               /\ \A i \in (Len(s) - FailureThreshold + 1) .. Len(s) : s[i] = "failure"
    BY DEF Promise!EndsIn
  <1> SUFFICES Promise!EndsIn(s, "failure", FailureThreshold)
                  <=> r = "failure" /\ n + 1 >= FailureThreshold
    OBVIOUS
  <1> HIDE DEF s, n, len
  <1>5. CASE r # "failure"
    <2>1. len + 1 \in (Len(s) - FailureThreshold + 1) .. Len(s)
      BY <1>1, <1>2
    <2>2. s[len + 1] # "failure"
      BY <1>2, <1>5
    <2> QED
      BY <1>4, <1>5, <2>1, <2>2
  <1>6. CASE r = "failure" /\ n + 1 >= FailureThreshold
    <2>1. n = FailureThreshold - 1 /\ Len(s) >= FailureThreshold
      BY <1>1, <1>2, <1>3, <1>6
    <2>2. ASSUME NEW i \in (Len(s) - FailureThreshold + 1) .. Len(s) PROVE s[i] = "failure"
      <3>1. i = len + 1 \/ (i \in 1 .. len /\ i > len - n)
        BY <1>1, <1>2, <1>3, <2>1, <2>2
      <3> QED
        BY <1>2, <1>3, <1>6, <3>1
    <2> QED
      BY <1>4, <1>6, <2>1, <2>2
  <1>7. CASE r = "failure" /\ n + 1 < FailureThreshold
    <2>1. ASSUME n < len PROVE s[len - n] = "success"
      BY <1>1, <1>2, <1>3, <2>1
    <2>2. ASSUME n < len, len + 1 >= FailureThreshold
          PROVE len - n \in (Len(s) - FailureThreshold + 1) .. Len(s)
      BY <1>1, <1>2, <1>7, <2>2
    <2>3. ASSUME Promise!EndsIn(s, "failure", FailureThreshold) PROVE FALSE
      <3>1. len + 1 >= FailureThreshold /\ n < len
        BY <1>1, <1>2, <1>4, <1>7, <2>3
      <3>2. s[len - n] = "success" /\ s[len - n] = "failure"
        BY <1>4, <2>1, <2>2, <2>3, <3>1
      <3> QED
        BY <3>2
    <2>4. ~(n + 1 >= FailureThreshold)
      BY <1>1, <1>7
    <2> QED
      BY <2>3, <2>4
  <1> QED
    BY <1>1, <1>5, <1>6, <1>7

LEMMA HalfOpenWindow ==
  ASSUME TypedInv, cb.state = "half-open"
  PROVE  Promise!EndsIn(Append(recent, "success"), "success", SuccessThreshold)
            <=> cb.successCount + 1 >= SuccessThreshold
  <1> DEFINE s == Append(recent, "success")
  <1>1. /\ cb.successCount = Len(recent) /\ Len(recent) \in Nat
        /\ SuccessThreshold \in Nat \ {0} /\ \A i \in 1 .. Len(recent) : recent[i] = "success"
    BY StateTypes, BreakerAssumption DEF TypedInv, TypeInv, CountsOK
  <1>2. /\ Len(s) = Len(recent) + 1 /\ s[Len(recent) + 1] = "success"
        /\ \A i \in 1 .. Len(recent) : s[i] = recent[i]
    BY AppendFacts DEF TypedInv, TypeInv, Outcomes
  <1> HIDE DEF s
  <1>3. \A i \in 1 .. Len(s) : s[i] = "success"
    BY <1>1, <1>2
  <1>4. Promise!EndsIn(s, "success", SuccessThreshold)
           <=> /\ Len(s) >= SuccessThreshold
               /\ \A i \in (Len(s) - SuccessThreshold + 1) .. Len(s) : s[i] = "success"
    BY DEF Promise!EndsIn
  <1> QED
    BY <1>1, <1>2, <1>3, <1>4 DEF s

LEMMA SuccessImplements ==
  ASSUME TypedInv, Success, UNCHANGED now
  PROVE  Promise!Outcome("success")
  <1>1. cb.state \in {"closed", "half-open"} /\ "success" \in Outcomes
    BY StateTypes DEF TypedInv, TypeInv, Success, Outcomes
  <1>2. cb'.state # "open" /\ cb.state # "open"
    BY <1>1 DEF Success
  <1>3. Rejecting' = Rejecting
    BY <1>2, NotRejecting, NotRejectingNext
  <1>4. CASE cb.state = "closed"
    <2>1. ~Promise!EndsIn(Append(recent, "success"), "failure", FailureThreshold)
      BY <1>1, <1>4, ClosedWindow
    <2>2. cb'.state = cb.state /\ recent' = Append(recent, "success")
      BY <1>4 DEF Success
    <2> QED
      BY <1>3, <1>4, <2>1, <2>2 DEF Promise!Outcome, Promise!Stay
  <1>5. CASE cb.state = "half-open"
    <2>1. Promise!EndsIn(Append(recent, "success"), "success", SuccessThreshold)
             <=> cb.successCount + 1 >= SuccessThreshold
      BY <1>5, HalfOpenWindow
    <2>2. cb.successCount \in Nat
      BY StateTypes DEF TypedInv, TypeInv
    <2>3. IF cb.successCount + 1 >= SuccessThreshold
          THEN cb'.state = "closed" /\ recent' = <<>>
          ELSE recent' = Append(recent, "success") /\ cb'.state = cb.state
      BY <1>5, <2>2, BreakerAssumption DEF Success
    <2> QED
      BY <1>3, <1>5, <2>1, <2>3 DEF Promise!Outcome, Promise!Stay, Promise!Enter
  <1> QED
    BY <1>1, <1>4, <1>5

LEMMA FailureImplements ==
  ASSUME TypedInv, Failure, UNCHANGED now
  PROVE  Promise!Outcome("failure")
  <1>1. /\ cb.state \in {"closed", "half-open"} /\ "failure" \in Outcomes
        /\ now \in Nat /\ cb.failureCount \in Nat
    BY StateTypes DEF TypedInv, TypeInv, Failure, Outcomes
  <1>2. CASE cb.state = "closed" /\ cb.failureCount + 1 < FailureThreshold
    <2>1. ~Promise!EndsIn(Append(recent, "failure"), "failure", FailureThreshold)
      BY <1>1, <1>2, ClosedWindow, BreakerAssumption
    <2>2. cb'.state = cb.state /\ recent' = Append(recent, "failure")
      BY <1>1, <1>2, BreakerAssumption DEF Failure
    <2>3. Rejecting' = Rejecting
      BY <1>2, <2>2, NotRejecting, NotRejectingNext
    <2> QED
      BY <1>2, <2>1, <2>2, <2>3 DEF Promise!Outcome, Promise!Stay
  <1>3. CASE cb.state = "half-open" \/ cb.failureCount + 1 >= FailureThreshold
    <2>1. cb'.state = "open" /\ cb'.openedAt = now /\ recent' = <<>>
      BY <1>1, <1>3, BreakerAssumption DEF Failure
    <2>2. Rejecting' = TRUE
      BY <1>1, <2>1, RejectingNext
    <2>3. CASE cb.state = "half-open"
      BY <2>1, <2>2, <2>3 DEF Promise!Outcome, Promise!Enter
    <2>4. CASE cb.state = "closed" /\ cb.failureCount + 1 >= FailureThreshold
      <3>1. Promise!EndsIn(Append(recent, "failure"), "failure", FailureThreshold)
        BY <1>1, <2>4, ClosedWindow
      <3> QED
        BY <2>1, <2>2, <2>4, <3>1 DEF Promise!Outcome, Promise!Enter
    <2> QED
      BY <1>1, <1>3, <2>3, <2>4
  <1> QED
    BY <1>1, <1>2, <1>3, BreakerAssumption DEF Failure

\* A step of the service is an outcome, the start of a test, the end of the
\* timeout, or nothing to the breaker.
LEMMA PromiseStep ==
  ASSUME TypedInv, [Next]_vars
  PROVE  [Promise!Next]_Promise!vars
  <1>1. CASE CallStep
    <2>1. (Success \/ Failure) /\ UNCHANGED now
      BY <1>1, CallFacts DEF CallStep, CallReturns, CallFails
    <2> QED
      BY <2>1, SuccessImplements, FailureImplements DEF Promise!Next
  <1>2. ASSUME NEW o \in Orders, StartCall(o)
        PROVE  Promise!Probe \/ UNCHANGED Promise!vars
    <2>1. UNCHANGED now
      BY <1>2 DEF StartCall
    <2>2. CASE UNCHANGED <<cb, recent>>
      BY <2>1, <2>2, RejectingSame DEF Promise!vars
    <2>3. CASE /\ cb.state = "open" /\ cb'.state = "half-open" /\ ~Rejecting
               /\ recent' = <<>>
      <3>1. Rejecting = FALSE
        BY <2>3, RejectingIsBoolean
      <3>2. Rejecting' = Rejecting
        BY <2>3, <3>1, NotRejectingNext
      <3> QED
        BY <2>3, <3>2 DEF Promise!Probe, Promise!Enter
    <2> QED
      BY <1>2, <2>2, <2>3, StartFacts
  <1>3. CASE Tick
    <2>1. /\ UNCHANGED <<cb, recent>> /\ now \in Nat /\ now' = now + 1
          /\ cb.openedAt \in Nat
      BY <1>3, StateTypes DEF Tick, TypedInv, TypeInv
    <2>2. Rejecting' => Rejecting
      BY <2>1, BreakerAssumption DEF Rejecting
    <2>3. CASE Rejecting' = Rejecting
      BY <2>1, <2>3 DEF Promise!vars
    <2>4. CASE Rejecting = TRUE /\ Rejecting' = FALSE
      BY <2>1, <2>4 DEF Promise!Next, Promise!Cool
    <2>5. Rejecting' \in BOOLEAN
      BY RejectingIsBoolean DEF Rejecting
    <2> QED
      BY <2>2, <2>3, <2>4, <2>5, RejectingIsBoolean
  <1>4. CASE Aside /\ ~Tick
    <2>1. UNCHANGED <<cb, now, recent>>
      BY <1>4, AsideFacts
      DEF Aside, PlaceOrder, Reject, ReserveInventory, Healthz, State, vars
    <2> QED
      BY <2>1, RejectingSame DEF Promise!vars
  <1> QED
    BY <1>1, <1>2, <1>3, <1>4, StepKinds DEF Aside, Promise!Next

\* The breaker implements its promise: the counters, shared by its three states,
\* open it after exactly FailureThreshold failures in a row, close it after
\* SuccessThreshold successes in a row of a test, are never left over from an
\* earlier phase, and an open breaker rejects for the whole timeout (CircuitBreaker).
THEOREM BreakerKeepsPromise == Spec => BreakerSpec
  <1>1. Init => Promise!Init
    <2>1. ASSUME Init PROVE cb.state = "closed" /\ recent = <<>>
      BY <2>1 DEF Init
    <2>2. ASSUME Init PROVE Rejecting = FALSE
      BY <2>1, <2>2, NotRejecting
    <2> QED
      BY <2>1, <2>2 DEF Promise!Init
  <1>2. TypedInv /\ [Next]_vars => [Promise!Next]_Promise!vars
    BY PromiseStep
  <1> QED
    BY <1>1, <1>2, TypedAlways, PTL DEF Spec, BreakerSpec, Promise!Spec
=============================================================================
