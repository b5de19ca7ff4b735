---------------------------- MODULE ShoppingCarts ----------------------------
(***************************************************************************)
(* The shopping carts of HW8/main.go.  The service keeps them in MySQL or  *)
(* in DynamoDB, as USE_DYNAMO says when it starts.  A cart is the sequence *)
(* of its lines.  MySQL numbers carts, adds the quantities of a product in *)
(* one line and reads what was committed; the DynamoDB code takes a cart's *)
(* identifier from the clock, appends a line for every addition and reads  *)
(* with eventual consistency.                                              *)
(***************************************************************************)
EXTENDS Integers, Sequences, FiniteSets

CONSTANTS Creates, Adds, Gets,   \* requests
          Products, Quantities,
          NoCart,                \* what the table holds without a cart
          Period,                \* 10^9 ns: identifiers are taken modulo Period
          MaxInt,                \* largest value of MySQL's INT
          MaxAttempts,           \* the SDK's default retryer: 3 calls of DynamoDB
          MaxTime, MaxFailures   \* bounds: the clock, failing calls

Line == [product : Products, quantity : Nat]

ASSUME CartAssumption == /\ Period \in Nat \ {0} /\ MaxInt \in Nat
                         /\ Quantities \subseteq 1 .. MaxInt
                         /\ NoCart \notin Seq(Line)
                         /\ MaxAttempts \in Nat \ {0}
                         /\ MaxTime \in Nat \ {0} /\ MaxFailures \in Nat
ASSUME RequestAssumption == IsFiniteSet(Creates) /\ IsFiniteSet(Adds)

VARIABLES backend,   \* mysql or dynamo
          table,     \* the lines of each cart
          past,      \* DynamoDB: every value an item has had
          nextId,    \* MySQL: AUTO_INCREMENT of carts
          create, add, get,
          now, failures

requests == <<create, add, get>>
vars == <<backend, table, past, nextId, requests, now, failures>>

Ids == 0 .. (IF Period > Cardinality(Creates) THEN Period ELSE Cardinality(Creates))
CreateRec == [pc : {"idle", "sent", "stored", "done"}, id : Ids,
              answer : {"none", "created", "error"}]
AddRec == [pc : {"idle", "checking", "sent", "stored", "done"}, id : Ids,
           product : Products, quantity : Quantities, known : BOOLEAN,
           attempt : 1 .. MaxAttempts,
           answer : {"none", "invalid", "not found", "added", "error"}]
GetRec == [pc : {"idle", "reading", "listing", "done"}, id : Ids, known : BOOLEAN,
           before : SUBSET Adds, lines : Seq(Line), cut : BOOLEAN,
           answer : {"none", "invalid", "not found", "found", "error"}]

Init == /\ backend \in {"mysql", "dynamo"}
        /\ table = [i \in Ids |-> NoCart]
        /\ past = [i \in Ids |-> {NoCart}]
        /\ nextId = 1
        /\ create = [c \in Creates |-> [pc |-> "idle", id |-> 0, answer |-> "none"]]
        /\ add \in [Adds -> {[pc |-> "idle", id |-> 0, product |-> p, quantity |-> q,
                              known |-> FALSE, attempt |-> 1, answer |-> "none"] :
                               p \in Products, q \in Quantities}]
        /\ get = [g \in Gets |-> [pc |-> "idle", id |-> 0, known |-> FALSE, before |-> {},
                                  lines |-> <<>>, cut |-> FALSE, answer |-> "none"]]
        /\ now = 1
        /\ failures = 0

Fails == failures < MaxFailures /\ failures' = failures + 1
Store(i, lines) == /\ table' = [table EXCEPT ![i] = lines]
                   /\ past' = IF backend = "mysql" THEN past
                              ELSE [past EXCEPT ![i] = past[i] \cup {lines}]

\* A client has been told of the cart.
Known(i) == \E c \in Creates : create[c].id = i /\ create[c].answer = "created"
-----------------------------------------------------------------------------
(* createCartHandler, createCartDynamoHandler. *)

NewId == IF backend = "mysql" THEN 0 ELSE now % Period

CreateCart(c) ==
    /\ create[c].pc = "idle"
    /\ create' = [create EXCEPT ![c].pc = "sent", ![c].id = NewId]
    /\ UNCHANGED <<backend, table, past, nextId, add, get, now, failures>>

InsertCart(c) ==
    /\ create[c].pc = "sent" /\ backend = "mysql"
    /\ Store(nextId, <<>>)
    /\ nextId' = nextId + 1
    /\ create' = [create EXCEPT ![c].pc = "stored", ![c].id = nextId]
    /\ UNCHANGED <<backend, add, get, now, failures>>

\* PutItem replaces what it finds.
PutCart(c) ==
    /\ create[c].pc = "sent" /\ backend = "dynamo"
    /\ Store(create[c].id, <<>>)
    /\ create' = [create EXCEPT ![c].pc = "stored"]
    /\ UNCHANGED <<backend, nextId, add, get, now, failures>>

\* The response is lost and the SDK puts the item again.
PutRepeated(c) ==
    /\ Fails
    /\ create[c].pc = "sent" /\ backend = "dynamo"
    /\ Store(create[c].id, <<>>)
    /\ UNCHANGED <<backend, nextId, requests, now>>

CreateReturns(c) ==
    /\ create[c].pc = "stored"
    /\ create' = [create EXCEPT ![c].pc = "done", ![c].answer = "created"]
    /\ UNCHANGED <<backend, table, past, nextId, add, get, now, failures>>

CreateFails(c) ==
    /\ Fails
    /\ create[c].pc \in {"sent", "stored"}
    /\ create' = [create EXCEPT ![c].pc = "done", ![c].answer = "error"]
    /\ UNCHANGED <<backend, table, past, nextId, add, get, now>>
-----------------------------------------------------------------------------
(* addItemsHandler, addItemsDynamoHandler. *)

AddAnswer(a, answer) == add' = [add EXCEPT ![a].pc = "done", ![a].answer = answer]

\* Both handlers reject the identifier 0; only MySQL's looks for the cart.
AddItems(a, i) ==
    /\ add[a].pc = "idle"
    /\ add' = [add EXCEPT
                 ![a].pc = IF i = 0 THEN "done" ELSE IF backend = "mysql" THEN "checking"
                                                                          ELSE "sent",
                 ![a].answer = IF i = 0 THEN "invalid" ELSE "none",
                 ![a].id = i, ![a].known = Known(i)]
    /\ UNCHANGED <<backend, table, past, nextId, create, get, now, failures>>

\* Faulty variant: looks for the cart among its items.
FoundByItems(i) == table[i] \notin {NoCart, <<>>}

Found(i) == table[i] # NoCart

CheckCart(a) ==
    /\ add[a].pc = "checking"
    /\ IF Found(add[a].id) THEN add' = [add EXCEPT ![a].pc = "sent"]
                           ELSE AddAnswer(a, "not found")
    /\ UNCHANGED <<backend, table, past, nextId, create, get, now, failures>>

\* The error of this query is dropped, and the cart taken for missing.
CheckFails(a) ==
    /\ Fails
    /\ add[a].pc = "checking"
    /\ AddAnswer(a, "not found")
    /\ UNCHANGED <<backend, table, past, nextId, create, get, now>>

\* Faulty variant: the new quantity replaces the old one.
MergedReplaces(old, new) == new

Merged(old, new) == old + new

\* Faulty variant: no unique key, the insert never meets a duplicate.
UpsertAppends(lines, p, q) == Append(lines, [product |-> p, quantity |-> q])

\* INSERT ... ON DUPLICATE KEY UPDATE quantity = quantity + VALUES(quantity)
Upsert(lines, p, q) ==
    IF \E j \in DOMAIN lines : lines[j].product = p
    THEN [j \in DOMAIN lines |-> IF lines[j].product = p
                                 THEN [lines[j] EXCEPT !.quantity = Merged(lines[j].quantity, q)]
                                 ELSE lines[j]]
    ELSE Append(lines, [product |-> p, quantity |-> q])

\* A quantity that does not fit the column is an error.
InsertItem(a) ==
    LET after == Upsert(table[add[a].id], add[a].product, add[a].quantity) IN
    /\ add[a].pc = "sent" /\ backend = "mysql"
    /\ IF \A j \in DOMAIN after : after[j].quantity <= MaxInt
       THEN Store(add[a].id, after) /\ add' = [add EXCEPT ![a].pc = "stored"]
       ELSE AddAnswer(a, "error") /\ UNCHANGED <<table, past>>
    /\ UNCHANGED <<backend, nextId, create, get, now, failures>>

\* list_append(if_not_exists(#items, :empty), :newItem), without a cart as well.
Appended(a) ==
    LET old == IF table[add[a].id] = NoCart THEN <<>> ELSE table[add[a].id]
    IN  Append(old, [product |-> add[a].product, quantity |-> add[a].quantity])

AppendItem(a) ==
    /\ add[a].pc = "sent" /\ backend = "dynamo"
    /\ Store(add[a].id, Appended(a))
    /\ add' = [add EXCEPT ![a].pc = "stored"]
    /\ UNCHANGED <<backend, nextId, create, get, now, failures>>

\* The response is lost and the SDK sends the same append again.
AppendRepeated(a) ==
    /\ Fails
    /\ add[a].pc = "sent" /\ backend = "dynamo" /\ add[a].attempt < MaxAttempts
    /\ Store(add[a].id, Appended(a))
    /\ add' = [add EXCEPT ![a].attempt = add[a].attempt + 1]
    /\ UNCHANGED <<backend, nextId, create, get, now>>

AddReturns(a) ==
    /\ add[a].pc = "stored"
    /\ AddAnswer(a, "added")
    /\ UNCHANGED <<backend, table, past, nextId, create, get, now, failures>>

AddFails(a) ==
    /\ Fails
    /\ add[a].pc \in {"sent", "stored"}
    /\ AddAnswer(a, "error")
    /\ UNCHANGED <<backend, table, past, nextId, create, get, now>>
-----------------------------------------------------------------------------
(* getCartHandler, getCartDynamoHandler. *)

GetAnswer(g, answer, lines) ==
    get' = [get EXCEPT ![g].pc = "done", ![g].answer = answer, ![g].lines = lines]
Unread == UNCHANGED <<backend, table, past, nextId, create, add, now>>

GetCart(g, i) ==
    /\ get[g].pc = "idle"
    /\ get' = [get EXCEPT ![g].pc = IF i = 0 THEN "done" ELSE "reading",
                          ![g].answer = IF i = 0 THEN "invalid" ELSE "none",
                          ![g].id = i, ![g].known = Known(i),
                          ![g].before = {a \in Adds : add[a].id = i /\ add[a].answer = "added"}]
    /\ Unread /\ failures' = failures

ReadRow(g) ==
    /\ get[g].pc = "reading" /\ backend = "mysql"
    /\ IF table[get[g].id] = NoCart THEN GetAnswer(g, "not found", <<>>)
                                    ELSE get' = [get EXCEPT ![g].pc = "listing"]
    /\ Unread /\ failures' = failures

\* Faulty variant: the first row is skipped.
ListedFromSecond(lines) == IF lines = <<>> THEN lines ELSE Tail(lines)

Listed(lines) == lines

ReadItems(g) ==
    /\ get[g].pc = "listing"
    /\ GetAnswer(g, "found", Listed(table[get[g].id]))
    /\ Unread /\ failures' = failures

\* The rows end early: the error of the iteration is not looked at.
ReadItemsCut(g) ==
    /\ Fails
    /\ get[g].pc = "listing"
    /\ \E n \in 0 .. Len(table[get[g].id]) :
          get' = [get EXCEPT ![g].pc = "done", ![g].answer = "found", ![g].cut = TRUE,
                             ![g].lines = SubSeq(table[get[g].id], 1, n)]
    /\ Unread

\* GetItem may return any value the item has had.
ReadItem(g) ==
    /\ get[g].pc = "reading" /\ backend = "dynamo"
    /\ \E lines \in past[get[g].id] :
          IF lines = NoCart THEN GetAnswer(g, "not found", <<>>)
                            ELSE GetAnswer(g, "found", lines)
    /\ Unread /\ failures' = failures

GetFails(g) ==
    /\ Fails
    /\ get[g].pc \in {"reading", "listing"}
    /\ GetAnswer(g, IF backend = "mysql" THEN "error" ELSE "not found", <<>>)
    /\ Unread

\* Only DynamoDB's creates look at the clock.
Tick == /\ now < MaxTime
        /\ backend = "dynamo" /\ \E c \in Creates : create[c].pc = "idle"
        /\ now' = now + 1
        /\ UNCHANGED <<backend, table, past, nextId, requests, failures>>
-----------------------------------------------------------------------------
Next == \/ \E c \in Creates : \/ CreateCart(c) \/ InsertCart(c) \/ PutCart(c)
                              \/ PutRepeated(c) \/ CreateReturns(c) \/ CreateFails(c)
        \/ \E a \in Adds : \/ \E i \in Ids : AddItems(a, i)
                           \/ CheckCart(a) \/ CheckFails(a) \/ InsertItem(a)
                           \/ AppendItem(a) \/ AppendRepeated(a)
                           \/ AddReturns(a) \/ AddFails(a)
        \/ \E g \in Gets : \/ \E i \in Ids : GetCart(g, i)
                           \/ ReadRow(g) \/ ReadItems(g) \/ ReadItemsCut(g)
                           \/ ReadItem(g) \/ GetFails(g)
        \/ Tick

Spec == Init /\ [][Next]_vars
-----------------------------------------------------------------------------
\* The types, and UNIQUE KEY (cart_id, product_id): no product has two lines.
TypeOK ==
    /\ backend \in {"mysql", "dynamo"}
    /\ \A i \in Ids : table[i] = NoCart \/ table[i] \in Seq(Line)
    /\ backend = "dynamo" => \A i \in Ids : table[i] \in past[i]
    /\ backend = "mysql" =>
         \A i \in Ids : table[i] # NoCart =>
            \A j, k \in DOMAIN table[i] : table[i][j].product = table[i][k].product => j = k
    /\ nextId \in 1 .. (Cardinality(Creates) + 1)
    /\ create \in [Creates -> CreateRec]
    /\ add \in [Adds -> AddRec]
    /\ get \in [Gets -> GetRec]
    /\ now \in 1 .. MaxTime
    /\ failures \in 0 .. MaxFailures
-----------------------------------------------------------------------------
\* The sum of f over S, as the number of its units.
Units(f, S) == UNION {{x} \X (1 .. f[x]) : x \in S}
SumOver(f, S) == Cardinality(Units(f, S))

QuantityOf(lines, p) == SumOver([j \in DOMAIN lines |-> lines[j].quantity],
                                {j \in DOMAIN lines : lines[j].product = p})
\* The calls of the store an addition makes, one for each of its attempts: the
\* one it is at and those whose response was lost.
Calls == Adds \X (1 .. MaxAttempts)
Requested(i, p) == {c \in Calls : /\ add[c[1]].id = i /\ add[c[1]].product = p
                                  /\ c[2] <= add[c[1]].attempt}
Latest(c) == c[2] = add[c[1]].attempt
Sum(calls) == SumOver([c \in Calls |-> add[c[1]].quantity], calls)

\* The calls that took effect, or, answered with an error, may have.
Possible(i, p) ==
    {c \in Requested(i, p) : \/ ~Latest(c) \/ add[c[1]].pc = "stored"
                             \/ add[c[1]].answer \in {"added", "error"}}

\* One create at most took the identifier: always so with MySQL.
Sole(i) == Cardinality({c \in Creates : create[c].pc # "idle" /\ create[c].id = i}) <= 1

\* What a cart holds is what its clients added.  Nothing answered 204 is lost: for a
\* DynamoDB cart as long as no other took its identifier, and for additions made
\* after its creation was answered.  Nothing answered 404 or 400 is there, and an
\* addition counts once for each of its calls that the store received: with MySQL
\* once, with DynamoDB once more for every response that the SDK lost and did not
\* tell of (the handlers of additions), whatever ran at the same time.
TotalsExact ==
    \A i \in Ids : table[i] # NoCart => \A p \in Products :
        LET total == QuantityOf(table[i], p)
            acked == {c \in Requested(i, p) : /\ Latest(c) /\ add[c[1]].known
                                              /\ add[c[1]].answer = "added"}
        IN  total <= Sum(Possible(i, p)) /\ (Sole(i) => Sum(acked) <= total)

\* A read shows no more than the calls made so far can have stored, and from MySQL
\* everything that was answered before it began, unless its own rows were cut
\* short by an error that nobody looks at (getCartHandler).
ReadsCurrent ==
    \A g \in Gets : get[g].answer = "found" => \A p \in Products :
        LET shown == QuantityOf(get[g].lines, p)
            asked == Requested(get[g].id, p)
        IN  /\ shown <= Sum(Possible(get[g].id, p))
            /\ backend = "mysql" /\ ~get[g].cut =>
                  shown >= Sum({c \in asked : Latest(c) /\ c[1] \in get[g].before})

\* A client that was given a cart's identifier is told "not found" only when a
\* call failed, and by DynamoDB's reads also when they are stale; "invalid" only
\* for the identifier 0, which the clock can produce.
NotFoundTruthful ==
    /\ \A a \in Adds : add[a].known =>
          /\ add[a].answer = "not found" => failures > 0
          /\ add[a].answer = "invalid" => backend = "dynamo" /\ add[a].id = 0
    /\ \A g \in Gets :
          get[g].known /\ get[g].answer = "not found" => failures > 0 \/ backend = "dynamo"
=============================================================================
