# Verification of the CS6650 distributed-systems services

The repository is a course's collection of small distributed services in Go. This
directory models the ones whose correctness depends on the order of concurrent steps
and on failing calls, checks them with TLC on small instances, and proves the central
results for every instance with TLAPS.

## 1. The system

| part | state | operations | what is hard |
|---|---|---|---|
| `HW10/common` store | a map from key to (value, version), a counter | `Set`, `SetWithVersion`, `Get`, each under one mutex; `/internal/set`, `/internal/get` | replications applied in any order, over URLs that are not escaped |
| `HW10/leader` | a store per node; the leader's follower list and strategy | `/set` and `/get` under w5r1, w1r5 or w3r3, `/config/*`, a follower's own `/set` | background goroutines, failing calls, runtime configuration, reads racing writes |
| `HW10/leaderless` | a store and a peer list per node | `/set` on any node, replicated to all peers one by one, `/get`, `/config/peers` | two coordinators of one key, an abort half-way |
| `HW10/loadtester` | last answered version per key | drives the services and counts stale reads | - |
| `Final_mastery` API | DynamoDB table, S3 bucket, each task's `activeUploads` | post, get and delete of photos, upload goroutines, albums | delete against upload on two tasks, failing calls, exits |
| `Final_mastery` worker | SQS queue, staged and final objects | move a staged photo, update its status, delete the message | redelivery after the visibility timeout, deletes meanwhile, errors told apart by their text |
| `Midterm` order service | circuit breaker and its mutex, inventory | `placeOrder`, `Call`, `healthz`, reserve | counters across the breaker's states, a lost response, a lock held during a call |
| `HW7` orders | payment slot, SNS/SQS queue, worker pool | synchronous and asynchronous orders | redelivery while a batch waits for workers, exits |
| `HW8` carts | MySQL tables or a DynamoDB table | create a cart, add an item, get | identifiers that repeat, upserts at once, calls the SDK repeats, dropped errors, stale reads |
| `HW4` MapReduce | objects in S3 | split, map, reduce | keys shared by all jobs, dropped errors, agreement with a direct count |
| `HW3` experiments | counters, maps, channels | timing programs | lost updates |
| `HW1`, `HW5`, `HW6` | a slice or a map | CRUD, bounded search | one data race |
| `HW2`, Terraform, Docker, Locust | - | deployment | - |

The services do not call one another across directories. Inside HW10 nodes talk by
HTTP, always towards `/internal/set` and `/internal/get`; the photo API and the
worker share the DynamoDB table and the bucket; the order service calls the inventory.

Correctness, per part:

* leader/follower: an answer promises a number of replicas; no replica goes back to an
  older entry; a client sees a linearizable register; every request is answered;
  replication finishes after the answer.
* leaderless: on its coordinator a write is not undone by an earlier one; with one coordinator
  per key a 201 means every peer has the write; an error leaves a known prefix of the peers.
* photos: numbers follow the order of posts; a deleted photo stays deleted; a completed
  record has a file; a deleted photo leaves no file; every accepted photo settles.
* worker: a staged file is moved or kept, never lost, whatever deliveries overlap; the
  record tells the truth; a delete leaves no file but in the named races.
* breaker: it opens on consecutive failures of the current phase and on nothing else,
  closes on consecutive successes, and its mutex is always released; an answer tells
  the truth about the reservation.
* orders of HW7: an order answered 202 is paid; with enough workers it is paid once.
* carts: what was answered 204 is in the cart, once for every call the store received;
  a read is complete; a "not found" is true.
* MapReduce: a job's counts are those of a direct count; jobs that overlap mix whole
  parts only.

## 2. Modules

| module | models | in terms of the code |
|---|---|---|
| `KVStore` | `common/store.go`, `common/internal_handlers.go` | operators from a store to a store; a missing key is an entry of version 0; what a handler parses is given by `Wire` and `WireKey` |
| `LeaderKV` | `leader/main.go`, `common/internal_handlers.go` | one action per step of a handler between two points where others may run |
| `VersionedRegister` | the promise of the leader to its clients | abstract: one numbered register per key, reads that return what it held meanwhile |
| `LeaderKVProofs` | - | the theorems about `LeaderKV` |
| `LeaderlessKV` | `leaderless/main.go`, `common/internal_handlers.go` | as `LeaderKV`, for a coordinator |
| `LeaderlessKVProofs` | - | the theorems about `LeaderlessKV` |
| `PhotoLifecycle` | `handler/photo.go`, the photo calls of `store/dynamodb.go` and `store/s3.go`, the exit of `cmd/api/main.go` | one action per call of a store, which may fail with or without effect |
| `PhotoStores` | the photos table of `store/dynamodb.go` | operators from a table to a table |
| `PhotoWorker` | `cmd/worker/main.go`, `queue/sqs.go`, the staging calls of `store/s3.go` | one action per call of a goroutine, and the queue's own steps |
| `BreakerPromise` | what a circuit breaker promises | abstract: the outcomes since the state was entered, and no counter |
| `OrderService` | `Midterm/order-system`: `circuitbreaker.go`, `order_service/main.go`, `inventory_service/main.go` | one action per step between lock, call, answer and unlock |
| `OrderQueue` | `HW7/app`: `handlers.go`, `processor.go`, `main.go`, and the SNS topic and SQS queue as used there | one action per step; sleeps and the visibility timeout are timers that `Tick` takes down |
| `ShoppingCarts` | `HW8/main.go`, both stores | one action per statement or call, its return and its failure |
| `MapReduce` | `HW4/mapreduce`: splitter, mapper, reducer, `benchmark.go` | one action per call of S3; the count itself is an operator |
| `PhotoLifecycleProofs`, `PhotoWorkerProofs`, `OrderServiceProofs`, `OrderQueueProofs`, `ShoppingCartsProofs`, `MapReduceProofs` | - | the theorems about the module of the name |
| `MC*` | - | instances for TLC: lists, wire functions, symmetry |

Operators whose comment begins with *Faulty variant* are not used by the
specifications. Each is a plausible bug, and `PROJECT.json` ("mutants") says which
property it breaks when it takes the place of the real operator.

### LeaderKV

A write request `q` is a record with the handler's local variables. `LeaderSet` is
`store.Set`; `ReadFollowers` and `ReadStrategy` are the two reads of the configuration,
which take the lock separately; `SendReplication`, `CallReturns` and `CallFails` are one
iteration of `replicateSequential`. Its answer is given when `AnswerAfterCall` says so,
and the rest of the list is then the background goroutine's: the record goes on with
the same loop. A replication is a member of `net` until the follower applies it
(`InternalSet`); a call that fails leaves it applied, lost, or still to be applied. A
read is a record too: the local entry (`ReadLocal`), one result per follower
(`FetchReturns`, `FetchFails`) and the collecting loop (`Receive`).

The replication's URL (`leader/main.go:287`) is built from key, value and version
without escaping them, and the handler takes the first parameter of a name. So what
it parses is a function of the key and the value: `Wire[k, v]` is the key and the value
parsed, with the version `Own`, which stands for the leader's, or another one that came
before it, or `Refused` when no key or no number is left (`a#` cuts off the version, and
the follower answers 400). `HandleSet` applies the parsed request and `Accepts` says
whether the call succeeds; `WireKey` does the same for `/internal/get`. The functions are
constants, so the theorems hold for whatever a URL does to its parameters. A client's own
request is taken as its handler parsed it.

Left out: a client's rejected requests (wrong method, empty key), which change nothing;
the sleeps, as any step may take any time; duplicates in a follower list; restarts, for
which the deployment has no policy.

### LeaderlessKV

`CoordinatorSet`, `ReadPeers`, `SendReplication`, `CallReturns` and `CallFails` follow
`setHandler`. The constant `MayWrite` says which nodes coordinate writes of which key:
keys of one coordinator and keys of several have different guarantees. Replications go
through the same unescaped URL (`leaderless/main.go:160`), hence through `Wire`; a call that
is refused ends the write with a 500 as a failing one does.

### PhotoLifecycle

A photo is named by its post, since each post draws a fresh UUID. `IncrementSeq`,
`PutPhoto` and `Accept` are the post; `StartUpload` to `CleanUp` the goroutine, small
and large files alike; `ReadRecord`, `CancelUpload`, `DeleteFile` and `DeleteRecord`
the delete. An upload or delete call takes effect at one moment; its failing
counterpart (`...Fails`) leaves either state. `Exit` ends every request and goroutine
of a task. DynamoDB and S3 are modelled as the code uses them: atomic calls on one item
or object, consistent reads, and an update with `attribute_exists`. A failed call never
takes effect later than its error, and the SDK's own retries of a call, which can only
leave a gap in the numbers, are part of the one call. The API writes no staged objects,
so the second delete of `S3Store.DeletePhoto` has nothing to do here.

### PhotoWorker

A delivery is a pair of a photo and its receive count, and its record says how far the
goroutine of `processMessage` is: `held` by the receive loop until the semaphore has a slot,
then copied, moved, marked and acknowledged. `VisibilityTimeout` may come at any of these
points, and makes the message visible again or, after `MaxReceives` deliveries, dead. The
queue is external; its visibility timeout and receive count are those of `terraform/sqs.tf`.
`DeletePhoto` of the API runs beside the workers, with its two S3 calls and the record's as
three steps, each of which may fail (`DeletePending`, `DeleteFails`). The current API stores
photos itself and stages none; the producer is the one of the repository's README (lines
99-106): `PutPhoto` writes the record and answers, then a goroutine does
`UploadPhotoToStaging` and `SendPhotoMessage`, whatever became of the photo meanwhile.
`AfterCopyError` is the classification of `s3.go:82`: an error with "404" anywhere in its text
is a missing file, whether or not the file is there. Three histories say what the code cannot
tell afterwards: `unwritten` (a status update failed), `misread` (a copy of a staged file
failed like one of a missing file) and `left` (a file was copied or staged behind a delete, or
the delete's call whose error is ignored failed). Left out: messages without a body, and two
messages for one photo.

### OrderService

An order is a record, `request` the state of its HTTP call at the inventory, `holder` the
order that holds the breaker's mutex. `StartCall` and `Reject` are `Call` up to `fn()`;
`CallReturns` and `CallFails` are the outcome with `onSuccess` or `onFailure`, the deferred
unlock and the answer. A call fails with the request handled, lost, or still to be handled, so
that the inventory may reserve for an order that was answered failed. `Healthz` and `State`
wait for the same mutex. `recent` is a history of the outcomes in the current state; through
it the breaker's counters are shown to implement `BreakerPromise`, which knows no counters.
The inventory's own mutex makes each reservation one step. Left out: an order whose `item_id`
is not positive, which is rejected as one with a quantity out of range is; reading the
inventory, `main_broken.go` (the same handler without a breaker), hanging calls, which would
hold the mutex as long as they hang.

### OrderQueue

A synchronous order waits for `paymentSlot`; an asynchronous one is published, and the
topic's delivery to the queue is taken with the publish. A published message may be in
the queue twice, because the SDK repeats a publish whose answer was lost. `Receive` is
one iteration of the loop, which asks for more when the whole batch has its goroutines;
`Dispatch` takes a worker slot; `Pay` and `DeleteMessage` are the goroutine. Time counts
here, since the question is whether a batch is paid before its messages are visible again:
steps that are possible happen before the next `Tick`, unless that tick is one of the
faults. The receive loop of the Lambda of `HW7/lambda`, which subscribes to the same topic
in a deployment of its own, is not part of it: where both run, every order is processed
by both. Nor are the duplicates a standard queue may deliver within the visibility timeout,
which the code could not tell from those of a publish.

### ShoppingCarts

`backend` is `USE_DYNAMO`, chosen in `Init`. A cart is the sequence of its lines. MySQL's
handler looks for the cart, then inserts or adds to a line (`Upsert`); DynamoDB's appends to
whatever is there. The SDK's default retryer makes up to three attempts of a call whose
response is lost, so a put may be done twice (`PutRepeated`), and an append, which is not
idempotent, adds its line again (`AppendRepeated`); the `attempt` of an addition counts them,
and `Calls` are the pairs of an addition and an attempt. `past` holds the values an item has
had, any of which an eventually consistent read may return; `cut` marks a read whose own rows
ended early. `NewId` is MySQL's counter or the clock modulo `Period`. `Sum` counts units,
pairs of a line or a call and a number up to its quantity, so that what a cart holds is a
cardinality. Left out: customers, and the product search, a scan of a catalogue that never
changes.

### MapReduce

A text is a sequence of pieces between white space, and `WordsOf` says which words the
mapper's expression finds in each, possibly none or several. A client asks for a split, then
three maps, then a reduce; several clients may run at once over the one set of keys. A call of
S3 may fail, return a body that ends early (whose error is dropped), or a put may have no
effect (whose error is dropped too). A client that got an error gives its job up; a map of it
that is still under way is not modelled as finishing later. `Count` is the direct count of
`benchmark.go`, the reference definition: for each word the number of its occurrences, an
occurrence being a position in the text and one in the piece's words.

## 3. Runs

Every run ends within about three minutes. Deadlock is not checked in any of them, since each
instance has finitely many requests and may come to rest.

| run | instance | shows |
|---|---|---|
| `leader_writes` | 3 followers, 2 writes of 3 values, one of which arrives under the version 9 and one is refused, lists of 0, 1 and 3 followers, all strategies and an unknown one, 1 failing call, 1 reconfiguration, 1 direct write on a follower | what 201 and 500 mean under unescaped values, provenance of entries, nothing goes backward |
| `leader_reads` | 3 followers, 2 writes, 1 read, 1 failing call | refinement of `VersionedRegister` |
| `leader_live` | 3 followers, a write and a read, lists of 1 and 3 followers, 1 failing call, 1 reconfiguration | every request is answered; replicas catch up |
| `leaderless_kv` | 3 nodes, 3 writes, a key of one and a key of two coordinators and a key that lands on another one under the version 9, 1 failing call, a peer list installed again | what coordinators and peers serve; when a version goes backward; peers catch up |
| `leaderless_ll3` | 2 coordinators of one key | violated: a 201 without the data on the peers (section 6) |
| `photo_store` | 2 photos and a delete, or 1 photo and 2 deletes; 2 tasks, 2 failing calls or exits | numbering; the registry of uploads; record and file stay consistent; photos settle |
| `photo_orphans` | 1 photo, 1 delete, 2 tasks, no failure | violated: an orphaned file (section 6) |
| `photo_worker` | 1 photo recorded, staged and sent in three steps, 3 deliveries, 2 workers of 1 slot, 2 failing calls, 1 exit, 1 delete | the file is not lost; record and file agree; what a delete leaves; photos settle |
| `orders` | 4 orders, each mix of a known item, an unknown one and an excessive quantity; thresholds 2 and 2, 1 failing call, 1 health check, 3 instants | the breaker implements its promise; answers tell the truth; the mutex is released |
| `carts` | 2 creations, 2 additions, 1 read, 2 products, on either store, 1 failing or repeated call, a clock that passes its modulus | totals, reads, "not found" |
| `order_queue` | 2 synchronous and 2 asynchronous orders, or 3 asynchronous; 1 or 2 workers, batches of 2, visibility of 3 payments, 1 failing call, exit or late tick | orders are paid, once if the pool is large enough |
| `mapreduce` | 2 jobs, texts of 0, 2 and 5 pieces, 1 call that goes wrong | exact counts; overlapping jobs mix whole parts |

Why the bounds are enough to be interesting: three followers are the fewest with a w3r3 answer
that leaves a tail for the background goroutine, and the lists below that take the loop's
other exits; two writes are the fewest that overtake one another, and in `leaderless_kv` a
third one is what makes a version go backward, when one coordinator has written a key twice
and the other then writes it for the first time. The lists of that run are {n2, n3} for n1 and
{n1} for the others, so its one change installs a list again; other changes are covered by the
proofs. `leader_live` has one write, so overtaking is the matter of `leader_writes`. One
failing call is what separates the guarantees from their exceptions, and in `photo_store` a
second one lets a clean-up fail after an update did. In `photo_worker` photos share only
slots, and two deliveries of one photo compete for a slot as two photos would. Four orders are
the fewest that trip a breaker of thresholds 2 and close it again, and the clock's three
instants let it cool in between. `Period` = 2 lets two carts get the same identifier and one
get 0. `order_queue` has a pool that is large enough and one that is not (section 6), and a
batch that waits behind another message. Texts of 0, 2 and 5 pieces leave each remainder of
the division by three that can go wrong. The proofs of section 5 have no such bounds.

`leader_writes`, `leader_reads`, `carts` and `mapreduce` use symmetry among requests. No run
with a liveness property does.

## 4. Fairness

`LeaderKV` and `PhotoLifecycle` assume weak fairness of the steps of a handler, of its
goroutines and of the followers' handlers: the Go scheduler runs every runnable goroutine, and
a call returns or fails. `LeaderlessKV` assumes less, that some handler of a coordinator or
of a peer moves when one can, which is enough because each has finitely many steps. Nothing is
assumed of clients, of failing calls, of configuration changes and of exits. A replication
call without a timeout may in reality hang for ever on a follower that never answers; in the
model it returns because the follower keeps running.

`PhotoWorker` assumes it of the receive loop of every worker, of the goroutines and of
the visibility timeout; a worker that exits is replaced, as its service in Terraform does.

`OrderService` assumes it of every handler that waits for the mutex, since Go's mutex hands
itself to a waiter after a millisecond, of the call's return and of the inventory.
Strong fairness is not needed: with finitely many orders the mutex is free for good at
some time. `OrderQueue` assumes it of the handlers, the receive loop, the goroutines, the
queue's timeout and the clock.

## 5. Theorems

`LeaderKVProofs` proves, for any followers, requests, keys, values, lists and bounds:

| theorem | states |
|---|---|
| `TypeCorrect` | `Spec => []TypeOK` |
| `ProvenanceHolds` | `Spec => []Provenance` |
| `LeaderAheadHolds` | `Spec => []LeaderAhead` |
| `NeverBackwardHolds` | `Spec => NeverBackward` |
| `AckedReplicatedHolds` | `Spec => []AckedReplicated` |
| `ErrorJustifiedHolds` | `Spec => []ErrorJustified` |
| `LeaderIsRegister` | `Clean` implies `Spec => RegisterSpec`, the refinement of `VersionedRegister` |

They rest on the named assumptions of `KVStore` and `LeaderKV` (the leader is not a follower,
followers are finitely many, a list has no duplicates, `Wire` and `WireKey` give keys, values
and integers or a refusal) and on five invariants, each inductive together with those before
it:

* `TypeInv` adds to the types that the loop index stays in the list while a call is open
  and that a goroutine's list and need fit its strategy.
* `DataInv` speaks of every copy of a write: a replication in flight is one of a started
  write, a follower's entry is what the URL of one carries, started writes have different
  versions, none above the leader's counter, and the leader holds at least each of them.
  `Provenance`, `LeaderAhead` (for keys whose writes arrive intact) and `NeverBackward`
  follow. They are not inductive alone, as a replication in flight becomes an entry.
* `AckInv` counts: a call that is accepted and no longer under way has reached its follower,
  so those in `acked` hold what the write's URL carries; a 201 was given with enough of them
  or to an unknown strategy. `AckedReplicated` follows, with the cardinality of a subset.
* `ErrorInv` says that without failures `acked` is exactly the prefix of the list that
  was called, so the loop cannot end short unless the list is too short.
* `ReadInv` says of an open read that its candidate is at least as new as the entry the leader
  held when the read came, and that the candidate and every result fetched are entries the
  leader has had. Every step is then a step of the register or a stutter.

`Clean` says that no follower is written directly, that the strategy is one of the three the
code knows, and that the URLs carry keys, values and versions unharmed. Without the first a
read may return an entry that is no write of the leader, without the second the answer is
empty, without the third it may return a cut value, or one under a version that nobody
assigned. The instance `leader_reads` satisfies `Clean`.

The lemmas on what a store's operations and handlers return stand in both services' proof
modules.

`LeaderlessKVProofs` proves, for any nodes, writes, keys, values, peer lists and bounds, and
whichever nodes clients write a key through:

| theorem | states |
|---|---|
| `TypeCorrect` | `Spec => []TypeOK` |
| `CoordinatorServesOwn` | `Spec => []CoordinatorReadsOwnWrites` |
| `AckedEverywhereHolds` | `Spec => []AckedEverywhere` |
| `ErrorLeavesPrefixHolds` | `Spec => []ErrorLeavesPrefix` |
| `OnlyOwnSetHolds` | `Spec => OnlyOwnSetGoesBackward` |

They assume that there is a node, that clients' pairs are pairs of a node and a key, that
a peer list has no duplicates, and of `Wire` what `LeaderKV` does. Two invariants carry them:

* `HistoryInv`: every entry is what a started write set or what its URL carries, and every
  message is one that its handler still waits for or that was answered 500 (`NetOK`). So a
  write answered 201 has nothing under way, and what comes to a coordinator later is from a
  write that was not answered before or that failed: `CoordinatorReadsOwnWrites` (`OwnOK`) is
  inductive with this. A node's writes have different versions, and those answered earlier
  have lower ones; no list names its own node. For a key of one node whose writes arrive
  intact this makes a version stand for one write.
* `LoopInv`: for such a key, the peers before the loop index hold the write, the call under way
  has reached its target or is in flight, and no other peer has it. The converse part
  (`SentOK`) is what a 500 needs, and is inductive only with the messages in flight.

`PhotoLifecycleProofs` proves, for any tasks, albums, posts, deletes and number of faults:

| theorem | states |
|---|---|
| `TypeCorrect` | `Spec => []TypeOK` |
| `NumbersFollowRealTime` | `Spec => []SeqFollowsRealTime` |
| `DeletesAreFinal` | `Spec => []DeletedStaysDeleted` |
| `CompletedPhotosHaveFiles` | `Spec => []CompletedHasFile` |
| `OrphansJustified` | `Spec => []OrphanJustified` |

`TypedInv` ties the registry of each task to its running uploads. `SeqInv` adds that a
number is at most its album's counter, so that the next one is above all. `CompletedInv` adds the
goroutine that has stored the file and not yet marked the record. `OrphanInv` speaks of a
photo whose deletes all ran on the upload's task while nothing failed: its upload is
registered until it is cancelled (`Registered`), and once a delete removed the file, only a
goroutine that will clean up may have put it back (`Detached`).

`PhotoWorkerProofs` proves, for any photos (finitely many), workers, slots, deliveries and faults:

| theorem | states |
|---|---|
| `TypeCorrect` | `Spec => []TypeOK` |
| `FilesKept` | `Spec => []FileNotLost` |
| `RecordsTruthful` | `Spec => []RecordTruthful` |
| `OrphansJustified` | `Spec => []OrphanJustified` |

`MoveInv` is about photos nobody deletes. A goroutine past its copy has a final file, and one
that finds nothing staged is not the first, unless the copy's error was misread
(`GoroutineOK`); a file leaves the staging place only when some delivery has moved it
(`PlaceOK`); only what was delivered has a goroutine (`DeliveredOK`). `RecordTruthful` is
inductive with these. `OrphanInv` follows the calls of a delete against the copies and the
producer that race with them: a file behind the call that looked for it puts the photo in
`left`. Photos are finitely many for the cardinalities of slots and batches.

`OrderServiceProofs` proves, for any thresholds, timeout, orders, items and faults:

| theorem | states |
|---|---|
| `TypeCorrect` | `Spec => []TypeOK` |
| `AnswersAreTruthful` | `Spec => []AnswersTruthful` |
| `BreakerKeepsPromise` | `Spec => BreakerSpec`, the refinement of `BreakerPromise` |

The refinement rests on `CountsOK`: `failureCount` is the run of failures at the end of the
history `recent` while the breaker is closed; `successCount` is the length of `recent` while it is
half-open, where every outcome is a success; and no order holds the mutex under an open
breaker. `AnswerInv` adds to `AnswersTruthful` that an order whose call has not started has no
request at the inventory.

`OrderQueueProofs` proves, for any pool sizes, batch, payment time, visibility timeout, faults
and finitely many orders:

| theorem | states |
|---|---|
| `TypeCorrect` | `Spec => []TypeOK` |
| `PaidOnce` | `Spec => []ChargedOnce` |

`PaidOnce` is a timing argument. `CalmOK` holds while the pool is large enough and nothing
failed or was late: a message is in flight exactly while it has a job, and its timer is above
the job's, so it never becomes visible again (`TimersOK`). For the jobs that wait for a worker
`TurnsOK` is a potential: if the timer of their batch leaves q payments and x ticks before the
last turn, then the jobs that wait are at most `q * workers` plus the workers that are free within
x ticks. A dispatch moves one job from the first count to the second, and a tick of a busy
pool takes one from x, or a turn from q when x is 0. The premise of `ChargedOnce` makes what is
left after the last turn longer than a payment.

`ShoppingCartsProofs` proves, for both stores and any customers' requests (finitely many),
products, quantities, clocks and faults:

| theorem | states |
|---|---|
| `TypeCorrect` | `Spec => []TypeOK` |
| `TotalsAreExact` | `Spec => []TotalsExact` |
| `ReadsAreCurrent` | `Spec => []ReadsCurrent` |
| `RefusalsAreTruthful` | `Spec => []NotFoundTruthful` |

`TotalsOK` says that what a cart holds of a product is the sum of a set of calls, which
contains the last call of each addition that was applied (on DynamoDB if the identifier is of
one cart only) and is contained in those that may have been. `PastOK` says that no value an
item ever had holds more than was sent for it, which is what a stale read needs.
`NotFoundTruthful` is inductive with the types. The requests are finitely many for the sums.

`MapReduceProofs` proves, for any jobs, texts, words per piece and number of faults:

| theorem | states |
|---|---|
| `TypeCorrect` | `Spec => []TypeOK` |
| `CountsAreExact` | `Spec => []CountsExact` |
| `PartsAreWhole` | `Spec => []PartsWhole` |

The lemma `ChunksAddUp` is about the algorithm alone: the counts of the three chunks of a text
add up to the count of the text, whatever its length and its remainder by three. While no
call goes wrong, `SoloOK` follows a job that no other ran beside through its calls, where
`OverlapOK` says which those are, and `WholeOK` says of every object and of every term of a sum
that it is a whole part of one job.

The assumptions are named beside the constants of each module, and TLC evaluates them in the
runs. Only model-checked: all liveness, which is out of the proof system's reach here (fairness
and ENABLED). Of `leaderless_ll3` and `photo_orphans` nothing can be proved: the code violates
them (section 6).

## 6. Disagreements between the code and its documents

Two runs show one each:

* `leaderless_ll3`: `leaderless_test.go:94` expects the data on all nodes after a 201.
  A node numbers its writes by its own counter, which replications do not advance. A
  write through a second coordinator may get a version its peers already have; they
  drop it, and answer 200. The load tester writes each key through random nodes.
* `photo_orphans`: `Final_mastery/README.md:113` says that deleting S3 first prevents
  orphaned files. `activeUploads` is local to a task and two tasks run. A delete on the
  other task deletes the file before it is uploaded and the record after it was marked
  completed.

The properties that hold name the other limits of the code in their conditions:

* `sendReplication` (`leader/main.go:287`, `leaderless/main.go:160`) does not escape what it
  puts into its URL. A value `a&b` reaches the followers as `a`; `a&version=9` gives them the
  entry under the version 9, so that they drop the leader's later writes up to the ninth and
  a w1r5 read prefers their entry to the leader's newer one; a key with an ampersand or `key`
  parameter lands on another key; a number sign cuts off the version, the followers answer
  400, and the write 500 or, under w1r5, 201. All but the last are answered 201. `Provenance`,
  `AckedReplicated` and `ErrorJustified` say what an answer and an entry mean then; the
  condition `KeyIntact` (`Clean` for the register) names the keys that keep the stronger promises
  of `LeaderAhead`, `AckedEverywhere`, `ErrorLeavesPrefix` and `SingleKeysConverge`.
* A coordinator of the leaderless service loses its own write to a racing write of another
  one, or to a late replication of one answered 500, whose version happens to be higher
  (`CoordinatorReadsOwnWrites` excludes only those answered 201 before).
* A photo message that waits or is processed for longer than its visibility timeout is
  delivered again and marks the moved photo failed (`RecordTruthful`: `receives[p] > 1`), which
  `cmd/worker/main.go:151` wants to avoid.
* `s3.go:82` takes any copy error with "404" in its text for a missing file; the photo is then
  marked failed and its message deleted at the first delivery, with the file still staged
  (`RecordTruthful`: `misread`).
* A delete of the API between whose two S3 calls a worker copies leaves the final file, and
  one that comes before the producer has staged the file leaves the staged one
  (`OrphanJustified` of `PhotoWorker`: `left`).
* The failures that photos do not survive are conditions of the properties, not caught by
  them: a failing or misjudged update to completed (`handler/photo.go:204`), a delete that fails
  half-way, an exit of a task, a failing status update of the worker (`CompletedHasFile`,
  `Settles`, `OrphanJustified`).
* A lost response leaves a reservation behind an order answered failed (`AnswersTruthful`
  says nothing of failed orders).
* DynamoDB cart identifiers are nanoseconds modulo 10^9, so that two carts may share one,
  and the second creation replaces the first cart (`TotalsExact`: `Sole`); a DynamoDB addition
  creates the cart it does not find.
* `list_append` (`HW8/main.go:455`) goes through the SDK's default retryer: when a response is
  lost the addition counts again under one 204 (`TotalsExact` bounds a cart by `Calls`).
* A MySQL read whose rows end early answers 200 with part of the cart (`ReadsCurrent`: `cut`).
* `PoolLargeEnough` is `PayTime * (1 + ceil(BatchSize / workers)) < Visibility`. With the
  repository's values, payments of 3 s, batches of 10 and 30 s of visibility, `NUM_WORKERS` = 1,
  the default, gives 33 s: under load the last message of a batch is visible again before
  it is deleted, and its order is paid twice without any failure. Five workers are enough.

## 7. Plan

1. The two key-value services, the photo service, its worker, the breaker, the order queue, the
   carts and MapReduce: modelled and checked.
2. Every safety invariant, action property and refinement that a passing run checks: proved.
3. Open: a leader started again beside followers with higher versions, which needs a restart
   action in `LeaderKV`; the photo API and the worker over one table, once the API stages photos.

## 8. Not modelled

* `HW10/loadtester`: a client that measures; it stores the last answered version of a key
  without comparing, so a late answer makes it count too few stale reads.
* `HW10/common/handlers.go` and `Final_mastery/internal/store/memory.go`: used by no main.
* `main_broken.go`, `getInventory`, product searches, album puts and reads: single reads or
  writes of one item, with no state that a second step depends on.
* `HW1`, `HW5`, `HW6`: a slice, a map or a fixed catalogue behind plain handlers; the slice of
  `HW1/main.go` is appended to by concurrent handlers without a lock, a data race by itself.
* `HW3`: timing experiments that end when their loops do. `HW7/lambda`: one stateless handler.
* Terraform, Docker and Locust files: read for the number of nodes, the visibility timeouts
  and the restart policy.
* `HW1/new_main.go` is no source: it is a compiled executable under a `.go` name (14,151 of the
  18,487 lines of the files counted as implementation). Of the remaining 4,336 lines of Go and
  scripts the definitions of this directory name about 1,800.
