# Verification of carrier-match-service

TLA+ modules, TLC configurations and TLAPS proofs for the Go service in this
repository: what a load, its carrier and its payment hold go through while many
requests run at once over one SQLite file and Stripe, and how they came into it.

Contents: [the system](#the-system), [properties wanted](#what-makes-it-correct),
[modules](#modules), [runs](#runs), [bounds](#bounds), [fairness](#fairness),
[proofs](#proofs), [findings](#what-the-code-does-not-live-up-to),
[not modelled](#not-modelled), [plan](#plan).

## The system

`main.go` wires a SQLite store, a geocoder, a pool of four match workers and, if
`STRIPE_SECRET_KEY` is set, a Stripe client into one HTTP server. `net/http` runs
every request in its own goroutine. No lock or transaction spans two store calls:
the only shared state is the database, the worker channel, the geocode cache and
Stripe.

| component | state | operations | talks to |
|---|---|---|---|
| lifecycle table (`statemachine.go`) | none; the `status` column follows it | `validateTransition` | called by the two handlers below, **not** by the workers |
| dispatch handler (`handleDispatch`) | locals of one request | read and check, book, authorize, record | store, Stripe |
| status handler (`handleUpdateStatus`) | locals of one request: a snapshot of the row | read and check, write, capture/cancel, record, release | store, Stripe |
| creation handlers | none | geocode, then one insert | geocoder, store |
| match workers (`worker.go`, `matcher.go`) | a channel of 100 jobs; locals of each worker | `Submit`, mark "matching", rank, write the verdict, answer | store; `handleGetMatches` waits for the answer or 15 s |
| store (`store.go`, `sqlite_store.go`) | tables carriers, shippers, shipments | `Save*`, `Get*`, `UpdateShipmentStatus`, `Dispatch` (a transaction), `UpdateShipmentPayment`, `ReleaseCarrier` | one SQLite connection |
| Stripe client (`payment.go`) | Stripe's payment intents | `AuthorizePayment`, `CapturePayment`, `CancelPayment` | Stripe, with a 10 s timeout |
| geocoder (`geocode.go`, `cache.go`) | address cache, hit and miss counters | `GeocodeAddress`, `Stats` | Nominatim |
| pricing, ids, CORS, frontend, `seed.sh` | none the server keeps | | |

What is hard here: a handler checks the row, then acts on it in several later
steps, from the values it read first; three kinds of goroutine write the same
status column and one of them does not check; every step may fail and most
errors are logged and passed over; the process may die between any two steps
and nothing resumes a half-done request; Stripe may do what it was asked and
its answer be lost. `PROJECT.json` lists each such place as a hazard.

## What makes it correct

- *Lifecycle*: a row holds only known statuses; what left "pending" without a
  carrier never gets one; (with one request at a time per shipment) every step
  is one event of an abstract life of a load.
- *Booking*: a carrier on the road for a shipment is marked booked and is on the
  road for no other; a cancellation frees the carrier it should and no other.
- *Payments*: the payment columns claim nothing Stripe does not back; the hold
  is for the agreed price; a delivery is charged, a cancellation is released,
  nobody is charged for what is not delivered; nothing due is left undone by a
  handler that has ended.
- *Match workers*: no job is lost, held by two or answered twice; a worker
  never waits for a caller that gave up; every caller is replied to, and within
  15 s (which does not hold); no shipment is left at "matching".
- *SQLite store*: every method takes effect at one instant between call and
  return or not at all, also `Dispatch`, whatever fails and whenever the process
  dies; no call waits for the one connection for good.
- *Creation and geocoder*: a row stands where its own address is; hits and
  misses add up; at most one request a second goes out (nothing in the code sees
  to that).
- *Matcher*: the first result is feasible if any is, although the sort is not
  stable; of the feasible ones the nearest come first.

## Modules

| module | models | how |
|---|---|---|
| `Ids` | ids and amounts | the sets an instance is made of, with `NoCarrier`, `NoIntent` for the empty string |
| `ShipmentStatus` | `statemachine.go` | the statuses, the table as a set of pairs, `ValidateTransition`; "matching" and "matched", which only `worker.go` knows |
| `Store` | the `Store` interface | `carriers` (is_available) and `shipments` (status, carrier, price, intent, payment status); one operator per writing method, the method's success |
| `Stripe` | Stripe, as `payment.go` uses it | `intents`, one operator per call, and the rounding `AmountCents` |
| `CarrierMatch` | `handlers.go`, `worker.go`, `main.go` | composes the two above with a *slot* per goroutine; see below |
| `WorkerPool` | `worker.go`, `handleGetMatches` | the jobs channel, the callers parked on it, each request's result channel, the 15 s timer; see below |
| `StoreCalls` | the `Store` interface, as calls in flight | which methods, with what arguments, and what the methods of one statement do |
| `StoreContract` | `MemStore`, and what a database may add | call, one atomic step, return; what a call that fails may have done and may answer |
| `SQLiteStore` | `sqlite_store.go` | one connection (`holder`), `Dispatch` as a transaction of separate statements (`journal`), rollback, crash; implements `StoreContract` |
| `Ranking` | `matcher.go`, `pricing.go` | score, price and order in integers; the set of orders an unstable sort may return |
| `Registration` | the creation handlers, `geocode.go`, `cache.go` | one goroutine per POST over the shared cache and counters; see below |
| `Lifecycle` | nothing in the code | the abstract life of a load, which `CarrierMatch` implements |
| `MCCarrierMatch`, `MCSQLiteStore`, `MCRegistration` | | constants and symmetries for TLC |
| `CarrierMatchTypes`, `...Booking`, `...Payments` | | theorems and proofs about `CarrierMatch`: types, who has a carrier, what the payment columns say |
| `CarrierMatchLifecycle`, which extends these | | the refinement of `Lifecycle`, and what it says of the status column |
| `CarrierMatchSettle`, which extends that | | theorems and proofs about what is due once a handler is done |
| `WorkerPoolProofs`, `SQLiteStoreProofs`, `RegistrationProofs` | | theorems and proofs about these modules |

`CarrierMatch` has one action per store or Stripe call of a goroutine, since
that is where goroutines can interleave. The field `at` of a slot names the call
that comes next, the other fields are the Go locals that are still needed:

- `handleDispatch`: `DispatchRead` (GetShipment, validateTransition) →
  `DispatchBook` / `DispatchRefused` (GetCarrier, store.Dispatch) →
  `DispatchAuthorize` / `DispatchUnauthorized` → `DispatchRecord`. GetCarrier
  reads only columns that never change, so it needs no step of its own.
- `handleUpdateStatus`: `PatchRead` (the snapshot) → `PatchWrite` →
  `PatchSettle` / `PatchUnsettled` → `PatchRecord` → `PatchRelease`.
  `AfterWrite` and `AfterSettle` say which of them come next, from the snapshot.
- `runWorker`: `WorkerTake` → `WorkerMark` → `WorkerRank` → `WorkerConclude`.
  A job waiting in the channel has no effect, so a job starts when a worker
  takes it; any shipment may be asked for, whatever its status. The verdict is
  "matched" only if a carrier that fits was available when they were listed.

`Faults` says what may go wrong. "store": a store call fails and writes nothing
(every error path of the handlers is then possible, including the read after
Dispatch's commit). "stripe": a call fails, or it takes effect and its answer is
lost. "crash": the process dies and restarts, all slots become idle, tables and
intents stay. `Discipline` is what clients promise about *one shipment*; the
code enforces none of it. "none": nothing. "patches": one PATCH in flight at a
time. "requests": one dispatch, PATCH or match job in flight at a time. Requests
on different shipments always overlap freely.

Requests refused before they write anything (400, 404, 409 at the check) change
nothing and have no action. Replies are not kept.

`WorkerPool` follows a job instead of the rows it writes: between `Receive` and
`Send` a worker does what `CarrierMatch` models. `Submit` puts the job in the
buffer (`jobs`) or, when that is full, parks the caller (`senders`); `Receive`
takes the oldest job and moves the longest-parked sender's job into the buffer,
as Go channels do. `Lookup` is the worker's GetShipment, which may fail;
`Send` and `Close` are the two operations on the result channel; `GetResult` and
`GiveUp` are the two cases of the select. `Tick` lets time pass for every caller
still waiting, and not past a timer that is due; a goroutine that could run may
be slower than any number of ticks.

`SQLiteStore` has the two tables as the connection sees them and, while a
transaction is open, the tables as they were at its `Begin`: that is what the
file says until the `Commit`, and what `Abort` and `Crash` go back to
(`Committed`). A method of one statement needs the connection for that
statement only. `Dispatch` is `Begin`, `BookCarrier` or `BookNothing`,
`AssignShipment`, `Commit`, and `ReadBack`, which queues for the connection once
more. `Abort` is an UPDATE that returns an error, and the deferred `Rollback`.
After a `Commit` that returns an error that `Rollback` does nothing
(`sql.ErrTxDone`), so `CommitFails` leaves it to SQLite whether the file has the
booking or not, all of it or nothing. An error of `Dispatch` thus does not say
whether the carrier is booked: `Break` in the contract is the error with the
effect, after a commit that was not heard of or a row that was not read back.
`ListCarriers` cannot answer with an error: when its query fails, or the reading
of its rows does, it answers with what it has, perhaps nothing (`ListCutShort`),
and the contract promises no more. `Legal` is what the handlers have seen to before they call: a row
they save is new, and the rows a dispatch names exist. (With an unknown shipment
SQLite's `Dispatch` would book the carrier and answer "not found", where
`MemStore` books nothing; no caller can do that, since rows are never deleted.)
The refinement maps the tables to `Committed` and a dispatch to one that has
happened from its commit on. `CarrierMatch` uses `Store`, whose operators are
the steps of that contract.

`Registration` follows a POST from its decoded body to its reply: `Receive`,
then for a carrier or a shipment `CacheGet`, `RecordHit` or `RecordMiss`,
`Fetch` or `FetchFails`, `CacheSet`, each one critical section or one HTTP call,
and `Save`, which answers 201 also when the insert has failed. `Crash` empties cache and counters and leaves the rows. What has been
stored is then ranked, with any set of carriers free.

## Runs

The two runs whose name starts with `pool` check `WorkerPool`, `sqlite` checks
`MCSQLiteStore`, `register` checks `MCRegistration`, the others
`MCCarrierMatch`.

| run | instance | result |
|---|---|---|
| `concurrent` | 2 shipments, 2 carriers, 2 dispatch and 2 PATCH slots, 1 worker, no payments, store faults and crashes, "patches" | `TypeOK`, `NoDoubleBooking`, `BookingInv`, `StrandedForGood` hold |
| `serial` | the same with payments, two prices, all faults, "requests" | `LedgerTruthful`, `LedgerInv`, `HoldMatchesPrice`, `MoneyFollowsLoad`, `ImplementsLifecycle` hold |
| `settle` | 2 shipments, 2 carriers, 1 dispatch and 2 PATCH slots, 1 worker, payments, no faults, "requests", fairness | `SettledAtRest`, `BookedHasLoad`, `MatchingHasJob`, `DeliveredIsCharged`, `CancelledIsReleased`, `CancelledFreesCarrier`, `MatchingEnds` hold |
| `pool` | 3 requests, 2 workers, queue of 1, fairness | `PoolTypeOK`, `JobConserved`, `SendIsFree`, `BlockedOnlyWhenFull`, `AnswerComes`, `EveryCallerReplied`, `EveryJobFinished` hold |
| `sqlite` | 2 callers, 1 carrier, 2 shipments, every method, errors and crashes, fairness | `SQLiteTypeOK`, `ImplementsContract`, `EveryCallReturns` hold |
| `register` | 3 requests, 4 addresses, one of them unknown to the geocoder, failing lookups, failing inserts and crashes | `RegistrationTypeOK`, `LocatedRight`, `StatsTrue`, `VerdictRight`, `NearestFirst` hold |
| `matched_dispatch` | 1 shipment | `MatchedIsDispatchable` violated |
| `unbooked_dispatch` | 1 shipment | `DispatchedHasCarrier` violated |
| `late_release` | 2 shipments, 1 carrier, 2 PATCH slots, no faults, "none" | `NoDoubleBooking` violated |
| `cancel_authorize` | 1 shipment, payments, no faults, "patches" | `CancelledHoldReleased` violated |
| `double_dispatch` | 1 shipment, 2 carriers, 2 dispatch slots and nothing else, no faults, "none" | `BookedOnlyWhileActive` violated |
| `pool_wait` | 3 requests, 1 worker, queue of 1 | `BoundedWait` violated |

`concurrent` and `late_release` are two sides of one question: the conditional
UPDATE keeps dispatches apart by itself, but the whole booking is sound only if
PATCH requests on one shipment do not overlap. `serial` and `cancel_authorize`
are two sides of another: the promises about holds need a dispatch to be over
before its shipment is cancelled. The payment columns need no such promise:
that `LedgerInv` holds when handlers of one shipment overtake one another is a
theorem (`LedgerInvCorrect`), `serial` checks it where `ImplementsLifecycle`
needs it.

`ImplementsLifecycle` is a refinement: the abstract variables are the status,
carrier and availability columns and, for the hold, what Stripe has for the
shipment (`HoldOf`), not what the row says, which may lag behind. `Lifecycle`
owns up to two things the code really does: `Screen` (a match verdict may
overwrite any status) and `DispatchUnbooked` (PATCH "dispatched").

`settle` and `pool` ask each question twice. A liveness property says that what
is due happens in the end; an invariant beside it says that at no moment has it
been forgotten: who still has to do it is there, and (in the pool) not stuck.
`SettledAtRest`, `BookedHasLoad`, `MatchingHasJob` and `AnswerComes` need no
fairness, so they are theorems too, and these go further than the run: with
Stripe failing for `BookedHasLoad`, with any number of jobs overlapping on one
shipment for `MatchingHasJob`.

What is excluded where: "requests" keeps two handlers of one shipment from ever
overlapping, so `serial` and `settle` say nothing of a check made on one read and
a write made after another request's. `MoneyFollowsLoad`, `HoldMatchesPrice` and
`ImplementsLifecycle` are violated when requests on one shipment do overlap: a
PATCH writes over a status that has moved since its check, a dispatch books over
another's booking. Overlapping is in `concurrent`, where the booking stays sound,
and in `late_release`, `cancel_authorize` and `double_dispatch`, where something
goes wrong.

Deadlock is switched off in runs of `CarrierMatch` whose instance has no worker
(there the last shipment reaches its last status and clients have nothing left
to ask),
in the pool runs and in `register` (each request is served once, then all is
quiet). All other runs check it.

Each property of a passing run has a mutant in `PROJECT.json`: an operator in
the same module, next to the one it replaces and marked "Mutant", that breaks
the code the way a slip would (fail-open table, unconditional booking, truncated
cents, an unread error, a missing case, a missing or unconditional release, a
statement outside the transaction, a channel never made or made of the wrong
size, a counter not counted).

## Bounds

Two shipments and two carriers are what double booking needs: one carrier to
fight over, one left to be rebooked. Two slots of a kind let a handler overtake
another of its own kind; a third would only repeat it, the steps of a handler
reading and writing a single shipment row. One worker is enough for what a
job does to others, its effect on the tables being one status write at a time,
interleaved with everything else; two jobs overlapping on one shipment are left
to the theorems, which have any number of workers. `Intents` bounds how many holds Stripe ever creates (when they
run out, authorization fails, as it does when Stripe refuses); two let two
shipments be held for, or one shipment twice. `Prices` are in tenths of a cent: 1009 ($1.009)
rounds up, and 4 ($0.004) is below `MinCharge`, the least amount Stripe takes.
(`settle` has the first only: a load too cheap for Stripe gets no hold, and so is
delivered without being charged.) `RowStatuses` and one unknown string are all a
client can name that matters.
Symmetry over shipments, carriers, intents and slots is used in safety runs
only; runs with a liveness property have none.

In the pool, a caller is parked when a job is in the buffer that no worker has
taken: three requests and a queue of one let two callers be parked behind it,
and two workers be at work with one caller parked or all of them idle. One tick
is "in time" and two are "too late"; `Horizon` caps the age of a request where
`BoundedWait` can already tell. A receive from a result channel that is closed
and empty, which yields nil at once, has no action: `AnswerComes` and
`JobConserved` together say that no caller ever faces one. Sizes 4, 100 and 15 s
of the program are larger; the safety properties are proved for all of them.

In `sqlite` two callers suffice for a race and for a wait: there is one
connection, so at most one is inside a transaction while the other queues. One
carrier is what two dispatches fight over. Plain updates are on one shipment,
with one value each: what they write is not looked at again.

In `register`, three requests allow two to miss together and a third to find
the cache filled. The addresses are one where the shipment is, one a fifth of a
mile away (a tie in score), one just beyond the cap of 500 miles, and one that
cannot be found. Distances and prices are integers, in hundredths of a mile and
in cents; the two ranking properties are proved for all distances and weights.

## Fairness

`WorkerPool`: a caller that can reply does, a worker that can step does, and time
passes. All three are the Go scheduler's and the runtime timers' doing; a job
itself takes finitely many steps, since every store call returns.

`SQLiteStore`: a goroutine inside its transaction, or about to return, runs on
(weak fairness). Getting the connection is strongly fair: it comes free again and
again, and `database/sql` hands a connection that comes free to one of the
requests waiting for it.

`CarrierMatch`: `Fairness` is weak fairness of the continuation of each slot that has started: a
goroutine that has been given a step to do will do it. Nothing is assumed about
requests arriving. `settle` has no faults, since the code retries nothing: with a
store error or a crash in the way, a hold stays open, a carrier booked or a row
at "matching", and no fairness repairs that.

## Proofs

They hold for arbitrary sets of shipments, carriers, intents, prices, slots,
requests, workers, calls and addresses, any queue, timeout and distances, with
the assumptions named in the modules (the null values are not ids, amounts are
integers, `Fits`, `Faults`, `PlaceOf` and `Distance` have their types; requests
and addresses are finite where they are counted).

`CarrierMatch`:

- `TypeCorrect`: `Spec => []TypeOK`. `TypeOK` is inductive. One lemma per store
  method (`StoreKept`: tables typed, no row disappears), one per kind of slot,
  one per handler.
- `LedgerInvCorrect`, `LedgerCorrect`: `Spec => []LedgerTruthful`, under any
  discipline, by `LedgerInv`: what a handler carries from a read to a write
  stays true because an intent never changes its shipment and "succeeded" and
  "canceled" are final at Stripe (`IntentsKept`).
- `BookingInvCorrect`, `NoDoubleBookingCorrect`: `Discipline # "none"` implies
  `Spec => []NoDoubleBooking`. `NoDoubleBooking` alone is not inductive: a
  cancellation in flight will release a carrier later. `BookingInv` says who has
  a *claim* on a carrier: a shipment on the road with it, one about to be put on
  the road by a PATCH past its check, and a cancellation from its check to its
  release. A claim keeps the carrier booked and is exclusive; a dispatch can
  take a carrier only when nobody has a claim, since it takes an available one.
- `StrandedCorrect`: `Spec => StrandedForGood`, under any discipline, from type
  correctness and two facts: only a pending row passes the dispatch check, and
  nobody writes "pending".
- `HoldMatchesPriceCorrect`: `Discipline = "requests"` implies
  `Spec => []HoldMatchesPrice`. Price and hold are written by two calls with
  Stripe's in between. `PriceInv` says that a dispatch is alone on its shipment,
  that the row has no hold until it is recorded and has the dispatch's price
  from the booking on, and that a PATCH knows the row's own intent.

- `LifecycleImplemented`: `Discipline = "requests"` implies
  `Spec => ImplementsLifecycle`. Each step is one event of `Lifecycle` under the
  mapping, or leaves the mapped variables alone. What a handler has read must
  still be so when it acts on it. `FitInv` says that: the row has the status
  that was checked until it is written and the one written until the PATCH is
  over, its carrier is the one that was read, a match job is alone on its
  shipment, and Stripe has at most one intent for a shipment, none while it is
  pending. The rest comes from the invariants above: that no other load has the
  carrier let go (`ClaimsExclusive`), that the hold settled is the shipment's
  own (`LedgerInv`), that nobody else serves a dispatch's shipment (`PriceInv`).

- `MoneyFollowsLoadCorrect`: `Discipline = "requests"` implies
  `Spec => []MoneyFollowsLoad`, with every fault. It is inductive only with the
  hold of a load on its way *open* (`MoneyInv`): then it can still go either way
  when the load does. A step of the status column keeps that by `LoadsStep` (each
  event of `Lifecycle` moves one load, along the table or to a verdict); a
  PATCH settles by the status the row has, since nobody else has written it
  meanwhile (`FitInv`).
- `BookedHasLoadCorrect`: `Discipline = "requests"`, and no "store" and no
  "crash" in `Faults`, imply `Spec => []BookedHasLoad`; "stripe" may be in it. A
  carrier has a load of its own from its booking on, and one whose load is
  cancelled has a PATCH past its write that goes on to the release whatever
  Stripe answers (`OnToRelease`).
- `MatchingHasJobCorrect`: no "store" and no "crash" in `Faults` imply
  `Spec => []MatchingHasJob`, under any discipline: a row put at "matching" has
  the job that put it there until that job, or any other write, moves it on.
- `SettledAtRestCorrect`: `Discipline = "requests"` and `Faults = {}` imply
  `Spec => []SettledAtRest`. `SettleInv` says of each thing due who is about to
  do it: a hold is on its row or with a dispatch about to record it
  (`HoldsRecorded`), a row says what Stripe says or a PATCH is about to record it
  (`StatesRecorded`), the hold of an ended load is closed or a PATCH is about to
  close it (`HoldsClosed`), which it can, as the hold is open (`OpenInHand`).
  That a PATCH never ends a load whose hold it does not know needs the
  discipline: no dispatch serves the shipment meanwhile.
- `CancelledHoldReleasedCorrect`: the same hypotheses imply
  `Spec => []CancelledHoldReleased`, which finding 5 refutes without the first.

The hypotheses on `Faults` are no weaker than they can be: the handlers retry
nothing and resume nothing, so a failing write of the status, of the payment
columns or of the release, a lost answer of Stripe's or a crash leaves for good
what these theorems say is not left.

`WorkerPool`: `PoolTypeCorrect`, `JobsConserved`, `SendsAreFree`,
`BlockedCorrect`, `AnswerAlwaysComes`, all from `PoolInv`, which has `JobConserved` in two parts and
what it does not say of the channels: a result channel stays empty until its job
is being closed (`AnswerLast`), so the one send never waits; a worker about to
send has something to send (`AnswerReady`); and the queue is full while somebody
is parked (`QueueFits`). `AnswerAlwaysComes` adds that a caller still waiting
when its job is being closed has its answer in the channel (`AnsweredFirst`);
that no worker is stuck follows from `SendIsFree` and `QueueFits`.
`PoolTypeCorrect` includes the bound of the buffer.

`SQLiteStore`: `SQLiteTypeCorrect` and `ContractImplemented`,
`Spec => ImplementsContract`. Each step is shown to be a step of
`StoreContract!Next` under the mapping or to leave the mapped variables alone.
The invariant `SQLInv` adds two things the mapping depends on: the rows a
dispatch names are there (`RowsAreThere`), and inside a transaction the tables
differ from the journal by exactly what the transaction has written so far
(`HalfDone`), so that the commit is the contract's `Dispatch`. A commit that
returns an error is the contract's `Break` or its `Fail`, as the file turns out
to have the booking or not; a `ListCarriers` that fails is `Fail` too.

`Registration`: `RegistrationTypeCorrect`, `LocatedCorrect`, `StatsCorrect`,
`VerdictCorrect`, `NearestCorrect`. `RegInv` adds where the
place a goroutine carries comes from (`LocatedInv`) and, for the counters, that
every address in the cache or about to enter it has a miss of its own among
those counted (`Counted`). The two about ranking follow from type correctness
and from lemmas about `RoundDiv` and `Before`.

Model-checked only: every liveness property, since TLAPS does not handle
fairness and ENABLED here. What they come to at one moment is proved (see
`settle` and `pool` under [runs](#runs)); that time then does its part is left
to TLC.

## What the code does not live up to

`PROJECT.json` quotes the sentence each one contradicts.

1. After GET /matches a shipment is "matched", which the table does not list, so
   it can no longer be dispatched or cancelled (`matched_dispatch`); by
   `StrandedCorrect` nothing later helps.
2. PATCH {"status": "dispatched"} makes a pending shipment dispatched with no
   carrier, price or hold (`unbooked_dispatch`).
3. A cancellation racing an in_transit PATCH on the same shipment: the row ends
   in transit while its carrier is released, and can be booked again
   (`late_release`).
4. Two dispatches of one shipment to two carriers both succeed; the first carrier
   stays booked and is on no row any more, so nothing ever releases it
   (`double_dispatch`). The same property fails for a simpler reason too, which
   the run leaves out by having no PATCH: a delivery never frees its carrier.
5. A cancellation between the booking and the recording of the hold leaves the
   hold open for good (`cancel_authorize`).
6. With the queue full, a caller of GET /matches waits in `Submit`, before its
   15 s have started, for as long as it takes (`pool_wait`). It is replied to in
   the end (`EveryCallerReplied`).

No run is about it, but it is worth knowing: `statemachine.go:22-24` calls
delivered, cancelled and no_match terminal, and GET /matches takes a shipment out
of any of them (`WorkerMark`; `Screen` in `Lifecycle`), as does a dispatch that
was checked before (`DispatchBook`).

## Not modelled

- Names, coordinates, weights, capacities, timestamps in `CarrierMatch`: never
  changed after the insert; `Fits` stands for what follows from them.
- The shippers table in the store modules: written and never read.
- Haversine distance: floating-point trigonometry; `Distance` is an input of
  `Registration`, and a dispatch in `CarrierMatch` agrees on any price in
  `Prices`, whether computed or named by the client. Negative weights and
  distances.
- Stripe working on a request after the client has given up on it is modelled as
  having happened before the handler goes on, not as a late event of its own.
- What `database/sql` and the driver do with the connection after a failed
  commit: it is taken to come back to the pool with no transaction open, and the
  file to have all of the booking or none.
- A single statement that takes effect and returns an error. In `CarrierMatch`
  most errors of writes are passed over, so the effect with the error is the
  effect without; for the status write of a PATCH it is what a crash after the
  write leaves behind.
- `RowsAffected` failing: this driver's never does.
- What becomes of an id whose row is missing because its insert failed: every
  later request for it is answered 404, and has no action.
- Waiting for the mutexes of `cache.go` (each is held for one map or counter
  operation) and for the geocoder (at most the client's ten seconds): the steps
  of `Registration` can always be taken, and no property there is about waiting.
- The rate of one request a second to Nominatim (`geocode.go:15-19`, "follows
  both"): there is no limiter in the code, and time is not modelled there.
- Nominatim changing its mind about an address: `PlaceOf` is a constant.
- Schema creation and column migration: they run once, before any request.
- HTTP, JSON, logging, the browser client. `cors.go` allows GET, POST and
  OPTIONS only, so a browser on another origin may not send the PATCH the
  frontend has; that is a header, not a state.

## Plan

Done: the lifecycle, booking and payment core, the worker pool, the SQLite store
and its contract, creation with the geocoder, and ranking; every safety
property of a passing run, the two refinements included, is also a theorem, and
so are the safety halves of the liveness properties of handlers and pool.
Left, in this order:

1. The safety half of `EveryCallReturns`, as for the pool: whoever waits for the
   connection waits for somebody who can go on.
2. Stripe acting after the client's timeout as an event of its own.
3. `WorkerPool` composed with `CarrierMatch`: the caller that asks again after a
   504, its first job still in the queue.
