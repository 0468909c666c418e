# Verification of wonderland

TLA+ specifications of the programs in this repository, TLC runs that check them
on small instances, and TLAPS proofs of the properties that matter most for every
instance. All paths below are relative to the repository; module names are files
in this directory.

## 1. The system and its parts

The repository is a collection of small services and library snippets. What
carries logic of its own:

### hesab-ketab: an event-sourced ledger (Java, PostgreSQL)

*State.* Table `domain_events` (append-only, `sequence_number BIGSERIAL`), table
`accounts` (balance, version; the projection), table `event_consumer_offsets` (one
row per consumer name); in each pod a virtual thread, its LISTEN session and a
volatile `running` flag.
*Operations.* `TransactionController.transfer` reads both accounts, checks the
balance and appends a `MoneyDebited` and a `MoneyCredited` event in one
transaction. `AccountController.create` inserts an account row.
`EventConsumer.catchUp` projects events one transaction at a time: fetch the next
event behind the offset, load the account, `apply`, guarded upsert, move the
offset. `EventConsumer.listenLoop` calls `catchUp` at the start and for each
notification of the trigger `V004`. `getBalanceAsOf` and `getStatement` replay
events and only read.
*Interaction.* Requests and pods meet in the tables alone; the trigger's
`pg_notify` wakes the pods.
*Hard.* READ COMMITTED between statements; several pods projecting the same event;
sequence numbers that become visible out of order; crashes between statements; a
notification nobody hears.
*Correct when* no pod overwrites another's update, an event is posted at most
once, an event is dropped only because its version was taken, balances reconcile
with the posted events, no debit takes one below zero, offsets only advance, what is
announced is projected, shutdown stops the thread.

### wonder-matcher: likes, matches and positions (Java, Kafka Streams)

*State.* Stores of the topology: like history, liked-by history, match history per
partition; a global table of dancer positions on an in-memory H2; offsets and
transactions of the stream threads.
*Operations.* The topology of `KStreamAndKTableDefinitions`: passing a like on
under the likee's key, joining it with the likee's likes, emitting the match both
ways, collecting matches; the aggregation of seeker events into positions; the
restore, put and delete of `WonderSeekerStore`; queries of `ViewService` with
fan-out to other instances.
*Hard.* Two likes given at once are joined by two threads; commits and crashes of
the threads; a record that kills the thread; a restore of the global store from the
beginning of its topic.
*Correct when* a match rests on two likes, two likes make a match whoever comes
first, a like is passed on once, and a position is the last one reported.

### pubsub-bucket-snapshot-seek: the pub/sub library (Java, PostgreSQL, Google Pub/Sub)

*State.* Table `outbox`; per thread the triggers of `PublishTriggerRepository`; per
publisher the list of acknowledgements of `PublishAckHandler`; the flag of
`OutboxDrainer`; the batches of `EventBatchHandler`; subscriptions, snapshots and
dumps in buckets.
*Operations.* Persist in the caller's transaction, publish after it, delete when
acknowledged, drain what is too old; subscribe in batches; dump the state into a
bucket, snapshot the subscription, seek back to it.
*Hard.* A crash between commit and publication; an acknowledgement lost, late or
doubled; failures of single steps; a subscription that runs on while a state is
dumped.
*Correct when* what is committed is delivered at least once and nothing else is,
rows disappear in the end, a consumer that starts from a dump misses nothing.

### challenge-based-authentication: challenges in a Kafka Streams topology (Java)

*State.* The compacted topic `event_log`; `CHALLENGE_STATE_STORE`, aggregated from it
exactly once; the producer of each instance.
*Operations.* `AuthenticationResource` logs an event for each create, capture, sign
and login and answers; `EventHandler.apply` carries them out; `TopicPublisher` sends.
*Hard.* A request is answered before its event is sent, each instance sends on its
own, a transition that throws ends the only stream thread, the log is compacted.
*Correct when* the store follows the last event, a crash or rebalance takes nothing
back, and an event that comes alone does no harm.

### The web build: service worker and loader (JavaScript)

*State.* The caches CONTENT, TEMP and MANIFEST, the browser's HTTP cache, the workers
of the registration, the pages.
*Operations.* The handlers `install`, `activate`, `fetch`, `message` of
`flutter_service_worker.js`; registration, update, wait and timeout of `flutter.js`.
*Hard.* Deployments in the middle of everything; activations killed between two
awaits; TEMP shared by a worker and its successor; a page, its worker, the active
worker and the file on the server of four different builds.
*Correct when* caches never lag behind the saved manifest, a page that waited runs a
program no older than itself, and every page gets a program.

### The others

| part | state and operations | hard | modelled |
|---|---|---|---|
| `api-gateway` | forwards requests; `likeADancer` and `disLikeADancer` produce events; two static maps of likes (only logged: the filters that read them are commented out) | concurrent updates of the maps | `likeADancer` as producer of `Matchmaking` |
| `message-publisher` | binds queues; sends a message to RabbitMQ, then to Kafka | dual write | planned (chat) |
| `message-search` | indexes messages under random ids, asynchronously | redelivery doubles a message | planned (chat) |
| `communication-graph` | counts messages on the relation of two persons, optimistic locking, failures swallowed | lost counts | planned (chat) |
| `dance_partner_finder` | Flutter app: blocs for likes, chat, video call | call signalling | planned (signalling) |
| `circuitBreaker`, `jwt_jwk_in_redis_prKey_in_memory`, `JacksonConfig`, `ContractTestExtension`, error handling | one or two files each around a library | key rotation, half-open state are the library's | not modelled |
| `dart-game-engine`, `flutter_client_side_game` | game loop and rendering | none across steps | not modelled |
| `webauthn`, test set-ups, rest of `deployment` | front-end experiments, configuration, compiler output | - | not modelled |

## 2. Modules

| module | what it is |
|---|---|
| `LedgerEvents` | accounts, events, `Account.apply` |
| `SerialProjection` | abstract promise of the ledger's projection: each event once, in one atomic step on the current row |
| `Ledger` | transfer, account creation and `catchUp`, one action per SQL statement |
| `MCLedger` | instance of `Ledger` |
| `FiniteSums` | lemmas about least numbers and minimal subsets, sums over finite sets and folds of sequences |
| `LedgerProofs` | theorems about `Ledger` and `AccountHistory`, with `FiniteSums` |
| `AccountHistory` | `getBalanceAsOf` and `getStatement` over the log of `Ledger` |
| `EventListener` | the thread that decides when `catchUp` runs |
| `ListenerProofs` | theorems about `EventListener` |
| `Matchmaking`, `MCMatchmaking` | the like and match topology; its instance |
| `MatchmakingProofs` | theorems about `Matchmaking`, with `FiniteSums` |
| `AtLeastOnce` | abstract promise of the outbox publishers |
| `Outbox`, `MCOutbox` | publishers with an outbox; its instance |
| `OutboxProofs` | theorems about `Outbox` |
| `StateDump`, `MCStateDump` | state dumps, snapshots and a consumer that starts from them, on top of `AtLeastOnce`; its instance |
| `StateDumpProofs` | theorems about `StateDump` |
| `Challenges`, `MCChallenges` | the challenge topology; its instance |
| `ChallengesProofs` | theorems about `Challenges` |
| `ServiceWorker`, `MCServiceWorker` | service worker, caches and loader of the web build; its instance |
| `ServiceWorkerProofs` | theorems about `ServiceWorker`: what the caches hold, what a page that waited runs |

Modules meet in three places. `Ledger` refines `SerialProjection` and `Outbox` refines
`AtLeastOnce`, each by `INSTANCE ... WITH` and a property; `StateDump` takes the
actions of `AtLeastOnce` as its publisher, so what it shows holds for a consumer of
any publisher that keeps that promise. `AccountHistory` extends `Ledger`: its
invariant is evaluated in every state of `Ledger`.

Operators commented "Mutant of X" are faulty variants of the definition after them,
each a plausible bug of that code. They are used to show that every checked
property can fail: put in the place of X, they make TLC report the property.

### Ledger

A transfer `t` goes through `stage[t]`: `received`, `fromRead` (findById of the
debited account and the balance check), `toRead`, `debitInserted`,
`creditInserted`, `committed`; or `failed`. `sequence` advances at each INSERT,
also of a transaction that aborts; rows reach `domainEvents` at the COMMIT. That
gap is what the finding on `EventStore.java:71` is about. `append` sorts by
`occurredAt`; both events of a transfer carry the same instant and the sort is
stable, so the debit goes first.

A pod goes through `podStage[p]`: `idle`, `fetched`, `loaded`. `Post` and `Drop` are
`apply`, `save`, `updateOffset` and the COMMIT in one step: the upsert locks the
row until the commit and re-evaluates its WHERE on the row's latest version, so no
other pod's save falls in between, and offset and row become visible together.
`Rollback` is a crash or a lost connection at any point. `handled` and `posted` are
history variables.

Amounts are integers, the smallest unit of `NUMERIC(19,4)`. Nothing in the code
refuses a negative amount, a zero one, or a transfer from an account to itself;
the constants allow them (a transfer to itself keeps one of its two legs, since
both carry one version; the model shows it, `MoneyConserved` leaves it out). A negative
transfer passes the check of the debit, and its credit, which nothing checks, takes from
the receiver what may not be there: balances do go below zero. `DebitsStayCovered` says
that this is the only way: what an account is short of zero is at most the sum of the
negative credits posted to it, so that with positive amounts no balance is negative.
Bounds of the runs are the two transfers, their amounts -1, 1 and 2 (1 and 2 in the two
runs with a violation) against opening balances 2 and 1: enough for a balance that covers
one transfer and not both, for a receiver without the money, and for both transfers on
one account in each role. `ConsumerOf` is injective in the runs: the deployment gives
each pod its `POD_ID`. With the default `pod1` for two pods, an offset is overwritten
with a lower one, which the runs do not show; the theorem `OffsetsAdvance` names
injectivity as its assumption.

### AccountHistory

Two operators for two queries: `BalanceAsOf` replays the events up to an instant with
`Account.apply`, `Statement` adds them up. Queries select by `created_at`, the start
of the inserting transaction, and sort by version. Transactions that overlap may read
their versions in another order than they began, so an instant is modelled as any
subset of the account's events. `getBalanceAsOf` replays from zero also for an account
that was seeded with money, and skips what `apply` refuses then;
`HistoryExplainsBalance` therefore says more of the other accounts: no entry of their
statement is further below zero than negative credits took it. It says nothing of
an account two of whose events carry one version: those are the collisions of
`ledger_conservation`. `Ordered` is any bijection that goes up with the version, which is
what `ORDER BY` promises.

### EventListener

`thread` is the position of the virtual thread in `listenLoop`; `session` the raw
connection, which `closeConnection` returns to the pool with its LISTEN (`parked`)
or which dies; `pending` that notifications wait in it. One `Project` step is one
`catchUp` transaction of `Ledger`, and the events commit in the order of their
numbers here, so that what this module shows missing is missing for reasons of the
listener alone. `unheard` and `dropped` are history variables: they remember that
an event was committed while no session listened, and that a notification was
lost with its session or consumed by a `catchUp` that failed. The first happens without
any failure, as `listenLoop` catches up before `ensureConnection` has executed LISTEN and
not after it: `WaitingIsAnnounced` excepts such an event, which stays where it is until a
later one is announced, and `AnnouncedIsProjected` then has it projected too.

*Fairness:* `WF(ThreadStep)`: the JVM schedules the thread, polls time out after
500 ms, sleeps end. Commits, failures and shutdown are under no obligation.

### Matchmaking

A like is a pair. Outputs are batches per target partition, as the producer keeps them:
`passiveOut[q]`, `matchOut[q]`. The thread of a partition reads `dance-partner-events`, its
passive topic and its repartition topic in any interleaving; `task[p]` holds what
it has read, stored and emitted since its last commit, `saved[p]` what is committed.
Under `EXACTLY_ONCE_V2` (`KafkaStreamsDefaultConfig`) a commit publishes all of it
at once, a crash goes back to `saved`. `DieOnSelfMatch` is the exception of
`Set.of(event, reversed)` for a dancer who likes herself: the handler of
`KafkaStreamsHealthIndicator` has the thread replaced, the new one starts from `saved`,
meets the same record and dies of it too. An instance runs one
stream thread; where it owns several partitions, its behaviour is one of those of a
thread for each, and each death takes all of them back to their last commits. That is
why the exception in `MatchedOrStuck` is a thread stuck at *some* partition. Liked-by histories follow the code, which adds the
likee (the key) where the liker is meant and names the history after its first
liker (`KStreamAndKTableDefinitions.java:153,157`); no property rests on them,
although the README of wonder-matcher lists the feature.

*Fairness:* `WF(ThreadStep(p))`: a thread, or the one that replaces it, polls and
commits for ever. Likes and crashes are free.

### Outbox

An event stands for its row, that is for its key (id, version, topic). `Persist`
writes into the caller's transaction, `Commit` makes the rows visible,
`PublishTriggers` sends what the thread's `ThreadLocal` holds, if a trigger throws
only a part of it. `inFlight` counts outstanding futures. `PublishFails` is a future
that ends with an exception, whether the topic has the message or not. `HandleAck`
and `Flush` fill and take the batch under the lock; the delete runs outside of it
and may fail, which forgets the batch. `Age` puts a row above
`republishThresholdInSeconds`; `StartDrain` reads at most `DrainLimit` such rows in
no order (the query has no ORDER BY, or `order by random()`); the rows are
published as they are read, so acknowledgements and deletes fall in between.
`Crash` loses everything but the table. A graceful stop only keeps new drains from
starting before the process ends, which `Crash` covers. The commit, the rollback
with `clear()` and the call of `publish()` after the commit are the caller's part,
as the classes' comments ask for it. `Retired` are events whose topic has no
publisher after a redeployment (a crash and a start).

*Fairness:* rows age; a dead instance is started again; the scheduler runs drain
and flush (`PeriodicTrigger`); a publication is answered; a delete is executed.
Failures are finite (`MaxFailures`): the promise "eventually" needs the topic and
the database to come back. Callers may stop anywhere, in particular they need not
call `publish()`.

### StateDump

An event stands for one change of the owner's state, and a state is the set of the
changes it reflects. `performStateDump` is one action per call that others can fall
between: the subscription of its own, the snapshot of it, then the supplier looking at
one row after the other (`SupplyEvent`, reading what is committed *then*), then the
rename, unless a write failed. A consumer creates its subscription, reads the latest
dump, seeks to the snapshot of that name, subscribes, adds its listener; the order is
the code's, and each gap is a state. A snapshot may reach the end of its retention
(`SnapshotExpires`), then `seekToSnapshot` only answers false, and the caller looks for
a dump again: that is the application's part, as the boolean asks for it.
`EventBatchHandler` collects up to `MaxBatchSize` events, hands a full batch over
outside of the lock and flushes the rest periodically; a failed batch refuses all of
its messages. A subscription is the set of events still to be handed out, so order is
abstracted and redelivery kept: an unacknowledged event may come again at any time.

A shutdown begins with `DynamicSubscriptionDeleter`: as a `SmartLifecycle` it deletes the
subscription before any bean is destroyed (`DeleteDynamicSubscription`), under a
subscriber that runs. The subscriber learns of it in time and fails
(`SubscriptionNotFound`), or does not. Then `gracefulShutdown`, a `@PreDestroy` method,
stops the subscriber (`StopAsync`) and waits until every message it was handed is
answered (`AwaitTerminated`); for a subscriber that has failed `awaitTerminated` throws,
which the container logs (`AwaitThrows`). Messages that are on their way may still be
handed over until `StopAsync`. Left out: a deletion that fails, which leaves behind a
subscription that nobody reads, and a shutdown before the consumer has subscribed, which
is like `Crash`.

*Fairness:* while the subscriber receives, Pub/Sub hands out what is not acknowledged and
the scheduler flushes; the flush needs the `EventBatchHandler` to have been created
before `EventBusScheduler` is configured, since a trigger that is added later is kept but
never scheduled. Once the context closes no flush is certain any more: the scheduler is
shut down with the other beans. The handler's futures complete, and the steps of the
shutdown are taken. So `ShutdownEnds` has an exception: a batch that is not full and is
not flushed any more holds `awaitTerminated` up for ever. The exception is reachable
(without it TLC reports the property), and the property says that nothing else hangs.
Nobody need publish, dump or stop; failures are finite.

### Challenges

A request appends to the producer's buffer of its instance; `Send` moves the head into
the log or loses it. A request looks for no challenge, so any nonce is accepted, one
that was never created included. `Compact` removes any event that has a later one of its key.
The log is one partition of the topic, which has three by default and one in the local,
test and no-consul profiles: the events of a challenge are all in one. What else an
instance's thread reads shows in `ThreadDies`: it may die of a record of another
partition, at any time, as often as `MaxFailures` allows.
`Handle`, `Commit`, `ThreadDies`, `Revoke` and `Crash` are the stream thread under
`EXACTLY_ONCE_V2`: `challenges` and `position` are its working state, `committed` that of
its last transaction.

`ReadBack` is what the store and the events give back. `AuthenticationChallenge` is
deserialized by a Lombok builder without `@JsonPOJOBuilder(withPrefix = "")`, and unknown
properties do not fail: every field of a challenge that went through JSON is null. So a
creation that is handled writes a challenge without a state, and a capture or signature
that follows throws (`Throws`) and ends the thread; a capture finds a usable state only
where there is no entry, in the object that `createNew` makes. The run
`challenges_created` reports it: `CreatedAwaitsCapture` is what the class says of a
challenge that was created and no more. `LastEventDecides` speaks of the other events.

*Fairness:* the partition is assigned to a living thread, which polls and commits.

### ServiceWorker

A response is the number of the build it comes from, a file of a build what `Build` says
(two builds may agree on a file). One action is what runs between two awaits: the
visits of `activate` are single actions (`ActivateClean`, `ActivateFill`), so that
fetches, installs and kills fall between them. `Install` takes each file from the build
that is on the server at some moment of the download. `atRoot` tells the site at the root
of its origin from the one below `/wonderland/`, where the keys of requests do not match
those of `RESOURCES` and the worker leaves all requests alone. The browser's side
(jobs one after the other, `skipWaiting`, requests held during an activation, the HTTP
cache) follows the Service Workers specification and is marked external in the map.
`onlineFirst` does not wait for its `cache.put`, so the response may or may not be
stored. `broken` is a history variable. `RolledBack` excludes builds that restore an older file:
there the comparison of hashes cannot tell a stale entry from a current one.

*Fairness:* timers fire, requests of a page are answered, promises of `activate` settle.
No deployment and no installation need happen.

## 3. Runs

| run | instance | what it shows |
|---|---|---|
| `ledger_safety` | 2 transfers, 2 pods, 3 accounts (one created on the way), amounts -1, 1 and 2; symmetry of transfers and pods | all safety properties of `Ledger`, the refinement of `SerialProjection`, and that the log explains the balances (`HistoryExplainsBalance`) |
| `ledger_conservation` | 2 transfers, 1 pod | **violated**: `MoneyConserved`. Two transfers that read one version both commit; the second keeps one leg |
| `ledger_gap` | 2 transfers, 1 pod | **violated**: `NoEventLeftBehind`. A lower number commits after a higher one was projected |
| `listener` | 3 events, 2 failures | no silent wait; one notification gets everything projected; shutdown ends the thread |
| `matching` | 3 dancers on 2 partitions, 3 likes, 2 crashes | `MatchIsMutual`, `MutualIsNoticed`, `PassedOnOnce`, `MatchedOrStuck` |
| `matching_selflike` | the same, 1 crash, a like of oneself | **violated**: `MutualLikesMatch`. The thread of its partition dies of it, is replaced and dies of it again, and the mutual likes behind it never match |
| `outbox` | 2 events, 2 threads on one instance, batches of 2, drain limit 1, 2 failures, 1 crash | at-least-once delivery, nothing uncommitted published, the table empties |
| `outbox_orphan` | 2 events, 1 thread, 1 redeployment | **violated**: `GuaranteedFromDrainer`. A row without a publisher ends every drain before the rows behind it |
| `state_dump` | 2 events, 2 dumps, 1 consumer, batches of 2, 1 failure, 1 expired snapshot | `NothingIsMissed`, `CatchesUp`, `ShutdownEnds` |
| `service_worker` | 3 builds, 3 files, 3 workers, 1 page, 1 failure | `CoreNoOlder`, `OnlyResourcesCached`, `WaitedIsFresh`, `ShowGoesOn` |
| `challenges` | 2 challenges, 2 instances, 3 requests, 2 failures | `LastEventDecides`, `LoneEventIsHandled`, `NeverBack`, `LoggedIsHandled` |
| `challenges_created` | the same | **violated**: `CreatedAwaitsCapture`. A creation that is handled stores a challenge without a state |

All runs finish by themselves; `CHECK_DEADLOCK FALSE` is set because requests,
events and likes are finite in number and the system rests when they are done.
Each violated property quotes what the repository's documentation or the class itself says
of the program; the entries "findings" of `PROJECT.json` give source line and quotation.

*Why the bounds suffice.* Every race of the ledger is between two transfers on one
account, or two pods on one event; the third account lets a transfer fail on a row
that is not there yet. The listener needs two events for one to be announced
behind another, three for one to hide behind both, and two failures for one to hit
the recovery of the other. Matches need two likes; a third gives a second pair, a
like sent again, or a like of oneself, and the second crash hits the restart of the
first. The outbox needs two rows for a drain limit of one and a full batch, and two
failures for a retry that fails too. A state dump needs one event on
either side of the snapshot or of a read and two dumps for one to overtake the other;
one consumer is enough because consumers share nothing. Three builds are the fewest
in which a file is first replaced and then kept, or kept and then gone, three workers
the fewest for one active, one waiting and one installing. Challenges need three
requests for a creation, a use and a late or second one, and two failures for a crash
during the recovery from another. Where section 4 has a theorem, it removes the bounds.

## 4. Proofs

`LedgerProofs` shows, for every set of accounts, transfers, amounts, pods and
consumer names (`LedgerAssumption`, `PodAssumption`: opening balances are natural
numbers, as the migration seeds them, amounts are integers, `NoEvent` is no event):

- `TypeCorrect`: `Spec => []TypeOK`.
- `Inductive`: the invariant `IInv`. `save` guards with the version of the *event*, not
  with that of the row the pod loaded, so the absence of lost updates does not
  follow from the guard. It follows from where events come from: an event is built
  on a version its account has had (`EventsAreBuilt`, which needs `ReadsAreBuilt` for
  the versions a transfer holds), hence what a pod loaded lies between the event's
  version and the current one (`LoadedRowsFit`), and a save that passes the guard has
  them equal (`SaveIsFresh`). Versions grow with each post, which settles consumed
  events (`ConsumedIsSettled`), and every version an account has left was left by a
  posted event (`VersionsAreTaken`).
- From it `NoUpdateIsLost`, `RedeliveryIsInert`, `VersionsHaveOneWinner`, `DropsAreCollisions` (a drop is a
  collision, never a lack of money: `Covers` carries the transfer's check to the
  post), `OffsetsAdvance` (assuming one consumer name per pod).
- `ProjectionIsSerial`: `Spec => Serial!Spec`, the refinement, by `SerialInit` and
  `SerialStep`.
- `BalancesReconcile`. `BooksInv` adds to `IInv` that the log is finite and `BooksAgree`,
  the same equation with a function summed in place of an operator. A post enters in
  the balance what it enters in the postings (`PostIsNew`: its version has not been
  taken, so its event has not been posted).
- `BalancesStayCovered`, for any amounts. `Covered` carries the negative credits along
  (`TakenNext`): a debit that posts was covered by the row it is posted to, a credit that
  is not negative only adds, and a negative one enters on both sides of the inequality.
- `MoneyIsConservedUnlessRaced`, assuming that the accounts are finitely many, as the rows
  of a table are. `LegsArePaired` says which rows a transfer holds at each stage, hence a
  commit adds two that cancel (`LegsCancel`) and the log sums to zero (`LogBalances`);
  `TotalsAgree` is `BooksAgree` summed over the accounts. If no two events share a version
  and all are handled, `DropsAreCollisions` leaves none unposted.
- `HistoryExplainsRow`, for any amounts. The events of such an account are those posted to it
  (`ReconcilableLog`), in any order that goes up with the version (`OrderedFacts`). The two
  folds go through partial sums (`StatementIsSum`, `ReplayIsSum`). How far an entry is below
  zero, and that the replay refuses nothing, is not a matter of the current balance but of
  all earlier ones: `PastCovered` says that the postings below any version the account has
  had sum to no less than the negative credits do, and that no debit left less than zero;
  `FirstIsPast` that the first events of the sorted log are the
  postings below a version; `FirstIsCovered` puts the two together. `NewestEvent` gives the version, from `VersionsAreTaken`.

`BalancesReconcile` and what follows it are about sums and folds, which the library defines by recursive
functions: of such a function nothing is known until a solution of its recursion is
shown to exist. `FiniteSums` does that once (`FoldsExist`: a solution for the subsets of at
most n elements extends to n + 1), and gets induction from minimal counterexamples, as
well-foundedness can be cited for a set where the induction theorems would need an
operator. `SumTakeOut`, `SumAdd` and `SumSplit` are then the laws of sums and `FoldSteps` that of
folds.

`ListenerProofs` shows `NoSilentWait` and `ListenerTyped` for every number of events and
failures: `TypeOK /\ WaitingIsAnnounced` is inductive.

`OutboxProofs` shows, for every set of events, threads and instances and every limit
(`OutboxAssumption`: a thread runs on an instance, limits are positive),
`NothingIsLost`, `NothingIsInvented`, `OutboxTyped` and `PromiseIsKept`, the safety part of
the refinement of `AtLeastOnce`. `KeptUntilDelivered` alone is not inductive: a delete
looks at no delivery, only at the batch it was given. The invariant says where each
copy of an event comes from: triggers hold what their thread wrote
(`TriggersAreWritten`, which needs the caller's `clear()`), rows, drains and
publications are of committed events (`SentIsCommitted`), acknowledgements and batches
of delivered ones (`AckedIsDelivered`).

`MatchmakingProofs` shows `TypeCorrect`, `MatchesAreMutual` and `MutualLikesAreNoticed` for
every set of dancers, partitions and likes, any placement of dancers and any number of
crashes. `MutualIsNoticed` speaks of what is committed, but the step that could break it
is a commit of a thread that joined a like long before. The invariant remembers two
things about a thread between its commits: a like it has stored since the last one is in
its batch (`NewIsPassedOn`), and a passive like it has read since then was joined with
every like of that commit (`ReadIsJoined`). So when a commit makes a second like of two
visible, either its passive like is delivered unread with it, or both were visible before
and the read between them has put both match events into the batch. `OutIsLiked` and
`EventsAreMutual` carry a match from the join to the stores. `CommitStep` is the main case.

`LikesArePassedOnOnce` counts records. `CountInv` splits what `PassedOnOnce` equates: a pair
delivered to the partition of its likee is as often there as it is among the likes read
before the *saved* offset, and the delivered ones with those in the open transaction are
as many as the likes read before the *current* one (`PassedOn`). Reading adds one to both
sides of the second, a commit turns the second into the first, an abort drops what the
first never counted. `CountAppend`, `CountConcat` and `CountPrefix` say what appending, a
delivered batch and an offset do to a count.

`StateDumpProofs` shows `TypeCorrect` and `NothingIsEverMissed` for every set of events,
dumps (of which any non-empty set has a latest name, `StateDumpAssumption`) and consumers.
`DumpCovers`: what a snapshot does not keep was published, hence committed, before the
snapshot was taken, and the supplier reads each row after that. `RestoredIsStored` carries
the dump's content to the seek, `IdleBefore` keeps batches of one life of a consumer
out of the next.

`ChallengesProofs` shows `TypeCorrect`, `LastEventAlwaysDecides`, `LoneEventNeverStops` and
`CommittedNeverGoesBack` for any number of challenges, instances, requests and failures. The
store and the last commit each follow the log up to their own position (`Follows`), and
every entry has an event (`Founded`); both survive sends, compaction and every return to
the last commit. For `NeverBack`, the creation of a challenge that is used through one
instance comes before its other events, in the buffer of that instance and in the log
(`CreatedFirst`), and no other event takes a store back; so the working store is never
behind the committed one (`AheadOfCommit`).

`ServiceWorkerProofs` shows `TypeCorrect`, `ShellStaysFresh` and `OldFilesAreGone` for any builds
(`ServiceWorkerAssumption`: a build has its shell files and `/`), workers, pages and failures. What
is in the cache says nothing of when it was put there; the argument is an order of the
builds. The saved manifest, the active worker, the one that waits and the one being
installed hold ever later `RESOURCES` (`ManifestsInOrder`), and what a shell file can be
taken from, the HTTP cache and TEMP, is never behind them (`SourcesKeepUp`, which needs
`'cache': 'reload'`). `CleanedSoFar` says of each file the activate handler has visited that
it may stay under the new manifest: `CleanMayStay` is where a rollback has to be excluded.
`SavedKnowsAll` holds over workers killed halfway, as none of them has older `RESOURCES`.
What all steps of a page may do to the caches is one lemma, `PageEffect`.

Its second part shows `WaitingPays`. A page that has registered finds the latest worker no
older than itself, and keeps doing so whoever starts another; the worker it waits for is
no older either (`PageFollows`); an activation that was not killed leaves no older program
in the cache (`ActiveIsFresh`). `MovesOn` is what a step of anyone else must respect so that
a page loses none of that. It needs that no version and no response is from the future
(`NothingFromTheFuture`), an offline `/` from the cache included.

*Only model-checked.* Liveness: `AnnouncedIsProjected`, `ShutdownStops`, `MatchedOrStuck`,
`ImplementsAtLeastOnce` beyond its safety part, `DeliveredIsForgotten`, `CatchesUp`,
`ShutdownEnds`, `LoggedIsHandled` and `ShowGoesOn`, which TLAPS does not reach. Every invariant and
action property of the passing runs has a theorem. The inductive invariants above were
checked by TLC on the instances of section 3 before they were proved.

## 5. What is not modelled, and why

- `NUMERIC(19,4)`: amounts with more decimals round, each leg on its own.
- Queries: `ViewService` of wonder-matcher and of the authentication service, and the texts
  of a statement's entries.
- `expiresAt` of a challenge is written and never looked at.
- How a dump is written as lines and read back in blocks; the library's unit tests cover it.
- The UNIQUE constraint on versions that `formance-architecture.md:154` describes is
  not in the migrations, and `revolut-architecture.md:490` writes
  `accounts.version < :version` where the code has `= :version - 1`: `Ledger` follows
  migrations and code.
- A shutdown between `getConnection` and the assignment of the fields may leave a
  connection open; `EventListener` has `ensureConnection` as one step, as no property
  counts connections.
- Keys of the outbox used again after their row was deleted: a late
  acknowledgement would delete the new row. Versions of an entity do not repeat.
- The `chat` services (`message-publisher`, `message-search`, `communication-graph`): each is one
  call after another into a broker or a database whose behaviour decides the outcome.
- `deployment/github_page/public/main.dart.js` (118 399 lines) and `canvaskit` are compiler
  output; of that directory, `flutter_service_worker.js` and `flutter.js` are modelled. The
  three ceremonies of `webauthn` call an external server and keep no state between runs.
- `TrustedTypes` policies and the callback by which the engine starts (`flutter.js`).
- `OracleOutboxDao`, a variant of `PostgresOutboxDao`; the other parts as listed in
  section 1 and in `PROJECT.json`.

*Hazards without a property* (`PROJECT.json`): the rounding of `NUMERIC(19,4)`, two pods
with the default `POD_ID`, a subscriber that fails before it has its listener, the restore
of the global store, the dual write, the swallowed optimistic lock of
`communication-graph`, and late acknowledgements of a reused outbox key.

## 6. Plan

Done: the ledger with its listener and queries, likes and matches, the outbox, the state
dumps, the challenges, the web build. Next:

1. `SeekerStore`: the global table, its restore and `WonderSeekerJdbcRepository`.
2. `Chat`: dual write of `message-publisher`, redelivery in `message-search`, lost
   updates in `communication-graph`.
3. Video call signalling of `dance_partner_finder`.
