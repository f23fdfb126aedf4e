# A TLA+ model of CLIProxyAPI

The repository is a collection of Synology packages. One package carries the
source of a program of its own: `spk/cliproxy/source/CLIProxyAPI`, a proxy in Go
that serves OpenAI-, Claude- and Gemini-style requests with a pool of
credentials of many upstream providers. Its core is the pool: which credential
may serve which model, which is cooling down after an error, which one the next
request gets, and how files, logins, background refreshes and requests change
all of that at the same time. This directory models the pool, the path by which
credentials get into it, the background refresh of their tokens, and the two
ways a request leaves it: through an executor with retries and streaming, or
through a websocket to a remote client. The build framework and the other
packages are scripts around downloaded programs and are not modelled.

Paths below are relative to `spk/cliproxy/source/CLIProxyAPI`. `PROJECT.json`
lists the lines each definition stands for.

## Inventory

| component | state | operations | modelled by |
|---|---|---|---|
| model registry (`internal/registry/model_registry.go`) | per model: reference counts, per provider counts, quota and suspension marks; per client: list and provider; cached listings | RegisterClient, UnregisterClient, SetModelQuotaExceeded, ClearModelQuotaExceeded, SuspendClientModel, ResumeClientModel, CleanupExpiredQuotas, GetAvailableModels, GetModelCount, GetModelsForClient | `ModelRegistry` |
| auth scheduler (`sdk/cliproxy/auth/scheduler.go`) | per provider: known auths and lazy shards per model; per shard: entries, ready buckets by priority with cursors, blocked queue; cursors of mixed picks | upsertAuth, removeAuth, rebuild, setSelector, pickSingle, pickMixed | `AuthScheduler`, `SchedulerRotation` |
| selectors (`sdk/cliproxy/auth/selector.go`) | cursors per provider and model | Pick, isAuthBlockedForModel | partly: `AuthScheduler` |
| result recording (`sdk/cliproxy/auth/conductor.go`) | per auth: status, retry time, quota; the same per model | MarkResult, ReconcileRegistryModelStates, Update | `AuthState`, `AuthUpdates` |
| manager and service together (`conductor.go`, `sdk/cliproxy/service.go`) | the three components' views of one credential | MarkResult, pickNext, applyCoreAuthAddOrUpdate, applyCoreAuthRemoval, refreshModelRegistrationForAuth | `AuthManager` |
| background refresh (`sdk/cliproxy/auth/auto_refresh_loop.go`, `conductor.go`) | heap of due times, dirty set, wake token, job channel, the records | rebuild, queueReschedule, popDue, handleDueAuth, applyDirty, worker, refreshAuth | `AutoRefresh` |
| request execution and streaming (`conductor.go`) | per request: tried set, attempts, retries; per attempt a chain of channels | Execute, ExecuteStream, executeStreamWithModelPool, readStreamBootstrap, wrapStreamResult, discardStreamChunks | `StreamExecution` |
| API request handlers (`sdk/api/handlers`) | per request: context, data and error channel, retries, what was written | GetContextWithCancel, ExecuteStreamWithAuthManager, the peek of the streaming handlers, ForwardStream | `StreamExecution` |
| websocket relay (`internal/wsrelay`) | sessions by name; per session: closed, pending requests and their channels | handleWebsocket, run, dispatch, request, send, cleanup, Send, NonStream, Stream, Stop | `WsRelay` |
| watcher and dispatcher (`internal/watcher`) | hashes, current and runtime auths, configuration, debounce state, pending updates in order | handleEvent, addOrUpdateClient, removeClient, reloadConfigIfChanged, reloadClients, refreshAuthState, dispatchRuntimeAuthUpdate, dispatchLoop | `UpdatePipeline` |
| service update queue (`service.go`) | a channel of 256 updates | wsOnConnected, wsOnDisconnected, emitAuthUpdate, consumeAuthUpdates | `UpdatePipeline`; what it promises: `CoalescingChannel` |
| usage queue (`sdk/cliproxy/usage/manager.go`) | queue, closed flag | Publish, Stop, run | planned |
| signature cache, token stores, OAuth flows, access manager, HTTP API, executors, translators, configuration, terminal UI | | | not modelled, see below |

How they interact. A file change, a login or a websocket connection becomes an
auth update in the service's queue; its consumer stores the auth in the manager
(`m.mu`), registers its models in the registry (`registry.mutex`), resets its
model states, and refreshes its entry in the scheduler (`scheduler.mu`). A
request asks the scheduler for a credential, runs it, and reports the outcome to
MarkResult, which changes the manager's record, then the scheduler, then the
registry's marks. A new model catalog re-registers every auth from a third
goroutine, and token refreshes update auths from a fourth. No lock spans two of
these steps.

What is hard, and what makes each part correct:

* Registry: duplicated entries, provider changes and shrinking lists move four
  counters incrementally; they must equal what they count. The listing is cached
  with an expiry and answered by a clock read before the lock; it must still
  have been right at some moment of the call.
* Scheduler: incremental indexes with skipped rebuilds, shards built on first
  use, cursors that survive rebuilds. They must equal what a rebuild gives, picks
  must be of the best free priority, rotation must stay fair.
* Result recording: many orders of outcomes, retry times that pass in silence, a
  backoff that doubles. Waits must stay bounded, the aggregate must follow the
  models, and an error must end with its cause.
* Manager and service: snapshots taken under one lock and used after it. The
  three views must converge.
* Background refresh: the loop sleeps on a timer while the service, the workers
  and a restart mark credentials for it; it must not sleep over one. A refresh
  works on a clone for as long as an upstream takes; what it stores back must not
  undo what happened meanwhile, and a second one should not start beside it.
* Requests: attempts, retries at three levels and a cancellation at any point.
  The client must get the chunks of one attempt, each attempt must be recorded
  once and truthfully, and four goroutines on unbuffered channels must all end.
* Relay: a reader, a heartbeat, Stop, callers and watchers share channels that
  are closed without a common lock. Answers must be complete, callers must
  return, and a connection that is over must leave nothing behind.
* Watcher: three kinds of goroutines prepare updates under one lock and dispatch
  them after it, a snapshot of the disk is taken without it, events are debounced
  and hashes decide what is news. Manager, watcher and disk must agree in the end.

## Modules

**`ModelRegistry`**: one action per exported method, each under the
registry mutex as in the code. GetAvailableModels is two actions (`ReadClock`,
`GetAvailableModels`) since it calls `time.Now()` before it locks, so the clock
and every other method may run between. A client's list is a bag
(`clientModels[c][m]` copies), because the code keeps duplicates and counts
them. `RegisterClient` is the code's three paths: no models (unregister), a new
client (`PureAddition`), a known one (`Reconcile`: move the overlap out of the
old provider, remove, add, refresh). A model missing in the code's map is
`NoRegistration`. `GetModelCount`, which picks the model of an automatic request,
is an operator, for it only reads. Hooks and metadata are left out.

**`AuthScheduler`**: `providers[p]` is the providerScheduler, its `shards[m]`
the modelScheduler, with `entries`, `ready[priority].all/ws` (the readyBucket's
views with their cursors and parent groups) and the `blocked` set. Every method
runs under one mutex and reads the clock inside, so each is one action. The
snapshots an upsert may bring are a parameter: they are per-model states that
MarkResult leaves. `registered` is the registry as the scheduler reads it.
`SchedulerRotation` extends it with a history of who was served, which
`FairRotation` and `ProportionalShares` speak about; it adds no behaviour.

**`AuthState`**: the manager's record of one auth. `MarkResult` covers every
class of result (`Kinds`) with and without `disable_cooling`, `MarkModellessResult` the
branches without a model, `Settle` and `updateAggregatedAvailability` what the
code does to the aggregate afterwards, `Update` the carry-over of states.
Messages and error values are abstracted to "there is one"; the auth's own
LastError, which only the management API shows, is left out. These are the
operations, for `AuthManager` as well. **`AuthUpdates`** puts them together with the
goroutines that replace the whole record: `Read(u)` takes a clone, `Store(u)` gives
Update one of the records made from it (`Replacements`): the clone as it was
(refreshAuth, edited fields), disabled or enabled again (removal, management API), a
new record from a file, or a new one with the clone's model states
(`applyCoreAuthAddOrUpdate`). In between results go on, so that what is stored may be
stale in all its parts. refreshAuth clones outside the lock; that such a clone could be torn by
a result that is being written at that moment is not modelled.

**`AuthManager`**: extends `AuthState`, instantiates `ModelRegistry`, and
reduces the scheduler to its entry for the credential. A handler is a list of
critical sections, `pending[t]`; each section is one action, so any other
handler may run at every unlock. `Live` is the pointer that Register and Update
share with the scheduler: what it shows is whatever the manager's record is now.
`overlapped` is history: whether two handlers ran at the same time since one
last refreshed everything alone.

**`AutoRefresh`**: the loop is a program counter with the branches of its
`select`, the handling of due entries (`LoopDue`, `HandleDue`, `MarkPending`,
`SendJob`) and of dirty ones (`DrainDirty`, `ApplyDirty`); `Publish`,
`RebuildRead` and `RebuildFill` are its start. A worker takes a job with a clone
of the record, fails or stores what the executor returned (`RefreshSucceeds`), and
marks the credential dirty. The service (`op`) reads a record, replaces it or
registers a new one, with an executor for all credentials of its provider, and marks it.
Times are relative to now, so that `Tick` moves all of them;
the loop reads the clock once per turn, and `lag` is how long ago that was, which
matters while it waits for room in the job channel. `wish` is what the service
wanted last, `excuse` whether a second refresh has an explanation. Simplified:
time passes only while everybody waits; a worker leaves one mark behind;
the mark the loop makes for itself is part of `MarkPending`.

**`StreamExecution`**: one request. `call` is the run of Execute or
ExecuteStream with its rounds, credentials and models; `att[n]` one call of an
executor with its producer, the chunk it offers (under a cancelled context some
executors report the error, others close the channel without a word: `ProdRead`,
`ProdGivesUp`), and its reader, which is the
bootstrap, then the goroutine of wrapStreamResult, or one that discards; `h` the
goroutine of ExecuteStreamWithAuthManager, `w` the request goroutine. A channel
without a buffer is a step of both ends. Chunks are numbered per attempt, errors
are reduced to the classes the code tells apart (`Errors`). Which credential is
picked and how long a cooldown lasts belong to `AuthScheduler` and `AuthState`;
here credentials are only counted.

**`WsRelay`**: per session the handshake, the reader with the message it is
dispatching (`conn`), and the clean-up (`clean`), which runs once, in whichever goroutine came
first; per request its channel, its caller and its watcher (`req`). The
operations on the pending map are single steps, also the ones of `Range`, and the
overwriting of the map (`reset`) is a state of its own, in which whoever uses the map may panic.
A session is its provider name, since the service draws names at random.

**`UpdatePipeline`**: the disk, the event goroutine (`ev`), the reloads (`rl`: the load
of start and the timer callbacks, which may overlap), the calls of relay
sessions, the dispatch loop and the consumer; a step is a section under
`clientsMutex` or `dispatchMu`, a read of the disk or a channel operation. A
credential is a version number. Which reload changes exclusion lists or forces a
refresh is left open. **`CoalescingChannel`** is what the path from dispatcher
to manager promises without threads, batches and channel: per credential a list
of updates on their way, whose last one may be replaced, and which arrive in order.

**`MC*`**: the instances TLC checks. **`ModelRegistryProofs`,
`AuthSchedulerProofs`, `AuthStateProofs`, `AuthManagerProofs`,
`AutoRefreshProofs`, `StreamExecutionProofs`, `WsRelayProofs`,
`UpdatePipelineProofs`**: theorems, below.

## Runs

| run | instance | what it shows |
|---|---|---|
| `model_registry` | 2 clients, 2 models, 2 providers, 2 copies, lists of 2 entries, window 2, clock 0..2, one reader, 3 marks | counters equal bindings; a cached listing was right between call and answer |
| `scheduler_shard` | 3 auths of one provider: 2 priorities, 2 parents, websocket or not, disabled, waiting to 1 or 2; clock 0..2 | indexes equal a rebuild, cursors in range, picks sound, errors explained, rotation fair |
| `scheduler_mixed` | 3 auths, 2 providers, moves between them, models re-listed for one auth; clock 0..1 | shards complete, mixed and pinned picks sound, shares proportional |
| `scheduler_emulation` | as `scheduler_shard` | violated: see findings |
| `auth_state` | 2 models, all waits 1, backoff 1 to 2, clock 0..1, one updater whose clone misses up to one change | waits bounded; after a stale clone the next result puts aggregate and status right |
| `manager_agreement` | 1 credential, 1 model, another client, 2 request goroutines, consumer, catalog; 2 handlers at a time; clock 0..1 | the scheduler catches up with the registry; all agree after one undisturbed refresh |
| `manager_stale` | as above without the other client | violated: see findings |
| `manager_reregister` | as `manager_agreement`, with 403 results | violated: see findings |
| `pipeline` | 1 auth file with 1 content (or half written, or absent), 1 configured key, 1 relay, all of them affected by exclusion lists, 2 reloads, a queue of 1, 3 changes | manager follows watcher, watcher follows disk and configuration, reloads keep relays; implements `CoalescingChannel` |
| `stream` | 2 credentials, 2 models each, no credential limit, 1 retry, 1 bootstrap retry, 2 chunks, 2 attempts | one attempt delivered, results recorded once and truthfully, a 200 is complete, every goroutine ends |
| `relay` | 1 session, 1 request, a channel of 1, streams of 2 parts | successes are complete, panics explained, nothing is left behind, callers return |
| `refresh` | 1 credential, 2 workers, a job channel of 1, check interval 3, pending backoff 1, failure backoff 2, a life of 1, lag up to 1, 1 change by the service | no sleep over something due, overlaps and undone changes explained, what is due is attempted |

Why the bounds are enough. *Registry*: two copies and two entries give every
relation between old and new counts (gain, loss, shrink, grow, overlap), two
clients give a binding beside the one that changes, two providers a move and a
move back; three marks allow quota and suspension of one binding beside a mark
on another; the clock reaches one window, so marks recover while a reader holds
an older clock. `StaysWithinBounds` cuts the steps that would add a fourth mark.
*Scheduler*: three auths are a rotation that loses and gains a member and still
has two; the instants 0, 1, 2 hold a retry time before, at and after the clock,
and one earlier than its recovery time. *Auth state*: with two instants a
wait of 1 is in the future and then over while one of 2 still runs, and the second
level reaches the maximum; one change missed is enough for a clone to
be stale in its aggregate, its model states, or one against the other. A third
instant, different waits and an announced delay of 1 were checked apart from the runs without
the updater, the announced delay also with it (1.2 million states).
*Manager*: two handlers at a time and four threads give each pair of handlers
every interleaving; the hazards listed are between two handlers. Symmetry is
used over clients, models or request goroutines, which the properties treat
alike. *Pipeline*: three changes are a change, one that overtakes it and one
behind both, and the start counts as one; a queue of one makes the dispatch loop
wait while updates are replaced behind it. One content is enough for a
disagreement, since a file also may be absent or half written; two contents of
the file with the same bound were checked apart from the runs (3.5 million
states, no error). *Stream*: with two attempts, two chunks and one retry of each kind, an
attempt may fail before, in and after its first chunk, and be replaced at all
three levels. *Relay*: a channel of one overflows with the second message; every
goroutine of the code meets every other one at the one request, and what a
request shares with others is only the map, whose operations do not depend on
them. *Refresh*: two workers allow a double refresh, a channel of one is full
with one job waiting; backoffs of 1 and 2 with a life of 1 put every due time
before, at and after each other, and the check interval is the longest of them as in the
program, which starts the loop with 15 minutes (`service.go:687`) beside
1 and 5 (`conductor.go:62-66`). Two credentials with one worker were checked
apart from the runs (4.8 million states, invariants only).

`CHECK_DEADLOCK FALSE` is given for the registry, the scheduler, the auth and
the manager: there the clock ends, and a
credential with nothing to do is a state the program rests in. `pipeline`,
`stream`, `relay` and `refresh` check for deadlocks: in `AutoRefresh` time
always passes, and the other three name the states in which everything is over
(`Finished`, `AllEnded`), so that a goroutine stuck anywhere else is an error. The history of
`SchedulerRotation` is cut to the length of one round.

In `scheduler_*`, `MaxTried = 1`: a pick filters at most one auth that was tried
before. `HeldBack` in `PickSound` and `MixedPickSound` takes out the auths of the
`scheduler_emulation` finding, whose recorded time lies in the future; all other
free auths must be found.

**Fairness and liveness.** A goroutine that can go on does so: weak fairness per
goroutine, which Go's scheduler gives. What the outside need not do is not assumed:
a client need not leave, a caller need not call, a peer need not answer or go
away, an upstream need not answer as long as the context is alive. Three
assumptions are about the runtime: once the context is done, the transport makes
the call or the read return (`StreamExecution`); a read comes back once the peer
is gone, through the read deadline, or the connection is closed (`WsRelay`); and
time passes: again and again everybody waits, and that takes a while
(`Quiet` and strong fairness of `Tick` in `AutoRefresh`). The loop of the
refresh gets strong fairness for its timer branch, since `select` chooses at random
among the ready ones and so cannot pass over one of them for ever. A refresh need
not return: most executors set no timeout.
On that rest `NothingLeaks` (after the client left or the response is complete,
every goroutine of the request ends), `CallersReturn` (a caller returns once
peer or session is gone), and `DueIsAttempted` (what is due is attempted, disabled
or renewed, unless every worker is with a refresh that never returns).
`UpdatePipeline` has no fairness: its properties are about what is
still on its way. `AuthManager` has none either: `ModelsCatchUp` allows a difference
only while a handler has an upsert ahead of it.

## Proofs

All proofs are checked by TLAPS for every value of the constants, from the named
assumptions of the modules (`ConstantsAssumption`; `SchedulerConstants` and
`NoneIsNothing`; `StateConstants`, `NoneIsNoState` and `UpdatesAssumption`; `ManagerConstants`,
`LiveIsNoRecord` and `NoneIsNoEntry`; `RefreshAssumption`; `RelayAssumption`;
`StreamAssumption`; `PipelineAssumption`): finite sets of clients, models, auths,
priorities, parents or workers, IDs and parents that are numbers (their
order is all that counts), provider lists without repetition, waits that are
natural numbers, a backoff base that is positive and at most the maximum, a check
interval that is positive (in no order with the two backoffs), channels with at least one place, and a
"none" that is no number, request, session, entry or record. The assumptions about
"none" and `Live` say that nil, or a pointer, is none of the values it stands beside.

*`ModelRegistryProofs`*: `TypeCorrect`, `CountsCorrect`, `CacheCorrect`,
`CountsHonest` and `CountsExact`. For the first two the inductive
invariant is `TypeOK /\ CountsMatchBindings`, since the counters cannot be
followed without knowing that they are numbers and that lists have at most
`MaxDup` copies. The argument: the bindings of a model split into the client
that changes and all the others (`HeldSplit`, `OthersBound`, `TallySplit`);
nothing an action does changes what the others hold (`OthersStay`); and the
counter updates move exactly what the changing client gained or lost, case by
case of old and new count and provider (`ReconcileCounts`, on `AddCounts`,
`RemoveCounts` and `RefreshCounts`). The deletion at count 0 and the clamp of
the provider counter are right because the others hold no fewer than 0 and the
provider counter holds at least what is withdrawn from it. `CacheCorrect` is about
the cached listing: it was computed at one instant from the registrations as they
still are (`BuiltOnce`), since every method that changes one drops it; and
what it says stays true until the first mark recovers, which is when it expires
(`ListingHolds`). So the answer to a reader with an old clock was right at some
moment of its call. The two about `GetModelCount` follow from the
counters: the bindings of a model nobody lists twice are the clients that list it
(`BindingsAreListers`), and the rest is the size of a set from which two that may
overlap are taken (`DifferenceCount`). No run checks these two; TLC did, apart from
the runs, on the instance of `model_registry`.

*`AuthSchedulerProofs`*: `TypeCorrect`, `IndexesCorrect`, `ShardsCorrect`,
`PicksCorrect`, `MixedPicksCorrect`, `FailuresCorrect`; `RotationRefines`,
that the specification with the rotation's history is one of the same scheduler;
and of that one `RotationFair` and `SharesProportional`.
The inductive invariant says of every shard (`GoodShard`) that its entries are
exactly the provider's auths that support the model, each evaluated at some
instant up to now, not all at the same one (`GoodEntries`), and that its views, blocked
queue and cursors are those of the entries (`GoodIndexes`); and of the provider
map that each auth has the one home `authProviders` names (`Homes`). The
instant matters: an entry evaluated long ago is right as long as its auth is
not promoted, and `Waits`, the auths still held back, are the exception `HeldBack`
makes in the properties. An upsert that skips the rebuild is right because
nothing the indexes depend on has changed. A pick is then taken apart from
below: `NextFrom` finds an allowed member from any cursor, a view
gives a member of its level, a shard one of the foremost ready auths. For a mixed pick
the slots before a position number the ready auths before it, so the cursor taken
modulo their sum falls into exactly one provider's segment, and into a willing one
after a turn through the list.

The rotation needs a second invariant beside `IInv`, `RotationInv`: whose turn it
was. A rotation is a ring of n positions, each with the auths that may be served
there, and a cursor; `Trail` says that the auths served last stand, from the newest
back, at the positions behind the cursor. A pick moves both (`TrailMoves`), a cursor
that is taken modulo n stands where it stood (`TrailNormalized`), and a trail of at
most n picks over disjoint positions is without repetition (`TrailDistinct`). Over
one provider the ring is the view, by auth or by parent (`SingleTrail`). Over several
it is the slots of the mixed cursor (`MixedTrail`). Whom a slot belongs to is
not constant: the next pick in a provider's segment takes what its own cursor points
to. But the two cursors move together, so it is constant relative to both
(`SlotAuth`, by `Passed` and `Place`): that is why `pickMixed` may keep only the one
number. The steps between two picks keep the trail although they rebuild indexes and
restore cursors (`StepFollows`, `RotationKept`), as long as the membership that
`MembersIn` compares is the same. `SharesProportional` then counts: the turns of one
provider map one to one into the slots of its segment (`MixedShare`).

*`AuthStateProofs`*: `TypeCorrect`, `WaitsCorrect`, the action properties
`AggregateCorrect` and `StatusCorrect`, all of `AuthUpdates`, and `CooldownMonotone` about two rate
limits one after the other. The inductive invariant `IInv` says of the auth that it is typed, and of
every model state that it is typed, has no retry time when available, has an
error when its status is one, and that its times and level are bounded
(`GoodState`); and the same of every clone on its way (`GoodHeld`), since a bound that
holds now holds later (`LaterGood`). The status part is in it because `hasModelError` looks at status
and error, and `StatusExplained` speaks of the error only. `WaitsCorrect` needs
that a level is 0 or the level before it still doubles to less than the maximum
(`BoundedLevel`, `NextLevelBounded`). `AggregateCorrect` rests on the exactness
of `updateAggregatedAvailability` (`AggregateIsExact`), with which every result or reconciliation
that changes a model state ends and which takes nothing over from the aggregate that was there
before, on the states that survive it (`AggregateKeepsErrors`),
and on `ExactLater` for the clock: once a retry time of a blocked model has
passed, so has the aggregate's, which is the least of them. Least and greatest
elements are taken from well-foundedness (`LeastNumber`, `GreatestValue`).
`CooldownMonotone` is about rate limits without a delay of their own: one that announces
a delay waits that long, which may be shorter.

*`AuthManagerProofs`*: `ManagerTypesCorrect`, `ModelsCaughtUp` and
`AgreementCorrect`, about any number of requests in flight beside the consumer and
the catalog. The inductive invariant has four parts. `Shapes` types the state and the
critical sections still to run; the records in flight are as good as the
manager's own (`GoodAuth`, from `AuthStateProofs`), since an update may put them in its
place. `Followups`: in the list of every goroutine each
section that rebinds the credential's models is followed by one that upserts it, or leads to an
upsert; this is what makes `ModelsCatchUp`, the third part, inductive, however the
handlers overlap. `Outline` is a proof outline of the handlers: as long as
nothing overlapped, one goroutine at most is busy, and what it still has to do
mends (`Mends`) what it took apart. For every suffix of every handler `Mends` names the fact that the suffix
relies on, for instance that behind a registration from a record the
record still says whether the credential is disabled. With nothing left to do, `Mends` is agreement. There
is one lemma per critical section and one per handler that starts; an undisturbed
add, update, removal or refresh needs no agreement to start from, a result or a
failed pick does, and finds it (`FindsAgreement`).

*`AutoRefreshProofs`*: `TypeCorrect`, `ChangesAreKept`, `NothingForgotten` and
`OverlapsExplained`. The inductive invariant has four parts. `Types` with
`Registered` is the shape of the state. `Wanted` follows the enabled flag: whoever is about to write a
record (a worker with a clone, the service) either carries what is wanted or
`wish` says that the change was torn. `Scheduled` follows a credential through
the loop: at every program counter it is dirty, about to be marked, in the batch,
with the loop, or in the heap at a time that is not too late for its record; time passing
moves heap and record alike, and every write of a record leaves a mark ahead.
`Solo` is about two refreshes of one credential: while one is queued or runs and nothing excuses a
second, the record holds a backoff that has not run out, the heap entry is no earlier, and nobody holds
an older copy of the record; `Holders` is a sum of cardinalities, hence the finite set of workers.

*`WsRelayProofs`*: `TypeCorrect`, `NothingLeft`, `CompleteOrCutOff` and `PanicsCorrect`. `Types` is the
shape of the state. `Lives` follows a session through handshake and clean-up: a clean-up
that began after the handshake finds session and credential in place and
takes both away, and nobody adds them again. `Streams` says, per request, that what the caller got, what
is in its channel, and what the reader is about to deliver are, one after the
other, the numbers 1, 2, ... up to what the client sent, unless a message was
lost; that a terminal message is the last one; and that a channel is closed only with a reason
(the last message was delivered, the context is done, the session is closed). A caller sees
the channel closed only when it is empty, so what `NonStream` makes of that needs
one of these reasons. The proof has one lemma per action, and three that spare the others the work (`StreamOf`
for what only one request's stream depends on, `StreamsFrame` and `CallerFrame` for
steps that leave it alone). `PanicsCorrect` has an invariant of its own, `Fates`: for each
request, who may have closed its channel and who still may, and what a reader, a
watcher and a clean-up that hold the request know of each other. A reader that
still reads never is the one that cleans up, so two closers, or a sender and
a closer, are always the two goroutines `PanicsExplained` names.

*`StreamExecutionProofs`*: `TypeCorrect`, `DeliveredInOrder`, `RecordedCorrectly`,
`ResultsTrue` and `CompleteWhenOk`, for any number of credentials, models, retries,
attempts and chunks. The inductive invariant has five parts. `Types` and `Control` say
which goroutine can be where while another one is: a run of Execute works for the
request goroutine before there is a handler, and for the handler's retry after that, and
no retry follows a chunk passed on. `Attempts` says of each attempt, by who reads it,
what may be buffered, in hand and marked (`InBootstrap`, `InWrapper`,
`Discarded`, `Ended`). `Follows` ties the handler to the latest attempt: what was
delivered, what the handler holds, what the wrapper holds, what the bootstrap
buffered and what the producer holds add up to what was sent, and a handler
that finds the stream at its end without a cancelled context has the end of a success.
`Marks` carries that to the end of the response, through errChan and the close of the
data channel: a success means the whole stream or an error nobody looked at, and
an attempt whose wrapper works for nobody has already marked its failure. Beside it
stands `Uncut`: without a cancellation no stream is cut short, so that the success is
of a complete one. There is one lemma per
action; four more do the common part (`AttemptStep` for the producers and readers,
`BootstrapOnward` and `BootstrapHands` for the steps of a run, `WriterDone` for the ends of a response).

*`UpdatePipelineProofs`*: `TypeCorrect`, `FollowsCorrect`, `FilesCorrect`, `ConfigCorrect`,
`RelaysCorrect`, and `DeliveryRefines`, the refinement of `CoalescingChannel`, step by step.
The inductive invariant has five parts. `Kinds` are the types, with what each
goroutine holds at each of its program points. `Agrees`: of a credential
whose updates neither crossed nor were lost (`crossed`, `orphans`), one goroutine at a time holds
an update, and the last update on its way is the version the watcher believes in.
`FilesTracked` is a chain from disk over hash to `current`, each link with the
events, pending reads or recorded windows that may break it; `ConfigTracked` says
what the one reload that may be running has read. `RelaysKept` is inductive. The
refinement needs what filtering and concatenation do to the updates of one
credential, and what a dispatch makes of the pending ones. These are
inductions over a sequence; they are carried out without the library's induction
theorems, on the least counterexample (`LeastNumber`, `Counting`).

Only model-checked: the liveness properties (`NothingLeaks`, `CallersReturn`,
`DueIsAttempted`): liveness under fairness and ENABLED are out of the prover's reach.
Every other property of a passing run is a theorem.

## Findings

1. *Held back longer than the selector would* (`scheduler_emulation`). A rate
   limited auth that fails again in another way has a retry time before its
   quota recovery time. It is blocked until the retry time, but the time
   reported with the block is the recovery time (`selector.go:390-393`), and the
   scheduler looks again only then (`scheduler.go:734`). In between, the selector
   that the strategy "should emulate" (`scheduler.go:176`) would return it.
2. *A disabled credential keeps its models* (`manager_stale`). The re-apply of
   `service.go:1034-1038` reads the auth, then registers it; a removal between
   the two leaves what its comment says cannot be left.
3. *A mark survives registration* (`manager_reregister`). MarkResult marks the
   registry after it unlocks. If the client was unregistered meanwhile, the mark
   stays (another client keeps the model), and the next registration takes the
   pure addition path, which clears nothing; `conductor.go:249-250` relies on it
   being cleared.
Observed on the way, each stated by a property as the exception it makes:

* `GetModelCount` takes a client off twice that is over quota and suspended
  (`model_registry.go:1020`), and a 429 makes it both (`conductor.go:2060-2064`).
  With two clients, one of them rate limited, the count is 0 where
  `model_registry.go:996` promises the number of available clients, and an automatic
  request passes over the model. `CountExact` says by how much the count is short. A
  client that lists a model twice errs in the other direction (`CountHonest`).
* The peek of the streaming handlers (`code_handlers.go:238-283`) chooses between
  a closed data channel and a pending error; it may answer 200 with an empty stream
  (`OkIsComplete`).
* A read that fails because the request was cancelled marks the credential as
  failed; an executor that closes its stream without a word then
  (`codex_websockets_executor.go:526-545`, `aistudio_executor.go:337-342`) gets a success
  marked for a stream that was cut off (`conductor.go:801-809`; `ResultTrue`).
* A record that was read before the lock and stored under it (`service.go:286-296`,
  refreshAuth) may bring back model states under an aggregate that says something else, an
  error status with no failing model behind it, or lose a result. The properties of `AuthUpdates`
  say that the next result or reconciliation that changes a model state puts aggregate and
  status right, and until then they may be wrong.
* A session that is closed while its handshake is under way stays with the
  manager, and its credential with the service (`NoGhosts`).
* `NonStream` returns a stream that was cut off as a success (`SuccessIsComplete`).
* A clean-up can meet a reader or a watcher at a channel both close or send to
  (`PanicsExplained`).
* A reload that drops the credentials of affected providers forgets the ones that
  vanish before its diff (`CoreFollowsWatcher`); updates of one credential from two
  goroutines can cross.
* A removal within a second of an earlier one is dropped, also when the file
  was written in between (`FilesCaughtUp`).
* The hash of the configuration is taken after the reload, perhaps of content that was not loaded
  (`ConfigCaughtUp`).
* A refresh stores what the executor made of a clone and undoes a change that
  came meanwhile (`ChangesStick`). An executor that returns the record
  unchanged, with its expiry within the lead time, makes it due at once again
  (`conductor.go:3228`): the loop then refreshes it over and over, with no backoff.
* With as many refreshes that do not return as there are workers, no credential is
  refreshed any more (`DueIsAttempted`).

## Plan

Built so far: `ModelRegistry`, `AuthScheduler` with `SchedulerRotation`, `AuthState` with `AuthUpdates`,
`AuthManager`; then `AutoRefresh`, `StreamExecution`, `WsRelay`, and
`UpdatePipeline` with `CoalescingChannel`; and the eight proof modules, in which
every safety and action property of the passing runs is proved.

Left, in order: the usage queue and the signature cache; and `AuthManager` with the queue of `UpdatePipeline` in front of
it.

## Not modelled

Translators, configuration, logging, the terminal UI and the login flows are
pure or sequential, their state is not shared. Executors, token stores, the
catalog updater and the HTTP server are input and output; what they return is
an input of the models (`Kinds`, the lists of `RegisterClient`, the auths of
`AddOrUpdate`). The make framework and the other packages' scripts keep no state
but files. Data races on the record that manager and scheduler share are not
modelled beyond the sharing itself (`Live`).

Of the modelled parts: *registry*, the hooks and the other read-only queries. *Refresh*, StopAutoRefresh and
shutdown, credentials with an evaluator of their own, and API keys, which
are never scheduled. *Watcher*, its stop, the inline path of emitAuthUpdate
before there is a watcher or with a full queue, a change of the auth directory,
the rescan outside start, the writing of changes to a token store, and the order of
credentials within one dispatch, which one order stands for. *Requests*,
keep-alives, headers and formats; ExecuteCount, which has the shape of Execute.
The usage queue (`sdk/cliproxy/usage/manager.go`) and the signature cache have locks of
their own and touch nothing else here.
