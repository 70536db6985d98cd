# Verification of the Alertme backend

Alertme pages a person until the person acknowledges. A sender creates a *page*; the
page is pushed to every phone of the recipient, again and again on a fixed schedule,
until the recipient acks it or 30 minutes have passed. Two Go lambdas share one DynamoDB
table and one SQS queue, and nothing else: there is no scheduler process, the chain of
delayed messages *is* the scheduler. What must never happen is that an active page is
left without a next attempt, silently.

Who may page whom is decided by *pairings*, which two users make with an invite code and
either may block. Pages are read back by polling, and a canary pages a bot every few
minutes to show that all of this is alive.

This directory holds TLA+ models of the paging core, of the pushes, the canary, the
page index and of invites and pairings, the instances TLC checks, and the proofs TLAPS
checks. Paths are relative to `src/`.

## 1. Inventory

| component | source | state it keeps | operations |
|---|---|---|---|
| page model | `backend/internal/model/model.go` | none | page states, `Active` |
| nag schedule | `backend/internal/nag/schedule.go` | constants | `NextDelay` |
| nag queue | `backend/internal/queue/queue.go`, `infra/lib/alertme-stack.ts` | delayed messages, receive counts, dead-letter queue | `Enqueue`; delivery, redrive |
| page table | `backend/internal/store/dynamo/` | page items, idempotency guards, events | `CreatePage`, `GetPage`, `GetPageByIdempotencyKey`, `AckPage`, `SetPageState`, `AppendEvent` |
| pager lambda | `backend/cmd/pager/main.go` | credentials of a warm worker | `handleBatch`, `handleRecord`, `recordAttempt`, `getSender` |
| pages API | `backend/internal/api/handlers.go` | none of its own | create, ack, delivered receipt; list and get |
| devices API | `handlers.go`, `store.go` | device items | register; pruned by the pager |
| invites and pairings | `handlers.go`, `store.go` | invites, two copies of each pairing, blocks | invite, accept, list, block |
| page index, event keys | `store.go`, `keys.go` | two secondary indexes, sort keys | `ListPagesFor`, `ListEvents` |
| FCM client | `backend/internal/push/fcm/fcm.go` | access token | `Send`, with one retry |
| identity, ids, wiring | `identity.go`, `ids.go`, `api.go`, `cmd/api/main.go` | none | |
| canary | `backend/cmd/canary/main.go` | none | login, create, poll, ack, heartbeat |
| fakes | `backend/internal/store/fake/` | maps | doubles for the tests |

How they interact: the API creates a page in one transaction and then enqueues attempt 0
(two calls, not atomic). The event source hands batches of tasks to the pager. For each
task the pager loads the page, drops the task if the page is settled or the attempt ran
already, expires the page if it is overdue, else pushes to every device, records the
attempt with a conditional update, appends an event and enqueues the next attempt with a
delay. Acks and receipts write the same item meanwhile. All coordination is by the
conditions of single-item updates, and, for pages and pairings being created, of one
transaction. The pairing check of `handleCreatePage` is where pairings meet pages: it reads
one copy of one pairing, and the page is created by a later call. The pager calls the FCM
client for one device after the other and learns of each push only sent, failed or
token gone. `GET /pages` asks the two indexes one after the other and merges; the canary
is an ordinary client of the API with the deadline of a lambda.

What is hard: any two calls of any two invocations and requests may interleave; SQS
delivers at least once and to several workers at once; every call may fail and every
invocation may die between two calls; reads are eventually consistent; the answer to a
failure is redelivery, which the duplicate guard must tell from a duplicate; time races
all of it. `PROJECT.json` lists these hazards at their lines.

What makes the core correct: an active page always has a next attempt
(`ChainAlive`), never ahead of the schedule (`NeverEarly`); pages settle in the end
(`Settles`); states move forward, one ack wins, nothing expires early or after an ack
(`ImplementsContract`); duplicates are absorbed (`EachAttemptOnce`,
`AttemptNeverRegresses`, `SettledIsSilent`); answers and timeline are true
(`AckIdempotent`, `OnePagePerKey`, `ReceiptSticks`, `TimelineAgrees`). What makes pairings
correct: a code pairs two users once, whoever races for it (`InviteUsedOnce`); a pairing is
never left in one copy (`CopiesTogether`); nobody is paged by a stranger, and only a new
invite undoes a block (`ImplementsContract` of `PairingsProps`). Of the pushes: what `Send` returns
is true of FCM (`ImplementsSender`), no device starves another (`RecordedMeansTried`), and the
core may rely on it (`ImplementsCore`). Of reading back: lists are sound and complete up to
the granularity of their keys (`ListingSound`, `ListingComplete`, `TimelineInOrder`). Of the
canary: a heartbeat is true (`HeartbeatTruthful`).

## 2. Modules

```
PageModel   NagSchedule
     \        /
     PageTable        NagQueue
        |   \        /  |
        |    Pager  /   |
        PagesApi --/----+
             \   /
            AlertMe  -- AlertMeProps -- AlertMeInv -- MCAlertMe (TLC)
                             |              |
                        PageContract   AlertMeTypeProofs -- AlertMeContractProofs
                                              |                    |
                                        FanoutProofs      AlertMeAnswerProofs
                                                            /           \
                                              AlertMeScheduleProofs   CanaryProofs

    AlertMe, FcmClient -- Fanout -- FanoutProps -- MCFanout (TLC)
    (FcmClient on Pager)               |      \
                                 SendContract  FanoutProofs

    AlertMe -- Canary -- CanaryProps -- MCCanary (TLC)
                              \
                               CanaryProofs

            PageHistory -- PageHistoryProps -- MCPageHistory (TLC)
                                   \
                                    PageHistoryProofs

            Pairings -- PairingsProps -- MCPairings (TLC)
                          |       \
               PairingContract   PairingsProofs
```

* **PageModel** - the page states. Nothing in the code sets `seen` or `cancelled`; they
  are kept because the conditions of the store name them.
* **NagSchedule** - `nag.Delays`, `nag.Expiry`, `NextDelay`, `maxFinalDelay`. `Elapsed`, the
  partial sums of the delays, is a constant that an assumption determines, so that proofs
  need no recursion.
* **PageTable** - the page partition. Each conditional write or transaction is one
  operator, each read a choice among `Copies`: the table, and with `EventualReads` also a
  copy that lags behind. `left[p]` counts the ticks to `expires_at`; at the instant itself
  neither `After` nor `Before` holds, as with Go's `time`.
* **NagQueue** - SQS, external, as the code and the stack configure it. A message waits,
  is visible, or is held by an invocation. The visibility timeout (60 s) exceeds the
  timeout of the lambda (30 s), so a held message is not redelivered before its
  invocation ends; the `batchItemFailures` of the response decide what is deleted. Order
  is arbitrary. `Duplicate` is at-least-once delivery.
* **Pager** - `handleBatch` and `handleRecord`, cut at every call: `pc` names the call an
  invocation is about to make. `RecordWins`/`RecordConflict` are one of the three updates
  of `recordAttempt` each. `Fail` is a call that returns an error without effect,
  `Crash` the death of the environment; a call that took effect and whose answer was
  lost is a crash at the next `pc`. `sender` is the `sync.Once` with its sticky error.
* **PagesApi** - the three handlers that write pages, one action per call.
* **AlertMe** - the composition, the clock, fairness.
* **PageContract** - the abstract specification: a page's state, note and deadline, with no
  attempts, queue or workers.
* **AlertMeProps**, **AlertMeInv** - properties, and the inductive invariants behind them.
* **MCAlertMe** - schedules and sets for TLC.
* **AlertMeTypeProofs**, **AlertMeContractProofs** - types and the refinement, on which
  the theorems about answers and timeline (**AlertMeAnswerProofs**) and about schedule,
  chain and numbering (**AlertMeScheduleProofs**) rest.
* **FcmClient** - `Send`: at most two posts with a pause, and what is made of each answer. FCM
  is external: `Replies` are what a post can come to, among them the push that is accepted
  while its answer is lost. `log` keeps them for one round of the pager.
* **Fanout** - the core with its pushes carried out: `CoreStep` is `AlertMe` but for what
  `Pager` guesses of a push (`Send`, `SendGone`); `CallSend`, the client and `SendReturns` stand
  in for it. The context of a `Send` ends when the lambda is killed, which is `DieSending`.
* **SendContract** - the abstract specification of `push.Sender`, by what the phone heard.
* **FanoutProps**, **MCFanout**, **FanoutProofs** - properties, instance, theorems.
* **Canary** - one run of `cmd/canary` against the core: its calls are the requests of
  `PagesApi`, and only the canary makes requests. `age` keeps a run, and the ack it may
  leave behind, within the 30 s of a lambda, one tick of the real schedule: the canary's
  own deadline of 60 s is beyond that, so its branch cannot be taken.
* **CanaryProps**, **MCCanary**, **CanaryProofs** - property, instance, theorems.
* **PageHistory** - the two page indexes, which lag on their own, the two queries of
  `ListPagesFor` and their merge, and the timeline in the order of its keys. A sort key
  has the second and the id of a page; time is finer. `NewestOf` is what a query with a
  limit may return, `Listing` what an unstable sort of a map may. `due` is kept for the
  properties: what the indexes held when the request came.
* **PageHistoryProps**, **MCPageHistory**, **PageHistoryProofs** - properties, instance,
  theorems.
* **Pairings** - profiles, invites, pairings, blocks and the pairing check. `users`, `open` and
  `pairs` are the items of the table; `issued` remembers who drew a code after its item is
  gone. An accept request is cut at its load, the read of the creator and the transaction
  (`AcceptLost` is a transaction that commits while its answer is lost), a create request
  at the check and the creation.
* **PairingContract** - the abstract specification: unordered pairs of users, and blocks.
* **PairingsProps**, **MCPairings**, **PairingsProofs** - properties, instances, theorems.

Definitions commented *Mutant* are plausible bugs; nothing uses them, and each is known to
violate the property it is paired with in `PROJECT.json`.

### Abstractions

* All pages have one recipient; the recipient check, validation, pairing check and display
  name of the sender are left out of `AlertMe`: they change nothing and turn a request away. A create
  request draws its own id, so a page id stands for it.
* Messages and timestamps other than `expires_at` are left out; the note of an ack is the
  request that left it.
* Event keys are taken as unique (time in nanoseconds and type): `events` counts.
* A task body is always well formed, and DynamoDB items are always parsed: the code alone
  writes both. The retention TTL of a page (days) is outlived by its tasks only in the
  dead-letter queue.
* Time is a number of ticks. `DelaySeconds` truncates: a final delay may be a tick short,
  which `MaxEarly` bounds.
* Devices are read consistently. A guard is visible in the lagging copy once its page is.
* Errors of the transaction other than a failed condition end a create with 500 and no
  effect, like a request that was never made.

* In `Pairings`, `ensureUser` is one step: between its read and its put nobody deletes a
  profile, and two puts write the same one. Display names are left out. Reads are consistent:
  a lagging copy of an invite is one read earlier, which the interleaving covers, and a
  copy that misses an item ends in a refusal. A `CreateInvite` that fails is a request that
  was never made, or an invite whose code nobody was told.
* A user who accepts his own invite writes one item twice in a transaction. The model does
  what `handlers.go:148-152` expects, a row that is left behind; should DynamoDB refuse the
  transaction, that is `AcceptFails`.
* `PageHistory` leaves out what a page says: list and page are answered from copies of the
  item that may be of different ages, so a page may show as pushed next to an "acked"
  event and the other way round, and the code promises nothing else. `Sender` and `Recipient`
  differ, as pairings make sure; the merge by id then never meets one id twice. A timeline
  has one digit of a fraction of a second, in base `TicksPerSecond`, which is enough for a
  dropped zero to change the order.
* In `Fanout`, a token that FCM has once called gone never works again, and only such a
  token is called gone: a 404 for another reason is not modelled.
* A canary run that cannot log in, or is not configured, makes no request and is left out;
  its retry by Lambda is another run, with another key and page.
* `inviteValidity` is some ticks; `ttl` has the granularity of a second, `expires_at` a finer
  one, and the model one clock for both.

## 3. Runs

`Spec` lets anything happen; `FairSpec` adds weak fairness of `Tick`, `Receive`, the steps of
a running invocation and of a running request: Lambda runs what it started, SQS
delivers what is visible, time passes. Nothing obliges clients to act, calls to fail,
invocations to crash or SQS to duplicate. Deadlock is checked everywhere: the system may
rest (`Rest`) only when the queue is empty and every request answered.

| run | instance | shows |
|---|---|---|
| `core` | 2 workers, 1 page, 1 ack, 1 receipt, 1 duplicate, delays <<1,1>>, expiry 1 | types, live chain, schedule, receipts, contract, `recordAttempt`, under every interleaving of two invocations with ack, receipt, expiry and a forked chain |
| `duplicates` | 1 worker, batches of 2, 1 duplicate, an ack, crashes before the record; delays <<1>>, expiry 3, final delay capped at 1, truncated | the guard absorbs duplicates that come one after the other; final ticks keep the page nagging up to the deadline |
| `faults` | every call but the enqueue fails, crashes at six calls, a device whose token may die | errors and redelivery keep the chain, the timeline and live devices |
| `requests` | 2 creates with one key, 2 acks, lost events, failing enqueue | one page per key, idempotent ack, true timeline |
| `stale_reads` | lagging copy, ack, failing receipt | the contract does not depend on fresh reads |
| `pairings` | 3 users, 2 codes that live for one tick, 2 accepts, 1 page; calls fail, answers are lost, invites are swept | invites used once, pairings whole, contract |
| `real_schedule` | `nag.Delays`, `nag.Expiry`, `maxFinalDelay` in units of 30 s; failing records and expiries; the canary as client, whose calls may fail | the shipped constants reach past the deadline, never early, pages settle, and heartbeats are true |
| `history` | 4 pages between 2 users, lists cut at 2, 2 ticks to a second, lagging indexes, 1 reader | lists sound, complete up to a second; timelines in order of their seconds |
| `fanout` | 1 worker, 2 devices, a duplicated task, posts that fail in every way, deaths in mid-push, failing prune and credentials | `Send` keeps its contract, rounds reach every device, and the core behaves as modelled |

Why the bounds are enough: the page item is the only thing the processes share, so one
page with two pagers, an ack and a receipt has every conflict between two writers; two
attempts and the expiry are the shapes a schedule has (first, next, last); `MaxReceive` 2
lets a task be redelivered once and then reach the dead-letter queue; one duplicate forks
a chain, and message slots exceed what the instance can have in the queue. A message
that finds no slot waits for one. In `history`, one index holds more pages than the limit,
so a query is cut and the merged list is cut again; three ticks have a whole second, a
fraction and the next second, so `since` can fall before, on and between pages. In
`fanout`, two devices are a first and a last of a round, and each registers, dies and is
pruned at any moment of it; a Send has two tries, and two rounds follow each other.
`history` may stop anywhere, as its clock is bounded: it is the run without a deadlock
check.

Runs that TLC must find **violated**, and what they say about the code (details under
`findings` in `PROJECT.json`):

| run | what happens |
|---|---|
| `enqueue_fails` | the attempt is recorded, the enqueue of the next fails; the error leads to a redelivery, which the duplicate guard drops. No retry, no alarm, the page stays active for ever. A crash between the two calls ends the same way |
| `create_retry` | create commits, its enqueue fails; the retry with the same key is answered 200 and schedules nothing |
| `block_ignored` | a user blocks a peer, and the peer's next page passes the check, which reads the copy the block did not touch; the blocker is the one who can no longer page |

More was seen while modelling that is no run of its own:

* The duplicate guard is a read (`main.go:142`), not the "conditional writes on attempt number"
  of PLAN-AWS.md:70-71: two workers that load before either records push one attempt
  twice (`EachAttemptOnce` fails with two workers and `MaxDups` 1).
* An expiry that loses to an ack is ignored, and "expired" is still written to the timeline
  of the acked page (`main.go:133-138`), so `TimelineAgrees` says nothing about "expired".
* A load of a new page that is answered by a lagging copy drops the page's only task as not
  found (`main.go:117-119`, an eventually consistent `GetItem`, attempt 0 without delay), which
  is why `stale_reads` does not check `ChainAlive`.
* `GET /pages` returns pages "created after `since`" by `store.go:498` and `store/store.go:54-55`,
  and so does the fake; the index returns those of the very second of `since` as well, the
  one the caller has seen among them. `ListingSound` states what holds.
* `created_at` is stamped before the page is written and indexed: a caller that moves `since`
  to the newest page it saw never sees one that was stamped earlier and indexed later.
  `ListingComplete` speaks of pages that were indexed when the request came. More than 100
  pages cannot be listed: there is no upper bound to ask below.
* Within a second, `EventKeyBefore` is not the order of time, nor can it be: a timeline may
  show the first push before the creation.
* The canary's heartbeat says that the pager recorded an attempt, not that a push left: an
  attempt without devices, or with nothing but failed pushes, is recorded as pushed.
* The app client of the stack admits SRP logins only; the canary logs in with a password.
  A first poll that is answered by a lagging copy is a 404, and the canary gives up.

The passing runs therefore leave out what breaks the property in question: `ChainAlive` is
checked without `createEnqueue` and `enqueue` failures, without crashes at `attemptEvent` and
`enqueue`, and without stale reads. `EachAttemptOnce` and `AttemptNeverRegresses` are
checked with one worker and no receipts: with two workers a late record, and with
receipts the attempt number a receipt writes back (`handlers.go:418`), move the number
back. `ChainAlive` and `NeverEarly` survive both, which is what `core` shows: a fork is a
nuisance, not a loss.

`pairings` uses symmetry of users, codes and accepts, which differ in nothing but their
names. Two accepts and two codes have every race: one code twice, crossed invites, an accept
of one's own, pairing again over a block; a third user is the stranger. Its only fairness
would be for requests to be answered, which no property needs.

The final tick of `main.go:204-215` is dead code with the shipped schedule, whose delays
add up to 34 minutes. Were the schedule shorter, a final tick due exactly at `expires_at`
would be neither expired nor followed by another: `NagsUntilDeadline` stops there.

## 4. Proofs

The theorems about the core are about its `Spec`, for any numbers of pages, keys, workers, messages, requests
and devices, any schedule that satisfies `ScheduleAssumption`, any set of faults and
crashes, with or without stale reads.

* `TypeCorrect`: `TypeOK`. It is not inductive: a step of the pager looks up the message
  it holds, and a task the page it names. `TypeInv` adds `HoldInv` (what an invocation
  holds is in the queue, marked held, and held by it alone) and `RequestInv` (tasks,
  receipts and guards name existing pages). One lemma per operator of the table and of
  the queue says what it preserves; one per kind of step of an invocation
  (`GoesOn`, `Returns`, enqueue, receive, settle) lifts them.
* `CoreImplementsContract`: `ImplementsContract`, a refinement under the mapping that
  forgets attempts. Only five steps write a page (`WriteCases`); each is matched with
  the action of `PageContract` it implements. `ExpiryInv` is needed for expiry: what was
  overdue at the load is overdue at the write, since deadlines only pass and what a
  message says never changes (`TasksKept`).
* `NeverEarlyHolds`: `NeverEarly`. The strengthening `ScheduleInv` gives each message the
  time it has yet to wait: the time since creation plus that wait reaches
  `Elapsed[attempt]`. A tick moves one unit from one to the other; an enqueue adds the
  delay that separates two attempts; a stale load cannot make an invocation believe it
  is later than it is.
* `ReceiptSticksHolds`, `RecordLosesHolds`, `LiveDeviceHolds`, `TimelineHolds`: without any
  hypothesis. `AnswerInv` says, for every invocation and request past a read or a write,
  what its page still bears out: a state never goes back, so what a lost update has
  excluded stays excluded (`RecordInv`), which is why three updates are enough and their
  order matters. For the timeline each request that has won and not yet written its event
  is counted as its event (`TimelineInv`).
* `AckIdempotentHolds`, `OnePagePerKeyHolds`: with consistent reads (`~EventualReads`). They
  are false otherwise: the read that follows a lost update or a taken key may be answered
  by a copy that does not show the winner, and the client gets a 409.

The chain of attempts (`AlertMeScheduleProofs`):

* `ChainAliveHolds`, `NagsHolds`: under `ChainUnbroken`, and, for `ChainAlive`, a schedule that
  reaches past the expiry, as the shipped one does (`ScheduleCovers`). `ChainUnbroken` rules
  out just what the runs `enqueue_fails` and `create_retry` and the list below them show to
  break the chain: an enqueue that fails, a death between record and enqueue, a stale load.
  Loads, device queries, pushes, records and credentials may fail, invocations die elsewhere
  and SQS duplicate at will. The argument: every active page has a `Token`, that is a
  message, an invocation past its record, a dead letter or a creator, for an attempt the
  guard lets through; who spends the token has recorded the attempt, and holds the token of
  the next (`ChainInv`). `NoPageForgotten` is what it comes to: where queue and lambdas are at
  rest, every page is settled or its task is a dead letter.
* `EachAttemptOnceHolds`, `AttemptNeverRegressesHolds`, `SettledIsSilentHolds` say precisely how far
  the duplicate guard goes. The guard (`main.go:142`) is a read: it does not reserve the attempt
  it lets through. They therefore assume that no two invocations are past it for one page
  (`PushAlone`; with expiry, which has no guard at all and may write an older attempt back,
  `NoOverlap`), and `Numbered`: consistent reads and no receipts, since a receipt writes back
  the attempt it loaded (`handlers.go:418`). From there, whatever is duplicated, redelivered,
  fails or dies, the guard is enough (`GuardInv`, `SettledInv`).
* Two theorems show where that assumption comes from. `OneWorkerHolds`: with one execution
  environment it is a fact. `SingleDeliveryHolds`, `NoDuplicateNoRepeat`: without duplicates of
  SQS `PushAlone` is a fact for any number of workers, failures and crashes, because an active
  page has one task that passes the guard (`OneTask`), and no attempt is pushed twice. What
  makes the system push twice is therefore a duplicate delivery, a receipt or a stale read.
  `AttemptNeverRegresses` has no such corollary: a redelivered old task may expire a page
  while a newer one pushes it.

What is proved of the core is carried over to the compositions built on it:

* `FanoutImplementsCore`: `FanoutSpec => ImplementsCore`. The theorems of `FanoutProofs` assume
  that pushes may fail (`"send" \in Faults`), as those of FCM do. The return of a `Send` is
  matched with `Send` or `SendGone` of `Pager`. That needs `CallInv`: a call in progress is
  for a device the loop has yet to push to, and a result "gone" is for a dead token, also at
  the return, because no token comes back to life (`ValidShrinks`).
* `CallsTypeCorrect`, `RecordedMeansTriedHolds`, `FcmImplementsSender`: `LogInv` relates the posts of
  a round to the loop. A device the loop has passed has one post that was answered or two;
  the one in progress has as many as its try says, and those to come have none. The contract
  `SendContract` counts the accepted posts of the call in progress, of which there are two
  at most; outside a Send nothing of it is left (`Forgets`).
* `CanaryIsAClient`: `CanarySpec => Spec`. The canary only makes requests; its limits are
  guards on what the core may do.
* `HeartbeatHolds`: `HeartbeatTruthful`, for a recipient without receipts (`Receivers = {}`: a bot has
  no phone that would send one). A page out of "created" then was pushed or expired; a page
  the canary saw pushed has an attempt recorded, also when it saw a lagging copy, because
  copies are earlier pages; and the 200 of its ack is `AckInv` of `AlertMeAnswerProofs`.

The theorems of `PairingsProofs` hold for any numbers of users, codes and requests.
`CopiesTogether` and `InviteUsedOnce` (`CopiesTogetherHolds`, `InviteUsedOnceHolds`) are made
inductive by `TypeOK` and `RequestInv`: an accept about to commit has both profiles, and a
page about to be created has a pairing, because pairings and profiles are never deleted.
`PairingsImplementContract` matches each step with the action of `PairingContract` it
implements under the mapping `Paired`, `Blocks`, `Paged` that joins the two copies.

The theorems of `PageHistoryProofs` hold for any numbers of pages, users and readers, any limit
and any fineness of the clock: `HistoryTypeCorrect`, `ListingSoundHolds`, `ListingCompleteHolds`,
`TimelineInOrderHolds`. `ListingComplete` needs to know what the first query has done by the time
of the second: `Covers` says that a due page it lacks is made up for by `Limit` found pages of
the same second or later ones, and indexes that grow in between do not change that. The
second query covers its half in the same way (`NewestCovers`), and the cut after the merge
keeps both halves covered (`CutCovers`): if the list kept all pages of a full answer it is
that answer, else it is full and dropped one of them for later ones. Nobody being
paired with himself is used: a due page is in one of the two halves. `TimelineInOrder` follows
from the order of the keys and `SecondMonotone`.

Only model-checked: `Settles`, the one liveness property, since fairness and ENABLED are out
of the prover's reach; the rest of the properties of the passing runs is proved, under the
hypotheses stated above. Each inductive invariant (`TypeInv`, `ExpiryInv`, `ScheduleInv`, `ChainInv`,
`AnswerInv`, `TimelineInv`, `GuardInv`, `SettledInv`, `OneTask`; `BotInv` and `CanaryInv`; `LogInv`;
`IInv` of pairings and of page reads) was model-checked on the instances above before it was
proved.

## 5. Plan

1. *(done)* `PageModel`, `NagSchedule`, `PageTable`, `NagQueue`, `Pager`, `PagesApi`, `AlertMe`,
   `PageContract`; types, contract and schedule proved.
2. *(done)* `Pairings`, `PairingContract`; contract proved.
3. *(done)* `PageHistory`: the two index queries merged under a limit and `since`, event keys.
4. *(done)* `FcmClient`, `Fanout`, `SendContract`; `Canary`. Both compositions implement the core.
5. *(done)* Proofs of `ChainAlive` and the numbering of attempts, of answers and timeline, of
   the heartbeat, of the pushes and of page reads.
6. To do: the theorems of the core stated for `FanoutSpec` and `CanarySpec`, which inherit them
   through `FanoutImplementsCore` and `CanaryIsAClient`; the conditions under which
   `AttemptNeverRegresses` holds of several workers.

## 6. Not modelled

The condition of an invite's deletion (`store.go:238`) names the attribute `ttl`, a reserved
word of DynamoDB expressions, without a placeholder; the model takes the expression at its
meaning. A user who draws an invite before he ever registered a device has no profile
(`handleCreateInvite` does not call `ensureUser`), and whoever redeems the invite is answered
404: the model has this (`AcceptCreator`), no property speaks of it.

Identity (claims of the gateway's JWT authorizer), routing and JSON, wiring in `main`, the
fakes, the CDK stack but for the settings of queue and event source, and the mobile apps,
which are not in the repository. They keep no state that the properties depend on.
