# A verification project for pack-companions-sdk

TLA+ models of the Python SDK's delivery protocol, the TLC runs that check
them, and theorems checked by TLAPS.  Paths below are relative to the
repository: `client.py` is `src/pack_companions/client.py` of this project's
copy of it.

## Inventory

| Component | State | Operations | Hard behaviour | What makes it correct |
|---|---|---|---|---|
| Signed call, `client.py` 222-871 | locals of one `_signed_request` coroutine: attempt, terminal kind and status, error metadata, body | the sixteen public methods; send, headers, read, retry, close, raise | a transport error at every await, status tests in order, state surviving from one attempt to the next, cancellation, a close that fails | bounded retries, only after ambiguity; metadata of one answer; a result is an accepted answer |
| Dispositions, `privacy.py` 39-81, `client.py` 95-128 | none | code and status to what a queue may do | boundaries, unknown codes | an event is dropped only when refused for good |
| Account link state, `privacy.py` 84-149 | link incarnation and generation, persisted by the host | `from_identify`, `reconcile_identify`, `observe_generation`, `observe_result`, `snapshot_user` | responses of several requests, and of several incarnations, in any order | the pair is one Pack issued, no rollback, convergence |
| Privacy events, `privacy.py` 155-202, 486-785 | immutable request bytes with a UUID | seven `create`, `from_request_bytes`, `model_copy`, seven client methods | crashes and lost responses between persist, send, observe and delete; late copies; stale tokens | applied once, never after a drop, always leaves the queue |
| Erasure, `privacy.py` 364-452 | erasure event, receipt capability | `create`, `create_for_state`, `erase_for_app`, `identify` around them | redelivery across a re-registration, a receipt lost with its response | the new account is not erased; the capability is not lost |
| Comments, `comment.py` | event bytes, decision | `CommentEvent`, `CommentResult`, `get_comment_event`, `get_comment`, `get_legacy_comment` | exactly-once decision against at-least-once presentation, derived decisions of old services | one decision per event, no leg missed or repeated, one reading of a result |
| Request objects, `privacy.py` 155-249, `comment.py` 186-275 | fields and the exact bytes captured at construction | construct, save, restore, copy, update | restart and upgrade between capture and restore, copies that keep an id | fields and bytes agree, restoring is exact, one UUID is one job |
| Manifest and catalog, `manifest.py`, `runtime_catalog.py` | none | validators of discovery responses | relations between fields, two copies of the paths | unique rosters, exact addresses, the client's own paths |
| Snapshot, signing, hashing | none | data models, HMAC, digest | none | pure functions |

The client keeps no state between calls: every call is one coroutine, and all
concurrency is between a host's coroutines, its durable store and Pack.  The
host and Pack are not in the repository.  They appear only as `README.md`
(the comment example 100-140, retry rules 201-249, erasure 256-297, privacy
operations 299-372) and the codes of `privacy.py` require of them, and their
actions are marked external in `PROJECT.json`.

## Modules

```
Dispositions
  |- SignedRequest ...... refines CallContract        (one call, in full)
  |    `- QueuedCall .... refines the calls of DurableQueue
  `- DurableQueue ....... a queue and its calls, in larger steps
       |- PrivacyQueue .. refines DurableDelivery     (with AccountLinkState)
       |- CommentDelivery refines DurableDelivery
       `- Erasure ....... refines DurableDelivery
AccountLinkState - AccountLink
ResponseData - CommentDecision, Discovery - ParsedResponse - MC_Discovery
DurableEvent
```

* `Dispositions` - the codes, and what a worker may do after a refusal.
* `SignedRequest` - one awaited call.  `method` says which public method, and
  the operators `MaxAttempts`, `RetryableStatuses` and `Classifies` give the
  arguments it passes.  `pc` is the await the coroutine is suspended at:

  | `pc` | in `_signed_request` | actions |
  |---|---|---|
  | `begin` | size test, opening the httpx client (627-646) | `RejectOversize`, `FailToOpen`, `Open` |
  | `send` | sign and send (647-668) | `Transmit` |
  | `headers` | the status test, 668-699 | `HeadersRetry`, `HeadersAuth`, `HeadersFailure`, `HeadersClassify`, `HeadersSuccess`, `TransportError` |
  | `read` | `_read_response_bounded` (684, 697) | `ReadError`, `ReadResult`, `TransportError` |
  | `backoff` | `asyncio.sleep` (707) | `Backoff` |
  | `close` | leaving the client (713) | `Close` |
  | `raise` | 718-767 and the method's validation | `Raise` |

  `Cancel` may replace any of the awaits.  `terminal` and `error` are the
  locals of those names' prefixes; `answers` and `sent` are history.  A reply
  keeps what the code tells apart (status, usable Retry-After digits, body
  form, allowlisted code, completion flag, schema validity, `is_new`).
* `CallContract` - what the call promises its queue, without HTTP: at most
  `limit` transmissions, another one only while the last left the question
  open, and a verdict the answers justify.  `SignedRequest` maps to it with
  `Promise`.
* `QueuedCall` - `SignedRequest` as a durable queue sees it: what of the call
  is the call of `DurableQueue`, which requests may still arrive late, and what
  became of the event (`Call`, `Late`, `Status`).  Under that mapping every
  step of a call is one of the six steps `DurableQueue` has, or a stutter.
* `AccountLinkState` - the operations on the token pair, as pure operators.
* `AccountLink` - those operations under any order of responses: Pack issues
  pairs and refuses stale ones, the host folds responses into its store.
* `DurableDelivery` - what a durable queue gets from delivering through the
  SDK, with no calls, attempts, crashes or network: at most one effect per
  event, settled only after it, dropped only if none can follow.
* `DurableQueue` - what the three kinds of durable events share: the host's
  worker, and the SDK call in larger steps than `SignedRequest` (an attempt is
  sent, served, then received in full or cut, unless the call is abandoned).
  The status that a cut attempt leaves behind is here as `terminal_status`.
  `Abandon` is every end that gives the worker no disposition: the call is
  cancelled, the HTTP client fails to open or to close, credentials are
  refused, or a success cannot be decoded (`client.py` 559-613, 747-767); the
  worker keeps the event.  A request that no call awaits
  any more stays in `late` and may reach Pack at any later time, any number of
  times.
* `PrivacyQueue`, `CommentDelivery`, `Erasure` - `DurableQueue` with the bytes
  of each kind, what Pack does with them, and what the host does with a result:
  fold it into the stored pair; show the legs of a decision and mark it, before
  or after (`MarkFirst`); persist the erasure's receipt and forget the link.
  `Erasure` also has the identify ceremonies that register the account, recover
  its pair, or register it again with a capability.
* `CommentDecision` - `CommentResult`'s derivation and checks in the order of
  `comment.py` 338-404, against a table per outcome that has no order.
* `DurableEvent` - the request objects: bytes captured by `model_post_init`,
  `from_request_bytes`, `model_copy`, and the two overrides of it.
* `Discovery` - the validators of the manifest and of the runtime catalog.
* `ParsedResponse` - the step those two serve: a decoded response, by method,
  becomes a model or a `CompanionsProtocolError`.  `ResponseData` holds the
  two values they share.
* `SignedRequestProofs`, `AccountLinkProofs`, `DurableQueueProofs` (lemmas for
  the three that follow), `PrivacyQueueProofs`, `CommentDeliveryProofs`,
  `ErasureProofs`, `DurableEventProofs`, `ParsedResponseProofs` - the theorems.

An operator introduced by a "Seeded fault" comment is a plausible bug; the
specifications never use it.  `PROJECT.json` pairs each with the property that
detects it.

## Runs

| Run | Distinct states | Shows |
|---|---|---|
| `signed_request` | 140 thousand | every schedule of replies, cuts, cancellations and close failures of one call of every method, with 2 attempts for comments and 3 for privacy operations |
| `queued_call` | 152 thousand | one privacy delivery of three attempts, statement by statement, against the call of `DurableQueue` |
| `stale_terminal` | - | the disagreement described below |
| `account_link` | 450 thousand | three incarnations, generations 0..2, three requests or responses under way |
| `privacy_queue` | 748 thousand | safety of two events, two incarnations, two attempts per call, one crash |
| `privacy_queue_live` | 67 thousand | every event leaves the queue: two events, two attempts |
| `comment_decision` | 3.5 million | every response over two texts, two opportunity types and all flags, on both paths |
| `comment_delivery` | 23 thousand | one event at a host that marks after showing: three attempts, two crashes, three epochs; no conflict, nothing missed, the event leaves the queue |
| `comment_mark_first` | 489 thousand | two events at a host that marks first: one attempt, one crash, two epochs; nothing repeated, one decision per event |
| `erasure` | 28 thousand | two jobs, three incarnations, two crashes: no later account erased, every capability in the ledger in the end |
| `durable_event` | 386 thousand | two ids, two payloads, two objects in memory and two in storage, of all four kinds |
| `discovery` | 6.6 million | manifests with every endpoint moved or swapped, catalogs of up to three companions of every shape |

Bounds.  The client accepts 1 to 3 attempts: 3 is the maximum and 2 the
default; `erase_for_app` has 1.  Replies hold one member of every class the
code tells apart, with the boundary statuses 500 and 503; the delay bound is 1
in place of 3600, with delays at and above it.  Three incarnations let a
response be two replacements late, and two generations let a result be older
and newer than the stored one.  Two privacy events suffice for one event to
make the other stale and for two results to arrive in the wrong order.  Comment
events meet only through the epoch, which `Advance` moves as well: one event
with full depth and two shallow ones cover more than two deep ones would.  A
crash matters once where it meets the same durable state again; the comment and
erasure runs take two, so that one falls before and one after a decision or
receipt.  In `privacy_queue_live` there is none, since a crash acts on an event
as a call that ends undecided, which happens there without bound, and one
incarnation, since a generation makes an event stale already.  Two companions
stand for the 64 of a roster, with responses of three to exceed it.

What the models take for granted of the host and of Pack: one worker delivers
an event at a time; a UUID is minted once; Pack's receipts of comments and
erasures are kept (those of privacy operations expire in `PrivacyQueue`); Pack
refuses what names an account pair it has left.  In `Erasure` an identify is
one step whose answer is received or lost: `AccountLink` has late ones.

Fairness.  `SignedRequest`: a pending step is taken, because httpx bounds each
await by `timeout_seconds` and `asyncio.sleep` ends; cancelling is never
required.  `AccountLink`: Pack answers each event and each wanted identify,
the host handles each response and goes on creating mutations.  `PrivacyQueue`,
`CommentDelivery` and `Erasure`: the worker goes on, and strong fairness of
`Serve` and `ReceiveFinal` says that among endlessly many attempts one is
answered for good and one such answer is received, and strong fairness of
`Transmit` that not every call is abandoned before it sends; without them a
network may fail, or a host cancel, for ever, and the event is retried for
ever, rightly.  Nothing is assumed of crashes, cuts, abandoned calls,
identifies or late copies.  Calls, queues, responses and bounded
histories end, so only `AccountLink` and `DurableEvent` check for deadlock.

## A disagreement with the documentation

`README.md` 359-360 describes `discard_event` as a reused UUID or a failure that
is terminal without a safe recovery read.  `_signed_request` records the status
of a refusal before reading its body.  When that read fails with a transport
error and an attempt is left, `client.py` 700-702 retries without clearing it,
and if the retry is accepted, 726-736 still raise `PrivacyOperationError` with
the old status.  For a 409 that is `discard_event`: the host drops an event
that Pack accepted and never observes its generation.  Run `stale_terminal`
exhibits it.  `AcceptedIsNotRefused` shows that this is the only way a call
reports a refusal of an accepted event, and `DropOnlyIfRefused` what holds
nevertheless: some answer did carry the refusal.  `ErasedIsNotDropped` shows
that erasures are not exposed to it: their call has one attempt.

## Proofs

TLAPS checks the following for every value of the constants that the named
assumptions of each module admit (attempt limits of 1 to 3, any events, replies,
delays, incarnations, crash and epoch bounds; `None` being none of the data).

`SignedRequestProofs`:

* `TypeCorrect`, from `Typed` (a body is only read after headers);
* `TransmissionsBounded`, from `Counted`: `sent`, `attempt` and the number of
  answers are tied at each `pc`; `sent <= MaxAttempts` alone is not inductive,
  since nothing in it prevents a backoff on the last attempt;
* `OnlyAmbiguousRetried`, from `Asked`: while the loop can still transmit, the
  last answer too is ambiguous;
* `ResultsAreAccepted`, from `ResultHeld`: a kept body is the last answer's and
  the loop has ended;
* `ErrorsFromOneAnswer` and `DropsAreRefused`, from `RefusalHeld`: the recorded
  status and delay are of one answer, and a code only of the last;
* `SuccessIsNotDenied`, from `Denied`: a recorded refusal is being read, was
  cut in an earlier attempt, or is an answer that is no success;
* `MissesAreExact`, from `LinkHeld`: an existing-only identify has one answer,
  and what is recorded of a miss is that answer's;
* `RetriesAreKept`, from `CodeHeld`: after the loop, the code on record is that
  of the readable refusal it ended with;
* `CallImplementsContract`: under these invariants every step is a step of
  `CallContract` or a stutter;
* `CallIsTheQueues`: a call of a queued operation begins as `DurableQueue`'s
  `NewCall`, and each of its steps is one of that module's steps or a stutter.
  So what the queue theorems below say of a call is said of the code's, not of
  a simplification of it.  The mapping reads the call's history; two invariants
  tie that history to what the loop has on record.  `Ledger`: every
  transmission has an entry by the time the loop waits or ends, and the loop
  ends on an answer received in full or on `transport`.  `OnRecord`: a recorded
  refusal that is not the last answer's is one whose body was cut - the status
  `DurableQueue` keeps in `terminal_status`.  The hypothesis `Consistent` says
  that a response with a transient status carries no final code, as Pack's
  refusals do in `tests/test_privacy_contract.py` 897-968: without it a 503 that says `privacy_event_conflict` is dropped,
  which `DurableQueue`, whose refusals are 409s, does not have.

`AccountLinkProofs` shows that observations commute and are idempotent
(`ObservationsCommute`), that `AccountLink` is well typed, that the stored
pair is always one Pack issued (`Genuine`: every pair on its way, and every
result together with the incarnation it was captured in, was issued), and that
no step rolls a generation back.

The three queues share `DurableQueueProofs`: a call delivers the bytes its
event was queued with, late copies carry them too, an event with a verdict has
no call (`QueueSound`), and every step of the queue either adds nothing
(`NothingNew`) or is the arrival of one answer.  Each queue then has an
inductive invariant per event: what it captured is in the account's past, its
effects are counted by Pack's receipt, an answer under way is truthful, and
what left the queue is done or `Final` - no request for it, however late, can
have an effect any more.  That strengthening is what makes "at most once" and
"not after a drop" inductive: it speaks of the answers and late copies that
the properties do not mention.  Pack's side only moves `Forward`, and `Final`
is stable under that.

* `PrivacyQueueProofs`: `PrivacyTypeCorrect`, `EachAppliedOnce`,
  `SettledObserved`, `PrivacyDeliversDurably`.  Finality rests on the order of
  Pack's pairs: an event whose pair is older than the account's is refused for
  ever, also once its receipt has expired.
* `CommentDeliveryProofs`: `CommentTypeCorrect`, `RetriesNeverConflict` and
  `CommentsDeliverDurably` from `Inv` (deciding); `SettledWereShown` and
  `OnlyCrashesRepeat` from a second invariant above it, `ShowInv` (showing),
  which ties marks, the legs still to be shown and those shown at each point
  between a result and its deletion, for either order of marking.
* `ErasureProofs`: `ErasureTypeCorrect`, `LaterAccountsSurvive` (a job is bound
  to an incarnation created before it, and incarnations never come back),
  `ErasureDeliversDurably`, and `ErasedJobsKept` for `AttemptLimit = 1`, the
  limit `erase_for_app` passes: with two attempts it is false, by the
  disagreement above.
* `DurableEventProofs`: `FieldsAreBytes`, `RestoresExactly`, `OneNameForEver`,
  from one invariant: every object and every saved payload comes from one set
  of accepted fields, and the ids of jobs in use were minted.
* `ParsedResponseProofs`: `DerivationIsTable` relates the derivation, taken
  field by field (`DerivedFields`), and the checks that follow it to the table,
  for any texts and types.  From it and the invariant that a result is what
  `Parsed` makes of its data follow `ParserIsTheTable`, `ResultHasOneReading`
  and `TypedDecisionIsTheServices`; `CatalogsAreRosters` and
  `ManifestsNameTheCalls` hold for rosters of any length and limit.

Only model-checked: all liveness (`Converges`, `EverySettles`,
`CapabilityReachesLedger`, and `CallContract`'s `Concludes`), which the prover
does not handle.  Every safety property of the runs is a theorem.

## Not modelled

* Signing and hashing: pure functions that do not affect control.
* The snapshot: a tree of frozen data models; what matters of it to delivery
  (the captured pair, the session facts) is in `AccountLinkState`,
  `CommentDelivery` and `DurableEvent`.  An SDK that later adds a snapshot field
  with a default would restore saved comment bytes differently; no two such
  versions are in the repository.
* Lengths, ranges and patterns of single fields, and the connected-apps schema:
  a response is valid or not.
* The scrubbing of locals before exceptions, and wording of messages.
* A failing close of one response stream after its body was read in full.
* Unreadable refusals in the queues: an encoded or oversized 409 loses its code
  and falls back to `discard_event`, which `SignedRequest` models and
  `QueuedCall` maps to a refusal without a code; the queues' Pack sends none.
  What a worker does with an error that has no disposition is the host's
  decision; the queues keep the event (`Abandon`).

## Plan

All modules planned are written and every safety property is proved.  What
could follow: `QueuedCall` for `get_comment_event` and `erase_for_app` in the
run as well (the theorem covers them: `QueuedMethod` is any method whose errors
are classified), and a proof that `AccountLink`'s steps include those the
queues take on the stored pair.
