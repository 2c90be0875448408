# A verification project for XPay for Odoo

TLA+ specifications of the `xpay_payment` addon, the TLC runs that check them
and the TLAPS proofs about them. Every definition is translated from the code
(file and line in `PROJECT.json`, under `map`), not from its documentation.
Behaviour that is not in the repository (Odoo's payment framework, the XPay
platform, PostgreSQL) is modelled from how the code uses it and marked external.

## The system

The addon lets an Odoo shop take payments through XPay. A shopper pays in a
*checkout session* of the platform; Odoo learns of it from webhooks and from
the shopper's return to the shop. Refunds go the other way.

| Component | State | Operations | What makes it hard | What makes it correct |
|---|---|---|---|---|
| Lifecycle rules (`xpay/lifecycle.py`, `xpay/events.py`) | none, pure | `verdict`, `ownership`, `plan`, `remember_event` | the order of the tests, absent fields | a decision never reopens a closed transaction; money on a session of the transaction is applied or parked |
| Checkout (`services/checkout_service.py`) | `xpay_session_id`, `xpay_superseded_session_ids` | create a session, expire those of sibling drafts | no lock; calls to the platform inside the request, which may fail or be rolled back | a session a shopper holds stays findable |
| Settlement (`services/order_sync.py`, `controllers/main.py`) | transaction state, references, `xpay_processed_event_ids`, notes for a human | return route, webhook route, `apply_locked`, `note_declined`, `_park` | concurrent requests, payloads read before the lock, reordered and repeated events, bounded lists, crashes | "payment done exactly once", by the transaction's own session; a payment that is not applied is put in front of a human (the code drops those of swept sessions, see the disagreements) |
| Refunds (`services/refund_service.py`, `order_sync.mirror_external_refund`) | a child transaction per refund: state, refund id, amount sent, key, awaiting, rejected | submit, apply a report, adopt, mirror | answers lost or late, keys derived from counts that move, refunds issued elsewhere, several refunds in one event, truncation | a completed child is a real refund, counted once; a key is never reused for something new |
| Money, keys (`xpay/money.py`, `xpay/idempotency.py`) | none, pure | conversion, parsing, composition of keys | truncation, length limits | full refunds strand nothing; distinct operations, distinct keys |
| Connect (`services/connect_service.py`, `controllers/connect.py`) | OAuth flow in the session, client registration, keys, state | start, complete, provision, complete setup, disconnect | the token exchange retires the old key before anything else is known to work | no payment on a half-provisioned key |
| Webhook endpoint (`services/webhook_configurator.py`) | endpoint id, operation id, secret | ensure, decommission, reconcile | creation and storage are two steps; idempotent replays; a cap | exactly one endpoint, whose secret is the stored one |
| Provider record (`models/payment_provider.py`) | keys, state, a JSON snapshot | constraint, snapshot merge, setup gate, account cache, actions | many writers of one row, among them every page that shows XPay and every delivery | state and key agree; no writer loses the other's keys; the cached account is the connection's |
| Customer link (`models/res_partner.py`) | a customer id per plane, in one JSON column | use, remember, forget | read by a checkout, written by it and by deliveries, for accounts that change | a shopper loses no customer the account still knows |
| Payment form (`static/src/interactions/payment_form.js`) | mounted element, active option | prepare, teardown, submit, confirm | the shopper moves on while a promise is pending | one live element; nothing confirmed on another one, nor for another total; the page is never stuck |
| Platform client, signature, hosts, redactor, methods | none | request building, checks, tables | | stateless; not modelled |

Interaction: the framework calls `_get_specific_processing_values` (checkout),
`_send_refund_request` (refunds) and `_apply_updates` (settlement, refund
reports). The two HTTP routes call the framework's `_process`, except for
declines, mirrored refunds and `charge.refunded`, which reach `order_sync`
directly. All of them share the transaction rows, and `order_sync.lock`, a
`SELECT ... FOR UPDATE NOWAIT`, is the only coordination between requests.

## The modules

| Module | Models |
|---|---|
| `Lifecycle` | the rules of `xpay/lifecycle.py`, and the framework's setters |
| `LifecycleProofs` | lemmas about the bounded lists, used by the proofs of two modules |
| `Payment` | the promise, without requests, locks or messages |
| `Settlement` | checkout and settlement of any number of transactions |
| `MCSettlement` | its small instances |
| `SettlementProofs` | its inductive invariant and the theorems |
| `Refunds` | the refunds of one done payment |
| `MCRefunds` | its small instances |
| `RefundProofs` | its inductive invariant and the theorems about children and events |
| `FiniteSums` | sums over finite sets, by induction |
| `RefundLedgerProofs` | theorems about the ledger: keys, amounts, one child per refund |
| `Connect` | the provider record, its OAuth connection and its webhook endpoint |
| `MCConnect` | its small instances |
| `ConnectProofs` | its inductive invariant and the theorems |
| `Storefront` | the requests that share the provider's row, and the customer link |
| `MCStorefront` | its small instances |
| `StorefrontProofs` | its inductive invariant and the theorems |
| `Money` | conversions between Odoo's amounts and the platform's |
| `IdempotencyKeys` | the bounded composition of idempotency keys |
| `PaymentForm` | the form in the browser, with the transactions made for it; it composes `Money` and `IdempotencyKeys` |
| `MCPaymentForm` | its small instances |
| `PaymentFormProofs` | its inductive invariant and the theorems |

### Conventions

*Requests.* A worker (`Worker`) is an HTTP request Odoo is serving, with what it
has read so far in `job`. Its writes take effect in one step, at its commit;
what it asks of the platform takes effect at once. `Abort` is a request that
dies or is rolled back at any point. What is read before a lock is kept in the
job and may be stale when used; what is read under the lock is current, as the
docstring of `order_sync.lock` has it. Nothing else is assumed of the
database's isolation. (A cursor with snapshot isolation turns some of these
interleavings into a serialization failure, that is an `Abort`.)

*Events.* An event is its own id: the platform emits each once, and delivers it
any number of times, in any order, until and after it is answered 200. `acked`
is a ghost variable: the events answered 200.

*Data.* A session's payload is its status, its expiry flag and its payment
status; its amount is right, wrong or unreadable, for good. An intent and a
charge id stand for the session they belong to. Text, notes, logs and health
stamps are left out. `None` is Python's `None`, and any empty value where the code
only tests its truth. `Unset` is the `False` the ORM reads from an empty
`xpay_session_id`: `lifecycle.ownership` tests `is not None` and hands the `False` to
`compare_digest`, so the two are not the same there.

### Settlement

`CheckoutStart`, `SweepSibling`, `CreateSession` and `CheckoutCommit` are
`session_for` and `_expire_sibling_sessions`, the platform calls being steps of
their own. `WebhookFind`, `ReturnFind` and `ReturnRead` are the two routes up to
`_process`; `Lock` or `LockBusy`, then `ApplyLocked` or `NoteDeclined`, are
`order_sync`. Before the lock, the framework checks the amount of the payload
(`ValidateAmount`) and puts the transaction in error if it is wrong; it may then
apply the payload or not. `Complete`, `AsyncSucceed`, `AsyncFail`, `Overdue`,
`ExpireSession` and `Decline` are the platform. A late payment of a session that
is overdue is possible, and so is one of a session that was superseded.

`Recheckout` says whether the processing values of a draft transaction may be
asked for again. The framework asks once; the setting explores the second time.

A sweep leaves a sibling with a ledger and no current session, and `Ownership` is then
`"FOREIGN"` whatever the ledger holds. Its answer `"SUPERSEDED"`, and the parking that
follows, are only reached by a transaction that has a current session beside its
ledger, that is one swept and then checked out again (`Recheckout`).

The framework checks the amount in `_process`, before `apply_locked` takes the lock;
`ApplyLocked` does both in one step, under the lock. The check reads the payload and
the transaction's amount, which nobody writes, and sets the state only of a draft or
pending transaction. So the order matters only if another request commits between the
check and the lock; the model takes the database to refuse the second write then, as
Odoo's does, which is an `Abort`.

### Refunds

`SubmitRefund` takes the source's lock and makes up the request;
`PlatformRefund`, `PlatformRefuse` and `PlatformReplay` answer it, a key seen
before with what it got the first time; `SubmitAnswered` commits, `SubmitLost`
commits without an answer (the POST may arrive later: `PlatformLate`).
`SubmitRefused` is an attempt stopped by the lock or a guard. `Deliver` finds the
child of a report before any lock; `ApplyRefundUpdate` and
`MirrorExternalRefund` handle one entry each, so that `charge.refunded` is as
many steps as it has refunds and `LockBusy` undoes those before it.
`DashboardRefund` is a refund this module did not ask for. `Deviates` lets the
platform refund another amount than it was asked for.

The children of a payment are read under its source's lock, and taken to be current
there. A repeatable-read snapshot taken before the lock would not show a child that
was committed since, unless the source's own row was written as well; the theorems
about keys and amounts rest on this assumption.

### Connect

A worker is an administrator's browser: its session holds one OAuth flow
(`flow`), and it makes one request at a time (`job`). `prov` is the committed
provider record. `LockProvider` takes its row and copies it into the job's
draft; what provisioning writes goes there, `Commit` stores it, and `Rollback`,
which is how a failed button ends, drops it. The callback catches its failures
and commits. Keys, endpoints and answers at the platform (`issued`, `endpoint`,
`answer`) change at once and stay changed.

`Start`, `Callback`, `Exchange` and `ExchangeFails` are the handshake;
`AccountUnread`, `AccountRefused` and `AccountAccepted` the reading of the
account, `CreateAnswered`, `CreateFails`, `CreateCapped`, `FreeSlot` and
`Cleanup` are `ensure_endpoint` and the decommissioning after it, `Finish` is
`_finish_provisioning`. `Failed` is what a failed consent leaves: on the plane
already connected, the new key and a flag, because the exchange retired the old
key; on the other plane, the connection as it was. `CompleteSetup`,
`ReconfigureWebhook`, `DisconnectStart` and `SaveForm` are the buttons and the
form. Deletions are best effort, so each deletes any subset of what it was
meant to. The platform answers an operation id it has seen with what it
answered before, separately for test and live, refusals included. `validated`
is a ghost: the keys whose account was read and found sufficient. A client is
registered anew only as long as it has not completed a consent; the time it
takes is left out, so that may happen at any click.

### Storefront

Where `Connect` has the steps of a consent, `Storefront` has the writes every
kind of request commits to the provider's row, and what the database makes of
them when they meet. `StampCheck`, `AskAccount`, `AccountRead` and
`AccountUnread` are `_xpay_refresh_account`, begun by a page (`RenderPage`), a
checkout (`Checkout`) or the button (`RefreshAccount`); `StampHealth` is
`_record_health` after a delivery (`FailedDelivery`, `PaidDelivery`);
`LockProvider` and then `Provisioned`, `SetupIncomplete` or `StillIncomplete`
are a consent or Complete setup; `Cleared` is Disconnect. `LinkMissing` and
`RetryCreated` are the second attempt of `_create_session` without the customer,
and `PaidDelivery` remembers one.

A request's uncommitted writes are its `draft`, and `columns` says which; a
write takes the row (`holds`) until `Commit` or `Abort`. Both isolations are
explored: under "repeatable_read" a request whose row was committed by another
since it began cannot write it (`stale`; Odoo runs it again), under
"read_committed" it can. `fetched_at` is fresh or old, and `Expire` is the
passing of the window. An account is the key it was read with. `owner` says to
which key's account a customer of the platform belongs. A checkout is a
registered shopper's; the others have no link.

### PaymentForm, Money, IdempotencyKeys

One browser. `PrepareOption` and `PrepareOther` are `_prepareInlineForm`, with
`_xpayTeardownActive`; `Pay` and `PayWithoutForm` are `_initiatePaymentFlow` up
to its first `await`, `SubmitFails` and `SubmitSucceeds` its outcome; the host
then creates the transaction (`CreateFails`, or `Created` as part of `Confirm` or
`ConfirmWithoutForm`, which are `_processDirectFlow`); `ConfirmFails`,
`ConfirmSucceeds`, `ConfirmAnswerLost` and `AmountChanged` are what
`confirmPayment` comes to. A run of the flow (`flow`) keeps what it captured
before each `await`; two runs may be under way, because selecting an option
enables the button while the first is pending. The host form (it disables the
button when a flow starts, enables it after an option is prepared, and creates
the transaction) and the SDK (an element is live, failed to load, or destroyed;
the platform warns once of an amount the element did not show) are external.
`CartChanges` is the order in another tab and `LoadPage` a reload. A reload ends the
flows of the page, a confirmation on its way to the platform included: the model has
the platform forget it, where it may still be carried out. `ChargesShownTotal` and
`ConfirmsItsElement` therefore speak of confirmations whose page is still there.

Amounts are integers of the finest unit. `MinorOf` is what both the form and the
session convert with; `Recognised` is what the framework makes of the amount of
a paid session. A key is a sequence of tokens and a digest one token, taken to
be injective.

## The runs

| Run | Question | Instance |
|---|---|---|
| `settlement` | two siblings, two requests at a time: the promise of `Payment`, findable sessions, superseded sessions never applied, payments dropped of swept sessions only | 2 transactions, 2 sessions, 2 workers, lists of 2, 3 events |
| `settlement_one` | one transaction, so nothing is swept, under every event in every order, amounts right, wrong and unreadable; and every payment is in the end applied or escalated | 1 transaction, 1 session, 2 workers, lists of 1, 4 events |
| `settlement_recheckout` | values asked for again: references follow the current session | 2 transactions, 3 sessions, 1 worker |
| `refunds` | full refunds through refusals, losses, crashes, pending and failed outcomes, wrong amounts, submissions and deliveries interleaved | 2 children, 2 refunds, 2 workers |
| `refunds_external` | refunds in parts at a rate of 3/2, by the module and from the dashboard, two in one event, with and without a figure in the order's currency | 2 children, 2 refunds, 2 units paid |
| `connect` | two administrators at once, crashes, lost answers, the endpoint cap: state, key, secret, endpoint and setup gate agree | 2 workers, 2 keys, 2 endpoints, 2 operation ids |
| `connect_quiet` | any sequence of one administrator's requests: the stored key works, the endpoint on record is alive | 1 worker, 3 keys, 3 endpoints, 3 operation ids |
| `storefront` | requests sharing the provider's row and the customer link: nobody's column is undone, the cached account is the connection's, a platform that is down is asked once per window, links survive | 2 workers, 2 accounts, 2 customers, both isolations |
| `payment_form` | a shopper switching, reloading and paying while promises are pending and the order changes; keys and amounts of the sessions made | 2 options and another, 2 flows, 2 elements, 2 transactions, 2 kinds of shop |
| `duplicate_child`, `sends_beside_pending`, `swept_payment` | the disagreements below | smallest that shows them |

What the runs do not say. `KeepsPromise` is about what the store records: a payment
that is dropped changes nothing and is a stutter of `Payment`, so it does not say that
payments are heeded; `OnlySweptPaymentsAreDropped` and `UnsweptEventuallyAccounted` do.
`HandedSessionFindable` says that a session is found, not that the transaction then
listens, and with two sessions no ledger holds more than one id, so nothing is said of
its ten places. `settlement_recheckout` and `refunds_external` have one worker: they
explore what follows what, and little of what overlaps.

Bounds. Two workers are every pair of requests; a third adds no new conflict on
a row that admits one lock holder. Two sessions are enough for a current and a
superseded one, a third for a second superseding. The lists of processed events
and superseded sessions have 20 and 10 places in the code and one or two here,
so that the former overflow. `MaxEvents` bounds the events, `MaxChild` the attempts and
`Refund` the refunds; two attempts are a lost one and its retry, or a refusal and
its successor. Symmetry is over ids that nothing tells apart, and never used with liveness.
The refund runs do not check deadlock: when the slots for children are used up,
and everything is decided, there is nothing left to do. Nor does
`connect_quiet`: a request that needs one more operation id or endpoint than the
instance has can go no further. `connect` needs two keys and two endpoints, the
one in use and the one that replaces it; `connect_quiet` takes three, a
replacement of a replacement, and excludes what no code could repair (an exchange
whose answer is lost, a request that dies, the cap), because there the stored
key or endpoint may be dead at the platform. `storefront` has two accounts on
each plane, so that a consent can change the account, the plane or neither, and
customers of two accounts of one plane, or of two planes of one account.
`payment_form` has an element and its successor on each page (`MaxElement`; a page
may be loaded again without end), two flows, and two shops: one whose currency
has fewer decimals at XPay, whose account settles in another currency and whose
reference does not fit a key, and one whose currency has more and whose reference
has a character the key's alphabet lacks. When the transactions (`MaxTx`) are used
up, a flow that asks for one can still be refused (`CreateFails`), so `NeverStuck`
holds at the bound for the same reason as below it.

Fairness (`FairSpec`). A request that is being served ends (weak fairness of its
steps: the server runs it or kills it). The platform redelivers an event until
it is answered 200 (`xpay_webhook` answers 500 to be redelivered); a redelivery
may meet a busy lock or a crash any number of times but not always, which is
strong fairness of a delivery that finds the lock free, of its lock and of its
application. In the browser, a promise settles, one way or the other (weak
fairness of `Settle`): `waitFor`, the host's RPC and the SDK's calls end in an
answer or a rejection. Nothing is assumed of the shopper, of the return route or of the
order of deliveries.

## Disagreements between the code and its words

1. *Two children for one refund* (`duplicate_child`). The webhook looks for the
   child before the lock; a submission that commits in between leaves nothing to
   adopt, and the refund is mirrored into a second completed child, which the
   ledger of later refunds then counts twice.
2. *Pending after adoption* (`sends_beside_pending`). An adopted attempt stays in
   error on a PENDING report, and the guard on pending siblings does not see it.
3. *Payments of swept sessions are dropped* (`swept_payment`). The sweep of a sibling's
   checkout moves the sibling's session to its ledger, so that "a late payment on it is
   then parked for a human", and in the same write empties `xpay_session_id`. The ORM
   reads that as `False`, which is not `None`; `compare_digest` raises a `TypeError`,
   and `ownership` answers `FOREIGN` before it looks at the ledger. If the shopper pays
   that session after all, the payment is neither applied nor parked, its event is
   remembered and answered 200. The tests of this case leave the transaction a current
   session beside the ledger, which a sweep never does.

Met while modelling, and shown by no run: `action_xpay_reconfigure_webhook` says a failed
create "leaves the live endpoint in place", but at the cap the live endpoint is deleted
to make room (`CreateCapped`, `FreeSlot`), and if the second create fails, the
rolled-back record names a deleted one; `session_for` says it creates "a session
only when there is no usable one already", but always asks for one, and only the
platform's answer to a repeated key makes an unchanged request idempotent; a
dashboard refund mirrored while an answer is lost moves the count the key of the
lost attempt is made of, so that its retry is a new request; a mirrored refund that
failed moves the other count, and `refund_service` says nevertheless of a second
attempt that it "is that same attempt replaying its own key". The comment on a
rejected confirmation says "nothing was confirmed", which a lost answer belies
(`ConfirmAnswerLost`); the transaction then waits for its webhook. Selecting an
option again enables the button over a form that failed to load
(`PrepareOption`), which only validation then stops. `_xpay_refresh_account` says a
platform that is down "costs one bounded-timeout request per cache window", but
a checkout that fails takes its stamp along, and the next one asks again
(`Abort`); it also says a passive refresh "must never block a shopper", but its
first `UPDATE` waits for whoever holds the row, a consent for as long as it talks
to the platform (`StampCheck`). The other way round, a page refreshing the account
holds the row a consent takes with `NOWAIT`, after its exchange has retired the key
in use. A reconfiguration that fails rolls its cooldown stamp back with the rest,
though a second click is to be "refused whatever the first attempt's outcome". The
client's docstring says it sends no `liveMode`; every request has one.

## What is proved

`SettlementProofs` proves, for every number of transactions, sessions and
workers, and every bound of the lists, that `IInv` is an invariant of `Spec`
(`Invariance`), and from it

* `DoneOnce`: a done transaction was settled by its own session, on which money
  moved, of the right amount, and no session settles two transactions;
* `OnlySweptAreDropped`: a payment whose event was answered 200 settled a
  transaction, or was put in front of a human, or is of a session that a sibling's
  sweep took away; the last are dropped, as the disagreements above say;
* `EverySessionFound`: a session a shopper was given is current or superseded
  on the transaction it was made for, so its events are found; that the
  transaction heeds them is not part of it;
* `ClosedStaysClosedHolds`: the action property `ClosedStaysClosed`;
* `KeepsPromiseHolds`: `KeepsPromise`, the refinement of `Payment`.

They assume `ConstantsAssumption` and `~Recheckout`: `session_for` runs once per
transaction, which is what the framework does.

The rest does not depend on that. `CoreInvariance` has a second inductive
invariant, `CoreInv`, which holds however often values are asked for and however
many such requests overlap, under `ConstantsAssumption` alone. From it follow

* `TypeCorrect`: `TypeOK`;
* `SettledByOwn`: `DoneOnce` without the amount: the session was the
  transaction's own, it was paid, and the intent and the charge are both its own;
* `OnlyMoneyParked`: a human is only told of sessions that were paid;
* `ClosedNeverReopensHolds`: a transaction that is done, canceled or in error
  stays so, the first half of `ClosedStaysClosed`;
* `IssuedReferenceSurvivesHolds`, `SupersededNeverSettlesHolds`,
  `PendingNotCanceledHolds`: `IssuedReferenceSurvives`, `SupersededNeverSettles`
  and `PendingNotCanceled`. The second says that a superseded payment is not
  applied, not that it is parked.

What is missing there is false there. A session that a repeated checkout replaces
is on no list (only a sibling's is superseded), so `EverySessionFound` and
`OnlySweptAreDropped` go. When two such checkouts overlap, the second may commit
after the payment of the first one's session, and leave its session on a
transaction that is done: paid too, it takes the place of the references
(`ClosedStaysClosed`, and `KeepsPromise` with it), and with a wrong amount it
takes `DoneOnce` along, since `lifecycle.plan` has `SET_DONE` for a done
transaction as well. The model assumes no isolation beyond the lock the source
takes; a database that refuses to overwrite a row changed since it was read would
refuse that commit.

The argument. None of the properties is inductive: an applied payload was read
before the lock, so `JobInv` says what stays true of it meanwhile. Its session is
still current or superseded on the row (`Holds`, which superseding keeps), and if
it said money moved, money has moved: `TruthInv` for events, and payment being
final at the platform. `OwnershipInv` makes the session belong to one
transaction and the transaction to one session, so ledgers cannot overflow and
ownership cannot change. `CreatorInv` gives a transaction one creator.
`ProcessedInv` makes the dedupe harmless: an event that is remembered has been
accounted for or is of a swept session (`AccountedOrSwept`), so acknowledging it again
loses nothing more. Swept stays swept: nothing gives the transaction a session again
unless its values are asked for a second time. Each action then
disturbs a few of these, and has one lemma that says which.

`CoreInv` keeps of this what needs no counting of sessions: whose each session is,
never whether a row still has it. A request therefore knows that its session was
opened for the rows it read it from, that its transaction exists, and that money
it was told of has moved; `apply_locked` tests the rest again under the lock.

For the action properties, `CoreNext` says what a step may make of a transaction:
only `apply_locked` rewrites it, and then as `lifecycle.plan` allows
(`Rewritten`); every other step carries over what it has come to (`Carried`), a
sweep that moves its session ids included. Each of them then follows from one
sentence about `Rewritten` (`RowChange` and `Advanced` are the same with `IInv`).
For the refinement, the promise's variables are state functions of the store and
the platform: money only moves in the platform's steps, one session at a time
(`MoneySteps`), and applying a payload settles, closes, escalates or does nothing
(`ApplyLockedRefines`). So each step is one of `Payment`'s or a stutter
(`NextRefines`), however many requests are under way and however old what they
read.

`ConnectProofs` does the same for `Connect`, for any number of administrators,
keys, endpoints and operation ids, with crashes, lost answers and the cap:
`ConnectInvariance` is the inductive invariant (also called `IInv`), and from it
follow `ConnectTypeCorrect`, `StateFits_Always`, `SecretOfEndpoint_Always`,
`GateMeansSetUp_Always` and the action property `FailureKeepsConnection_Always`.
They assume `ConnectAssumption`. The argument: what a request commits was
prepared in its draft, from what it read when it took the row. `LockInv` says one
request holds the row, so `DraftOk` can say that nobody has written the record
since: the draft is the record with the key it is aiming at (`Intended`), and
with an endpoint of the key's plane once one was created. `ConsentOk` ties the
key of a consent to the plane that was asked for, and `AnswerInv` the platform's
repeated answers to endpoints that exist. Keys and endpoints only ever appear
(`Grows`), so what a request knows of them is not undone by others.

Two more invariants are built on it. `EndpointAlive_Always` holds for any number of
administrators, with exchanges that are lost, where no request dies (`~Crashes`) and
the cap is not reached (`~Capped`): with either, the record may name an endpoint
that is gone. `EndpointInv` says that the endpoint on record is
only deleted by a request which, holding the record, then replaces it, that an
operation that can be sent again is answered with a live endpoint or none, and that
a create is never answered with the very endpoint it replaces, so that the cleanup
after it does not delete what it stores. `KeyWorks_Always` is for one administrator
at a time, and assumes that no exchange is lost and no request dies, because the
platform retires the key in use as it answers: then only the consent in hand can
have retired the stored key (`KeyInv`), and whichever way it ends it replaces it.

`StorefrontProofs` takes `Storefront` for any number of requests, keys and
customers, and for both isolations: `StorefrontInvariance` is its `IInv`, and from it
follow `StorefrontTypeCorrect`, `AccountFitsKey_Always` and the action properties
`NoClobber_Always`, `PassiveCallsAreRare_Always` and `LiveLinkKept_Always`. They
assume `StorefrontAssumption`. The argument: whoever has written the row holds it
(`HolderOfStep`) and one request does (`OneHolder`), so what a request read while
it holds the row is still true when it commits. `ColumnsInv` says a request writes
the columns it is about and asks the platform with the key of the row, which is
`NoClobber`, and with `DraftInv` ties the account it writes to that key. What a
request saw before it held the row may be old; under `"repeatable_read"` its flags
`stale` and `staleLink` say so, since its write would then fail: `SnapshotInv` and
`LinkInv` say what is still true while they are down. Without them the last two
theorems are false, and they claim nothing under `"read_committed"` beyond what they
state.

`PaymentFormProofs` takes `PaymentForm` for any options, flows and shops and however
many elements and transactions: `PaymentFormInvariance` is its `IInv`, and from it
follow `PaymentFormTypeCorrect`, `OneLiveElement_Always`,
`ConfirmsItsElement_Always`, `ChargesShownTotal_Always` and
`ChargeIsRecognised_Always`. They assume `PaymentFormAssumption`; the last one also
that the order's amounts are kept at Odoo's decimals, as an order's total is, and not
only at the model's unit: rounding at two precisions in turn is not rounding at the
second. The argument: an entry is the form of the active option, on the page and of
that option (`EntryInv`), so tearing the active one down leaves nothing and looking
the element up after a promise finds a good one or none; a flow that confirms has a
transaction the shopper was not warned about (`FlowInv`), since a warning ends every
flow of the page, so the platform lets it charge only the total the page showed. The
last theorem is arithmetic: `Units` and `RoundedTwice`.

The keys of the sessions (`OwnSessionKey_Always`) are about text, of which the
provers know nothing, so `KeyTexts` states what is assumed of it: numbers have texts
of their own and in the key's alphabet, digests do not collide and look like no part
of a reference, and a key has room for what is never cut. The argument then goes
along `_keyed`: prefix and suffix are cancelled (`Between`); what is kept of two
references differs by their tokens, by their digests, or because one ends in a digest
and no reference does (`KeptApart`). A retry ends differently, a refund begins
differently, and the room `_keyed` leaves makes `bind_to_body`'s cut a no-op
(`BoundKey`).

`RefundProofs` takes `Refunds` for any number of children, refunds and requests, any
rate, and a platform that may deviate, lose answers, answer late, decide later and
refund from the dashboard. `RefundInvariance` is its `IInv`, and from it follow
`RefundTypeCorrect`, `DoneIsRefundedHolds`, `RejectedIsSettledHolds`,
`AckedRefundIsOnRecord` and the action property `KeysAreNotReused`
(`SettledKeyNotReused`). They assume the constants' assumptions only. The
difficulty is a webhook that handles several refunds in one transaction: what it has
written so far is neither committed nor forgotten. `OverlayInv` says of each such row
that the request holds the lock guarding it, which is the source's as long as the
child names no refund and its own afterwards (`Guard`), and that the row is a
`Later` form of the committed one. So nobody else has written it meanwhile
(`OthersKeep`), and the commit moves every child forward (`Onward`). What the platform
says stays true of it (`Told`, `PlatformInv`), so a report may be applied late. An
entry that was handled is `Covered`, in the rows as the request sees them; an event
that a child or the source remembers is covered by the committed rows (`RecordOk`,
`SeenOk`), which is why answering it 200 again loses nothing. `KeyInv` counts: a key
holds numbers of completed and refused children that were true when it was made and
have since only grown, beyond the key's own once its child is settled.

`RefundLedgerProofs` goes on to what the ledger adds up to. Its second invariant
`BooksInv` (`BooksInvariance`) is about the books: state, refusal, waiting, key and
amounts of each child. A child that names its refund has had its answer, and its
books are closed; the others are written under the source's lock only. So the ledger
that a request read is the one its answer finds (`SendingBooks`), the attempts that
wait are one request, made of the ledger as it is (`Ledger`), and whatever answers it
closes all of them (`Shared`). From it follow

* `FullRefundReturnsAllHolds`: refunds in parts strand nothing. It speaks of
  payments all of whose completed or refused children are this module's own: a
  refund from the dashboard is converted by the platform, so the parts may add up
  and leave a remainder of rounding. The last part is sent as what remains, and no
  other part can be: that is the sum of `Ledger`, and `FiniteSums` has the
  induction such sums need;
* `OneAnswerPerKeyHolds`: attempts that share a key wait together and are answered
  together; also assumes that the platform refunds what it is asked for (`~Deviates`),
  since an answer with another amount is put in front of a human and leaves its child
  as it was.

Both assume that a refund is decided when it is made (`"PENDING" \notin Outcomes`).
So does the run that checks them. With refunds decided later, the books are not
closed when a child gets its refund's id, and the proof would need what a pending
child may still become.

The third part is `OneDonePerRefundHolds`, for requests that come one at a time
(`OneWorker`) and any platform. With two it is false, as `duplicate_child` shows, and
the proof says why one is enough. Children are created in order, and of those that
name a refund only the latest is completed (`OneEach`): it is the one a report finds,
so a second child could only come from a report or an answer that found none. A
report finds none under the very state it is applied to (`HandlingOne`). A replayed
answer names a refund that some child may have: then that child was completed
since, and the key, which counts completed children, would no longer be the same
(`AnsweredBefore`, `SendingOne`). The count in `refund_key` is thus what keeps a retry
from completing a refund twice, not only what makes new requests new.

Model-checked only: liveness and fairness (`NeverStuck`, the payment that is in the
end applied or escalated), which is out of the prover's reach.

## Not modelled, and the plan

Worth proving next: the two theorems about the ledger with refunds that are decided
later.

Left out of the components that are modelled in part:

* checkout and settlement: the wording of notes, the shopper's details, and the
  routes' checks of malformed requests;
* money: `parse_minor` and the refusal of text that is not a number, which are
  about characters;
* Connect: a flow whose session was lost, and a client registered anew because the
  site moved host;
* the webhook endpoint: `reconcile_enabled_events`, which keeps no state here;
* the provider record: the reconfigure cooldown (a comparison of times under the
  row lock), what capabilities do to the list of methods, and views.

Left out altogether: the platform client, the signature, hosts, the redactor,
logging, payment-method tables, views and install hooks. They keep no state, or
their logic is text.
