# Verification of polo-faka

polo-faka is a shop for card keys: a NestJS API over MySQL (Prisma) and Redis, a
Vue front end, a Tauri desktop client and a VS Code extension. This directory
holds TLA+ models of the parts of the API and of the desktop client where several
handlers act on the same state, the TLC runs that check them and the theorems TLAPS
proves about them.

## 1. Inventory

Paths are under `src/apps/api/src/modules` unless they start with `src/`.

| component | state | operations | what is hard |
|---|---|---|---|
| Orders (`orders/orders.service.ts`, `orders.cron.ts`) | `orders.status`, `card_keys.status/orderNo`, `sku.sales`, Redis `lock:order:*` | create, pay, markPaidOnly, markPaidAndDeliver, closeExpired, recoverLostNotify, admin operations | two confirmations of one payment; lock expiry; two transactions per delivery; admin requests that act on an earlier read |
| Alipay gateway (`alipay/`) | the trade at Alipay, its expiry | pay link, notify, return, query, refund, close | lost, repeated and late notifications; an order closed while the buyer pays |
| Recharge (`recharge/`) | `recharge_orders.status`, `users.balance`, `balance_logs` | create, markPaidAndCredit, expireOverdue, recoverLostNotify | crediting exactly once; payment after expiry |
| Wallet (`users/`, `points/`, part of `orders/`) | `balance`, `points`, `point_logs`, inviter | pay with balance or points, adjust, award, deduct, refund | conditional decrements; counters written before the log that makes them unique |
| Vip (`vip/`) | `vipTier`, `totalRecharged`, `customDiscount`, the tables of tiers and discounts | accrue, computeTier, discount | boundaries of tiers, overrides and clamps |
| Token refund (`customer-refund/`, `cursor-refund/`) | `token_refund_logs` status x payStatus | submit, markFeePaid, execute, recheck, retry, recoverStale, whitelist | a remote refund with an unknown outcome, leases, retries |
| Redeem codes (`redeem/`) | `usedCount`, `status` | reserve, redeem, rollback, toggle, remove | a use reserved in one transaction and spent in another |
| Pool (`pool/`) | accounts, grants, quota counters | createGrantForOrder, claim, swap, sync, refresh | two grants claim one account; counters overwritten by older reads |
| Warehouse (`warehouse/`) | accounts PENDING/ASSIGNED/SOLD/UNLISTED, their card keys, refund state | bulkImport, manualAdd, assign, unassign, remove, the operations by reference, sold hook, runAutoRefunds | check outside the transaction; retries of a remote refund |
| Recycling (`recycle/`) | `recycle_requests` | submit, refresh, deletion of the recycled rows, remove | rows chosen by an order number that was read earlier |
| Cursor subscriptions (`cursor-sub/`) | accounts, their status, their reference in the warehouse | push, remove, sync, markPaid, expiry, checkout | a push and a removal of two steps each; a status written after a remote answer |
| Account vault (`account-vault/`) | accounts, events | CRUD, check, bulk | a check result written over an edit |
| Quota reports (`cursor-quota/`, `usage-check/`) | accounts, snapshots | refresh, report, pricing | arithmetic of the report |
| Captcha, abuse guard (`captcha/`, `src/apps/api/src/common/abuse`) | Redis counters and bans | verify, hit, ban | get and delete are two commands |
| Desktop client (`src/apps/desktop/src-tauri`) | settings, table of accounts, refresh task, two files of Cursor | save settings, login, import, claim, swap, release, the rounds of the task | a wake-up sent while nobody waits; a login in two files; a list older than the table |
| Catalogue, settings, documents, auth, audit, front ends | rows edited one at a time | CRUD | none that a model adds to |

How they interact: the Alipay controller, the browser return, the recovery crons
and the back office all call `markPaidOnly` or `markPaidAndDeliver`; these write
orders and cards that the admin operations and the expiry cron write too. Redis
holds one lock per order for the length of a delivery. Balance, points and vip
are written from orders, recharges and redeems inside their transactions. The
warehouse feeds card keys to the stock that orders sell; a sale marks its row SOLD, a
cron refunds it, recycling deletes it. A redeemed code ends in the delivery of an order,
and the delivery of a quota package is a grant of the pool, whose accounts the desktop
client claims, swaps and releases. All handlers run in one Node process or several,
so any two database statements of two handlers can interleave; within one transaction MySQL's row locks order the writes, but a
plain read before a write is not protected.

## 2. Plan

In this order; each module that is run gets an MC module, one run per question and, where it
says so, a proof module. A project stays readable with about a dozen runs, so a
component gets one run that checks everything it promises, and a second one only
for a question the first cannot ask.

| | module | abstract specification | run and bounds | theorems |
|---|---|---|---|---|
| done | `OrderDelivery` | | sections below | types, ownership, mutual exclusion, exact delivery, orphans, refunds |
| done | `PaymentWindow` (orders and recharges) | | sections below | types, credited once, paid has money, acknowledged, swept and expired bills, finality |
| done | `TokenRefund` | `PaidJob` | sections below | types, exclusion, verified success, refinement |
| done | `Wallet` with the pure module `VipPricing` | `Ledger`: a balance changes only with its log, one row for a reference | sections below | types, balance and points never negative, refinement, refunds and debits, prices |
| done | `Common`, `Redeem`, `Warehouse`, `Recycle`, `CursorSub`, `PoolGrants`, composed in `Stock` | | section 7 | of each part: types, uses of a code, attempts of a refund, use and exclusiveness of a grant; of `Stock`: the same, sold once, sale recorded, recycling, removal |
| done | `Desktop` | | section 8 | types, one row for a grant, agreement of the files |

The plan is carried out; section 10 says what was left out and why. Every safety property
that a passing run checks is also a theorem; section 9 says what is not.

## 3. OrderDelivery

### What is modelled

Local (CARD_AUTO) orders of one SKU that are paid through Alipay, from PENDING on.
One action is one database statement, transaction or Redis command that another
handler can interleave with; whatever a handler read earlier and still uses is a
variable of its own.

| code | model |
|---|---|
| `orders.status`; a deleted row | `status`; `"GONE"` |
| `card_keys.status`, `card_keys.orderNo` | `keyStatus`, `keyOwner` |
| `sku.sales` | `sales`, relative to the start |
| Redis `lock:order:<orderNo>` | `lock[o]`: only whether the key exists, since the code never looks at its value |
| `markPaidOnly` | `ConfirmRead`, `ConfirmWrite` (`ConfirmFails`), `DeliverAsync`; `Confirmers` are the calls that can be under way together |
| `markPaidAndDeliver` | `AcquireLock`/`LockBusy`/`LockDegraded`, `ReadOrder`, `MarkPaid`, `ListKeys`, `SellKeys`, `FinishDelivery`, `ReleaseLock` of a job |
| `adminMarkPaid`, `adminRedeliver` | one action each (their check and the start of a job) |
| `adminCancel`, `adminDelete`, `adminRefund`, Alipay `adminRefund`, `adminManualDeliver` | `AdminRead`, then the write of the operation, or `AdminFails` |
| `closeExpired` | `CloseExpired`, one row of the updateMany |
| key expiry of the lock | `LockExpires` (nobody delivers), `LockOverrun` (a delivery takes more than 30 s) |
| process stop, failed transaction, Redis down | `ConfirmDies`, `JobDies`, `FinishFails`, `LockDegraded` |

`ListKeys` lists the cards with the smallest ids as `orderBy id asc, take n` does;
`SellKeys` is the pick transaction's conditional `updateMany` and its rollback.
The refund by balance or points differs from the one modelled only in the wallet
writes beside the same card and status writes; those are in `Wallet`.

`cause` and `faults` are history variables. `cause[o]` records which of four
things happened to an order: its lock was lost or skipped (`"lock"`), a
confirmation overwrote a settled status (`"stale"`), a delivery broke off between
its two transactions (`"abort"`), an admin wrote on a state other than the one
read (`"admin"`). No guard reads `cause`. With it the safety properties say
more than that the code may fail: outside of those four causes it does not.

### Runs

- `delivery_all` (pass): one order of two cards, four cards in stock and two that can be
  typed in, two confirmations, two deliveries, one admin with every operation,
  at most one fault of any kind. Checks `DeliveryMutex`, `DeliverExactly`,
  `NoOrphanCard`, `RefundIsFinal`. Two confirmers and two jobs
  are enough for every pairwise race; the stock suffices for a double sale, so
  over-delivery is not hidden by shortage.
- `delivery_two` (pass, `FairSpec`): two orders of one card each over two cards, with
  refunds and deletions by an admin: cards change hands. `KeyOwnership`,
  `NoHandover`, and `PaidIsDelivered`: a PAID order is delivered or
  settled otherwise, unless two deliveries wanted the same cards.
- `delivery_notify` (violation of `NoOverDelivery`): two confirmations read PENDING; the
  second sets a DELIVERED order back to PAID, and two sets of cards are sold to it.

`findings` in `PROJECT.json` quotes the comment that each violation contradicts.

Beside this one, the model shows deviations that have no run of their own; each is
one value of `cause`, so the passing runs show that nothing else goes wrong:

- `"lock"`: a delivery of more than 30 s loses its lock and a redelivery runs beside it
  (`LockOverrun`); the same without Redis (`LockDegraded`).
- `"abort"`: the cards are sold, the second transaction fails, and the redelivery sells
  more (`FinishFails`, `JobDies`).
- `"admin"`: an order that was paid after the admin's read is cancelled or deleted; a
  refund during a delivery leaves the cards with the buyer.
- Two refunds of one order whose reads overlap: the second frees a card that another
  order bought in between, and it is sold again (`"admin"`).
- Refunding an order that was paid and never delivered lowers `sku.sales` below its
  start, since the refund takes back what only a delivery adds.
- Two deliveries that list the same cards: the loser stays PAID although a card is
  left (`Contended` in `PaidIsDelivered`).

Bounds: `MaxFaults` bounds the faults of a behaviour (1: one crash, one Redis
failure...); `Jobs`, `Confirmers`, `Admins` bound what runs at the same time, not
how often. Nothing else is cut. `CHECK_DEADLOCK FALSE` is set because a state in
which every order is settled or gone and no request is open is a legitimate end.

Fairness (`FairSpec`): weak fairness of the steps of an accepted confirmation, of a
started job and of the expiry of a lock nobody renews: the event loop runs every
handler on, and Redis drops the key. Nothing is assumed of admins, buyers or the
notifications. The liveness run has no faults: a crash between recording the
payment and the delivery leaves the order PAID until an admin acts.

### Proofs (`OrderDeliveryProofs`)

For every number of orders, cards, jobs, confirmations and admins, under the
assumptions of `OrderDelivery` (card ids are natural numbers, stock and typed-in ids
are disjoint finite sets, quantities are positive):

| theorem | states |
|---|---|
| `TypeCorrect` | `[]TypeOK` |
| `CardsBelong` | `[]KeyOwnership` |
| `CardsAreNotHandedOver` | `NoHandover` |
| `DeliveriesExclude` | `[]DeliveryMutex` |
| `OrdersAreDeliveredExactly` | `[]DeliverExactly` |
| `OrphansAreExplained` | `[]NoOrphanCard` |
| `DeliveredOrdersHaveKeys` | `[]DeliveredHasKeys`: a DELIVERED order has a card (not a property of a run) |
| `RefundsAreFinal` | `RefundIsFinal` |

The argument. `KeyOwnership` is inductive with the types: cards gain an owner only in
`SellKeys` and `AdminManualDeliver`, which also make them SOLD, and lose it where
they are freed or their order is deleted. `DeliveryMutex` needs that a delivery holds
the lock as long as no lock was lost: the step that could break it is
`ReleaseLock`, which deletes the key whoever holds it; it deletes its own because
the other holder cannot exist. `DeliverExactly` is not inductive: it needs to know what
each job is about to do. The strengthening (`OrderInv`, `JobInv`) says, for an order
without a cause: a job that is past its read works on an order that holds no
card and is neither delivered nor refunded; the list in `cas` has the order's
quantity; in `finish` the order owns its quantity and is not refunded; and an
order holds cards only when it is DELIVERED or REFUNDED or a job of it is in
`finish`. `CancelInv` remembers that a cancel request read PENDING. TLC checked
the strengthening before it was proved. `NoOrphanCard` needs no more than these: the only
step that takes the owner of a SOLD card away and leaves the card SOLD is the deletion of
an order, which puts the cards the admin read back on sale: a card it leaves SOLD was not
among them, so the read was outdated and the order has its cause. Liveness is model-checked only.

## 4. PaymentWindow

### What is modelled

From the creation of a bill to PAID, EXPIRED or CANCELLED, for card orders and
recharges through Alipay. What follows PAID is OrderDelivery; there an order begins
where this module ends.

| code | model |
|---|---|
| `orders.status`, `recharge_orders.status` | `status` |
| `createdAt`, `expireAt` against the clock | `age`: fresh (younger than 90 s), open, overdue |
| `users.balance`, `balance_logs` | `credits` (how often a recharge was added), `logged` |
| the signed link, the trade, its state at Alipay | `linked`, `trade`; external |
| notifications and their answer | `pushes`, `acked`; external, with `Notify` for one that arrives, `NotifyLost`, and `NotifyRefused` for one that `verifyNotify` does not accept (changed keys, seller or switch), which is answered 'success' all the same |
| a trade reported with another amount than the bill's | `mispaid`, `BuyerPaysOther`; external |
| `create` of orders; of recharges | `PlaceOrder`; `CountRecharges`, then `CreateRecharge` |
| Alipay controller `create` | `CreatePayUrl` |
| `markPaidOnly` | `StartCall` (read, amount, status), `MarkPaid` (an update by `orderNo`, without a condition) |
| `markPaidAndCredit` | `StartCall`, `Credit` (a conditional update, the balance and the log in one transaction) |
| the answer of `notify` | `EndCall`, `StartCall`: 'success', also for 'already', for another amount and for hard failures; 'fail' in `CallFails` |
| `ret`, `adminQuery` | `Return`; what they answer does not matter to Alipay. `ret` does not look at the trade's status: `ReturnEarly` |
| `adminMarkPaid`, `mockPay` with what `markPaidAndDeliver` writes | `MarkRead`, `MarkByHand` |
| `closeExpired`, `expireOverdue` | `ListOverdue`, `ExpireOverdue`, `CloseTrade` or `CloseTradeFails` per bill, `EndClosing` |
| `recoverLostNotify` (orders and recharges) | `ListPending`, `QueryTrade` or `QueryTradeFails` per bill, its confirmation, `EndRecovery` |
| `adminCancel` | `CancelRead`, `CancelWrite` |
| process stop | `Crash`: calls, both tasks and open requests are forgotten |

`closed`, `swept`, `refused` and `onTrust` are history variables: the trades whose close
request was answered with ok; the bills a recovery run saw paid, with the right amount, at
its start and went through without a failure; the bills of which a notification was
answered 'success' although it was refused (by `verifyNotify`, or for its amount); the
bills marked paid by hand or confirmed on an early return. The bills are one user's (the
limits of recharges are per user), and a run of a cron task ends before the next run of the
same task starts. A notification of a trade that is not `TRADE_SUCCESS` or
`TRADE_FINISHED` changes nothing and is not modelled.

### Runs

- `window_all` (pass, `MixSpec`): `MCPaymentWindow` adds a variable `mix`, chosen at the
  start and never changed, that says which bills, calls and faults a behaviour has; one
  run covers the behaviours of all three mixes.
  - `Recharging`: one recharge, two calls, the request that creates it, both tasks, two
    faults of any kind, three notifications.
  - `Marking`: one order, one call, both tasks, requests that cancel it or mark it paid
    by hand, one fault of any kind, two notifications.
  - `Ordering`: two orders, one call, both tasks, no faults.

  `CreditedOnce`. `PaidHasMoney`: a bill is PAID with its own amount at Alipay, unless it
  was marked by hand or on an early return. `AckedIsSettled`: a notification that was
  accepted is answered 'success' only when the bill has left PENDING. `SweptIsSettled`.
  `PaidIsRecorded`: the right sum that arrives is recorded unless the bill becomes
  overdue or is cancelled first, even if every notification is lost or refused with
  'success'. `ExpiredIsClosed` is about orders, within `CloseBatch` and without failures
  of the gateway: what an expiry run has to do, since a trade left open can still be paid.
- `window_race` (violation of `SuccessMeansHandled`): a payment that the expiry task
  overtook. The recharge is EXPIRED, `markPaidAndCredit` throws, the notification is
  answered 'success', and nothing looks at the recharge again.

Bounds: `MaxPushes` is Alipay's own limit on repetitions; no property depends on it,
since `PaidIsRecorded` rests on the recovery task alone, and three pushes give a lost, a
failed and a repeated one. `CloseBatch` and `RecoverBatch` are as large as the bills,
because the properties about them say "within the batch"; in production they are 50 and
20. `MaxPending` and `MaxPaid` are the limits per 24 h. `MaxFaults` is 2: a refused
notification and a crash of the recovery after it. `CHECK_DEADLOCK FALSE`: all bills
settled and all tasks idle is a legitimate end.

Fairness: bills become 90 seconds old (`Opens`), the recovery task, which cron starts every
minute, lists and goes through its list (`ListPending`, `QueryTrade`, `EndRecovery`), and a
call that has read its bill writes it. Nothing is assumed of the buyer, of the
notifications, of the expiry task or of the time at which a bill runs out.

Behaviour of the code that the model shows and no property forbids:

- A notification that `verifyNotify` refuses, or whose amount is not the bill's, is answered
  'success' and the bill stays PENDING (`refused`). In the first case the recovery task
  brings the payment in, in the second nothing does, by intent.
- `ret` confirms a payment without looking at the trade's status; only Alipay's sending
  nobody back early keeps an unpaid bill from being PAID (`onTrust`).
- A bill paid after EXPIRED or CANCELLED is acknowledged and stays so
  (`SuccessMeansHandled`; the refund is a manual matter).
- `tradeClose` treats a trade that does not exist as closed. The link was signed
  before, so it can be opened after the close request; Alipay's own timeout of 15
  minutes is what ends it.
- Of more than 50 orders overdue at once all are set EXPIRED and only 50 are closed; no
  later run lists the others, because they are not PENDING any more.
- `expirePendingRecharges` compares with a second `new Date()`, so a recharge that
  becomes overdue between the list and the update expires without a close request.
  That is why `ExpiredIsClosed` is checked for orders.
- The limit of pending recharges is counted before the insert, so requests that run
  together exceed it.

### Proofs (`PaymentWindowProofs`)

For every set of orders and recharges, any number of calls, creators and faults, and any
limits:

| theorem | states |
|---|---|
| `TypeCorrect` | `[]TypeOK` |
| `RechargesAreCreditedOnce` | `[]CreditedOnce` |
| `PaidBillsHaveMoney` | `[]PaidHasMoney` |
| `AcksAreSettled` | `[]AckedIsSettled` |
| `SweptBillsAreSettled` | `Spec /\ []RecoveryFits => []SweptIsSettled` |
| `ExpiredOrdersAreClosed` | `Spec /\ []ExpiryFits => []ExpiredIsClosed` |
| `RechargesAreFinal` | `RechargeIsFinal`: a recharge that is PAID stays so (not a property of the run) |

The argument. `CreditedOnce` is inductive because the status, the balance and the log
move in one transaction. `PaidHasMoney` needs to know that a call under way was caused by
the right sum or is on trust (`CallInv`), which in turn needs that a paid trade is never
closed and that its amount is settled when it is paid.
`AckedIsSettled` needs that nothing returns to PENDING, that a bill of another amount is
acknowledged only as refused, and that a trade, hence a notification, exists only for a
bill that was created (`LinkInv`).
`SweptIsSettled` relates what a run of the recovery task saw when it made its list to what
its calls have done since: `SweepInv` says that a bill that was paid then and is still
PENDING is on the list or in the call the run has under way. `ExpiredIsClosed` is the same
for the list of trades to close (`CloseInv`). Both hold only while the lists are
complete, and the code takes 20 and 50 bills at most; `RecoveryFits` and `ExpiryFits` say
that what is to be listed fits into the batch, in every state. That is a real condition (above: of more than 50
orders overdue at once the rest is never closed), and the run meets it by its bounds. Assumed are only the
disjointness of orders and recharges and the types of the limits.

## 5. TokenRefund and PaidJob

### What is modelled

A record of `token_refund_logs` from the application to its end. `PaidJob` is the
promise: the life cycle of one record, in which a job is offered for a fee, RUNNING,
INTERRUPTED, FAILED or DONE. `TokenRefund` is the code that keeps it.

| code | model |
|---|---|
| `status`, `payStatus` | `status`, `payStatus`; a deleted row is `"GONE"` |
| `cursorTokenEnc` | `token`: absent, readable, or not decryptable with the present key |
| `updatedAt` older than 20 minutes | `l \in stale`; every update takes the row out (`Update`) |
| the account at Cursor | `member`: paid, in the team, leaving it, free; external |
| `applyByToken` | `ApplyByToken`; the remote check and the insert are one step, as nobody sees the row in between |
| `markFeePaid` | `FeeRead`, `FeeClaim`, `FeeTokenLost` |
| `executeTokenRefund` with `refundOne` | a task: `CheckAccount`, `AcceptInvite`, `RemoveMember`, `VerifyFree`, `RecordResult`; `RecordFails`, `Fallback`, `FallbackFails` for the catch clause |
| `recoverStaleTokenRefunds` | `ListStale`, `TakeOver` per row |
| `recheckTokenRefund` | `AdminRead`, `RecheckAsk`, `RecheckWrite` |
| `retryTokenRefund`, `removeTokenRefund` | `AdminRead`, then `RetryWrite` or `RemoveWrite` |
| restart | `Crash` (any set of tasks and requests, for one of several instances), `KeyChanges` |

A request to Cursor that fails may or may not have had its effect: `AcceptInvite` and
`RemoveMember` allow both. A task holds its decrypted token, so it goes on when the row
loses it. `freed` and `overrun` are history variables: the rows whose account was free at
some time since they exist, and the rows that became stale while a task worked on them.

A task's requests have a timeout of 30 s each; with 24 looks at the membership, 5 s
apart, it ends after at most about 18 minutes, two before its lease does. So a lease
is outlived only by a process that was suspended; that is the fault `"slow"`.

### Run

`token_refund` (pass, `FairSpec`): one record, one account, two calls, two tasks, two
instances with the recovery, two admins, one fault of any kind.

- `SingleExecution`: no two tasks on one record, unless it is in `overrun`.
- `DoneWasFree`: DONE was preceded by a free account.
- `TokenKept`: the token exists exactly while a retry may need it.
- `FeeBeforeWork`: whoever works, or may retry, does so for a fee that arrived.
- `ImplementsPaidJob`: the refinement. `Phase` maps PROCESSING to RUNNING or, when no
  task is there any more, INTERRUPTED; the other statuses are themselves.
- `ProcessingEnds`: a record does not stay PROCESSING, unless admins ask for ever.

Bounds: one record suffices, since no action relates two rows except through the
account they may share and `RecoverBatch`, and the theorems below cover any number of
rows. Two of each process give every pairwise race: two notifications, two instances
taking over, two retries, a retry and a removal. `MaxFaults` is 1; a second fault would
add a second crash, which the recovery treats like the first. Fairness: what was started
goes on (`Fee`, `TaskStep`), time passes for a row nobody works on (`GoesStale`), and
cron goes on (`Recovery`). The excuse for admins in `ProcessingEnds` is needed: every
recheck updates the row and so renews the lease of a task that is dead. No deadlock is
checked, since a record that is done, and an account that does not change, is the end.

Behaviour of the code that the model shows and no property forbids:

- `removeTokenRefund` deletes by id after a check. A retry in between makes the record
  PROCESSING, and its task's result goes nowhere. `PaidJob` therefore allows RUNNING to
  become GONE.
- Two records of one account can both be paid. The second task finds the account free,
  or sends a second invitation while the first task still verifies.
- A lost notification of the fee is not recovered by a task as those of orders and
  recharges are; the browser's return or an admin's query has to bring it.
- A task whose invitation was accepted and whose removal failed ends FAILED with the
  account in the team; a retry goes through the whole chain again.

### Proofs (`TokenRefundProofs`)

For every set of records, accounts, tasks, calls, instances and admins, and any number of
faults:

| theorem | states |
|---|---|
| `TypeCorrect` | `[]TypeOK` |
| `TasksExclude` | `[]SingleExecution` |
| `SuccessIsVerified` | `[]DoneWasFree` |
| `TokensAreKept` | `[]TokenKept` |
| `WorkIsPaid` | `[]FeeBeforeWork` |
| `SuccessIsFinal` | `DoneIsFinal`: DONE is not overwritten by a later failure or retry (not a property of the run) |
| `Implementation` | `ImplementsPaidJob` |

The argument. A task can be started in three places, each by whoever wins a
conditional update: `FeeClaim` on NEED_PAY, `RetryWrite` on FAILED, `TakeOver` on a stale
PROCESSING row. So exclusion needs that no task works on a record in one of these
three conditions (`WorkInv`): a record with a task is past NEED_PAY, and unless its lease
was outlived it is neither FAILED nor stale. That is not inductive without the tokens: a
row is set FAILED by `FeeTokenLost` and by `TakeOver` because its token is not readable,
and it must follow that no task works on it; hence `WorkInv` says that a task's row never
has an unreadable token, and `ReadInv` that what a call or a request read about the token
stays true until it writes. `FreeInv` carries the observation of a free account from where
it is made to where DONE is written. The refinement uses the same invariant; its lemmas
say what can move the phases: nothing, one record (`OneRecordMoves`), or the end of some
tasks (`TasksStop`). Assumed are only the types of the constants.

## 6. Wallet, VipPricing and Ledger

### What is modelled

The balance, the points and the tier of users, with the orders that move them. `Ledger`
is the promise for an account with a log: never negative, moved only together with the
log, one account at a time, at most one entry for a reference. `VipPricing` holds the
pure part of `vip.service.ts`: the tier of a total, the discount of a user for a product,
the amount to pay. Amounts are in cents and rates in units of 0.0001. The code multiplies doubles and
rounds to cents; a double differs from the exact product far below a unit of the model, so
the error shows only where the exact product lies on the edge of a rounding: there
`round2(2.01 * 0.5)` is 1.00 and not 1.01. The constant `FallsShort` is the set of pairs of amount and
rate whose product falls short of the exact one, and `Product` takes the difference into
account, in prices (`ApplyDiscount`) and in rewards (`RewardForAmount`). A product that
exceeds the exact one changes no result, since an exact tie is rounded upwards anyway.

| code | model |
|---|---|
| `users.balance`, `users.points` | `balance`, `points` |
| `balance_logs`, `point_logs` | their sum per user (`balanceLogged`, `pointsLogged`) and the rows' unique keys (`balanceLog`, `pointLog`) |
| `users.totalRecharged`, `vipTier`, `inviteRewardedAt` | `totalRecharged`, `vipTier`, `rewarded` |
| `orders.status`, `payAmount`, `pointsUsed` | the same |
| `create` | `Create`: price, check, row; the two payments follow in the same request (`paying`) |
| `payWithBalance`, `payWithPoints`, `deductForOrder` | `PayRead`, then `PayWithBalance` or `PayWithPoints` (conditional decrement, log, PAID), or `PayFails`; `DeliverPaid` |
| `markPaidAndDeliver` | `Redeliver` or `DeliverPaid` with `StartDelivery` (the lock: `Lock`), `SettleRead`, `SettleCommit`, `DeliveryFails`: only what touches points |
| `settleDeliveredLocalOrder`, `awardOnce` | `EarnsReward`, `EarnsInvite`, `Earns` (what is added), `NewRows` (what is logged) |
| `adminRefund`, `adminCancel`, `adminMarkPaid`, `markPaidOnly` | `AdminRead`, then `AdminRefund`, `AdminCancel` or `AdminConfirm`, or `AdminFails` |
| `adminManualDeliver` | `ManualDeliver`; the cards it asks for may be missing in any status |
| points `adminAdjust` | `AdjustPointsRead`, `AdjustPointsWrite` |
| `adjustBalance`, `accrueRechargeAndUpgrade`, `manualSet` | `AdjustBalance` with `Accrue`, `ManualSet` |
| `closeExpired` | `CloseExpired`, one row |

`Deliveries` are the runs of `markPaidAndDeliver` that can be under way together. The
lock lasts 30 seconds, is skipped when Redis fails, and is deleted by whoever ends, so a
second delivery of one order may start beside the first: `unlocked` records the order. A
recharge that is credited (PaymentWindow) adds to the balance, the log and the total as
`AdjustBalance` with a positive amount does. The tables of tiers and discounts, the
personal discounts and who invited whom are constants.

`lowered`, `confirmed`, `raced`, `unlocked` and `cause` are history variables: users whose
tier an admin set, orders confirmed or delivered without a payment from the wallet, users
whose points moved between an admin's check and increment, orders of which two deliveries
were under way at once, and orders whose status was overwritten in a state the writer does
not expect.

### Runs

- `wallet_all` (pass): a buyer whom another user invited, one order paid from the balance
  and one with points, two deliveries, two requests of the back office.
  - `BalanceIsLedger`: the refinement.
  - `RefundNeedsDebit`: what is given back was taken, or the order was confirmed or
    delivered by hand.
  - `DebitIsHonoured`: an order the wallet paid for is PAID, DELIVERED or REFUNDED.
  - `PointsAreLogged`: points never fall behind their log, and exceed it only for an
    order that has its row already and was overwritten or delivered twice at once.
  - `InviteRewardedOnce`: two first orders, one reward.
  - `TierIsEarned`: the tier is at least the one the total earns. A user who never
    recharged is exempt, because a threshold may be 0 and is only looked at on a recharge.
  - `FairPrice`: half the price at least, to the half cent, and the price at most. The
    instance has a tier discount below the floor, a product discount above 1, and the
    price 2.01 with `FallsShort`, which costs 1.00 at the floor.
- `wallet_points` (violation of `PointsHappenOnce`): two refunds of one order paid with
  points. `awardOnce` increments first, the insert fails on the unique key, the error is
  swallowed and the increment is committed.

Bounds: `MaxAdjusts` (2) bounds the adjustments, manual deliveries, lost locks and tiers
set by hand: the buyer needs one adjustment to have anything, the second is the intervention that
races. Two orders of one user are what concurrent debits and the invitation need; two
requests of the back office are what two refunds need, two deliveries what an overlap
needs; both are symmetric. The prices are 2.01 and 2.00: one whole number of yuan and one
that is not. `CHECK_DEADLOCK FALSE`: all orders
settled is an end. There is no fairness and no liveness here: that a paid order is
delivered is OrderDelivery's `PaidIsDelivered`.

Behaviour of the code that the model shows and no property forbids:

- A refund looks at `payMethod` and `pointsUsed`, not at the debit. An order of a wallet
  method that an admin confirmed, or delivered by hand while nobody had paid, is refunded
  to a wallet it never took anything from (`confirmed` in `RefundNeedsDebit`).
- `adminManualDeliver` turns a REFUNDED order into a DELIVERED one, and it can be refunded
  again: of the balance nothing comes back twice, of the points it does.
- An admin's cancellation that read PENDING overwrites PAID: the money is taken and the
  order is CANCELLED (`cause` in `DebitIsHonoured`).
- Two deliveries of one order whose lock was lost both add the reward, of which one row is
  written (`unlocked` in `PointsAreLogged`).
- At the floor of 0.5 an order may cost half a cent less than half its price, when the
  product of the doubles falls short (`round2`).
- A deduction of points by an admin is checked against points that may be spent before
  it is applied; the result can be negative (`raced` in `PointsNotNegative`).
- Rewards are not taken back by a refund, as a comment in `adminRefund` says.

### Proofs (`WalletProofs`)

For all sets of users, orders and requests, all prices, rates, amounts, thresholds and
discounts:

| theorem | states |
|---|---|
| `TypeCorrect` | `[]TypeOK` |
| `NeverOverdrawn` | no balance is negative |
| `LedgerImplemented` | `BalanceIsLedger` |
| `TierEarned` | `[]TierIsEarned` |
| `OrdersAreConsistent` | the invariant about orders, below |
| `RefundsHaveDebits` | `[]RefundNeedsDebit` |
| `DebitsAreHonoured` | `[]DebitIsHonoured` |
| `InvitesRewardedOnce` | `[]InviteRewardedOnce` |
| `PointsLogged` | `[]PointsAreLogged` |
| `PointsStayPositive` | `[]PointsNotNegative`: points are not negative, unless in `raced` (not a property of the run) |
| `PricesAreFair` | `[]FairPrice` |

The argument. Three lemmas say which actions write the balances, the points and the tiers;
what concerns one of them alone follows from those few actions. `LedgerImplemented` needs
`NeverOverdrawn`, since a payment is a move of the ledger only because the conditional
decrement leaves the balance non-negative. Orders need an induction of their own:
`CreatedInv` (whoever acts on an order acts on one that exists), `PaidInv` (whoever
delivers or refunds one knows of a payment: a debit or a confirmation) and `RowsInv` (what
a log row tells of the status: a reward means DELIVERED or REFUNDED and no delivery under
way, a refund of points means REFUNDED, unless the status was overwritten or the lock was
lost). `PointsLogged` follows, because an increment without a row needs a row that is there
already, and by `RowsInv` only an order with one of these causes has one when it is
delivered or refunded.
`InvitesRewardedOnce` needs that an INVITE_REWARD row implies that the buyer is marked, so
the conditional update cannot win a second time. `PointsStayPositive` needs that an adjustment
under way read a number it does not make negative. `PricesAreFair` rests on the bounds of
the discount and of rounding, proved for every number and for every set `FallsShort`. Assumed are the types of the
constants and that nobody invited himself.

## 7. The stock: Redeem, Warehouse, Recycle, CursorSub, PoolGrants, Stock

### What is modelled

What fills and empties the stock that orders deliver from. `Common` declares what the
modules share: orders, requests of the back office, faults. `Recycle` and `CursorSub`
extend `Warehouse`, whose rows they write; `Redeem` and `PoolGrants` stand alone and have
a specification of their own, which the proofs use. `Stock` composes them: a redemption
ends in a delivery, which sells cards of the warehouse or creates a grant of the pool.

`Redeem` (`redeem/redeem.service.ts`):

| code | model |
|---|---|
| `redeem_codes.status`, `usedCount`, `expireAt` | `status`, `used`, `expired` |
| the order of a redemption; its `redeem_records` row | `made`; `recorded` |
| the transaction of `redeem` | `ReserveRead`, `ReserveWrite` (updateMany where `usedCount` is the one read), `ReserveBusy` |
| the rest of `redeem` | `Load`, `LoadFindsNothing`, `MakeOrder`, `MakeRecord`, `Deliver`; `Dies` between any two |
| `rollbackUsage` | `Rollback`, `RollbackFails` |
| `generate`, `toggleStatus`, `remove`, `batchRemove` | `Generate`, `ToggleStatus`, `RemoveRead` and `RemoveWrite`, `BatchRemove` |

`Warehouse` (`warehouse/warehouse.service.ts`, `warehouse.cron.ts`, the sold hook of `orders/`):

| code | model |
|---|---|
| `warehouse_accounts.status`, `content`, `sourceRef`, `cardKeyId`, `orderNo` | `wstatus`, `account`, `refs`, `card`, `worder` |
| `refundStatus`, `refundAttempts` | `refund`, `attempts` |
| `card_keys.status`, `content`, `orderNo` | `kstatus`, `kaccount`, `korder` |
| `bulkImport` of one item, with and without `sourceRef`; `manualAdd` | `Push`, `Import`; `AddRead`, `AddWrite` |
| `assign`, `unassign`, `remove`, `unlistByRef`, `relistByRef`, `deleteByRef` | `ReadRow`, `CheckCard` or `RefuseCard`, then `Assign`, `Unassign`, `RemoveCard` and `DropRow`, `Unlist`, `Relist`; `RequestFails` when the row is gone |
| the pick transaction of a delivery and its hook | `Sell`, `Purchase` |
| the refund of an order | `ReturnCards`: the cards go back on sale, the rows stay SOLD |
| `runAutoRefunds` | `ListDue`, `RefundRow`, `CronDies` per run; runs may overlap |
| `refundNow`, `resetRefund` | `RefundNow`, `ResetRefund` |

`Recycle` (`recycle/recycle.service.ts`): `Submit`, `Refresh` (the row is looked up),
`Answer` (Cursor is asked and the record written; `AnswerUnrecorded` when writing it fails,
which is swallowed), `ListRecycled`, `DeleteRecycled`
(`autoDeleteWarehouseForRecycled`), `RemoveRequest`. Cursor's support, which grants what
was asked for by mail, is `SupportRefunds`.

`CursorSub` (`cursor-sub/cursor-sub.service.ts`): `Enter` (create and imports), `StartPush`,
`PushRow` (also when the import of the row fails, which is swallowed: `ImportFails`),
`LinkRow` (`pushToWarehouse`), `StartRemoval`, `Unpush` or `UnpushFails` (a
failure to delete the row is swallowed), `DropAccount` (`remove`), `StartSync`, `WriteSync` (`syncSubscription`), `MarkPaid`, `SubExpires`.

`PoolGrants` (`pool/pool.service.ts`):

| code | model |
|---|---|
| `pool_grants.active`, `accountId`, `quotaUsed`, `startAt`, `endAt` | `active`, `gacct`, `gused`, `base`, `ended`; `born` orders the ids |
| `pool_accounts.status` | `pstat` |
| what Cursor charged on an account | `spent`, external; `Window` is what was charged since `startAt` |
| `createGrantForOrder`, `bindUserToken` | `CreateGrant`, `BindUserToken` |
| `claimAccount` | `ClaimAccount`, per candidate `TryCandidate`, `CheckCandidate`, `AssignCandidate` or `AssignFails` |
| `syncAccountUsage` | `SyncRead`, `SyncWrite`, `SyncFails` |
| `queryQuota`, `releaseAccount`, `swapAccount` | `Visit`, the look at the account, then `QueryQuota`, `ReleaseAccount`, `SwapReleases` and `SwapClaims` |
| `refreshAllAccounts` | `RefreshAll`, `RefreshNext` |
| back office on accounts | `CreateAccount`, `UpdateAccount`, `RemoveAccount` |

History variables, which no guard reads: `lost` (uses reserved for which no order was
made), `cause` (what happened to an account of the warehouse: `"overlap"`, a request wrote
over a change it had not seen; `"relist"`, a row that was sold or has a card went back on
sale; `"again"`, the account came in twice), `tangled` (an account whose push died half way
or ran beside its removal, or whose row could not be deleted), `shared` (accounts of the pool that two overlapping requests
may give to two grants).

Simplifications. A redemption takes one card; all cards are of one SKU; what a
redemption's delivery does beside selling is OrderDelivery's matter. A row to refund may
become due at any time (`refundAt` and the three minutes after a failure are a choice of
`ListDue`), and `setRefundTime`, the mode of notification and the messages are left out. A
refunded account is not subscribed again. In the pool, the update of a token and the prices
of events are left out, `queryQuota`'s second read and its deactivation are one step, and
so are the answer and the write for a candidate. A use that a buyer of a swapped account
goes on making is possible (`Spend` needs no grant). `SyncRead` takes the grant and Cursor's answer
about its window at once. In the code the window ends when the request began, shortly before
the grant is read: what is spent in between, or while the answer is on its way, is in the
next window either way. It sees all of the window; the code reads at most 10 pages of 500
events.

### Runs

`Stock` has a variable `load`, chosen at the start and never changed: the activities,
accounts and callers a behaviour has. `MCStock` lists twenty such workloads, each of
activities that share state: every operation of the warehouse beside sales, the crons
beside deletions, recycling beside sales, pushes beside removals, redemptions beside the
back office, and for the pool claims beside claims, and one caller beside the task, the
back office, faults or the clock. All of them in one product would be far beyond TLC, and
activities that share no state would only multiply.

- `stock_all` (pass, `FairSpec`):
  - `SoldOnce`: an account is sold to one order only, outside of the causes.
  - `SaleIsRecorded`: the row of a sold account names its order; refund cron, status query and
    recycling go by it.
  - `AttemptsBounded`: refunds of a row stay within `REFUND_MAX_ATTEMPTS`, one more for each
    overlapping run.
  - `RowHasAccount`: an account that left the pool of subscriptions is not in the
    warehouse, unless tangled.
  - `NeverOverused`, `UsesAddUp`: no code serves more orders than it may, and its counter
    counts what it means to count.
  - `AccountExclusive`: one active grant per account, unless shared.
  - `UsedIsReal`: a grant is charged only what was used since it started.
  - `RecycleSparesStock`: recycling deletes no row that is still on the shelf, outside of
    the causes.
  - `RefundEnds`: a sold account is refunded, or tried as often as is tried.
  - `UsedUpIsNoticed`: a used-up grant does not stay active on its account for ever.
- `recycle_order` (violation of `RecycledRowsOnly`): an order of two accounts, one of them
  recycled; both rows are deleted.
- `pool_swap` (violation of `UseNeverDrops`): a swap to another account sets `quotaUsed` to
  what was used there.

Bounds: two accounts, rows, cards, orders and requests give every pairwise race and an
order of two cards; two runs of the refund cron are one overlap; `MaxAttempts` is 2 (5 in
production), so that a first and a last attempt differ; `MaxManual`, `MaxSpent` and every `Quota`
are 1 (`Quota` is 2 in `pool_swap`, where a part of it has to be used); the code has one
use, so two redemptions fight for the last one. `MaxFaults` is 1. The theorems are without
bounds. `CHECK_DEADLOCK FALSE`: with all stock sold and no request open the system rests.

Fairness: the refund task is started every minute and the refresh of the pool every ten,
a request to Cursor is answered or times out, and a row that stays due gets into a list.
Faults are finitely many. Nothing is assumed of buyers, admins or redemptions.

Behaviour of the code that the model shows and no property forbids:

- `unassign`, `unlistByRef` and `remove` delete the card they looked at earlier, sold or
  not (`"overlap"`): the buyer's card is deleted, and after `unassign` the account is on sale again.
- `relistByRef` puts an UNLISTED row on sale, also one that was sold (`"relist"`).
- `deleteByRef` and recycling delete the row and keep an AVAILABLE card; the account can be
  pushed again and is sold twice. `manualAdd` beside a push makes two rows of one account
  (`"again"`).
- The refund of an order leaves its rows SOLD, so the cron refunds, at Cursor, accounts
  whose cards are on sale again.
- `refundNow` works on any status; an overlapping run's FAILED overwrites DONE.
- A code is never stored EXPIRED: the transaction that writes it throws. A rollback makes a
  DISABLED code ACTIVE. `remove` deletes a code that was used meanwhile, and its records.
- A stale answer of Cursor overwrites `markPaid`.
- A quota package redeemed by nobody who is logged in makes a PAID order that is never
  delivered; `bulkImport` without a reference looks nothing up, so a repeated one brings
  the accounts in again (`"again"`).
- Swapping usually brings the same account back, since it is the first candidate.
- `bindUserToken`, and an answer older than a deactivation, make a grant active again; its
  account may be another grant's by then (`shared`). Only the oldest active grant of an
  account is metered.
- `totalQuota` of an account is never set, so its status is HEALTHY after every look (the
  model's OK); and a look reads at most 10 pages of 500 events.

### Proofs

Of the components' own specifications, `RedeemSpec`, `WarehouseSpec` and `PoolSpec`, in
which every operation is always possible; for all codes and limits, rows, cards, orders,
requests, overlapping runs, accounts, callers and quotas:

| module, theorem | states |
|---|---|
| `RedeemProofs`: `RedeemTypeCorrect` | `[]RedeemTypeOK` |
| `UsesAlwaysAddUp` | `[]UsesAddUp` |
| `CodesAreNeverOverused` | `[]NeverOverused` |
| `PoolProofs`: `PoolTypeCorrect` | `[]PoolTypeOK` |
| `UseIsAlwaysReal` | `[]UsedIsReal` |
| `AccountsAreExclusive` | `[]AccountExclusive` |
| `StockProofs`: `WarehouseTypeCorrect` | `[]WarehouseTypeOK` |
| `AttemptsAreBounded` | `[]AttemptsBounded` |

And of `Stock!Spec`, the specification `stock_all` checks, for every set of workloads:

| theorem of `StockProofs` | states |
|---|---|
| `StockTypeCorrect` | `[]TypeOK` |
| `AccountsAreSoldOnce` | `[]SoldOnce` |
| `SalesAreRecorded` | `[]SaleIsRecorded` |
| `RecyclingSparesTheStock` | `RecycleSparesStock` |
| `RemovedAccountsHaveNoRow` | `OneSource /\ Spec => []RowHasAccount` |
| `StockAttemptsAreBounded` | `[]AttemptsBounded` |
| `StockCodesAreNeverOverused`, `StockUsesAddUp` | `[]NeverOverused`, `[]UsesAddUp` |
| `StockAccountsAreExclusive`, `StockUseIsReal` | `[]AccountExclusive`, `[]UsedIsReal` |

`Redeem`: `NeverOverused` follows from the counter's sum and its bound, `used[c] <= MaxUses[c]`.
The bound is not inductive alone: a reservation writes what it read plus one, so the
read must have seen a use left (`Reserved`). The sum counts orders, holds and losses, and is
shown by cardinalities of sets that gain or lose one element; the optimistic lock is what
makes the value written the present one plus one.

`Warehouse`: a run that has listed a row will count an attempt later, whatever happened
meanwhile. `AttemptsInSight` therefore bounds the attempts made together with the runs that
have the row on their list; a listing adds one run to a row that has fewer than the
maximum, an attempt moves one from the list to the counter. It also needs that lists hold
rows that exist or existed, since those have an account to refund.

`Stock`: its parts share variables, so that an invariant of one part must survive the steps of the
others. Three lemmas say what a step of `Stock` is to a part. `StockRedeems` and `StockPools`: a
step of `Redeem` or of `PoolGrants`, or it leaves their variables alone. `StockStep`: to the
warehouse it is a `ShopStep`, that is a step of the warehouse, the deletion of rows with what they
knew of their card (`RowsGo`: recycling and the removal from the pool of subscriptions), or a step
that leaves rows and cards alone. The invariant of the warehouse is proved of
`ShopStep` once and so holds of `WarehouseSpec` and of `Stock`.

`SoldOnce` and `SaleIsRecorded` are not inductive: they say nothing of cards on sale. `CleanInv` says,
of an account nothing is blamed for: it has one row; at most one card of it is on sale or sold
(`OnSale`); only a sold card names an order; and a row that is there knows that card, and
the order if it is sold, is without a card when PENDING, and without an order when PENDING or ASSIGNED
(`RowKnows`). Under it lies `Fit`, which holds of all accounts: rows, cards and requests refer to
things that exist, and a row and its card are of one account. The causes are what would break it, and
each is blamed in the step that does: a write over a change the request had not seen, a row with a
card or an order put on sale again, a second row.

`RecycleSparesStock`: the rows recycling is about to delete have an order number
(`RecycledSold`), however long ago they were chosen, since no step takes an order number away
(`WorderStays`); a clean row on the shelf has none.

`RowHasAccount` needs an invariant of the requests of the pool of subscriptions (`SubInv`): of an
account that is not tangled, pushes and removals exclude each other; a row with its
reference is noted on the account or a push is about to note it; a removal that skips the row, or is
past it, finds none; and a push that read a reference finds it noted. No other step adds a row with
a reference (`RefRowsShrink`), provided that no other system pushes any: `OneSource`. The
runs meet it, as their workloads with the pool of subscriptions have no imports. The code does not
enforce it: a row that cursor-jb pushes after the removal has no account either.

`PoolGrants`: an account that is not `shared` has one active grant (`OneTaker`): while a claim is
about to assign the account nobody holds it, and no other claim is about to. Two claims that are,
or a grant that comes back to life on an account that is held, put the account into `shared` in
that very step. It needs that only grants that were created hold an account or are asked for
(`GrantsExist`).

What a request writes as the use of a grant was read before, perhaps long
ago. The invariant says that it is real when it is read (`CallsAreReal`) and stays so,
since what is spent only grows and a window is never moved (`WindowsAreReal`). That the
oldest grant and the smallest candidate exist rests on the well-foundedness of the naturals.

## 8. Desktop

### What is modelled

The desktop client (`src/apps/desktop/src-tauri/src`): the refresh task, the commands that
write accounts and settings, the table of accounts and Cursor's two files. The server's
answers are any it may give.

| code | model |
|---|---|
| `RefreshController.interval_secs`; the settings row | `interval`; `stored` |
| `save_settings`, `update_interval` | `SaveSettings`: `notify_waiters` wakes the task only if it waits; `SaveSettingsFails`: the settings are written row by row, a later one fails and the task is not told |
| `shop_login` | `LoginRead`, `LoginFail`, `LoginWrite`: all settings are loaded before the request and saved after it |
| `spawn`, `refresh_once` | `ReadInterval`, `Register`, `Timer`, `List`, `RoundEnds` |
| `handle_pool_account` | `Skip`, `Finish`, `Swap` |
| `apply_new_grant_to_cursor` | `WriteDb`, `WriteJson`, `ReadIds`, `WriteIds`, `ClearOldRow`, `Upsert` |
| `grant_finish` | `ReleaseRow`, then the logout |
| `accounts.pool_grant_order_no` | `bound`; `accounts::upsert` is `Bind` |
| `cursorAuth.accessToken`, `cursor.accessToken` in `state.vscdb` and `storage.json` | `vscdb`, `storage`; `Current` is the first that is not empty |
| `import_account`, `switch_to_account`, `pool_claim`, `pool_swap` | `Start` with what they write |
| `cursor_logout`, `machine_id::apply` | `ReadLogin`, `ClearJson`, `ClearDb`; `ReadIds`, `WriteIds` |
| `storage_json::read_or_empty` | `ReadFile`: the file, or an empty one when it cannot be read or is not JSON |
| `storage_json::write_atomic` | `RemoveFirst` on Windows, then `Replace` within the step that writes |
| `pool_release`, `save_account_from_raw`, `delete_account` | one action each, under the table's mutex |
| an error of a write; the client is stopped | `WriteFails`, `UnbindFails`; `Restart` |

History variables: `missed` (the interval was raised between the task's reading 0 and its
waiting), `reverted` (an interval was stored and the task not told: a login wrote back an
older one, or a save failed halfway), `mixed` and `torn` (writers of the files overlapped;
one stopped between the two files or while `storage.json` was removed, or `storage.json`
was read as empty), `doubled` (orders that a command
bound to a second row).

Cursor is installed, and nobody logs in inside Cursor itself. Usage numbers, labels,
alerts, deep links, backups and `shop_logout` are left out; machine ids are a read and a write of `storage.json`, since
that is where they meet the login.

### Run

`desktop` (pass, `MixSpec`): as in `window_all`, a behaviour has the commands, tasks and
faults of one of six mixes: two writers on Windows with a fault; the pool and table commands beside
the task; the same with a fault; pool and file commands; settings with a restart;
settings beside a round.

- `OneBinding`: a grant is bound to one row of the table, unless doubled.
- `StoresAgree`: when nobody writes, both files name the same login, unless torn.
- `IntervalIsNoticed`: an interval that was saved is followed by a round, unless missed or
  reverted.

Bounds: two accounts and one order, since rows of different orders do not meet; two tasks
beside the refresh task; `MaxSaves` 2: off and on again. Fairness: the task is
scheduled, its timer fires, its requests end within 20 s. Nothing is assumed of the user.
`CHECK_DEADLOCK FALSE`: with the interval 0 and no more settings saved, the task waits for ever.

Behaviour of the code that the model shows and no property forbids:

- `pool_claim` and `pool_swap` by hand clear no old row, so one grant is bound to two (`doubled`).
- The task acts on a list: it may unbind a row that a command bound again since, and it
  ignores errors of the clearing (`refresh.rs:376`).
- A logout empties `cursorAuth.*` and leaves `cursor.accessToken`, so `Current` still finds a
  login in both files.
- With the interval at 0 a wake-up can be lost: `notify_waiters` keeps no permit (`missed`).
- `shop_login` writes back the settings it read before its request, and a save that fails
  halfway leaves the interval stored and the task at the old one (`reverted`).
- A `storage.json` that cannot be read becomes an empty one: `machine_id::apply` and
  `cursor_logout` write it back with their own keys, and the login is lost in that file only
  (`torn`).
- On Windows the file is removed before the new one is renamed, so a stop in between leaves
  none; the comment of `write_atomic` ("原子写", `storage_json.rs:16`) holds elsewhere only.

### Proofs (`DesktopProofs`)

For all tokens, orders, tasks, intervals and any number of faults:

| theorem | states |
|---|---|
| `DesktopTypeCorrect` | `[]DesktopTypeOK` |
| `GrantsHaveOneRow` | `[]OneBinding` |
| `FilesAgree` | `[]StoresAgree` |

The argument. `OneBinding` must survive the task's `Upsert`, which binds a new row. So
`BindingInv` says, of an order that is not doubled: its only row is the one on the task's
list or the one it replaces, the order is on the list once, and after `ClearOldRow` it has
no row at all. It rests on `LoopInv`: which step has which variables, and that deleted rows
of the list are noted, so that a row with a token of old is not taken for the one listed.
`FilesAgree` needs to know what a writer has done and not yet done: `WriteInv` says that a job
nobody overlapped is alone, that its copy is what the file holds, that a file is gone only
between a job's removal and its rename (`removed`), and that the files agree unless a job is
half done (`HalfDone`) or one stopped half way (`torn`).

## 9. What stays with TLC

Liveness under fairness is out of the prover's reach: `PaidIsDelivered`, `PaidIsRecorded`,
`ProcessingEnds`, `RefundEnds`, `UsedUpIsNoticed`, `IntervalIsNoticed`. So is what the violation
runs show: a counterexample is found, not proved. Two theorems about the batches of the payment
tasks and one about the pool of subscriptions have a hypothesis (`RecoveryFits`, `ExpiryFits`,
`OneSource`), explained where they are listed; all others hold under the named assumptions on the
constants alone.

## 10. Not modelled

- Pure I/O and CRUD: catalogue, site settings, announcements, feedback, text documents,
  desktop files, authentication, audit, dashboard, mail and wecom, card key import,
  deployment scripts.
- The whitelist of refunds by e-mail (`apply`, `refundNow`, `resetRefund`, `doRefund` of
  `customer-refund.service.ts`): its updates have no conditions and it has no recovery, so
  a restart leaves a row PROCESSING until an admin resets it, and a failure may overwrite
  DONE. It makes no promise across steps that a property could state.
- The account vault: nearly every operation is one update of one row, and a check writes
  result fields that no edit writes.
- Quota reports: sums over what Cursor returns, without a state of their own.
- Captcha and abuse guard: counters and one-shot codes that nothing else reads; the guard
  gives way when Redis fails, by intent.
- The front ends, most of the repository's lines: they hold no state the API relies on.
  That is why the models' share of all lines is small: the components named
  above are most of the code.

Known and without a property: the sales counter of an order that was never delivered
(`orders.service.ts:621`), the limit of pending recharges counted before the insert
(`recharge.service.ts:55`), and a record removed after a retry (`customer-refund.service.ts:636`).
They are described in sections 3 to 5; each is a plain consequence of two statements, and the
models contain them.
