# Specifications of the CRM

TLA+ models of the money paths, the registrations and the sessions of this repository
(`src/temp-source`): a customer relationship system of a foreign-exchange broker,
written with Spring MVC, MyBatis on MySQL, Shiro and Quartz, in front of an MT4/MT5
trading server. Nothing in the repository tests these paths. What is hard about them is
what a unit test would not reach: two stores, the database and the trading server, that
are never changed together; requests and a scheduled job that run beside each other and
read before they write; objects in a cache that requests share without a lock; gateways
that repeat their calls; answers that get lost.

Paths below are relative to `src/temp-source/src/com/crm`, mappers to
`src/temp-source/config/mapper`.

## The system

| Component | State it keeps | Operations | Modelled in |
|---|---|---|---|
| Deposits | `t_sys_in_gold`: state, dollars, order number | `InGoldServiceImpl.save`, `saveReview`, `checkResultDinpay`, `payNotify`, `updateInGoldByResult` | `InGold` |
| Withdrawals | `t_sys_out_gold` | `OutGoldServiceImpl.save`, `saveReview` | `OutGold` |
| Rebate job and payouts | `t_temp_time` (the watermark), `t_sys_manager_rebate` (rows with a flag `over`) | `TradesServiceImpl.refreshTradesToRebate`, `RebateServiceImpl.saveRebateIn`, `rebateSumToMT4` | `Rebates` |
| Division of a deal | none beyond a firing | the loop of `refreshTradesToRebate`, `RebateUtil`, `CurrencyPointUtil`, `MathUtil` | `RebateChain` |
| MT4 connection | the accounts of the trading server | `SocketUtil.connectMt4` | its answers, in `InGold`, `OutGold`, `Rebates` and `Registration` |
| Scheduler | jobs and triggers of Quartz | `SchedulerFactory`, `QuartzJobFactory`, `...DisallowConcurrentExecution` | firings, in `Rebates` |
| System settings | `t_sys_setting` (`autoIn`), `t_sys_config` (`alogin`, `blogin`) | `SysSettingServiceImpl.saveSysSetting`, `SysSettingMapper.updateSysConfig` | `autoIn` in `InGold`, the counters in `Registration` |
| Group rebates | `t_group_rebate` | `GroupRebateServiceImpl.save` | its rows, in `RebateChain` |
| Registration and hierarchy | `t_sys_manager`: review state, login, level, type, belongid; counters `alogin`, `blogin` | `ManagerServiceImpl.save`, `updateManagerReview`, `settingBelong`, `updatePassword`, ...; `ProfileController` | `Registration` |
| Rebate settings and plans | `t_sys_rebate_setting`, plans | `RebateServiceImpl.saveFixed`, `savePoint`, `saveRebatePlan...` | not modelled |
| Sessions and login | ehcache: queues of sessions, counters of failed logins | `KickoutSessionControlFilter`, `RetryLimitHashedCredentialsMatcher`, `MyRealm` | `Sessions` |
| Roles, menus, operations; currencies, prices, groups, rates, mail templates | one table each | single-row writes | not modelled |
| Trades, reports, logs, caches, uploads, mail transport, generator, tags, views | none of interest | queries, input and output | not modelled |

How they interact:

- Every service method is one database transaction (`spring-application.xml`), MySQL at
  REPEATABLE READ. A plain `return`, also one that reports a failure, commits; a
  runtime exception rolls back.
- Deposits, withdrawals, the job and the payouts call `connectMt4` inside that
  transaction. What MT4 did is not undone by a rollback. `connectMt4` has no read
  timeout; an exception after the connection is there reads as `-100`, an end of the
  stream as `null`, both of which the callers take for a refusal; without a connection
  its `finally` throws.
- Deposits are created by customers, called back by about ten gateways (each has a
  handler of `InGoldController`) and reviewed by staff. `autoIn` can be switched while
  callbacks run.
- The trading server fills `mt5_deals` and `mt5_accounts` on its own. The job reads the
  first, `OutGoldServiceImpl.save` the second, whose balances move with deals, deposits
  and rebates as well as with withdrawals.
- The division of a deal reads `t_sys_manager` (who is above whom) and
  `t_group_rebate`; the payouts mark rows the job commits.
- The review of a registration takes the next number of a counter in `t_sys_config` and
  orders MT4 to open the account, inside its transaction as well. Many requests save a
  whole row of `t_sys_manager` to change one column of it.
- A log-in passes `RetryLimitHashedCredentialsMatcher`, a page request
  `KickoutSessionControlFilter`. Both keep their object in an ehcache that all requests
  share, outside any transaction.

Where it is hard, in short: a state that is read, acted upon outside the database and
written back without a condition (deposits, withdrawals); a second actor between a sum
and an update (payouts); firings that overlap or fail after they moved money (job); a
watermark with the resolution of a second (job); a hierarchy that nothing keeps free of
cycles (division of a deal); a counter read before it is locked, and rows written back
as they once were (registration); a queue and a counter made, looked at and changed in
steps of their own (sessions). `PROJECT.json` lists every such place with its line and
the properties that cover it.

What makes each component correct:

- deposits: a deposit that reads as credited was credited, for those dollars; a second
  credit and a refusal after a credit have a cause that can be named; a payment the
  gateway considers acknowledged is on record; every request is answered;
- withdrawals: an approved one was debited; a debit behind a refusal and an overdrawn
  account have a named cause;
- job: every closed deal is passed once and in the end; nobody earns a deal twice;
- payouts: a row that is marked was paid; a row that is paid twice has a named cause;
- division: one row per manager, the sum is the highest rebate, it ends;
- registration: levels fall along the hierarchy, no cycle; one account name per manager;
  one MT4 account per number and per manager; a request changes what it was asked to;
- rebate settings: nobody has more than the manager above;
- sessions: at most `maxSession` per account, at most five failed logins, and nobody is
  refused or logged out without that reason.

All but the rebate settings are modelled here. Several of them do not hold without the
words "have a named cause": the code has no lock or condition that would exclude the
cause. The properties then say exactly which sequences of steps can lead there and that
no other can, which is what someone who changes this code needs to know.

## The modules

### TransferLedger

The abstract specification of every money path. A request may move money once; it
records the movement only after MT4 confirmed it; it does nothing after it has answered.
It can end with money moved and nothing recorded, since the two stores are never
updated together. `InGold`, `OutGold`, the payouts of `Rebates` and the reviews of
`Registration` implement it, each
with `Ledger == INSTANCE TransferLedger WITH moved <- ..., booked <- ..., closed <- ...`
and `LedgerSpec == Ledger!Spec` as a property. What a review moves is an account that
MT4 has opened. The automatic credits of the job do not
implement it (one firing moves money for many rows and is rolled back as a whole);
`CreditedTwiceExplained` says what holds of them instead.

### InGold

`row` is `t_sys_in_gold`, `monitor` the lock behind `synchronized (this)` of
`InGoldController` (a singleton), `autoIn` the setting. A request has a program counter
`pc` and a context `ctx`: the order, the state it is going to write, the dollars and the
order number it carries. `applied` is the set of requests MT4 has executed. `log`, the
writers of every row in order, and `ctx[h].saw`, how much of the log its read saw, are
history: no guard reads them, the properties do.

| Action | Code |
|---|---|
| `Save` | `InGoldServiceImpl.save` (the rule of one dollar included) |
| `SaveSysSetting` | `SysSettingServiceImpl.saveSysSetting` |
| `Notified`, `ReviewPosted` | a call of a gateway; the form staff post |
| `BeginCallback` | the read of `checkResultDinpay` and `payNotify` up to MT4 or the write |
| `BeginGaozhi` | `updateInGoldByResult`, the only handler that ignores the state |
| `BeginReview` | the read of `saveReview` up to MT4, mail or the early return |
| `CreditConfirmed`, `CreditUnconfirmed`, `CreditRefused` | `connectMt4`: `"0"`; applied but lost; anything else |
| `MailSent`, `MailFailed` | the mail of a review, whose failure returns before the write |
| `Write` | `updReviewState` or `updReviewStateByResult`, and the commit |
| `Fail` | any exception, or the server going down |

Handlers fall into four classes by what they do around that: `Locked` (`resultAfsl`,
`resultYsb`: under the monitor), `Plain` (`resultDinpay`, `payResult`, `resultHxt`,
`resultShenfu`, `resultJuhe`: beside it), `Notify` (`payNotify`: by order number) and
`Gaozhi` (`result`). `Untold` are the plain ones whose gateway gets one answer whatever
became of the order: all but `resultJuhe`, which answers `success` only after
`checkResultDinpay` has returned, and lets an exception through. `AckedPaymentRecorded`
is about the callbacks that are not `Untold`.
The amounts the gateways send are compared by `updateInGoldByResult` alone; the
comparison is a choice, since the money of an order is not modelled besides its dollars.
Signatures are taken as verified: a call whose signature is wrong changes nothing.
The form of a review carries the login and the transaction type of the order's own
customer, as the page fills it in: `saveReview` decides by the posted type and credits
the posted login, and `BBook` is a constant of the order.

### OutGold

As `InGold`, with one kind of request. `saveReview` of a withdrawal reads the row for
its amount and never for its state. What an account holds is what it held at first and
the sum of its entries: the debits of withdrawals and whatever else moves it, deals with
a profit or a loss, deposits, rebates (`Moves`, which happen at any time by `Trade`,
external). `mirror` is `mt5_accounts`, copied from the trading server at any time
(`CopyAccount`, external), as the set of entries it shows; `row[o].seen` (history) is
what it showed when the order was saved. The dollars of an order are integers: `save`
does not look whether they are positive, and neither does the model.

The form of a review is taken to carry the manager and the login of its order, as the
page fills it in: `save` compares the dollars with the balance of the manager's own
login, `saveReview` debits the login that is posted.

### Rebates

`water` is `t_temp_time`, `lock` the lock its update holds until the commit, `rows` and
`over` are `t_sys_manager_rebate`. A firing (`job[n]`) takes the deals with
`Time > water` it found at its first read, in the order of their times, gives every
payee its row (`Accrue`, or `CreditPayee` for managers with automatic rebates), updates
the watermark before its last deal (`TakeDeal`) and commits everything together
(`CommitFiring`) or nothing (`FailFiring`); `credited` keeps what MT4 did.
`Concurrent` is `isConcurrent` of the job and selects `QuartzJobFactory` or the class
that disallows concurrent execution. A payout is `saveRebateIn` (rows that
were picked on a list) or `rebateSumToMT4` (the manager's rows that are not over when it
reads; every such row when it writes). The list shows rows that are over beside the
others unless its filter is set, the page may be old, and `saveRebateIn` checks neither
that the rows it is given are not over nor that the account it is told to credit is that
of the managers who earned them: `PickRows` takes any committed rows and any account.
(No page of the repository posts to `saveRebateIn`; its mapping is still served.) The
sum of no rows is 0: both queries read `IF(ISNULL(SUM(rebate)), 0, SUM(rebate))`, so the
early return of `rebateSumToMT4` for a null sum is never taken. `base`, `again` and
`after` of a payout (the committed rows, those of its sum that were over, and the payouts
that had marked theirs when it read) are history.

Deals are taken to appear in `mt5_deals` in the order of their times (`Close`), which is
the trading server's to keep. `Payees` is a constant: who earns something of a deal. `RebateChain` justifies it:
payees of a deal are distinct and each earns a positive amount.

### RebateChain

The loop that divides one deal. `mark` is the pair `rebateFixed`, `rebatePoint`;
`missing` is the one of them that is `null` (the trader's row of `t_group_rebate` has a
value in one of two columns, and the loop takes the other from that row as well);
`left` is the counter of 100. Amounts are cents, volumes ten-thousandths of a lot, and
a share is rounded half up to cents exactly as `BigDecimal.setScale` does for
non-negative numbers. `total` and `seen` are history. Rebates are taken as non-negative
and `mathCurrencyPoint` as a constant of the deal; a deal without price or without a
manager is skipped by the code (`continue`) and has no behaviour here; a missing quote
that makes `mathCurrencyPoint` throw is a `FailFiring` of `Rebates`.

### Registration

`managers` are the ids of the rows of `t_sys_manager`, `row` their columns (account,
review state, type, level, `belongid`, login), `counter` is `alogin` and `blogin`, `lock`
the row lock on them, `created` the reviews whose account MT4 has opened. A request is
one transaction: it reads its snapshot and makes its checks (`Begin...`), perhaps calls
MT4 and the mail server, and writes one row. `ctx[h].new` is what it is going to write; a
null in it is a column that `updateByPrimaryKeySelective` leaves alone. `by` (who last
changed a column), `undid` (who changed a column it was not asked to) and `saw` (who had
ended when a request read) are history.

| Action | Code |
|---|---|
| `BeginJoin` | `save` without an id, a registration of a customer: `checkAccount` and the insert to come |
| `BeginEdit` | `save` with an id: account, type and level, checked for agents only |
| `BeginMove` | `settingBelong`, which saves the row it has read with another parent |
| `BeginRewrite` | `updatePassword`, the log-in time, the MT4 passwords: the row as it was read |
| `BeginUpload` | the photo of `ProfileController`: the row as it was when the session was opened |
| `BeginReview` | `updateManagerReview` up to the counter or, for a refusal, the mail |
| `LockCounter` | `updateSysConfig`; the row stays locked until the review ends |
| `AccountOpened`, `AccountUnconfirmed`, `NumberTaken`, `AccountRefused` | `connectMt4`: done; done but lost; the number is in use; anything else |
| `MailSent`, `MailFailed` | the mail of a review, whose failure returns before the write and commits the counter |
| `Insert`, `Write` | `insertSelective`, `updateByPrimaryKeySelective`, and the commit |
| `Fail` | an exception or the server going down: rolled back, the counter too |
| `Remove` | `batchDelete`; managers below keep their `belongid` |

The `belongid` 0 of a manager at the top is `Null` here, and `NewType` is the default of
the column `type`. `Kinds`, `Parents` and `Removable` only bound what requests may do in
an instance. A book is A or B; both can count through the same numbers when their first
numbers allow it. Deleting a manager is one step, since it reads nothing. The parent a
form names may have been deleted since the page was made (`Named`): an agent is turned
away by the exception that comes of it, a common user is put below nobody.

### Sessions

One account; accounts share nothing but the capacity of the caches. `cache` and
`retryCache` name the queue and the counter that are in the ehcache by the request that
made them, `deque` and `retryCount` are these objects: a request goes on with the one it
got (`uses`) after another took its place. `state` and `kickout` are of the sessions.
`saw` and `log`, the requests that pushed their session, in order, are history.

| Action | Code |
|---|---|
| `Login`, `FindCount`, `PutCount` | `doCredentialsMatch`: get the counter, or make one and put it |
| `Count` | `incrementAndGet`, the limit, and the comparison of the password |
| `Enter` | the right password: `remove` of the counter, the session is logged in |
| `Visit`, `Get`, `Put` | `onAccessDenied`: get the queue, or make one and put it |
| `Look`, `Push` | `contains` and the attribute `kickout`; `push` |
| `Size`, `Remove`, `RemoveNone`, `Mark` | the `while` loop: `size`, `removeLast`, its exception, the attribute of the session taken out |
| `Answer` | the attribute of the own session: on with the request, or log-out |
| `Wander` | any of these with a list two requests have changed at the same time |
| `End` | log-out or expiry; the queue keeps the session |
| `DropCount`, `DropQueue` | ehcache drops an entry (external) |

The queue is a `LinkedList` without a lock. A push and a removal by two requests that
both stand before it come one after the other or tear the list (`torn`): what a torn list
holds is undefined, so requests that use it may do anything the filter does (`Wander`).
Only pages under the default chain pass the filter: those that are `anon` in
`spring-shiro.xml` do not, nor do the pages of the menus, to which
`ChainDefinitionSectionMetaSource` gives a chain of `perms` alone. A session that is over
throws when its attribute is read. The queue is shortened at its old end
(`kickoutAfter` is false in `spring-shiro.xml`).

## The runs

| Run | Instance | Shows |
|---|---|---|
| `InGoldMonitor` | 1 B-book order, 2 locked callbacks, 1 Gaozhi result, 1 review, 2 amounts | `TypeOK`; `ExtraCreditExplained`; `LockedCreditsOnce`; implements `TransferLedger` |
| `InGoldRaces` | 1 B-book order, 1 plain callback, 2 reviews, 2 amounts | `PassBacked`; `RefusalExplained` |
| `InGoldAnswers` | an A-book and a B-book order, 2 locked callbacks, 1 plain one that is told the outcome, 1 `payNotify`, fairness | `AckedPaymentRecorded`; `EveryRequestAnswered` |
| `OutGoldReviews` | 3 orders, 2 customers, 3 reviews, balance 2, amounts -1 and 2, a loss of 1 | `TypeOK`; `PassDebited`; `DebitedRefusalExplained`; `OverdrawExplained`; implements `TransferLedger` |
| `RebatesPayouts` | 2 deals, 1 manager, 2 serial firings (1 may fail), a payout of each kind | `TypeOK`; `PaidTwiceExplained`; `OverUnpaidExplained`; payouts implement `TransferLedger` |
| `RebatesOverlap` | 2 deals, chains of 2 managers, 2 firings that may overlap, 1 may fail | `RowsTwiceExplained`; `CreditedTwiceExplained`; `RebatedUpToWatermark`; `WatermarkBackExplained` |
| `RebatesLive` | 2 deals, 3 serial firings, 1 may fail, fairness | `EveryDealPassed` |
| `RebatesOver` | 1 deal, 1 payout by login | finds `OverWasPaid` violated |
| `RegistrationAccounts` | 1 manager waiting for review, 4 requests that review it or save its row, 1 book | `TypeOK`; `PassHasAccount`; `OrphanExplained`; `TakenExplained`; implements `TransferLedger` |
| `RegistrationTree` | the broker and 2 agents in a line, 3 requests: a review or edit, a registration, edit or saved row, a move or upload; one agent may be deleted | `DisorderExplained`; `CycleExplained`; `SameAccountExplained`; `UndoExplained` |
| `SessionsLimits` | 3 requests, 3 sessions (2 logged in), `maxSession` 1, 1 failed log-in allowed, 1 dropped cache entry, 1 session that ends | `LimitExplained`; `KickExplained`; `RetryExplained`; `RefusedExplained` |
| `RebateChainAll` | all hierarchies of 3 managers with all settings, 3 volumes, up to 4 parents | `OneRowEach`; `TotalIsHighest`; `ChainLookedAt`; `MixedFails`; `DivisionEnds` |

Why the bounds are enough. A double credit, a late refusal and a reopened order each
need two or three requests of one order: orders do not share anything but the monitor
and the setting, so one order with three or four requests shows every interleaving of
them, and `InGoldAnswers` adds the second order, which only matters for the monitor.
Two amounts make a stale amount visible. An account goes below zero by two withdrawals
of it, two reviews of one, or a withdrawal and a loss: `OutGoldReviews` has all three,
with copies before and after each; a form that asks for -1 adds to the account, as a
profit would. Its A-book customer is the one that must never be debited; its reviews,
and the two orders of the B-book customer, are symmetric. Which account a `saveRebateIn`
credits makes no difference to the rows it marks, so one manager is enough for the
payouts; the proofs have any number.
Two firings show every way in which one overtakes another; two deals with times up to
2 show both a shared second and a later one; the third firing of `RebatesLive` is what a
failed one must be followed by. `MaxTime`, `MaxFirings` and `MaxFails` are the only
counters that are cut, in the guards of `Close`, `Fire` and `FailFiring`. In
`RebateChain` three managers are a chain below a chain, a cycle through the trader and
one above it; `MaxParents` is larger than the number of managers, so that a cycle is
walked more than once (the other half of `ChainLookedAt`, a walk that is cut at
`MaxParents`, is met by the proof alone). The volumes are a hundredth, half a lot and
three lots, which with the values chosen makes shares that are rounded down, up and at exactly half a cent.

`RegistrationAccounts` has one book, so that its four reviews meet in one counter: two
that overlap set it back, a third one takes the number that is taken, and the fourth
decides the manager once more. Its requests are symmetric. `RegistrationTree` gives each
request a choice of kinds, so that every property that names two requests is tried with
two of different kinds, an upload with the saved row before it, and every combination
with the third request between. The one level and the one parent that forms carry are the
ones that can go wrong: level 2 lies between the levels of the two agents, and the lower
agent as parent of the upper one makes a cycle, which `CycleExplained` is about. In `SessionsLimits` limits of 1 make two
requests enough to reach them; the third one is the one that comes between, or the one
that is kicked out or refused for the other two. `MaxDrops` and `MaxOver` cut how often
ehcache drops an entry and how many sessions end by themselves; the proofs below hold for
any of these numbers.

`RebateChainAll`, the two runs of `Registration` and `SessionsLimits` say `CHECK_DEADLOCK
FALSE`: the division of a deal ends, and so do the requests of an instance.

Fairness. `InGold`: each request that was started goes on to its end
(`WF_vars(Handle(h))`), as a thread of Tomcat does; a gateway, a customer or staff need
not do anything. A callback that waits for the monitor gets it: the model asks weak
fairness of the request and no more, and the property holds because every holder ends.
This rests on MT4 answering or dropping the connection, since `connectMt4` waits without
a timeout. `Rebates`: Quartz fires again and a firing goes on (`WF_vars(Fire(n))`,
`WF_vars(Advance(n))`); that a firing fails only `MaxFails` times is an assumption of
the run. `RebateChain`: the thread runs on.

### A disagreement

`RebatesOver` shows what `RebateServiceImpl.java:289` says of the update after it, that
rows change their state because the deposit succeeded, is not so: `rebateSumToMT4` sums
the rows that are not over, and marks the rows that are not over when it updates. A row
the job commits in between (the update reads current rows, not those of the
transaction's snapshot) counts as paid and never is. `OverUnpaidExplained` shows that
this is the only way for a row to be marked and not paid.

### What the properties tell someone who changes the code

- A recorded credit is visible: only a Gaozhi result, or a callback that had read the row
  earlier, can make a request credit it again (`ExtraCreditExplained`). A condition
  `WHERE state = ...` in the two updates of `in-gold-mapper.xml`, checked before MT4 is
  called, would remove both causes.
- The monitor protects only its own two handlers and only against each other
  (`LockedCreditsOnce`), and nobody else waits for it.
- A gateway can be told `ok` although nothing was recorded in exactly one case: an
  automatic credit that was not confirmed (`AckedPaymentRecorded`).
- A withdrawal can be debited as often as it is reviewed; a single review never debits
  behind a refusal (`DebitedRefusalExplained`). The balance is compared once, when the
  order is saved, with a copy, and never when it is approved. What takes money from the
  account and is not in that copy, a loss on a deal, another order or another review of
  the same one, can overdraw it, and nothing else (`OverdrawExplained`). Only a comparison
  in `saveReview` with the account itself could tell.
- `rebateSumToMT4` never pays what was marked before it reads, whoever marked it;
  `saveRebateIn` pays whatever it is given, so a row on a list that shows it as paid is
  paid again (`PaidTwiceExplained`). `AND over = 0` in `countRebateTotal` and
  `updRebateOver` would leave overlaps and lost answers as the only causes.
- With serial firings no deal earns twice and no watermark moves back; every property of
  `RebatesOverlap` that names an overlap says so. A failed firing still repeats the
  credits it had ordered (`CreditedTwiceExplained`).
- A deal can be passed without rebates in one case: it appeared within the second up to
  which a firing had read (`RebatedUpToWatermark`).
- A chain that mixes fixed amounts and points below a trader that has a rebate makes the
  firing fail (`MixedFails`), and with it every later firing, since the watermark stays.
  Every other division reaches everybody above the trader, or a hundred managers
  (`ChainLookedAt`).
- A manager passes with an account MT4 opened for it, whatever runs beside its review
  (`PassHasAccount`); but a review never looks whether there was one before, so every
  further review opens an account (`OrphanExplained`), and one whose mail fails leaves an
  account without a customer.
- A number that MT4 has already is asked for after a rollback, by a review beside another
  one, or because two reviews that overlapped have set the counter back; the last cause
  can lie arbitrarily far back (`TakenExplained`). Reading the counter after
  `updateSysConfig` has locked it, or `SET value = value + 1`, would remove two of them.
- Levels fall along the hierarchy except after the causes `DisorderExplained` names. Each
  is a place that needs a check: the review and the edit of a common user do not look at
  the managers below, a refusal not at anything. A cycle, in which `getUnderlingTree`
  never comes to an end, needs one of these causes, a common user on it or a level that
  is missing (`CycleExplained`).
- Whoever undoes a change had read before it was made (`UndoExplained`). For a photo that
  is when the session was opened: `updateByPrimaryKeySelective` of the one column would
  do.
- The number of sessions in use can exceed `maxSession` only by a second queue or a torn
  one, and a second one needs a drop of the cache or two first requests at once
  (`LimitExplained`). A queue in a `ConcurrentHashMap` with `putIfAbsent` and a lock on
  it would remove all but the drop.
- A session can be kicked out for sessions that are gone already (`KickExplained`): the
  queue never forgets one that ended.
- The limit of failed log-ins is one of each counter; the entry lives for a second, not
  for the ten minutes of its comment (`RetryExplained`). Log-ins with the right password
  that overlap count against each other (`RefusedExplained`).

## The proofs

Every component has a module of proofs: `InGoldProofs`, `OutGoldProofs`,
`RebatesProofs`, `RebateChainProofs`, `RegistrationProofs` and `SessionsProofs`. Their
theorems hold for all values of the constants that satisfy the named assumptions of each
module (`InGoldAssumption`: the classes of requests are disjoint; `OutGoldAssumption`;
`RebatesAssumption`; `ChainAssumption`: values and volumes are natural numbers;
`RegistrationAssumption`: the rows there are at first have their own accounts, and an
agent among them is below its parent; `SessionsAssumption`: requests and sessions are
finitely many, so that they can be counted). Each proves `Spec => []IInv` from
`Init => IInv` and `IInv /\ [Next]_vars => IInv'`, and the properties from `IInv`. The
invariants were first checked by TLC on the instances above.

- `InGoldProofs`: `IInv` adds to the types where a credit can stand (`PcInv`: between
  the read and the write of a B-book pass), what the read of a request at work saw
  (`SawInv`: an order that was not decided), the same for every write in the history
  (`LogInv`), that a row shows its last write (`RowInv`), that a decision is undone only
  by a reopening write (`ReopenInv`), what the monitor orders (`MonitorInv`), and that a
  request works on a saved order (`AckInv`). `RefusalExplained` and
  `ExtraCreditExplained` are not inductive: they follow from `SawInv`, `LogInv` and
  `ReopenInv` together, since a credit that a later request could see must have been
  taken back for that request to go on. Steps are first sorted into five forms
  (`StepForms`: nothing of interest, an arrival, a read, an advance, a write), and each
  conjunct has a lemma with one step per form. `ImplementsLedger` maps every form to a
  step of `TransferLedger` or a stutter.
  Two results stand beside `EveryRequestAnswered`, which is liveness: the monitor is held
  just by the callback between its read and its end (`MonitorIsHeldAtWork`), so whoever
  waits for it waits for one that waits for nobody, and every step of a request brings it
  nearer to its answer (`RequestsMoveOn`).
- `OutGoldProofs`: the same layout with a smaller invariant, `PcInv` and `RowInv`, and
  `SeenInv` for the balance: an order was shown entries of its account, none of them a
  debit of its own, after which the account could bear it. `OverdrawExplained` follows
  from it. Take a debit of an account that is below zero, and the entries its order was
  shown: with it they leave the account at zero or above, so the entries it was not shown
  cannot all have added money (`SumGrows` in `SetSums`: a sum over a larger set is no
  smaller if nothing that was added is negative).
- `RebatesProofs`: `IInv` says how far a firing is in its list and that it takes the deals
  in the order of their times (`JobInv`), which firings overlap (`BesideInv`), that
  committed rows are those of committed firings (`RowsInv`), that a firing leaves no deal
  behind (`ReachInv`) and that the watermark is the last deal of a committed firing whose
  successors began later or overlapped it (`WaterInv`). `RebatedUpToWatermark` is the
  first half of `WaterInv`; it needs `ReachInv`, since a firing that has committed can
  have been overtaken by one with a longer list. Without overlaps the lists of firings
  follow each other (`SequelInv`), which gives `RowsTwiceExplained` and
  `CreditedTwiceExplained`. The payouts have a conjunct of their own (`PayoutInv`: the
  rows they summed, and for a `rebateSumToMT4`, or a row that was not over when it was
  picked, that neither the job nor a payout that ended before had marked it). Beside
  `EveryDealPassed`: a commit has every row of every deal it passes (`CommitsAreWhole`), the lock on `t_temp_time` belongs just to
  the firing that has taken its last deal, so that overlapping firings cannot wait for
  each other in a circle (`LockedByTheLast`), and every step of a firing brings it nearer
  to its end (`FiringsMoveOn`).
- `RegistrationProofs`: `IInv` relates what a request at work carries to the rows as they
  are now. A column nobody has changed since a request read it (`Known`) still passes the
  check the request made: no account equal to its own (`AccountInv`), no level of its
  parent or of a manager below that is on the wrong side (`RankInv`), the row it saves
  (`SavedInv`). So what a write breaks was changed by a request the writer did not know
  of, which is what the properties say. `LoginInv` and `OpenedInv` relate logins to
  the accounts on MT4; `LockInv` and `CounterInv` say that a given number is below the
  counter, and below the numbers of later reviews, unless somebody set the counter back;
  `IdInv`, `WriterInv` and `FormInv` are what the others rest on. `CycleIsExplained`
  follows from `DisorderExplained`: in a cycle of agents with levels take one with the
  highest position, that is the least level; its parent is in the cycle as well and has
  no smaller one, so it is not below its parent, and that has a reason.
  `CountersAreExclusive` reads off `LockInv` that one review at a time is between its
  counter and its commit, and that whom a review waits for waits for nobody.
- `SessionsProofs`: `RetryExplained` and `RefusedExplained` compare cardinalities, and the
  induction for them is replaced by numberings: the failed log-ins of a counter have
  numbers of their own up to `MaxRetry` (`WrongInv`), a counter is the number of log-ins
  that came to the comparison (`CountInv`). For `LimitExplained` an untorn queue is not too
  long unless somebody is about to shorten it (`LengthInv`) and has every session that
  came through (`MemberInv`); the sessions in use are then mapped into the places of the
  queues. For `KickExplained` what a queue holds entered in the order of the log
  (`PlaceInv`), twice only after an overlap (`TwiceInv`), so that whoever is taken out of
  a full queue has `maxSession` others after it (`KickInv`).
- `RebateChainProofs`: `OneRowEach` needs that the marks are the highest rebates seen
  (`Highest`), so a manager met again has no excess; `TotalIsHighest` needs that a share
  is its worth but for half a cent (`ShareBounds`) and that raising a mark costs the
  excess (`CostRaised`). This covers hierarchies of any size and shape. `ChainInv` says
  that who was seen is closed under `parent` but for the manager that is next, which
  makes the end of the walk the end of the chain (`NobodyLeftOut`); `TotalInv` that
  `total` is the sum of the rows (`TotalIsOfTheRows`); and `ToDo`, a natural number that
  every step lessens, bounds the walk (`LessToDo`), which leaves of `DivisionEnds` only
  that the thread runs.
- `TransferLedger`: what the abstract specification promises is proved of it once
  (`RecordsAreCovered`: what is booked was moved, by a request that has answered;
  `RequestsSettle`: nothing is taken back, and who has answered moves and books no more)
  and carried by the refinements to deposits, withdrawals, payouts and reviews
  (`CreditsSettle`, `DebitsSettle`, `PayoutsSettle`, `AccountsSettle`).

`SetSums` holds what these proofs need of sums over finite sets and of least numbers. An
induction would be the usual way to it, which the provers at hand cannot instantiate; a
smallest set for which a fact does not hold (`MinimalSet`, from the well-foundedness of
strict inclusion among finite sets) serves instead. From it come that a sum does not
depend on the order `CHOOSE` takes (`SumAdditive`), `SumAdd`, `SumSame`, and
`LeastNatural`.

| Theorem | Property |
|---|---|
| `InGoldProofs!TypeCorrect`, `PassIsBacked`, `ExtraCreditIsExplained`, `RefusalIsExplained`, `LockedCreditOnce`, `AckedPaymentIsRecorded`, `ImplementsLedger` | `TypeOK`, `PassBacked`, `ExtraCreditExplained`, `RefusalExplained`, `LockedCreditsOnce`, `AckedPaymentRecorded`, `LedgerSpec` |
| `OutGoldProofs!TypeCorrect`, `PassIsDebited`, `DebitedRefusalIsExplained`, `OverdrawIsExplained`, `ImplementsLedger` | `TypeOK`, `PassDebited`, `DebitedRefusalExplained`, `OverdrawExplained`, `LedgerSpec` |
| `RebatesProofs!TypeCorrect`, `NoDealSkipped`, `RowsOnceUnlessOverlap`, `CreditsOnceUnlessRollback`, `WatermarkBackOnlyAfterOverlap`, `NoMarkedRowPaid`, `MarkedRowsPaid`, `ImplementsLedger` | `TypeOK`, `RebatedUpToWatermark`, `RowsTwiceExplained`, `CreditedTwiceExplained`, `WatermarkBackExplained`, `PaidTwiceExplained`, `OverUnpaidExplained`, `LedgerSpec` |
| `RegistrationProofs!TypeCorrect`, `PassHasItsAccount`, `OrphanIsExplained`, `TakenIsExplained`, `DisorderIsExplained`, `CycleIsExplained`, `SameAccountIsExplained`, `UndoIsExplained`, `ImplementsLedger` | `TypeOK`, `PassHasAccount`, `OrphanExplained`, `TakenExplained`, `DisorderExplained`, `CycleExplained`, `SameAccountExplained`, `UndoExplained`, `LedgerSpec` |
| `SessionsProofs!TypeCorrect`, `LimitKept`, `KicksJustified`, `WrongPasswordsBounded`, `RefusalsJustified` | `TypeOK`, `LimitExplained`, `KickExplained`, `RetryExplained`, `RefusedExplained` |
| `RebateChainProofs!TypeCorrect`, `OneRowForEach`, `TotalIsTheHighest`, `NobodyLeftOut`, `FailsWhenMixed` | `TypeOK`, `OneRowEach`, `TotalIsHighest`, `ChainLookedAt`, `MixedFails` |

Only model-checked: the liveness properties (`EveryRequestAnswered`, `EveryDealPassed`,
`DivisionEnds`). That a step is taken at all rests on fairness and on `ENABLED`, which are
beyond the prover; what can be said of the steps themselves, that they lead towards the end
and that nobody waits in a circle, is proved as described above. Every invariant and every
action property that a passing run lists is the conclusion of a theorem. The other way
round, no run lists `TypeOK` of `Sessions` and of `RebateChain`, `Commit`, `LockInv`,
`MovesOn`, `HeldInv`, `OnePerCounter`, `TotalInv` and the theorems of `TransferLedger`:
they hold by proof.

## Not modelled

- Rebate settings and plans (`t_sys_rebate_setting`). `RebateServiceImpl.saveFixed`,
  `savePoint` and the plans check and write them, but no rebate is computed from them any
  more: `findRebateByMidAndSymbol` has no caller, and the division of a deal reads
  `t_group_rebate`. Two saves at once can leave a setting above that of the manager above;
  nothing but the pages would show it.
- The replacement of a group's rows in `t_group_rebate`: the division reads them in one
  snapshot, so it sees the rows before or after it. The flag `transfer-rebate` of the
  payout page, which orders nothing from MT4.
- Adding, pausing and rescheduling jobs, which Quartz does.
- Administration of roles, menus, operations, currencies, prices, groups, rates and mail
  templates: single-row writes and reads, which other components see as constants.
- The scripts under `WebRoot`: plug-ins of third parties and what binds them to the pages.
  The state of the system is in the Java classes, mappers and configuration files.
- Passwords, captions and the wire format of MT4; two deposits that draw the same order
  number (chance); amounts with fractions of a dollar and the conversion to cents for
  MT4; `checkResultShenfu`, which no handler calls.
- Queries, totals, page rendering, uploads and logs.
- Hardware or driver failures beyond an exception and a lost answer.

## Plan

Done: `TransferLedger`, `InGold` and `OutGold` (the paths of the customers' money),
`Rebates` (job and payouts), `RebateChain` (the division of a deal), `Registration`
(registrations, reviews and the hierarchy) and `Sessions`, each with its runs and proofs.

Left:

1. `Gold`: deposits and withdrawals of one account composed, with the balance they share.
2. `RebateSetting`, if rebates are computed from the settings again. Abstract
   specification: a tree in which nobody has more than its parent; implemented by serial
   saves.
