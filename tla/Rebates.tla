------------------------------- MODULE Rebates -------------------------------
(***************************************************************************)
(* Rebates.  A scheduled job (refreshTradesToRebate, one transaction per   *)
(* firing) turns the deals closed since the watermark t_temp_time into     *)
(* rebate rows for the trader and the managers above, and credits MT4 at   *)
(* once for managers with automatic rebates.  Requests pay out the other   *)
(* rows: they sum rows, credit MT4, and mark rows as paid (over).          *)
(*                                                                         *)
(* A firing works on the snapshot of its first read.  Its rows and its     *)
(* watermark are committed together; the credits it ordered are not part   *)
(* of the transaction and survive a rollback.                              *)
(***************************************************************************)
EXTENDS Naturals, FiniteSets, Sequences

CONSTANTS
    Deals,        \* closing deals of mt5_deals
    Managers,     \* accounts that earn rebates
    Payees,       \* per deal, who earns a positive rebate: the trader, then upwards
    Payouts,      \* payout requests
    ByLogin,      \* the payouts that are rebateSumToMT4; the others are saveRebateIn
    Concurrent,   \* isConcurrent of the job: firings may overlap
    MaxTime,      \* bound on the times of deals
    MaxFirings,   \* bound on the firings that find a deal to work on
    MaxFails,     \* bound on the firings that fail
    NoDeal,       \* the deal of a firing that has not taken one
    NoManager     \* the manager of a payout that has not begun

Times == 0..MaxTime

Firings == 1..MaxFirings

ASSUME RebatesAssumption ==
    /\ Payees \in [Deals -> Seq(Managers)]
    /\ ByLogin \subseteq Payouts
    /\ Concurrent \in BOOLEAN
    /\ {MaxTime, MaxFirings, MaxFails} \subseteq Nat
    /\ NoDeal \notin Deals
    /\ NoManager \notin Managers

VARIABLES
    time,       \* Time of every deal of mt5_deals; 0 for one that is not there yet
    auto,       \* managers with autoRebate and a rebate account
    water,      \* t_temp_time, committed
    lock,       \* the firing that holds the row lock on t_temp_time, or 0
    rows,       \* committed rows of t_sys_manager_rebate
    over,       \* the rows whose over flag is set
    job,        \* the firings
    credited,   \* rows a firing had MT4 credit
    payout,     \* the payout requests
    paid        \* payouts MT4 has credited

dataVars == <<time, auto>>
jobVars  == <<water, lock, job, credited>>
payVars  == <<payout, paid>>
vars == <<time, auto, water, lock, rows, over, job, credited, payout, paid>>
-----------------------------------------------------------------------------
RowId == [firing : Firings, deal : Deals, mgr : Managers]

RowOf(n, d, m) == [firing |-> n, deal |-> d, mgr |-> m]

\* A firing: the deals it has still to take and the one it is at, the next payee
\* of that deal, the managers it read as automatic, its uncommitted rows and
\* which of them are over.  `first` (all the deals of its list) and `beside`
\* (the firings at work when it began) are not read by the code.
Job == [pc : {"unused", "working", "done", "failed"}, todo : SUBSET Deals,
        at : Deals \cup {NoDeal}, next : Nat, auto : SUBSET Managers,
        made : SUBSET RowId, ok : SUBSET RowId,
        first : SUBSET Deals, beside : SUBSET Firings]

\* A payout: who is credited, the rows it sums.  Not in the code are the rows that
\* were committed when it read (`base`), those of its sum that were over by then
\* (`again`), and the payouts that had marked theirs (`after`).
Payout == [pc : {"idle", "picked", "mt4", "write", "done", "refused", "error"},
           mgr : Managers \cup {NoManager}, sum : SUBSET RowId,
           base : SUBSET RowId, again : SUBSET RowId, after : SUBSET Payouts]

TypeOK ==
    /\ time \in [Deals -> Times]
    /\ auto \subseteq Managers
    /\ water \in Times
    /\ lock \in Firings \cup {0}
    /\ rows \subseteq RowId
    /\ over \subseteq rows
    /\ job \in [Firings -> Job]
    /\ credited \subseteq RowId
    /\ payout \in [Payouts -> Payout]
    /\ paid \subseteq Payouts

NewJob(pc, todo, autos, beside) ==
    [pc |-> pc, todo |-> todo, at |-> NoDeal, next |-> 1, auto |-> autos,
     made |-> {}, ok |-> {}, first |-> todo, beside |-> beside]

NoPayout == [pc |-> "idle", mgr |-> NoManager, sum |-> {}, base |-> {}, again |-> {}, after |-> {}]

Init ==
    /\ time = [d \in Deals |-> 0]
    /\ auto \in SUBSET Managers
    /\ water = 0
    /\ lock = 0
    /\ rows = {}
    /\ over = {}
    /\ job = [n \in Firings |-> NewJob("unused", {}, {}, {})]
    /\ credited = {}
    /\ payout = [p \in Payouts |-> NoPayout]
    /\ paid = {}
-----------------------------------------------------------------------------
(* The trading server and the administrators *)

\* The trading server's deals appear in mt5_deals in the order of their times,
\* which have the resolution of a second: several deals may share one.
Close(d, t) ==
    /\ time[d] = 0
    /\ \A e \in Deals : time[e] <= t
    /\ time' = [time EXCEPT ![d] = t]
    /\ UNCHANGED <<auto, water, lock, rows, over, job, credited, payout, paid>>

UpdateAutoRebate(m) ==
    /\ auto' = IF m \in auto THEN auto \ {m} ELSE auto \cup {m}
    /\ UNCHANGED <<time, water, lock, rows, over, job, credited, payout, paid>>
-----------------------------------------------------------------------------
(* The job *)

Working == {n \in Firings : job[n].pc = "working"}

\* QuartzJobFactory runs beside a firing at work, the
\* ...DisallowConcurrentExecution class does not.
MayFire == Concurrent \/ Working = {}

\* findTempTime and findTradesByCloseTime.  A firing that finds nothing changes
\* nothing and is not an action.
Fire(n) ==
    LET found == {d \in Deals : time[d] > water}
    IN  /\ job[n].pc = "unused"
        /\ \A k \in 1..(n - 1) : job[k].pc # "unused"
        /\ MayFire
        /\ found # {}
        /\ job' = [job EXCEPT ![n] = NewJob("working", found, auto, Working)]
        /\ UNCHANGED <<dataVars, water, lock, rows, over, credited, payVars>>

\* The current deal has been paid to everybody above it.
AtEnd(n) == LET d == job[n].at
            IN  d # NoDeal => job[n].next > Len(Payees[d])

\* ORDER BY Time; before its last deal a firing updates t_temp_time, and waits
\* for a firing that has done so and not committed yet.
TakeDeal(n, d) ==
    /\ job[n].pc = "working"
    /\ AtEnd(n)
    /\ d \in job[n].todo
    /\ \A e \in job[n].todo : time[d] <= time[e]
    /\ IF job[n].todo = {d} THEN lock = 0 /\ lock' = n ELSE UNCHANGED lock
    /\ job' = [job EXCEPT ![n] = [@ EXCEPT !.todo = job[n].todo \ {d}, !.at = d, !.next = 1]]
    /\ UNCHANGED <<dataVars, water, rows, over, credited, payVars>>

\* The row of the payee that is next on the current deal.
Due(n) == RowOf(n, job[n].at, Payees[job[n].at][job[n].next])

HasPayee(n) ==
    /\ job[n].pc = "working"
    /\ job[n].at \in Deals
    /\ job[n].next <= Len(Payees[job[n].at])

Insert(n, isOver) ==
    job' = [job EXCEPT ![n] = [@ EXCEPT !.next = job[n].next + 1,
                                        !.made = job[n].made \cup {Due(n)},
                                        !.ok = job[n].ok \cup (IF isOver THEN {Due(n)} ELSE {})]]

\* A manager without automatic rebates, or one MT4 refuses to credit: the row is
\* inserted as not paid.
Accrue(n) ==
    /\ HasPayee(n)
    /\ Insert(n, FALSE)
    /\ UNCHANGED <<dataVars, water, lock, rows, over, credited, payVars>>

\* intoGoldBySocket credits the manager.  When the answer is lost the row is
\* inserted as not paid all the same.
CreditPayee(n, answered) ==
    /\ HasPayee(n)
    /\ Due(n).mgr \in job[n].auto
    /\ credited' = credited \cup {Due(n)}
    /\ Insert(n, answered)
    /\ UNCHANGED <<dataVars, water, lock, rows, over, payVars>>

\* Variant: the watermark is left where it was.
CommitFiringOnly(n) ==
    /\ job[n].pc = "working"
    /\ AtEnd(n)
    /\ job[n].todo = {}
    /\ rows' = rows \cup job[n].made
    /\ over' = over \cup job[n].ok
    /\ lock' = 0
    /\ job' = [job EXCEPT ![n] = [@ EXCEPT !.pc = "done"]]
    /\ UNCHANGED <<dataVars, water, credited, payVars>>

\* Variant: the watermark becomes the time of the latest deal there is.
CommitFiringAtLatest(n) ==
    /\ job[n].pc = "working"
    /\ AtEnd(n)
    /\ job[n].todo = {}
    /\ rows' = rows \cup job[n].made
    /\ over' = over \cup job[n].ok
    /\ \E d \in Deals : water' = time[d] /\ \A e \in Deals : time[e] <= time[d]
    /\ lock' = 0
    /\ job' = [job EXCEPT ![n] = [@ EXCEPT !.pc = "done"]]
    /\ UNCHANGED <<dataVars, credited, payVars>>

\* The rows, the over flags and the watermark become visible together.
CommitFiring(n) ==
    /\ job[n].pc = "working"
    /\ AtEnd(n)
    /\ job[n].todo = {}
    /\ rows' = rows \cup job[n].made
    /\ over' = over \cup job[n].ok
    /\ water' = time[job[n].at]
    /\ lock' = 0
    /\ job' = [job EXCEPT ![n] = [@ EXCEPT !.pc = "done"]]
    /\ UNCHANGED <<dataVars, credited, payVars>>

\* Variant: the lock on t_temp_time outlives the transaction.
FailFiringKeepingLock(n) ==
    /\ job[n].pc = "working"
    /\ Cardinality({k \in Firings : job[k].pc = "failed"}) < MaxFails
    /\ job' = [job EXCEPT ![n] = [@ EXCEPT !.pc = "failed"]]
    /\ UNCHANGED <<dataVars, water, lock, rows, over, credited, payVars>>

\* Variant: the next firing is to start over from the beginning.
FailFiringRewinding(n) ==
    /\ job[n].pc = "working"
    /\ Cardinality({k \in Firings : job[k].pc = "failed"}) < MaxFails
    /\ lock' = IF lock = n THEN 0 ELSE lock
    /\ water' = 0
    /\ job' = [job EXCEPT ![n] = [@ EXCEPT !.pc = "failed"]]
    /\ UNCHANGED <<dataVars, rows, over, credited, payVars>>

\* Variant: the over flags are written outside the transaction.
FailFiringKeepingFlags(n) ==
    /\ job[n].pc = "working"
    /\ Cardinality({k \in Firings : job[k].pc = "failed"}) < MaxFails
    /\ lock' = IF lock = n THEN 0 ELSE lock
    /\ over' = over \cup job[n].ok
    /\ job' = [job EXCEPT ![n] = [@ EXCEPT !.pc = "failed"]]
    /\ UNCHANGED <<dataVars, water, rows, credited, payVars>>

\* An exception, a lock wait that times out, the server going down.
FailFiring(n) ==
    /\ job[n].pc = "working"
    /\ Cardinality({k \in Firings : job[k].pc = "failed"}) < MaxFails
    /\ lock' = IF lock = n THEN 0 ELSE lock
    /\ job' = [job EXCEPT ![n] = [@ EXCEPT !.pc = "failed"]]
    /\ UNCHANGED <<dataVars, water, rows, over, credited, payVars>>
-----------------------------------------------------------------------------
(* The payouts *)

Marked == {p \in Payouts : payout[p].pc = "done"}

\* Variant: rows that are over count as well.
UnpaidOrPaid(m) == {x \in rows : x.mgr = m}

Unpaid(m) == {x \in rows : x.mgr = m /\ x \notin over}

\* A payout that has read the rows.
Reads(pc, m, sum) ==
    [pc |-> pc, mgr |-> m, sum |-> sum, base |-> rows, again |-> sum \cap over, after |-> Marked]

\* Somebody picks rows on the list, which shows those that are over beside the
\* others, and an account to credit: nothing ties it to the rows.  The page may be
\* out of date when saveRebateIn serves it.
PickRows(p, m, picked) ==
    /\ p \notin ByLogin
    /\ payout[p].pc = "idle"
    /\ picked \subseteq rows
    /\ picked # {}
    /\ payout' = [payout EXCEPT ![p] = Reads("picked", m, picked)]
    /\ UNCHANGED <<dataVars, jobVars, rows, over, paid>>

\* countRebateTotal sums the picked rows, whether they are over or not.
SaveRebateIn(p) ==
    /\ payout[p].pc = "picked"
    /\ payout' = [payout EXCEPT ![p] = [@ EXCEPT !.pc = "mt4"]]
    /\ UNCHANGED <<dataVars, jobVars, rows, over, paid>>

\* findRebateByLogin sums the rows of the manager that are not over (the sum of
\* no rows is 0, which is credited like any other).
RebateSumToMT4(p, m) ==
    /\ p \in ByLogin
    /\ payout[p].pc = "idle"
    /\ payout' = [payout EXCEPT ![p] = Reads("mt4", m, Unpaid(m))]
    /\ UNCHANGED <<dataVars, jobVars, rows, over, paid>>

PayoutCredited(p, answered) ==
    /\ payout[p].pc = "mt4"
    /\ paid' = paid \cup {p}
    /\ payout' = [payout EXCEPT ![p] = [@ EXCEPT !.pc = IF answered THEN "write" ELSE "refused"]]
    /\ UNCHANGED <<dataVars, jobVars, rows, over>>

\* Variant: any answer of the server counts as success.
PayoutRefusedUnnoticed(p) ==
    /\ payout[p].pc = "mt4"
    /\ payout' = [payout EXCEPT ![p] = [@ EXCEPT !.pc = "write"]]
    /\ UNCHANGED <<dataVars, jobVars, rows, over, paid>>

PayoutRefused(p) ==
    /\ payout[p].pc = "mt4"
    /\ payout' = [payout EXCEPT ![p] = [@ EXCEPT !.pc = "refused"]]
    /\ UNCHANGED <<dataVars, jobVars, rows, over, paid>>

\* updRebateOver marks the rows of the list; updRebateOverByLogin marks every row
\* of the manager that is not over when it runs.
MarkOver(p) ==
    /\ payout[p].pc = "write"
    /\ over' = over \cup (IF p \in ByLogin THEN Unpaid(payout[p].mgr) ELSE payout[p].sum)
    /\ payout' = [payout EXCEPT ![p] = [@ EXCEPT !.pc = "done"]]
    /\ UNCHANGED <<dataVars, jobVars, rows, paid>>

FailPayout(p) ==
    /\ payout[p].pc \in {"picked", "mt4", "write"}
    /\ payout' = [payout EXCEPT ![p] = [@ EXCEPT !.pc = "error"]]
    /\ UNCHANGED <<dataVars, jobVars, rows, over, paid>>
-----------------------------------------------------------------------------
Advance(n) ==
    \/ \E d \in Deals : TakeDeal(n, d)
    \/ Accrue(n)
    \/ \E answered \in BOOLEAN : CreditPayee(n, answered)
    \/ CommitFiring(n)
    \/ FailFiring(n)

Pay(p) ==
    \/ SaveRebateIn(p)
    \/ \E answered \in BOOLEAN : PayoutCredited(p, answered)
    \/ PayoutRefused(p)
    \/ MarkOver(p)
    \/ FailPayout(p)

Next ==
    \/ \E d \in Deals, t \in Times \ {0} : Close(d, t)
    \/ \E m \in Managers : UpdateAutoRebate(m)
    \/ \E n \in Firings : Fire(n) \/ Advance(n)
    \/ \E p \in Payouts, m \in Managers :
          RebateSumToMT4(p, m) \/ \E picked \in SUBSET rows : PickRows(p, m, picked)
    \/ \E p \in Payouts : Pay(p)

Spec == Init /\ [][Next]_vars

\* Quartz keeps firing the job, and a firing runs to its end.
Fairness == \A n \in Firings : WF_vars(Fire(n)) /\ WF_vars(Advance(n))

FairSpec == Spec /\ Fairness
-----------------------------------------------------------------------------
(* Properties *)

Done == {n \in Firings : job[n].pc = "done"}

PayeesOf(d) == {Payees[d][i] : i \in DOMAIN Payees[d]}

\* Some firing up to the n-th began while another was at work.
OverlapBefore(n) == \E k \in 1..n : job[k].beside # {}

\* Every deal at or below the watermark has the rows of all its payees, unless
\* it appeared with the very time up to which an earlier firing had read.
RebatedUpToWatermark ==
    \A d \in Deals : time[d] \in 1..water =>
        \/ \E n \in Done : \A m \in PayeesOf(d) : RowOf(n, d, m) \in rows
        \/ \E n \in Done : /\ d \notin job[n].first
                           /\ \E e \in job[n].first : time[e] = time[d]
                           /\ \A e \in job[n].first : time[e] <= time[d]

\* A deal earns its manager two rows only after firings overlapped.
RowsTwiceExplained ==
    \A x, y \in rows :
        (x.deal = y.deal /\ x.mgr = y.mgr /\ x.firing < y.firing) => OverlapBefore(y.firing)

\* The job credits a manager twice for a deal only when a firing that had
\* ordered the credit was rolled back, or firings overlapped.
CreditedTwiceExplained ==
    \A x, y \in credited :
        (x.deal = y.deal /\ x.mgr = y.mgr /\ x.firing < y.firing) =>
            job[x.firing].pc = "failed" \/ OverlapBefore(y.firing)

\* The watermark moves back only when the firing that moves it overlapped one
\* that has moved it further.
WatermarkBackExplained ==
    [][water' < water =>
         \E n \in Firings, k \in Done :
             /\ job[n].pc = "working" /\ job'[n].pc = "done"
             /\ k \in job[n].beside \/ n \in job[k].beside]_vars

\* A row is paid twice only by payouts that overlap, because the answer to its first
\* credit was lost, or by a saveRebateIn for which it was picked from a list that showed
\* it as paid: what a payout or a firing has marked is never in the sum of a
\* rebateSumToMT4 that reads later.
PaidTwiceExplained ==
    \A q \in paid : \A x \in payout[q].sum :
        \/ q \notin ByLogin /\ x \in payout[q].again
        \/ /\ x \in credited => x \notin job[x.firing].ok
           /\ \A p \in paid \ {q} : x \in payout[p].sum => p \notin payout[q].after

\* Some credit contained the row (saveRebateIn may have paid it to anybody).
WasPaid(x) == x \in credited \/ \E p \in paid : x \in payout[p].sum

\* A row is marked as paid without having been paid only by rebateSumToMT4, for
\* a row committed between its sum and its update.
OverUnpaidExplained ==
    \A x \in over : ~WasPaid(x) =>
        \E p \in ByLogin : payout[p].pc = "done" /\ payout[p].mgr = x.mgr /\ x \notin payout[p].base

\* What RebateServiceImpl says of updRebateOverByLogin: the rows change state
\* because their deposit succeeded.
OverWasPaid == \A x \in over : WasPaid(x)

\* A deal is passed by the watermark at last, whatever fails on the way.
EveryDealPassed == \A d \in Deals : time[d] > 0 ~> time[d] <= water

\* Payouts keep the promise of TransferLedger.
Ledger == INSTANCE TransferLedger WITH
              Requests <- Payouts,
              moved    <- paid,
              booked   <- Marked,
              closed   <- {p \in Payouts : payout[p].pc \in {"done", "refused", "error"}}

LedgerSpec == Ledger!Spec
=============================================================================
