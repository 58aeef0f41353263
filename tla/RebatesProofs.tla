---------------------------- MODULE RebatesProofs ----------------------------
(***************************************************************************)
(* Proofs about Rebates for every set of deals, managers and payouts,      *)
(* every hierarchy and every number of firings, overlapping or not.        *)
(***************************************************************************)
EXTENDS Rebates, TLAPS

(* The inductive invariant *)

Used(n) == job[n].pc # "unused"

\* How far a firing is in its list.
FormOf(n) ==
    /\ job[n].todo \subseteq job[n].first
    /\ job[n].next \in Nat \ {0}
    /\ job[n].at # NoDeal => /\ job[n].at \in job[n].first \ job[n].todo
                             /\ job[n].next <= Len(Payees[job[n].at]) + 1
    /\ job[n].at = NoDeal => job[n].todo = job[n].first
    /\ Used(n) => job[n].first # {}
    /\ ~Used(n) => job[n].first = {} /\ job[n].made = {} /\ job[n].beside = {}

\* The rows of a firing are of its deals, and the over ones were credited.
MadeOf(n) ==
    /\ \A x \in job[n].made : x.firing = n /\ x.deal \in job[n].first
    /\ job[n].ok \subseteq job[n].made \cap credited

\* Every payee of the deals it has taken has a row, up to the one that is next.
PaidUpTo(n) ==
    \A d \in job[n].first \ job[n].todo : \A i \in 1..Len(Payees[d]) :
        d # job[n].at \/ i < job[n].next => RowOf(n, d, Payees[d][i]) \in job[n].made

\* It takes its deals in the order of their times.
InOrder(n) ==
    /\ \A d \in job[n].first : time[d] > 0
    /\ \A d \in job[n].first \ job[n].todo :
          /\ time[d] <= time[job[n].at]
          /\ \A e \in job[n].todo : time[d] <= time[e]

JobInv == \A n \in Firings : FormOf(n) /\ MadeOf(n) /\ PaidUpTo(n) /\ InOrder(n)

\* Firings begin in their order, and one that is at work when another begins is
\* beside it.
BesideInv ==
    \A n, k \in Firings : n < k /\ Used(k) =>
        Used(n) /\ (job[n].pc = "working" => n \in job[k].beside)

\* Committed rows are the rows of the committed firings; who was credited has a row
\* in a firing.
RowsInv ==
    /\ \A x \in rows : job[x.firing].pc = "done" /\ x \in job[x.firing].made
    /\ \A n \in Done : job[n].todo = {} /\ job[n].made \subseteq rows /\ job[n].ok \subseteq over
    /\ \A x \in credited : x \in job[x.firing].made

\* What RebatedUpToWatermark asks of a deal.
Rebated(d) ==
    \/ \E n \in Done : \A m \in PayeesOf(d) : RowOf(n, d, m) \in rows
    \/ \E n \in Done : /\ d \notin job[n].first
                       /\ \E e \in job[n].first : time[e] = time[d]
                       /\ \A e \in job[n].first : time[e] <= time[d]

\* A firing leaves no deal behind: what is neither in its list nor settled is not
\* older than the list.
ReachInv ==
    \A n \in Firings, d \in Deals :
        Used(n) /\ time[d] > 0 =>
            d \in job[n].first \/ Rebated(d) \/ \A e \in job[n].first : time[e] <= time[d]

\* The watermark is the last deal of a committed firing k; a firing at work began
\* after k had committed, or they overlap.
SetBy(k) ==
    /\ job[k].pc = "done"
    /\ job[k].at # NoDeal
    /\ water = time[job[k].at]
    /\ \A n \in Firings : job[n].pc = "working" =>
          \/ n \in job[k].beside
          \/ k \in job[n].beside
          \/ \A e \in job[n].first : time[e] > water

WaterInv ==
    /\ \A d \in Deals : time[d] \in 1..water => Rebated(d)
    /\ water = 0 \/ \E k \in Firings : SetBy(k)

\* As long as no firing overlaps another, each has the deals after those of the
\* committed ones before it.
SequelInv ==
    /\ \A n, k \in Firings : k < n /\ Used(n) /\ ~OverlapBefore(n) =>
          /\ job[k].pc # "working"
          /\ job[k].pc = "done" =>
                \A d \in job[k].first, e \in job[n].first : time[d] < time[e]
    /\ (\A n \in Firings : job[n].beside = {}) =>
          \A k \in Done : \A d \in job[k].first : time[d] <= water

\* The rows of a payout, and what was marked before it read and after.
PayoutOf(p) ==
    /\ payout[p].base \subseteq rows
    /\ p \in ByLogin => /\ payout[p].again = {}
                       /\ \A x \in payout[p].sum : x.mgr = payout[p].mgr
    /\ \A x \in payout[p].sum : /\ x \in payout[p].base
                                /\ x \in payout[p].again \/ x \notin job[x.firing].ok
    /\ payout[p].pc = "done" => payout[p].sum \subseteq over
    /\ \A q \in payout[p].after :
          payout[q].pc = "done" /\ payout[q].sum \cap payout[p].sum \subseteq payout[p].again
    /\ p \in ByLogin /\ payout[p].pc \in {"mt4", "write"} =>
          \A x \in payout[p].base \ over : x.mgr = payout[p].mgr => x \in payout[p].sum
    /\ p \in ByLogin => payout[p].pc # "picked"
    /\ payout[p].pc \in {"write", "done"} => p \in paid
    /\ payout[p].pc \in {"idle", "picked", "mt4"} => p \notin paid

PayoutInv == \A p \in Payouts : PayoutOf(p)

IInv ==
    /\ TypeOK /\ JobInv /\ BesideInv /\ RowsInv /\ ReachInv /\ WaterInv /\ SequelInv
    /\ PayoutInv /\ OverUnpaidExplained
-----------------------------------------------------------------------------
(* The forms a step can take *)

\* Firing n, alone, changes; its list and the firings beside it stay.
Only(n) ==
    /\ \A k \in Firings \ {n} : job'[k] = job[k]
    /\ job'[n].first = job[n].first
    /\ job'[n].beside = job[n].beside
    /\ time' = time
    /\ UNCHANGED <<payout, paid>>

\* It goes to deal d.
Takes(n, d) ==
    /\ Only(n)
    /\ AtEnd(n)
    /\ d \in job[n].todo
    /\ \A e \in job[n].todo : time[d] <= time[e]
    /\ job[n].pc = "working" /\ job'[n].pc = "working"
    /\ job'[n].todo = job[n].todo \ {d} /\ job'[n].at = d /\ job'[n].next = 1
    /\ job'[n].made = job[n].made /\ job'[n].ok = job[n].ok
    /\ UNCHANGED <<water, rows, over, credited>>

\* It makes a row for a payee, which may be credited.
Adds(n) ==
    /\ Only(n)
    /\ HasPayee(n)
    /\ job'[n].pc = "working"
    /\ job'[n].todo = job[n].todo /\ job'[n].at = job[n].at
    /\ job'[n].next = job[n].next + 1
    /\ job'[n].made = job[n].made \cup {Due(n)}
    /\ \/ job'[n].ok = job[n].ok /\ credited' = credited
       \/ job'[n].ok \subseteq job[n].ok \cup {Due(n)} /\ credited' = credited \cup {Due(n)}
    /\ UNCHANGED <<water, rows, over>>

\* It ends.
Ends(n, how) ==
    /\ Only(n)
    /\ job[n].pc = "working" /\ job'[n].pc = how
    /\ job'[n].todo = job[n].todo /\ job'[n].at = job[n].at /\ job'[n].next = job[n].next
    /\ job'[n].made = job[n].made /\ job'[n].ok = job[n].ok
    /\ credited' = credited

Commits(n) ==
    /\ Ends(n, "done")
    /\ AtEnd(n)
    /\ job[n].todo = {}
    /\ rows' = rows \cup job[n].made
    /\ over' = over \cup job[n].ok
    /\ water' = time[job[n].at]

Fails(n) == Ends(n, "failed") /\ UNCHANGED <<water, rows, over>>

\* The job rests.
Rests == UNCHANGED <<time, water, rows, job, credited>>

Pays(p) ==
    /\ Rests
    /\ \/ \E m \in Managers, picked \in SUBSET rows : PickRows(p, m, picked)
       \/ \E m \in Managers : RebateSumToMT4(p, m)
       \/ Pay(p)

LEMMA TakesForm ==
    ASSUME TypeOK, NEW n \in Firings, NEW d \in Deals, TakeDeal(n, d)
    PROVE  Takes(n, d)
<1>1. job[n] \in Job
  BY DEF TypeOK
<1>2. PICK j \in Job : j = job[n]
  BY <1>1
<1>3. job'[n] = [j EXCEPT !.todo = j.todo \ {d}, !.at = d, !.next = 1]
  BY <1>2 DEF TakeDeal, TypeOK
<1>4. /\ job'[n].todo = j.todo \ {d} /\ job'[n].at = d /\ job'[n].next = 1
      /\ job'[n].pc = j.pc /\ job'[n].made = j.made /\ job'[n].ok = j.ok
      /\ job'[n].first = j.first /\ job'[n].beside = j.beside
  BY <1>3 DEF Job
<1>5. \A k \in Firings \ {n} : job'[k] = job[k]
  BY DEF TakeDeal, TypeOK
<1> QED
  BY <1>2, <1>4, <1>5 DEF Takes, Only, TakeDeal, dataVars, payVars

LEMMA InsertForm ==
    ASSUME TypeOK, NEW n \in Firings, NEW b \in BOOLEAN, Insert(n, b)
    PROVE  /\ \A k \in Firings \ {n} : job'[k] = job[k]
           /\ job'[n].next = job[n].next + 1
           /\ job'[n].made = job[n].made \cup {Due(n)}
           /\ job'[n].ok = job[n].ok \cup (IF b THEN {Due(n)} ELSE {})
           /\ job'[n].pc = job[n].pc /\ job'[n].todo = job[n].todo
           /\ job'[n].at = job[n].at /\ job'[n].auto = job[n].auto
           /\ job'[n].first = job[n].first /\ job'[n].beside = job[n].beside
<1>1. PICK j \in Job : j = job[n]
  BY DEF TypeOK
<1>2. PICK x : x = Due(n)
  OBVIOUS
<1>3. job'[n] = [j EXCEPT !.next = j.next + 1, !.made = j.made \cup {x},
                          !.ok = j.ok \cup (IF b THEN {x} ELSE {})]
  BY <1>1, <1>2 DEF Insert, TypeOK
<1>4. \A k \in Firings \ {n} : job'[k] = job[k]
  BY DEF Insert, TypeOK
<1> QED
  BY <1>1, <1>2, <1>3, <1>4 DEF Job

LEMMA AddsForm ==
    ASSUME TypeOK, NEW n \in Firings, Accrue(n) \/ (\E b \in BOOLEAN : CreditPayee(n, b))
    PROVE  Adds(n)
<1>1. CASE Accrue(n)
  <2>1. HasPayee(n) /\ Insert(n, FALSE)
    BY <1>1 DEF Accrue
  <2> QED
    BY <1>1, <2>1, InsertForm DEF Accrue, Adds, Only, HasPayee, dataVars, payVars
<1>2. ASSUME NEW b \in BOOLEAN, CreditPayee(n, b) PROVE Adds(n)
  <2>1. HasPayee(n) /\ Insert(n, b)
    BY <1>2 DEF CreditPayee
  <2> QED
    BY <1>2, <2>1, InsertForm DEF CreditPayee, Adds, Only, HasPayee, dataVars, payVars
<1> QED
  BY <1>1, <1>2

LEMMA EndsForm ==
    ASSUME TypeOK, NEW n \in Firings, CommitFiring(n) \/ FailFiring(n)
    PROVE  Commits(n) \/ Fails(n)
<1>1. PICK j \in Job : j = job[n]
  BY DEF TypeOK
<1>2. PICK how \in {"done", "failed"} : /\ job'[n] = [j EXCEPT !.pc = how]
                                        /\ (how = "done" /\ CommitFiring(n))
                                             \/ (how = "failed" /\ FailFiring(n))
  BY <1>1 DEF CommitFiring, FailFiring, TypeOK
<1>3. /\ job'[n].pc = how /\ job'[n].todo = j.todo /\ job'[n].at = j.at
      /\ job'[n].next = j.next /\ job'[n].made = j.made /\ job'[n].ok = j.ok
      /\ job'[n].first = j.first /\ job'[n].beside = j.beside
  BY <1>2 DEF Job
<1>4. \A k \in Firings \ {n} : job'[k] = job[k]
  BY DEF CommitFiring, FailFiring, TypeOK
<1> QED
  BY <1>1, <1>2, <1>3, <1>4
     DEF Commits, Fails, Ends, Only, CommitFiring, FailFiring, dataVars, payVars

LEMMA StepForms ==
    ASSUME TypeOK, [Next]_vars,
           NEW P,
           ASSUME NEW d \in Deals, NEW t \in Times \ {0}, Close(d, t) PROVE P,
           ASSUME NEW n \in Firings, Fire(n) PROVE P,
           ASSUME NEW n \in Firings, NEW d \in Deals, Takes(n, d) PROVE P,
           ASSUME NEW n \in Firings, Adds(n) PROVE P,
           ASSUME NEW n \in Firings, Commits(n) PROVE P,
           ASSUME NEW n \in Firings, Fails(n) PROVE P,
           ASSUME NEW p \in Payouts, Pays(p) PROVE P,
           Rests /\ UNCHANGED <<over, payout, paid>> => P
    PROVE  P
<1>1. ASSUME NEW n \in Firings, Advance(n) PROVE P
  BY <1>1, TakesForm, AddsForm, EndsForm DEF Advance
<1>2. ASSUME NEW m \in Managers, UpdateAutoRebate(m) PROVE P
  BY <1>2 DEF UpdateAutoRebate, Rests
<1>3. ASSUME NEW p \in Payouts, NEW m \in Managers,
             RebateSumToMT4(p, m) \/ \E picked \in SUBSET rows : PickRows(p, m, picked)
      PROVE  P
  <2>1. Pays(p)
    BY <1>3 DEF Pays, Rests, RebateSumToMT4, PickRows, dataVars, jobVars
  <2> QED
    BY <2>1
<1>4. ASSUME NEW p \in Payouts, Pay(p) PROVE P
  <2>1. Pays(p)
    BY <1>4 DEF Pays, Rests, Pay, SaveRebateIn, PayoutCredited, PayoutRefused, MarkOver,
       FailPayout, dataVars, jobVars
  <2> QED
    BY <2>1
<1>5. CASE UNCHANGED vars
  BY <1>5 DEF vars, Rests
<1> QED
  BY <1>1, <1>2, <1>3, <1>4, <1>5 DEF Next
-----------------------------------------------------------------------------
(* Types *)

LEMMA DueRow ==
    ASSUME TypeOK, NEW n \in Firings, FormOf(n), HasPayee(n)
    PROVE  /\ Due(n) \in RowId
           /\ Due(n).firing = n /\ Due(n).deal = job[n].at
           /\ Due(n).mgr = Payees[job[n].at][job[n].next]
           /\ Due(n) = RowOf(n, job[n].at, Payees[job[n].at][job[n].next])
<1>1. PICK d \in Deals, i \in Nat \ {0} : d = job[n].at /\ i = job[n].next
  BY DEF HasPayee, FormOf
<1>2. Payees[d] \in Seq(Managers) /\ i <= Len(Payees[d])
  BY <1>1, RebatesAssumption DEF HasPayee
<1>3. Payees[d][i] \in Managers
  BY <1>2
<1>4. Due(n) = [firing |-> n, deal |-> d, mgr |-> Payees[d][i]]
  BY <1>1 DEF Due, RowOf
<1> QED
  BY <1>1, <1>3, <1>4 DEF RowId, RowOf

LEMMA TypeInit == Init => TypeOK
  BY RebatesAssumption DEF Init, TypeOK, Job, Payout, NewJob, NoPayout, Times

LEMMA JobType ==
    ASSUME TypeOK, NEW n \in Firings, FormOf(n), Fire(n) \/ Advance(n)
    PROVE  job' \in [Firings -> Job]
<1>1. PICK j \in Job : j = job[n]
  BY DEF TypeOK
<1>2. ASSUME NEW r \in Job, job' = [job EXCEPT ![n] = r] PROVE job' \in [Firings -> Job]
  BY <1>2 DEF TypeOK
<1>3. CASE Fire(n)
  <2>1. PICK found \in SUBSET Deals, autos \in SUBSET Managers, beside \in SUBSET Firings :
           job' = [job EXCEPT ![n] = NewJob("working", found, autos, beside)]
    BY <1>3 DEF Fire, TypeOK, Working
  <2>2. NewJob("working", found, autos, beside) \in Job
    BY DEF NewJob, Job
  <2> QED
    BY <1>2, <2>1, <2>2
<1>4. ASSUME NEW d \in Deals, TakeDeal(n, d) PROVE job' \in [Firings -> Job]
  <2>1. [j EXCEPT !.todo = j.todo \ {d}, !.at = d, !.next = 1] \in Job
    BY DEF Job
  <2> QED
    BY <1>1, <1>2, <1>4, <2>1 DEF TakeDeal, TypeOK
<1>5. ASSUME NEW b \in BOOLEAN, HasPayee(n), Insert(n, b) PROVE job' \in [Firings -> Job]
  <2>1. PICK x \in RowId : x = Due(n)
    BY <1>5, DueRow
  <2>2. [j EXCEPT !.next = j.next + 1, !.made = j.made \cup {x},
                  !.ok = j.ok \cup (IF b THEN {x} ELSE {})] \in Job
    <3>1. PICK i \in Nat, made \in SUBSET RowId, ok \in SUBSET RowId :
             /\ i = j.next + 1
             /\ made = j.made \cup {x}
             /\ ok = j.ok \cup (IF b THEN {x} ELSE {})
      <4>1. j.next + 1 \in Nat /\ j.made \cup {x} \in SUBSET RowId
            /\ j.ok \cup (IF b THEN {x} ELSE {}) \in SUBSET RowId
        BY DEF Job
      <4> QED
        BY <4>1
    <3>2. [j EXCEPT !.next = i, !.made = made, !.ok = ok] \in Job
      BY DEF Job
    <3> QED
      BY <3>1, <3>2
  <2> QED
    BY <1>1, <1>2, <1>5, <2>1, <2>2 DEF Insert, TypeOK
<1>6. CASE CommitFiring(n) \/ FailFiring(n)
  <2>1. \A pc \in {"done", "failed"} : [j EXCEPT !.pc = pc] \in Job
    BY DEF Job
  <2> QED
    BY <1>1, <1>2, <1>6, <2>1 DEF CommitFiring, FailFiring, TypeOK
<1> QED
  BY <1>3, <1>4, <1>5, <1>6 DEF Advance, Accrue, CreditPayee

LEMMA UnpaidRows == TypeOK => \A m : Unpaid(m) \subseteq rows /\ Unpaid(m) \cap over = {}
  BY DEF Unpaid

LEMMA PayoutType ==
    ASSUME TypeOK, NEW p \in Payouts, Pays(p)
    PROVE  payout' \in [Payouts -> Payout]
<1>1. PICK r \in Payout : r = payout[p]
  BY DEF TypeOK
<1>2. ASSUME NEW s \in Payout, payout' = [payout EXCEPT ![p] = s]
      PROVE  payout' \in [Payouts -> Payout]
  BY <1>2 DEF TypeOK
<1>3. ASSUME NEW pc \in {"mt4", "picked"}, NEW m \in Managers, NEW sum \in SUBSET rows,
             payout' = [payout EXCEPT ![p] = Reads(pc, m, sum)]
      PROVE  payout' \in [Payouts -> Payout]
  <2>1. Reads(pc, m, sum) \in Payout
    BY DEF TypeOK, Reads, Payout, Marked
  <2> QED
    BY <1>2, <1>3, <2>1
<1>4. CASE \E m \in Managers, picked \in SUBSET rows : PickRows(p, m, picked)
  BY <1>3, <1>4 DEF PickRows
<1>5. CASE \E m \in Managers : RebateSumToMT4(p, m)
  BY <1>3, <1>5, UnpaidRows DEF RebateSumToMT4
<1>6. CASE Pay(p)
  <2>1. \E pc \in {"mt4", "write", "refused", "done", "error"} :
           payout' = [payout EXCEPT ![p] = [r EXCEPT !.pc = pc]]
    BY <1>1, <1>6 DEF Pay, SaveRebateIn, PayoutCredited, PayoutRefused, MarkOver, FailPayout,
       TypeOK
  <2>2. \A pc \in {"mt4", "write", "refused", "done", "error"} : [r EXCEPT !.pc = pc] \in Payout
    BY DEF Payout
  <2> QED
    BY <1>2, <2>1, <2>2
<1> QED
  BY <1>4, <1>5, <1>6 DEF Pays

LEMMA TypeStep == TypeOK /\ JobInv /\ RowsInv /\ PayoutInv /\ [Next]_vars => TypeOK'
<1> SUFFICES ASSUME TypeOK, JobInv, RowsInv, PayoutInv, [Next]_vars PROVE TypeOK'
  OBVIOUS
<1>1. ASSUME NEW d \in Deals, NEW t \in Times \ {0}, Close(d, t) PROVE TypeOK'
  BY <1>1 DEF TypeOK, Close
<1>2. ASSUME NEW m \in Managers, UpdateAutoRebate(m) PROVE TypeOK'
  BY <1>2 DEF TypeOK, UpdateAutoRebate
<1>3. ASSUME NEW n \in Firings, Fire(n) \/ Advance(n) PROVE TypeOK'
  <2>1. FormOf(n) /\ MadeOf(n) /\ job[n] \in Job
    BY DEF JobInv, TypeOK
  <2>2. job' \in [Firings -> Job]
    BY <1>3, <2>1, JobType
  <2>3. CASE Fire(n)
    BY <2>2, <2>3 DEF TypeOK, Fire, dataVars, payVars
  <2>4. ASSUME NEW d \in Deals, TakeDeal(n, d) PROVE TypeOK'
    BY <2>2, <2>4 DEF TypeOK, TakeDeal, dataVars, payVars
  <2>5. CASE Accrue(n)
    BY <2>2, <2>5 DEF TypeOK, Accrue, dataVars, payVars
  <2>6. ASSUME NEW b \in BOOLEAN, CreditPayee(n, b) PROVE TypeOK'
    <3>1. Due(n) \in RowId
      BY <2>1, <2>6, DueRow DEF CreditPayee
    <3> QED
      BY <2>2, <2>6, <3>1 DEF TypeOK, CreditPayee, dataVars, payVars
  <2>7. CASE CommitFiring(n)
    <3>1. job[n].made \in SUBSET RowId /\ job[n].ok \subseteq job[n].made
      BY <2>1 DEF MadeOf, Job
    <3>2. job[n].at \in Deals
      <4>1. job[n].first # {} /\ job[n].todo = {}
        BY <2>1, <2>7 DEF CommitFiring, FormOf, Used
      <4> QED
        BY <2>1, <4>1 DEF FormOf, Job
    <3> QED
      BY <2>2, <2>7, <3>1, <3>2 DEF TypeOK, CommitFiring, dataVars, payVars
  <2>8. CASE FailFiring(n)
    BY <2>2, <2>8 DEF TypeOK, FailFiring, dataVars, payVars
  <2> QED
    BY <1>3, <2>3, <2>4, <2>5, <2>6, <2>7, <2>8 DEF Advance
<1>4. ASSUME NEW p \in Payouts, Pays(p) PROVE TypeOK'
  <2>1. payout' \in [Payouts -> Payout]
    BY <1>4, PayoutType
  <2>2. UNCHANGED <<time, auto, water, lock, rows, job, credited>>
    BY <1>4 DEF Pays, PickRows, RebateSumToMT4, Pay, SaveRebateIn, PayoutCredited,
       PayoutRefused, MarkOver, FailPayout, dataVars, jobVars
  <2>3. payout[p].sum \subseteq rows
    BY DEF PayoutInv, PayoutOf
  <2>4. over' \subseteq rows
    BY <1>4, <2>3, UnpaidRows DEF TypeOK, Pays, PickRows, RebateSumToMT4, Pay, SaveRebateIn,
       PayoutCredited, PayoutRefused, MarkOver, FailPayout
  <2>5. paid' \subseteq Payouts
    BY <1>4 DEF TypeOK, Pays, PickRows, RebateSumToMT4, Pay, SaveRebateIn, PayoutCredited,
       PayoutRefused, MarkOver, FailPayout
  <2> QED
    BY <2>1, <2>2, <2>4, <2>5 DEF TypeOK
<1>5. CASE UNCHANGED vars
  BY <1>5 DEF TypeOK, vars
<1>6. ASSUME NEW p \in Payouts, NEW m \in Managers,
             RebateSumToMT4(p, m) \/ \E picked \in SUBSET rows : PickRows(p, m, picked)
      PROVE  TypeOK'
  <2>1. Pays(p)
    BY <1>6 DEF Pays, Rests, RebateSumToMT4, PickRows, dataVars, jobVars
  <2> QED
    BY <1>4, <2>1
<1>7. ASSUME NEW p \in Payouts, Pay(p) PROVE TypeOK'
  <2>1. Pays(p)
    BY <1>7 DEF Pays, Rests, Pay, SaveRebateIn, PayoutCredited, PayoutRefused, MarkOver,
       FailPayout, dataVars, jobVars
  <2> QED
    BY <1>4, <2>1
<1> QED
  BY <1>1, <1>2, <1>3, <1>5, <1>6, <1>7 DEF Next
-----------------------------------------------------------------------------
(* The firings *)

JobOf(n) == FormOf(n) /\ MadeOf(n) /\ PaidUpTo(n) /\ InOrder(n)

LEMMA JobInvIs == JobInv <=> \A n \in Firings : JobOf(n)
  BY DEF JobInv, JobOf

\* What a firing has, in the terms of the type invariant.
LEMMA JobFields ==
    ASSUME TypeOK, NEW n \in Firings
    PROVE  /\ job[n].todo \subseteq Deals /\ job[n].first \subseteq Deals
           /\ job[n].at \in Deals \cup {NoDeal} /\ job[n].made \subseteq RowId
           /\ job[n].ok \subseteq RowId /\ job[n].beside \subseteq Firings
           /\ job[n].pc \in {"unused", "working", "done", "failed"}
  BY DEF TypeOK, Job

LEMMA TimesAre == TypeOK => \A d \in Deals : time[d] \in Nat
  BY RebatesAssumption DEF TypeOK, Times

\* A firing that is not at its first deal has one, whose rows are all there.
LEMMA AllPaid ==
    ASSUME TypeOK, NEW n \in Firings, JobOf(n), Used(n), job[n].todo = {}, AtEnd(n)
    PROVE  /\ job[n].at \in job[n].first /\ job[n].at # NoDeal
           /\ \A d \in job[n].first : /\ time[d] <= time[job[n].at]
                                      /\ \A m \in PayeesOf(d) : RowOf(n, d, m) \in job[n].made
<1>1. job[n].at \in job[n].first /\ job[n].at # NoDeal
  BY DEF JobOf, FormOf
<1>2. \A d \in job[n].first : time[d] <= time[job[n].at]
  BY DEF JobOf, InOrder
<1>3. ASSUME NEW d \in job[n].first, NEW m \in PayeesOf(d)
      PROVE  RowOf(n, d, m) \in job[n].made
  <2>1. d \in Deals /\ Payees[d] \in Seq(Managers)
    BY RebatesAssumption, JobFields
  <2>2. PICK i \in 1..Len(Payees[d]) : m = Payees[d][i]
    BY <1>3, <2>1 DEF PayeesOf
  <2>3. d # job[n].at \/ i < job[n].next
    BY <1>1, <2>1, <2>2 DEF AtEnd, JobOf, FormOf
  <2> QED
    BY <2>2, <2>3 DEF JobOf, PaidUpTo
<1> QED
  BY <1>1, <1>2, <1>3

LEMMA JobStays ==
    ASSUME TypeOK, NEW k \in Firings, JobOf(k), job'[k] = job[k],
           \A d \in Deals : time[d] > 0 => time'[d] = time[d],
           credited \subseteq credited'
    PROVE  JobOf(k)'
<1>1. FormOf(k)'
  BY DEF JobOf, FormOf, Used
<1>2. MadeOf(k)'
  BY DEF JobOf, MadeOf
<1>3. PaidUpTo(k)'
  BY DEF JobOf, PaidUpTo
<1>4. InOrder(k)'
  <2>1. \A d \in job[k].first : time'[d] = time[d]
    BY JobFields DEF JobOf, InOrder
  <2>2. job[k].todo \subseteq job[k].first
        /\ (job[k].first \ job[k].todo # {} => job[k].at \in job[k].first)
    BY DEF JobOf, FormOf
  <2> QED
    BY <2>1, <2>2 DEF JobOf, InOrder
<1> QED
  BY <1>1, <1>2, <1>3, <1>4 DEF JobOf

LEMMA CloseTimes ==
    ASSUME TypeOK, NEW d \in Deals, NEW t \in Times \ {0}, Close(d, t)
    PROVE  /\ \A e \in Deals \ {d} : time'[e] = time[e]
           /\ time[d] = 0 /\ time'[d] = t /\ t > 0
           /\ \A e \in Deals : time[e] > 0 => time'[e] = time[e]
           /\ \A e \in Deals : time[e] <= t
  BY TimesAre, RebatesAssumption DEF Close, TypeOK, Times

\* The list of a firing that begins.
LEMMA FireForm ==
    ASSUME TypeOK, NEW n \in Firings, Fire(n)
    PROVE  /\ \A k \in Firings \ {n} : job'[k] = job[k]
           /\ job[n].pc = "unused" /\ job'[n].pc = "working"
           /\ job'[n].first = {d \in Deals : time[d] > water} /\ job'[n].first # {}
           /\ job'[n].todo = job'[n].first /\ job'[n].at = NoDeal /\ job'[n].next = 1
           /\ job'[n].made = {} /\ job'[n].ok = {} /\ job'[n].beside = Working
           /\ UNCHANGED <<time, water, rows, over, credited, payout, paid>>
  BY DEF Fire, TypeOK, NewJob, dataVars, payVars

LEMMA TakesJob ==
    ASSUME TypeOK, NEW n \in Firings, NEW d \in Deals, JobOf(n), Takes(n, d)
    PROVE  JobOf(n)'
<1>0. /\ job'[n].first = job[n].first /\ job'[n].todo = job[n].todo \ {d}
      /\ job'[n].at = d /\ job'[n].next = 1 /\ time' = time /\ d \in job[n].first
      /\ job'[n].made = job[n].made /\ job'[n].ok = job[n].ok /\ credited' = credited
      /\ d # NoDeal /\ Used(n) /\ job'[n].pc = "working"
  BY RebatesAssumption DEF Takes, Only, JobOf, FormOf, Used
<1>1. FormOf(n)'
  <2>1. Payees[d] \in Seq(Managers)
    BY RebatesAssumption
  <2>2. job'[n].next <= Len(Payees[d]) + 1 /\ job'[n].next \in Nat \ {0}
    BY <1>0, <2>1
  <2> QED
    BY <1>0, <2>2 DEF FormOf, JobOf, Used, Takes
<1>2. MadeOf(n)'
  BY <1>0 DEF MadeOf, JobOf
<1>3. PaidUpTo(n)'
  <2> SUFFICES ASSUME NEW e \in job[n].first \ (job[n].todo \ {d}), NEW i \in 1..Len(Payees[e]),
                      e # d \/ i < 1
               PROVE  RowOf(n, e, Payees[e][i]) \in job[n].made
    BY <1>0 DEF PaidUpTo
  <2>1. e # d /\ e \in job[n].first \ job[n].todo /\ e \in Deals
    BY JobFields
  <2>2. e = job[n].at => i < job[n].next
    <3> SUFFICES ASSUME e = job[n].at PROVE i < job[n].next
      OBVIOUS
    <3>1. job[n].next > Len(Payees[e]) /\ job[n].next \in Nat /\ Len(Payees[e]) \in Nat
      BY <2>1, RebatesAssumption DEF Takes, AtEnd, JobOf, FormOf
    <3> QED
      BY <3>1
  <2> QED
    BY <2>1, <2>2 DEF JobOf, PaidUpTo
<1>4. InOrder(n)'
  <2>1. \A e \in Deals : time[e] \in Nat
    BY TimesAre
  <2> QED
    BY <1>0, <2>1, JobFields DEF InOrder, JobOf, Takes
<1> QED
  BY <1>1, <1>2, <1>3, <1>4 DEF JobOf

LEMMA AddsJob ==
    ASSUME TypeOK, NEW n \in Firings, JobOf(n), Adds(n)
    PROVE  JobOf(n)'
<1>0. /\ job'[n].first = job[n].first /\ job'[n].todo = job[n].todo
      /\ job'[n].at = job[n].at /\ job'[n].next = job[n].next + 1 /\ time' = time
      /\ job'[n].made = job[n].made \cup {Due(n)}
      /\ job'[n].ok \subseteq job[n].ok \cup {Due(n)}
      /\ Used(n) /\ job'[n].pc = "working"
      /\ job[n].at \in Deals /\ job[n].at # NoDeal
  BY RebatesAssumption DEF Adds, Only, HasPayee, Used
<1>1. FormOf(n)'
  <2>1. Payees[job[n].at] \in Seq(Managers)
    BY <1>0, RebatesAssumption
  <2>2. job[n].next + 1 <= Len(Payees[job[n].at]) + 1 /\ job[n].next + 1 \in Nat \ {0}
    BY <2>1 DEF Adds, HasPayee, JobOf, FormOf
  <2> QED
    BY <1>0, <2>2 DEF FormOf, JobOf, Used
<1>2. MadeOf(n)'
  <2>1. Due(n).firing = n /\ Due(n).deal \in job[n].first
    BY <1>0, DueRow DEF JobOf, FormOf, Adds
  <2>2. job'[n].ok \subseteq job'[n].made \cap credited'
    BY <1>0 DEF JobOf, MadeOf, Adds
  <2> QED
    BY <1>0, <2>1, <2>2 DEF MadeOf, JobOf
<1>3. PaidUpTo(n)'
  <2> SUFFICES ASSUME NEW e \in job[n].first \ job[n].todo, NEW i \in 1..Len(Payees[e]),
                      e # job[n].at \/ i < job[n].next + 1
               PROVE  RowOf(n, e, Payees[e][i]) \in job[n].made \cup {Due(n)}
    BY <1>0 DEF PaidUpTo
  <2>1. CASE e = job[n].at /\ i = job[n].next
    BY <2>1, DueRow DEF JobOf, Adds
  <2>2. CASE e # job[n].at \/ i < job[n].next
    BY <2>2 DEF JobOf, PaidUpTo
  <2>3. job[n].next \in Nat /\ i \in Nat
    BY DEF JobOf, FormOf
  <2> QED
    BY <2>1, <2>2, <2>3
<1>4. InOrder(n)'
  BY <1>0 DEF InOrder, JobOf
<1> QED
  BY <1>1, <1>2, <1>3, <1>4 DEF JobOf

LEMMA JobStep == TypeOK /\ JobInv /\ [Next]_vars => JobInv'
<1> SUFFICES ASSUME TypeOK, \A n \in Firings : JobOf(n), [Next]_vars, NEW k \in Firings
             PROVE  JobOf(k)'
  BY JobInvIs DEF JobInv, JobOf
<1> DEFINE Goal == JobOf(k)'
<1> SUFFICES Goal
  OBVIOUS
<1>1. ASSUME NEW d \in Deals, NEW t \in Times \ {0}, Close(d, t) PROVE Goal
  BY <1>1, CloseTimes, JobStays DEF Close
<1>2. ASSUME NEW n \in Firings, Fire(n) PROVE Goal
  <2>1. CASE k = n
    <3>1. \A d \in Deals : time[d] > water => time[d] > 0
      BY TimesAre, RebatesAssumption DEF TypeOK, Times
    <3> QED
      BY <1>2, <2>1, <3>1, FireForm DEF JobOf, FormOf, MadeOf, PaidUpTo, InOrder, Used
  <2>2. CASE k # n
    BY <1>2, <2>2, FireForm, JobStays
  <2> QED
    BY <2>1, <2>2
<1>3. ASSUME NEW n \in Firings, NEW d \in Deals, Takes(n, d) PROVE Goal
  BY <1>3, TakesJob, JobStays DEF Takes, Only
<1>4. ASSUME NEW n \in Firings, Adds(n) PROVE Goal
  BY <1>4, AddsJob, JobStays DEF Adds, Only
<1>5. ASSUME NEW n \in Firings, NEW how \in {"done", "failed"}, Ends(n, how) PROVE Goal
  <2>1. CASE k = n
    <3>0. /\ JobOf(n) /\ job[n].pc = "working" /\ job'[n].pc = how
          /\ job'[n].todo = job[n].todo /\ job'[n].at = job[n].at
          /\ job'[n].next = job[n].next /\ job'[n].made = job[n].made
          /\ job'[n].ok = job[n].ok /\ job'[n].first = job[n].first
          /\ time' = time /\ credited' = credited
      BY <1>5 DEF Ends, Only
    <3>1. FormOf(n)'
      BY <1>5, <3>0 DEF JobOf, FormOf, Used
    <3>2. MadeOf(n)' /\ PaidUpTo(n)' /\ InOrder(n)'
      BY <3>0 DEF JobOf, MadeOf, PaidUpTo, InOrder
    <3> QED
      BY <2>1, <3>1, <3>2 DEF JobOf
  <2>2. CASE k # n
    BY <1>5, <2>2, JobStays DEF Ends, Only
  <2> QED
    BY <2>1, <2>2
<1>6. ASSUME Rests PROVE Goal
  BY <1>6, JobStays DEF Rests
<1> HIDE DEF Goal
<1> QED
  BY <1>1, <1>2, <1>3, <1>4, <1>5, <1>6, StepForms DEF Commits, Fails, Pays
-----------------------------------------------------------------------------
(* Rows and order of the firings *)

\* Whatever a step is, rows and marks stay, a deal keeps its time and a firing that
\* has ended is as it was.
LEMMA Progress ==
    ASSUME TypeOK, [Next]_vars
    PROVE  /\ rows \subseteq rows' /\ over \subseteq over' /\ credited \subseteq credited'
           /\ \A d \in Deals : time[d] > 0 => time'[d] = time[d]
           /\ \A k \in Firings : job[k].pc \in {"done", "failed"} => job'[k] = job[k]
<1> DEFINE Goal == /\ rows \subseteq rows' /\ over \subseteq over' /\ credited \subseteq credited'
                   /\ \A d \in Deals : time[d] > 0 => time'[d] = time[d]
                   /\ \A k \in Firings : job[k].pc \in {"done", "failed"} => job'[k] = job[k]
<1> SUFFICES Goal
  OBVIOUS
<1>1. ASSUME NEW d \in Deals, NEW t \in Times \ {0}, Close(d, t) PROVE Goal
  BY <1>1, CloseTimes DEF Close
<1>2. ASSUME NEW n \in Firings, Fire(n) PROVE Goal
  BY <1>2, FireForm
<1>3. ASSUME NEW n \in Firings, NEW d \in Deals, Takes(n, d) PROVE Goal
  BY <1>3 DEF Takes, Only
<1>4. ASSUME NEW n \in Firings, Adds(n) PROVE Goal
  BY <1>4 DEF Adds, Only, HasPayee
<1>5. ASSUME NEW n \in Firings, Commits(n) \/ Fails(n) PROVE Goal
  BY <1>5 DEF Commits, Fails, Ends, Only
<1>6. ASSUME NEW p \in Payouts, Pays(p) PROVE Goal
  BY <1>6 DEF Pays, Rests, PickRows, RebateSumToMT4, Pay, SaveRebateIn, PayoutCredited,
     PayoutRefused, MarkOver, FailPayout
<1>7. ASSUME Rests, UNCHANGED <<over, payout, paid>> PROVE Goal
  BY <1>7 DEF Rests
<1> HIDE DEF Goal
<1> QED
  BY <1>1, <1>2, <1>3, <1>4, <1>5, <1>6, <1>7, StepForms

LEMMA BesideStep == TypeOK /\ BesideInv /\ [Next]_vars => BesideInv'
<1> SUFFICES ASSUME TypeOK, BesideInv, [Next]_vars, NEW n \in Firings, NEW k \in Firings,
                    n < k, Used(k)'
             PROVE  Used(n)' /\ (job'[n].pc = "working" => n \in job'[k].beside)
  BY DEF BesideInv
<1> DEFINE Goal == Used(n)' /\ (job'[n].pc = "working" => n \in job'[k].beside)
<1> SUFFICES Goal
  OBVIOUS
<1>0. Used(k) => Used(n) /\ (job[n].pc = "working" => n \in job[k].beside)
  BY DEF BesideInv
<1>1. ASSUME NEW d \in Deals, NEW t \in Times \ {0}, Close(d, t) PROVE Goal
  BY <1>0, <1>1 DEF Close, Used
<1>2. ASSUME NEW m \in Firings, Fire(m) PROVE Goal
  <2>1. CASE m = k
    <3>1. job[n].pc # "unused"
      BY <1>2, <2>1 DEF Fire, Firings
    <3>2. job'[n] = job[n] /\ job'[k].beside = Working
      BY <1>2, <2>1, FireForm DEF Firings
    <3> QED
      BY <3>1, <3>2 DEF Used, Working
  <2>2. CASE m # k
    BY <1>0, <1>2, <2>2, FireForm DEF Used
  <2> QED
    BY <2>1, <2>2
<1>3. ASSUME NEW m \in Firings, Only(m), job[m].pc = "working",
             job'[m].pc \in {"working", "done", "failed"}
      PROVE  Goal
  BY <1>0, <1>3 DEF Only, Used
<1>4. ASSUME Rests PROVE Goal
  BY <1>0, <1>4 DEF Rests, Used
<1> HIDE DEF Goal
<1> QED
  BY <1>1, <1>2, <1>3, <1>4, StepForms
     DEF Takes, Adds, HasPayee, Commits, Fails, Ends, Pays

LEMMA RowsStep == TypeOK /\ JobInv /\ RowsInv /\ [Next]_vars => RowsInv'
<1> SUFFICES ASSUME TypeOK, \A n \in Firings : JobOf(n), RowsInv, [Next]_vars
             PROVE  RowsInv'
  BY JobInvIs
<1> DEFINE Goal == RowsInv'
<1> SUFFICES Goal
  OBVIOUS
<1>0. /\ \A x \in rows : x.firing \in Firings /\ job[x.firing].pc = "done"
                         /\ x \in job[x.firing].made
      /\ \A n \in Firings : job[n].pc = "done" =>
            job[n].todo = {} /\ job[n].made \subseteq rows /\ job[n].ok \subseteq over
      /\ \A x \in credited : x.firing \in Firings /\ x \in job[x.firing].made
  BY DEF RowsInv, Done, TypeOK, RowId
<1>a. ASSUME rows' = rows, over \subseteq over', credited' = credited, job' = job PROVE Goal
  BY <1>a, <1>0 DEF RowsInv, Done
<1>1. ASSUME NEW d \in Deals, NEW t \in Times \ {0}, Close(d, t) PROVE Goal
  BY <1>1, <1>a DEF Close
<1>2. ASSUME NEW n \in Firings, Fire(n) PROVE Goal
  <2>1. job[n].made = {}
    BY <1>2, FireForm DEF JobOf, FormOf, Used
  <2> QED
    BY <1>0, <1>2, <2>1, FireForm DEF RowsInv, Done
<1>3. ASSUME NEW n \in Firings, NEW d \in Deals, Takes(n, d) PROVE Goal
  BY <1>0, <1>3 DEF Takes, Only, RowsInv, Done
<1>4. ASSUME NEW n \in Firings, Adds(n) PROVE Goal
  <2>1. Due(n).firing = n
    BY <1>4, DueRow DEF JobOf, Adds
  <2>2. job[n].pc = "working" /\ job'[n].made = job[n].made \cup {Due(n)}
        /\ credited' \subseteq credited \cup {Due(n)}
    BY <1>4 DEF Adds, HasPayee
  <2> QED
    BY <1>0, <1>4, <2>1, <2>2 DEF Adds, Only, RowsInv, Done
<1>5. ASSUME NEW n \in Firings, Commits(n) PROVE Goal
  <2>1. \A x \in job[n].made : x.firing = n
    BY DEF JobOf, MadeOf
  <2> QED
    BY <1>0, <1>5, <2>1 DEF Commits, Ends, Only, RowsInv, Done
<1>6. ASSUME NEW n \in Firings, Fails(n) PROVE Goal
  BY <1>0, <1>6 DEF Fails, Ends, Only, RowsInv, Done
<1>7. ASSUME Rests PROVE Goal
  BY <1>7, <1>a, Progress DEF Rests
<1> HIDE DEF Goal
<1> QED
  BY <1>1, <1>2, <1>3, <1>4, <1>5, <1>6, <1>7, StepForms DEF Pays
-----------------------------------------------------------------------------
(* The watermark *)

LEMMA RebatedStays ==
    ASSUME TypeOK, JobInv, [Next]_vars, NEW d \in Deals, Rebated(d)
    PROVE  Rebated(d)'
<1>1. CASE \E n \in Done : \A m \in PayeesOf(d) : RowOf(n, d, m) \in rows
  BY <1>1, Progress DEF Rebated, Done
<1>2. ASSUME NEW n \in Done, d \notin job[n].first,
             \E e \in job[n].first : time[e] = time[d],
             \A e \in job[n].first : time[e] <= time[d]
      PROVE  Rebated(d)'
  <2>1. job'[n] = job[n] /\ n \in Done'
    BY <1>2, Progress DEF Done
  <2>2. \A e \in job[n].first : time[e] > 0 /\ e \in Deals
    BY <1>2, JobFields DEF JobInv, InOrder, Done
  <2>3. \A e \in job[n].first : time'[e] = time[e]
    BY <2>2, Progress
  <2>4. time'[d] = time[d]
    BY <1>2, <2>2, Progress
  <2> QED
    BY <1>2, <2>1, <2>3, <2>4 DEF Rebated
<1> QED
  BY <1>1, <1>2 DEF Rebated

\* ReachInv for one firing and one deal.
ReachOf(n, d) ==
    Used(n) /\ time[d] > 0 =>
        d \in job[n].first \/ Rebated(d) \/ \A e \in job[n].first : time[e] <= time[d]

LEMMA ReachStep ==
    TypeOK /\ JobInv /\ ReachInv /\ WaterInv /\ [Next]_vars => ReachInv'
<1> SUFFICES ASSUME TypeOK, JobInv, ReachInv, WaterInv, [Next]_vars,
                    NEW n \in Firings, NEW d \in Deals
             PROVE  ReachOf(n, d)'
  BY DEF ReachInv, ReachOf
<1> DEFINE Goal == ReachOf(n, d)'
<1> SUFFICES Goal
  OBVIOUS
<1>0. ReachOf(n, d) /\ JobOf(n) /\ (Rebated(d) => Rebated(d)')
  BY JobInvIs, RebatedStays DEF ReachInv, ReachOf
<1>a. ASSUME time' = time, Used(n)' => Used(n), job'[n].first = job[n].first PROVE Goal
  BY <1>0, <1>a DEF ReachOf
<1>1. ASSUME NEW c \in Deals, NEW t \in Times \ {0}, Close(c, t) PROVE Goal
  <2>0. job' = job /\ job[n].first \subseteq Deals
    BY <1>1, JobFields DEF Close
  <2>1. \A e \in job[n].first : time'[e] = time[e] /\ e # c
    BY <1>0, <1>1, <2>0, CloseTimes, TimesAre DEF JobOf, InOrder
  <2>2. CASE d = c
    BY <1>1, <2>0, <2>1, <2>2, CloseTimes DEF ReachOf
  <2>3. CASE d # c
    BY <1>0, <1>1, <2>0, <2>1, <2>3, CloseTimes DEF ReachOf, Used
  <2> QED
    BY <2>2, <2>3
<1>2. ASSUME NEW m \in Firings, Fire(m) PROVE Goal
  <2>1. CASE m = n
    <3> SUFFICES ASSUME time[d] > 0, ~(time[d] > water) PROVE Rebated(d)
      BY <1>0, <1>2, <2>1, FireForm DEF ReachOf
    <3>1. time[d] \in 1..water
      BY TimesAre, RebatesAssumption DEF TypeOK, Times
    <3> QED
      BY <3>1 DEF WaterInv
  <2>2. CASE m # n
    BY <1>a, <1>2, <2>2, FireForm DEF Used
  <2> QED
    BY <2>1, <2>2
<1>3. ASSUME NEW m \in Firings, Only(m), job[m].pc = "working" PROVE Goal
  BY <1>a, <1>3 DEF Only, Used
<1>4. ASSUME Rests PROVE Goal
  BY <1>a, <1>4 DEF Rests, Used
<1> HIDE DEF Goal
<1> QED
  BY <1>1, <1>2, <1>3, <1>4, StepForms
     DEF Takes, Adds, HasPayee, Commits, Fails, Ends, Pays

\* The last deal of a committed firing is the latest of its list.
LEMMA LastDeal ==
    ASSUME TypeOK, JobInv, RowsInv, NEW k \in Firings, job[k].pc = "done"
    PROVE  /\ job[k].at \in job[k].first /\ job[k].first \subseteq Deals
           /\ \A e \in job[k].first : time[e] > 0 /\ time[e] <= time[job[k].at]
<1>1. JobOf(k) /\ job[k].todo = {} /\ job[k].first \subseteq Deals
  BY JobInvIs, JobFields DEF RowsInv, Done
<1> QED
  BY <1>1 DEF JobOf, FormOf, InOrder, Used

LEMMA WaterPassed ==
    ASSUME TypeOK, JobInv, RowsInv, ReachInv, WaterInv, [Next]_vars,
           NEW d \in Deals, time'[d] \in 1..water'
    PROVE  Rebated(d)'
<1> DEFINE Goal == Rebated(d)'
<1> SUFFICES Goal
  OBVIOUS
<1>0. Rebated(d) => Rebated(d)'
  BY RebatedStays
<1>a. ASSUME time'[d] = time[d], water' = water PROVE Goal
  BY <1>0, <1>a DEF WaterInv
<1>1. ASSUME NEW c \in Deals, NEW t \in Times \ {0}, Close(c, t) PROVE Goal
  <2>1. CASE d = c
    <3>0. water' = water /\ job' = job /\ rows' = rows
      BY <1>1 DEF Close
    <3>1. t \in 1..water /\ water # 0
      BY <1>1, <2>1, <3>0, CloseTimes, RebatesAssumption DEF TypeOK, Times
    <3>2. PICK k \in Firings : SetBy(k)
      BY <3>1 DEF WaterInv
    <3>3. /\ job[k].at \in job[k].first /\ job[k].first \subseteq Deals
          /\ \A e \in job[k].first : time[e] > 0 /\ time[e] <= time[job[k].at]
      BY <3>2, LastDeal DEF SetBy
    <3>4. \A e \in job[k].first : time'[e] = time[e] /\ e # d
      BY <1>1, <2>1, <3>3, CloseTimes, TimesAre
    <3>5. t = time[job[k].at]
      <4>1. time[job[k].at] <= t /\ t \in Nat
        BY <1>1, <3>3, CloseTimes, RebatesAssumption DEF Times
      <4>2. water = time[job[k].at] /\ time[job[k].at] \in Nat
        BY <3>2, <3>3, TimesAre DEF SetBy
      <4> QED
        BY <3>1, <4>1, <4>2
    <3>6. time'[d] = t
      BY <1>1, <2>1, CloseTimes
    <3>7. k \in Done'
      BY <3>0, <3>2 DEF SetBy, Done
    <3> QED
      BY <3>0, <3>3, <3>4, <3>5, <3>6, <3>7 DEF Rebated
  <2>2. CASE d # c
    BY <1>1, <1>a, <2>2, CloseTimes DEF Close
  <2> QED
    BY <2>1, <2>2
<1>2. ASSUME NEW n \in Firings, Fire(n) PROVE Goal
  BY <1>2, <1>a, FireForm
<1>3. ASSUME NEW n \in Firings, Commits(n) PROVE Goal
  <2>0. /\ JobOf(n) /\ Used(n) /\ job[n].todo = {} /\ AtEnd(n) /\ time' = time
        /\ n \in Done' /\ job'[n].first = job[n].first /\ job[n].made \subseteq rows'
        /\ water' = time[job[n].at] /\ ReachOf(n, d)
    BY <1>3, JobInvIs DEF Commits, Ends, Only, Used, Done, ReachInv, ReachOf
  <2>1. /\ job[n].at \in job[n].first /\ job[n].first \subseteq Deals
        /\ \A e \in job[n].first : /\ time[e] <= time[job[n].at]
                                   /\ \A m \in PayeesOf(e) : RowOf(n, e, m) \in job[n].made
    BY <2>0, AllPaid, JobFields
  <2>2. time[d] \in 1..time[job[n].at] /\ \A e \in Deals : time[e] \in Nat
    BY <2>0, TimesAre
  <2>3. CASE d \in job[n].first
    BY <2>0, <2>1, <2>3 DEF Rebated
  <2>4. CASE Rebated(d)
    BY <1>0, <2>4
  <2>5. CASE d \notin job[n].first /\ \A e \in job[n].first : time[e] <= time[d]
    <3>1. time[job[n].at] = time[d]
      BY <2>1, <2>2, <2>5
    <3> QED
      BY <2>0, <2>1, <2>5, <3>1 DEF Rebated
  <2> QED
    BY <2>0, <2>2, <2>3, <2>4, <2>5 DEF ReachOf
<1>4. ASSUME time' = time, water' = water PROVE Goal
  BY <1>4, <1>a
<1> HIDE DEF Goal
<1> QED
  BY <1>1, <1>2, <1>3, <1>4, StepForms DEF Takes, Adds, Only, Fails, Ends, Pays, Rests

\* A firing that commits sets the watermark.
LEMMA CommitSets ==
    ASSUME TypeOK, JobInv, BesideInv, NEW n \in Firings, Commits(n)
    PROVE  SetBy(n)'
<1>1. /\ JobOf(n) /\ Used(n) /\ job[n].todo = {} /\ AtEnd(n)
  BY JobInvIs DEF Commits, Ends, Used
<1>2. job[n].at # NoDeal
  BY <1>1, AllPaid
<1>3. /\ job'[n].pc = "done" /\ job'[n].at = job[n].at /\ water' = time'[job[n].at]
      /\ job[n].pc = "working"
      /\ \A m \in Firings \ {n} : job'[m] = job[m]
      /\ job'[n].beside = job[n].beside
  BY DEF Commits, Ends, Only
<1>4. ASSUME NEW m \in Firings, job'[m].pc = "working"
      PROVE  m \in job'[n].beside \/ n \in job'[m].beside
  <2>1. m # n /\ job[m].pc = "working"
    BY <1>3, <1>4
  <2>2. m < n \/ n < m
    BY <2>1 DEF Firings
  <2> QED
    BY <1>3, <2>1, <2>2 DEF BesideInv, Used
<1> QED
  BY <1>2, <1>3, <1>4 DEF SetBy

LEMMA SetByStays ==
    ASSUME TypeOK, JobInv, RowsInv, BesideInv, [Next]_vars,
           NEW k \in Firings, SetBy(k)
    PROVE  \E j \in Firings : SetBy(j)'
<1> DEFINE Goal == \E j \in Firings : SetBy(j)'
<1> SUFFICES Goal
  OBVIOUS
<1>0. /\ job[k].at \in job[k].first /\ job[k].first \subseteq Deals
      /\ \A e \in job[k].first : time[e] > 0
      /\ job'[k] = job[k]
  BY LastDeal, Progress DEF SetBy
<1>1. ASSUME NEW c \in Deals, NEW t \in Times \ {0}, Close(c, t) PROVE Goal
  <2>1. time'[job[k].at] = time[job[k].at] /\ job' = job /\ water' = water
    BY <1>0, <1>1, CloseTimes DEF Close
  <2>2. \A n \in Firings : \A e \in job[n].first : time'[e] = time[e]
    BY <1>1, CloseTimes, JobFields DEF JobInv, InOrder
  <2>3. SetBy(k)'
    BY <2>1, <2>2 DEF SetBy
  <2> QED
    BY <2>3
<1>2. ASSUME NEW n \in Firings, Fire(n) PROVE Goal
  <2>1. n # k
    BY <1>2, FireForm DEF SetBy
  <2>2. SetBy(k)'
    BY <1>2, <2>1, FireForm DEF SetBy
  <2> QED
    BY <2>2
<1>3. ASSUME NEW n \in Firings, Only(n), job[n].pc = "working", water' = water PROVE Goal
  <2>1. SetBy(k)'
    BY <1>0, <1>3 DEF Only, SetBy
  <2> QED
    BY <2>1
<1>4. ASSUME Rests PROVE Goal
  BY <1>4 DEF Rests, SetBy
<1>5. ASSUME NEW n \in Firings, Commits(n) PROVE Goal
  BY <1>5, CommitSets
<1> HIDE DEF Goal
<1> QED
  BY <1>1, <1>2, <1>3, <1>4, <1>5, StepForms DEF Takes, Adds, HasPayee, Fails, Ends, Pays

LEMMA WaterStep ==
    TypeOK /\ JobInv /\ BesideInv /\ RowsInv /\ ReachInv /\ WaterInv /\ [Next]_vars
        => WaterInv'
<1> SUFFICES ASSUME TypeOK, JobInv, BesideInv, RowsInv, ReachInv, WaterInv, [Next]_vars
             PROVE  WaterInv'
  OBVIOUS
<1>1. \A d \in Deals : time'[d] \in 1..water' => Rebated(d)'
  BY WaterPassed
<1>2. water' = 0 \/ \E k \in Firings : SetBy(k)'
  <2> DEFINE Goal == water' = 0 \/ \E k \in Firings : SetBy(k)'
  <2> SUFFICES Goal
    OBVIOUS
  <2>1. CASE \E k \in Firings : SetBy(k)
    BY <2>1, SetByStays
  <2>2. ASSUME NEW n \in Firings, Commits(n) PROVE Goal
    BY <2>2, CommitSets
  <2>3. ASSUME water = 0, water' = water PROVE Goal
    BY <2>3
  <2>4. CASE water = 0
    <3> HIDE DEF Goal
    <3> QED
      BY <2>2, <2>3, <2>4, StepForms, FireForm
         DEF Close, Takes, Adds, Fails, Pays, Rests
  <2> QED
    BY <2>1, <2>4 DEF WaterInv
<1> QED
  BY <1>1, <1>2 DEF WaterInv
-----------------------------------------------------------------------------
(* Firings one after the other *)

\* SequelInv for two firings.
SequelOf(n, k) ==
    Used(n) /\ ~OverlapBefore(n) =>
        /\ job[k].pc # "working"
        /\ job[k].pc = "done" => \A d \in job[k].first, e \in job[n].first : time[d] < time[e]

LEMMA OverlapStays ==
    ASSUME TypeOK, JobInv, NEW n \in Firings, OverlapBefore(n), [Next]_vars
    PROVE  OverlapBefore(n)'
<1>0. PICK k \in 1..n : job[k].beside # {}
  BY DEF OverlapBefore
<1>1. k \in Firings /\ FormOf(k)
  BY RebatesAssumption DEF Firings, JobInv
<1>2. Used(k)
  BY <1>0, <1>1 DEF FormOf
<1> DEFINE Goal == job'[k].beside = job[k].beside
<1>3. Goal
  <2>1. ASSUME NEW m \in Firings, Fire(m) PROVE Goal
    BY <1>1, <1>2, <2>1, FireForm DEF Used
  <2>2. ASSUME NEW m \in Firings, Only(m) PROVE Goal
    BY <1>1, <2>2 DEF Only
  <2>3. ASSUME job' = job PROVE Goal
    BY <2>3
  <2> HIDE DEF Goal
  <2> QED
    BY <2>1, <2>2, <2>3, StepForms DEF Close, Takes, Adds, Commits, Fails, Ends, Pays, Rests
<1> QED
  BY <1>0, <1>3 DEF OverlapBefore

\* When no firing before n overlaps another and n begins now, none does at all.
LEMMA NoOverlap ==
    ASSUME TypeOK, JobInv, BesideInv, NEW n \in Firings, Fire(n), ~OverlapBefore(n)'
    PROVE  (\A k \in Firings : job[k].beside = {}) /\ Working = {}
<1>1. ASSUME NEW k \in Firings PROVE job[k].beside = {}
  <2>1. CASE Used(k)
    <3>1. k # n /\ ~(n < k)
      BY <2>1, FireForm DEF Used, BesideInv
    <3>2. k \in 1..n /\ job'[k] = job[k]
      BY <3>1, FireForm DEF Firings
    <3> QED
      BY <3>2 DEF OverlapBefore
  <2>2. CASE ~Used(k)
    BY <2>2 DEF JobInv, FormOf
  <2> QED
    BY <2>1, <2>2
<1>2. n \in 1..n /\ job'[n].beside = Working
  BY FireForm DEF Firings
<1> QED
  BY <1>1, <1>2 DEF OverlapBefore

LEMMA SequelOrder ==
    ASSUME TypeOK, JobInv, BesideInv, RowsInv, SequelInv, [Next]_vars,
           NEW n \in Firings, NEW k \in Firings, k < n
    PROVE  SequelOf(n, k)'
<1> DEFINE Goal == SequelOf(n, k)'
<1> SUFFICES Goal
  OBVIOUS
<1>0. SequelOf(n, k) /\ (~OverlapBefore(n)' => ~OverlapBefore(n))
  BY OverlapStays DEF SequelInv, SequelOf
<1>t. \A m \in Firings : \A d \in job[m].first : time'[d] = time[d]
  BY Progress, JobFields DEF JobInv, InOrder
<1>a. ASSUME Used(n)' => Used(n), job'[k].pc = "working" => job[k].pc = "working",
             job'[k].pc = "done" => job[k].pc \in {"working", "done"},
             job'[k].first = job[k].first, job'[n].first = job[n].first
      PROVE  Goal
  BY <1>0, <1>t, <1>a DEF SequelOf
<1>1. ASSUME NEW m \in Firings, Fire(m) PROVE Goal
  <2>1. CASE m = n
    <3> SUFFICES ASSUME ~OverlapBefore(n)'
                 PROVE  /\ job'[k].pc # "working"
                        /\ job'[k].pc = "done" =>
                              \A d \in job'[k].first, e \in job'[n].first : time'[d] < time'[e]
      BY DEF SequelOf
    <3>1. (\A j \in Firings : job[j].beside = {}) /\ Working = {}
      BY <1>1, <2>1, NoOverlap
    <3>2. job'[k] = job[k] /\ job'[n].first = {d \in Deals : time[d] > water} /\ time' = time
      BY <1>1, <2>1, FireForm DEF Firings
    <3>3. job[k].pc = "done" => \A d \in job[k].first : time[d] <= water
      BY <3>1 DEF SequelInv, Done
    <3>4. job[k].first \subseteq Deals /\ (\A d \in Deals : time[d] \in Nat) /\ water \in Nat
      BY JobFields, TimesAre, RebatesAssumption DEF TypeOK, Times
    <3> QED
      BY <3>1, <3>2, <3>3, <3>4 DEF Working
  <2>2. CASE m # n
    <3>1. Used(n)' => Used(n) /\ Used(k)
      BY <1>1, <2>2, FireForm DEF Used, BesideInv
    <3>2. m = k => ~Used(n)'
      BY <1>1, <3>1, FireForm DEF Used
    <3>3. CASE m # k
      BY <1>1, <1>a, <2>2, <3>3, FireForm DEF Used
    <3> QED
      BY <3>2, <3>3 DEF SequelOf
  <2> QED
    BY <2>1, <2>2
<1>2. ASSUME NEW m \in Firings, Only(m), job[m].pc = "working" PROVE Goal
  BY <1>2, <1>a DEF Only, Used
<1>3. ASSUME job' = job PROVE Goal
  BY <1>3, <1>a DEF Used
<1> HIDE DEF Goal
<1> QED
  BY <1>1, <1>2, <1>3, StepForms
     DEF Close, Takes, Adds, HasPayee, Commits, Fails, Ends, Pays, Rests

LEMMA SequelStep ==
    TypeOK /\ JobInv /\ BesideInv /\ RowsInv /\ SequelInv /\ [Next]_vars => SequelInv'
<1> SUFFICES ASSUME TypeOK, JobInv, BesideInv, RowsInv, SequelInv, [Next]_vars
             PROVE  SequelInv'
  OBVIOUS
<1>1. \A n, k \in Firings : k < n => SequelOf(n, k)'
  BY SequelOrder
<1>2. ASSUME \A n \in Firings : job'[n].beside = {},
             NEW k \in Firings, job'[k].pc = "done", NEW d \in job'[k].first
      PROVE  time'[d] <= water'
  <2> DEFINE Goal == time'[d] <= water'
  <2> SUFFICES Goal
    OBVIOUS
  <2>t. \A m \in Firings : \A e \in job[m].first : time'[e] = time[e] /\ e \in Deals
    BY Progress, JobFields DEF JobInv, InOrder
  <2>a. ASSUME \A n \in Firings : job[n].beside = {}, job[k].pc = "done",
               job'[k].first = job[k].first, water' = water
        PROVE  Goal
    BY <1>2, <2>t, <2>a DEF SequelInv, Done
  <2>1. ASSUME NEW m \in Firings, Fire(m) PROVE Goal
    <3>1. job[m].beside = {}
      BY <2>1, FireForm DEF JobInv, FormOf, Used
    <3>2. \A n \in Firings : job[n].beside = {}
      BY <1>2, <2>1, <3>1, FireForm
    <3> QED
      BY <1>2, <2>1, <2>a, <3>2, FireForm
  <2>2. ASSUME NEW m \in Firings, Only(m), job'[m].pc # "done", water' = water PROVE Goal
    BY <1>2, <2>2, <2>a DEF Only
  <2>3. ASSUME NEW m \in Firings, Commits(m) PROVE Goal
    <3>0. /\ JobOf(m) /\ Used(m) /\ job[m].todo = {} /\ AtEnd(m)
          /\ water' = time[job[m].at] /\ job[m].pc = "working" /\ time' = time
          /\ job'[m].first = job[m].first
          /\ \A n \in Firings : job[n].beside = {}
      BY <1>2, <2>3, JobInvIs DEF Commits, Ends, Only, Used
    <3>1. job[m].at \in job[m].first /\ \A e \in job[m].first : time[e] <= time[job[m].at]
      BY <3>0, AllPaid
    <3>2. CASE k = m
      BY <1>2, <3>0, <3>1, <3>2
    <3>3. CASE k # m
      <4>1. job[k].pc = "done" /\ job[k].first = job'[k].first
        BY <1>2, <2>3, <3>3 DEF Commits, Ends, Only
      <4>2. ~OverlapBefore(m) /\ ~OverlapBefore(k)
        BY <3>0, RebatesAssumption DEF OverlapBefore, Firings
      <4>3. k < m
        <5>1. ~(m < k)
          BY <3>0, <4>1, <4>2 DEF SequelInv, Used
        <5> QED
          BY <3>3, <5>1 DEF Firings
      <4>4. time[d] < time[job[m].at]
        BY <1>2, <3>0, <3>1, <4>1, <4>2, <4>3 DEF SequelInv
      <4>5. time[d] \in Nat /\ time[job[m].at] \in Nat
        BY <1>2, <2>t, <3>1, <4>1, TimesAre
      <4> QED
        BY <3>0, <4>4, <4>5
    <3> QED
      BY <3>2, <3>3
  <2>4. ASSUME job' = job, water' = water PROVE Goal
    BY <1>2, <2>4, <2>a
  <2> HIDE DEF Goal
  <2> QED
    BY <2>1, <2>2, <2>3, <2>4, StepForms
       DEF Close, Takes, Adds, Fails, Ends, Pays, Rests
<1> QED
  BY <1>1, <1>2 DEF SequelInv, SequelOf, Used, Done
-----------------------------------------------------------------------------
(* The payouts *)

\* What a step of payout p does: it reads the rows, or moves on with what it read.
Paying(p) ==
    /\ \A q \in Payouts \ {p} : payout'[q] = payout[q]
    /\ payout[p].pc \in {"idle", "picked", "mt4", "write"}
    /\ paid \subseteq paid' /\ paid' \subseteq paid \cup {p}
    /\ \/ /\ payout[p].pc = "idle" /\ paid' = paid /\ over' = over
          /\ payout'[p].base = rows /\ payout'[p].after = Marked
          /\ payout'[p].sum \subseteq rows /\ payout'[p].again = payout'[p].sum \cap over
          /\ \/ p \notin ByLogin /\ payout'[p].pc = "picked"
             \/ /\ p \in ByLogin /\ payout'[p].pc = "mt4"
                /\ payout'[p].sum = Unpaid(payout'[p].mgr)
       \/ /\ payout[p].pc # "idle"
          /\ payout'[p].base = payout[p].base /\ payout'[p].after = payout[p].after
          /\ payout'[p].sum = payout[p].sum /\ payout'[p].mgr = payout[p].mgr
          /\ payout'[p].again = payout[p].again
          /\ \/ /\ payout[p].pc = "picked" /\ payout'[p].pc = "mt4"
                /\ paid' = paid /\ over' = over
             \/ /\ payout[p].pc = "mt4" /\ payout'[p].pc \in {"write", "refused"}
                /\ paid' = paid \cup {p} /\ over' = over
             \/ /\ payout'[p].pc \in {"refused", "error"}
                /\ paid' = paid /\ over' = over
             \/ /\ payout[p].pc = "write" /\ payout'[p].pc = "done" /\ paid' = paid
                /\ over' = over \cup (IF p \in ByLogin THEN Unpaid(payout[p].mgr)
                                                       ELSE payout[p].sum)

LEMMA PayForms ==
    ASSUME TypeOK, NEW p \in Payouts, Pays(p)
    PROVE  Paying(p)
<1> USE DEF Paying
<1>1. PICK r \in Payout : r = payout[p]
  BY DEF TypeOK
<1>2. CASE \E m \in Managers, picked \in SUBSET rows : PickRows(p, m, picked)
  BY <1>2 DEF PickRows, Reads, TypeOK
<1>3. CASE \E m \in Managers : RebateSumToMT4(p, m)
  BY <1>3, UnpaidRows DEF RebateSumToMT4, Reads, TypeOK
<1>4. ASSUME NEW pc, payout' = [payout EXCEPT ![p] = [r EXCEPT !.pc = pc]]
      PROVE  /\ \A q \in Payouts \ {p} : payout'[q] = payout[q]
             /\ payout'[p].pc = pc /\ payout'[p].base = r.base /\ payout'[p].after = r.after
             /\ payout'[p].sum = r.sum /\ payout'[p].mgr = r.mgr /\ payout'[p].again = r.again
  BY <1>4 DEF TypeOK, Payout
<1>5. CASE SaveRebateIn(p)
  BY <1>1, <1>4, <1>5 DEF SaveRebateIn, TypeOK
<1>6. ASSUME NEW b \in BOOLEAN, PayoutCredited(p, b) PROVE Paying(p)
  BY <1>1, <1>4, <1>6 DEF PayoutCredited, TypeOK
<1>7. CASE PayoutRefused(p)
  BY <1>1, <1>4, <1>7 DEF PayoutRefused, TypeOK
<1>8. CASE MarkOver(p)
  BY <1>1, <1>4, <1>8 DEF MarkOver, TypeOK
<1>9. CASE FailPayout(p)
  BY <1>1, <1>4, <1>9 DEF FailPayout, TypeOK
<1> QED
  BY <1>2, <1>3, <1>5, <1>6, <1>7, <1>8, <1>9 DEF Pays, Pay

\* The rows a payout read are committed and stay.
LEMMA ReadRows ==
    ASSUME TypeOK, RowsInv, [Next]_vars, NEW p \in Payouts, PayoutOf(p)
    PROVE  \A x \in payout[p].base :
               x \in rows' /\ x.firing \in Firings /\ job'[x.firing] = job[x.firing]
<1>1. \A x \in rows : x.firing \in Firings /\ job[x.firing].pc = "done"
  BY DEF TypeOK, RowId, RowsInv
<1> QED
  BY <1>1, Progress DEF PayoutOf

\* A payout that does nothing itself.
LEMMA PayoutStays ==
    ASSUME TypeOK, RowsInv, PayoutInv, [Next]_vars, NEW p \in Payouts,
           payout'[p] = payout[p], p \in paid' <=> p \in paid,
           \A q \in Payouts : payout[q].pc = "done" => payout'[q] = payout[q]
    PROVE  PayoutOf(p)'
<1>1. PayoutOf(p) /\ payout[p].after \subseteq Payouts
  BY DEF PayoutInv, TypeOK, Payout
<1>2. /\ \A x \in payout[p].base : x \in rows' /\ job'[x.firing] = job[x.firing]
      /\ over \subseteq over'
  BY <1>1, ReadRows, Progress
<1>3. \A q \in payout[p].after : payout'[q] = payout[q]
  BY <1>1 DEF PayoutOf
<1> QED
  BY <1>1, <1>2, <1>3 DEF PayoutOf

LEMMA PayoutMoves ==
    ASSUME TypeOK, RowsInv, PayoutInv, [Next]_vars, NEW p \in Payouts, Pays(p)
    PROVE  PayoutOf(p)'
<1>0. /\ PayoutOf(p) /\ payout[p].after \subseteq Payouts /\ Paying(p) /\ Rests
      /\ over \subseteq over'
  BY PayForms, Progress DEF PayoutInv, TypeOK, Payout, Pays
<1>1. CASE payout[p].pc = "idle"
  <2>1. /\ payout'[p].base = rows /\ payout'[p].after = Marked /\ over' = over
        /\ payout'[p].sum \subseteq rows /\ payout'[p].again = payout'[p].sum \cap over
        /\ rows' = rows /\ job' = job /\ paid' = paid /\ p \notin paid
    BY <1>0, <1>1 DEF Paying, Rests, PayoutOf
  <2>2. /\ payout'[p].base \subseteq rows'
        /\ \A x \in payout'[p].sum : /\ x \in payout'[p].base
                                     /\ \/ x \in payout'[p].again
                                        \/ x \notin job'[x.firing].ok
    <3>1. ASSUME NEW x \in rows, x \notin over PROVE x \notin job[x.firing].ok
      BY <3>1 DEF RowsInv, Done, TypeOK, RowId
    <3> QED
      BY <2>1, <3>1
  <2>3. \A q \in Marked : payout'[q] = payout[q] /\ payout[q].sum \subseteq over
    BY <1>0, <1>1 DEF Marked, Paying, PayoutInv, PayoutOf
  <2>4. \A q \in payout'[p].after : /\ payout'[q].pc = "done"
                                    /\ payout'[q].sum \cap payout'[p].sum
                                           \subseteq payout'[p].again
    BY <2>1, <2>3 DEF Marked
  <2>5. \/ p \notin ByLogin /\ payout'[p].pc = "picked"
        \/ p \in ByLogin /\ payout'[p].pc = "mt4" /\ payout'[p].sum = Unpaid(payout'[p].mgr)
    BY <1>0, <1>1 DEF Paying
  <2> QED
    BY <2>1, <2>2, <2>4, <2>5 DEF PayoutOf, Unpaid
<1>2. CASE payout[p].pc # "idle"
  <2>0. /\ payout'[p].base = payout[p].base /\ payout'[p].after = payout[p].after
        /\ payout'[p].sum = payout[p].sum /\ payout'[p].mgr = payout[p].mgr
        /\ payout'[p].again = payout[p].again
        /\ rows' = rows /\ job' = job
        /\ \A q \in payout[p].after : payout'[q] = payout[q]
    BY <1>0, <1>2 DEF Paying, Rests, PayoutOf
  <2>1. CASE payout[p].pc = "picked" /\ payout'[p].pc = "mt4" /\ paid' = paid /\ over' = over
    BY <1>0, <2>0, <2>1 DEF PayoutOf
  <2>2. CASE /\ payout[p].pc = "mt4" /\ payout'[p].pc \in {"write", "refused"}
             /\ paid' = paid \cup {p} /\ over' = over
    BY <1>0, <2>0, <2>2 DEF PayoutOf
  <2>3. CASE payout'[p].pc \in {"refused", "error"} /\ paid' = paid /\ over' = over
    BY <1>0, <2>0, <2>3 DEF PayoutOf
  <2>4. CASE /\ payout[p].pc = "write" /\ payout'[p].pc = "done" /\ paid' = paid
             /\ over' = over \cup (IF p \in ByLogin THEN Unpaid(payout[p].mgr)
                                                    ELSE payout[p].sum)
    <3>1. payout[p].sum \subseteq over'
      BY <1>0, <2>4 DEF PayoutOf, Unpaid
    <3> QED
      BY <1>0, <2>0, <2>4, <3>1 DEF PayoutOf
  <2> QED
    BY <1>0, <1>2, <2>1, <2>2, <2>3, <2>4 DEF Paying
<1> QED
  BY <1>1, <1>2

LEMMA PayoutStep == TypeOK /\ RowsInv /\ PayoutInv /\ [Next]_vars => PayoutInv'
<1> SUFFICES ASSUME TypeOK, RowsInv, PayoutInv, [Next]_vars, NEW p \in Payouts
             PROVE  PayoutOf(p)'
  BY DEF PayoutInv
<1> DEFINE Goal == PayoutOf(p)'
<1> SUFFICES Goal
  OBVIOUS
<1>1. ASSUME NEW q \in Payouts, Pays(q) PROVE Goal
  <2>1. CASE p = q
    BY <1>1, <2>1, PayoutMoves
  <2>2. CASE p # q
    BY <1>1, <2>2, PayForms, PayoutStays DEF Paying
  <2> QED
    BY <2>1, <2>2
<1>2. ASSUME UNCHANGED <<payout, paid>> PROVE Goal
  BY <1>2, PayoutStays
<1> HIDE DEF Goal
<1> QED
  BY <1>1, <1>2, StepForms, FireForm
     DEF Close, Takes, Adds, Commits, Fails, Ends, Only

LEMMA OverStep ==
    TypeOK /\ JobInv /\ PayoutInv /\ OverUnpaidExplained /\ [Next]_vars => OverUnpaidExplained'
<1> SUFFICES ASSUME TypeOK, JobInv, PayoutInv, OverUnpaidExplained, [Next]_vars,
                    NEW x, x \in over', ~WasPaid(x)'
             PROVE  \E p \in ByLogin : /\ payout'[p].pc = "done" /\ payout'[p].mgr = x.mgr
                                       /\ x \notin payout'[p].base
  BY DEF OverUnpaidExplained
<1> DEFINE Goal == \E p \in ByLogin : /\ payout'[p].pc = "done" /\ payout'[p].mgr = x.mgr
                                      /\ x \notin payout'[p].base
<1> SUFFICES Goal
  OBVIOUS
<1>0. credited \subseteq credited' /\ ByLogin \subseteq Payouts
  BY Progress, RebatesAssumption
<1>a. ASSUME x \in over, payout' = payout, paid' = paid PROVE Goal
  BY <1>0, <1>a DEF OverUnpaidExplained, WasPaid
<1>1. ASSUME NEW q \in Payouts, Pays(q) PROVE Goal
  <2>0. Paying(q) /\ PayoutOf(q) /\ rows' = rows
    BY <1>1, PayForms DEF PayoutInv, Pays, Rests
  <2>1. ~WasPaid(x)
    <3>1. \A p \in paid : p \in paid' /\ payout'[p].sum = payout[p].sum
      BY <2>0 DEF Paying, PayoutOf, TypeOK
    <3> QED
      BY <1>0, <3>1 DEF WasPaid
  <2>2. CASE x \in over
    <3>1. PICK p \in ByLogin : /\ payout[p].pc = "done" /\ payout[p].mgr = x.mgr
                               /\ x \notin payout[p].base
      BY <2>1, <2>2 DEF OverUnpaidExplained
    <3>2. payout'[p] = payout[p]
      BY <1>0, <2>0, <3>1 DEF Paying
    <3> QED
      BY <3>1, <3>2
  <2>3. CASE x \notin over
    <3>1. /\ payout[q].pc = "write" /\ payout'[q].pc = "done"
          /\ payout'[q].base = payout[q].base /\ payout'[q].mgr = payout[q].mgr
          /\ x \in (IF q \in ByLogin THEN Unpaid(payout[q].mgr) ELSE payout[q].sum)
      BY <2>0, <2>3 DEF Paying
    <3>2. q \in paid /\ x \notin payout[q].sum
      BY <2>0, <2>1, <3>1 DEF PayoutOf, WasPaid
    <3>3. q \in ByLogin /\ x.mgr = payout[q].mgr /\ x \notin payout[q].base
      BY <2>0, <2>3, <3>1, <3>2 DEF PayoutOf, Unpaid
    <3> QED
      BY <3>1, <3>3
  <2> QED
    BY <2>2, <2>3
<1>2. ASSUME NEW n \in Firings, Commits(n) PROVE Goal
  <2>1. job[n].ok \subseteq credited /\ credited' = credited
    BY <1>2 DEF JobInv, MadeOf, Commits, Ends
  <2>2. x \in over /\ payout' = payout /\ paid' = paid
    BY <1>2, <2>1 DEF Commits, Ends, Only, WasPaid
  <2> QED
    BY <1>a, <2>2
<1>3. ASSUME over' = over, payout' = payout, paid' = paid PROVE Goal
  BY <1>3, <1>a
<1> HIDE DEF Goal
<1> QED
  BY <1>1, <1>2, <1>3, StepForms, FireForm DEF Close, Takes, Adds, Fails, Ends, Only
-----------------------------------------------------------------------------
(* The theorems *)

LEMMA InvInit == Init => IInv
<1> SUFFICES ASSUME Init PROVE IInv
  OBVIOUS
<1>1. TypeOK
  BY TypeInit
<1>2. /\ \A n \in Firings : job[n] = NewJob("unused", {}, {}, {})
      /\ \A p \in Payouts : payout[p] = NoPayout
      /\ \A d \in Deals : time[d] = 0
      /\ rows = {} /\ over = {} /\ credited = {} /\ paid = {} /\ water = 0
  BY DEF Init
<1>3. \A n \in Firings :
         /\ job[n].pc = "unused" /\ job[n].first = {} /\ job[n].todo = {}
         /\ job[n].at = NoDeal /\ job[n].next = 1 /\ job[n].made = {} /\ job[n].ok = {}
         /\ job[n].beside = {}
  BY <1>2 DEF NewJob
<1>4. JobInv
  <2> SUFFICES ASSUME NEW n \in Firings PROVE JobOf(n)
    BY JobInvIs
  <2>1. FormOf(n)
    <3>1. job[n].next \in Nat \ {0}
      BY <1>3
    <3>2. job[n].pc = "unused" /\ job[n].at = NoDeal /\ job[n].todo = job[n].first
      BY <1>3
    <3>3. job[n].first = {} /\ job[n].made = {} /\ job[n].beside = {}
      BY <1>3
    <3> QED
      BY <3>1, <3>2, <3>3 DEF FormOf, Used
  <2>2. MadeOf(n) /\ PaidUpTo(n) /\ InOrder(n)
    BY <1>3 DEF MadeOf, PaidUpTo, InOrder
  <2> QED
    BY <2>1, <2>2 DEF JobOf
<1>5. BesideInv /\ RowsInv /\ ReachInv /\ SequelInv
  BY <1>2, <1>3 DEF BesideInv, RowsInv, ReachInv, SequelInv, Done, Used
<1>6. WaterInv
  BY <1>2 DEF WaterInv
<1>7. PayoutInv
  BY <1>2 DEF PayoutInv, PayoutOf, NoPayout
<1>8. OverUnpaidExplained
  BY <1>2 DEF OverUnpaidExplained
<1> QED
  BY <1>1, <1>4, <1>5, <1>6, <1>7, <1>8 DEF IInv

LEMMA InvStep == IInv /\ [Next]_vars => IInv'
  BY TypeStep, JobStep, BesideStep, RowsStep, ReachStep, WaterStep, SequelStep, PayoutStep,
     OverStep DEF IInv

LEMMA Invariant == Spec => []IInv
  BY InvInit, InvStep, PTL DEF Spec

\* Every variable keeps its type: a row is one of a firing, a deal and a manager, and
\* only committed rows count as paid.
THEOREM TypeCorrect == Spec => []TypeOK
<1>1. IInv => TypeOK
  BY DEF IInv
<1> QED
  BY <1>1, Invariant, PTL

\* Every deal at or below the watermark has the rows of all its payees, whatever
\* fails or overlaps, unless it came with the very time up to which a firing read.
THEOREM NoDealSkipped == Spec => []RebatedUpToWatermark
<1>1. IInv => RebatedUpToWatermark
  BY DEF IInv, WaterInv, Rebated, RebatedUpToWatermark
<1> QED
  BY <1>1, Invariant, PTL

\* Two rows of one deal for one manager, and two credits for them, in firings x < y.
LEMMA TwiceExplained ==
    ASSUME IInv, NEW x \in RowId, NEW y \in RowId,
           x \in job[x.firing].made, y \in job[y.firing].made,
           x.deal = y.deal, x.firing < y.firing, ~OverlapBefore(y.firing)
    PROVE  job[x.firing].pc = "failed"
<1>1. x.firing \in Firings /\ y.firing \in Firings
  BY DEF RowId
<1>2. x.deal \in job[x.firing].first /\ x.deal \in job[y.firing].first /\ x.deal \in Deals
  BY <1>1 DEF IInv, JobInv, MadeOf, RowId
<1>3. Used(x.firing) /\ Used(y.firing)
  BY <1>1 DEF IInv, JobInv, FormOf
<1>4. job[x.firing].pc # "working"
  BY <1>1, <1>3 DEF IInv, SequelInv
<1>5. job[x.firing].pc = "done" => time[x.deal] < time[x.deal]
  BY <1>1, <1>2, <1>3 DEF IInv, SequelInv
<1>6. time[x.deal] \in Nat
  BY <1>2, TimesAre DEF IInv
<1> QED
  BY <1>1, <1>3, <1>4, <1>5, <1>6, JobFields DEF IInv, Used

\* Without overlapping firings no deal earns a manager two rows.
THEOREM RowsOnceUnlessOverlap == Spec => []RowsTwiceExplained
<1>1. IInv => RowsTwiceExplained
  <2> SUFFICES ASSUME IInv, NEW x \in rows, NEW y \in rows,
                      x.deal = y.deal, x.firing < y.firing, ~OverlapBefore(y.firing)
               PROVE  FALSE
    BY DEF RowsTwiceExplained
  <2>1. /\ x \in RowId /\ y \in RowId
        /\ job[x.firing].pc = "done"
        /\ x \in job[x.firing].made /\ y \in job[y.firing].made
    BY DEF IInv, TypeOK, RowsInv
  <2> QED
    BY <2>1, TwiceExplained
<1> QED
  BY <1>1, Invariant, PTL

\* The job credits a manager twice for a deal only after a rollback or an overlap.
THEOREM CreditsOnceUnlessRollback == Spec => []CreditedTwiceExplained
<1>1. IInv => CreditedTwiceExplained
  <2> SUFFICES ASSUME IInv, NEW x \in credited, NEW y \in credited,
                      x.deal = y.deal, x.firing < y.firing, ~OverlapBefore(y.firing)
               PROVE  job[x.firing].pc = "failed"
    BY DEF CreditedTwiceExplained
  <2>1. /\ x \in RowId /\ y \in RowId
        /\ x \in job[x.firing].made /\ y \in job[y.firing].made
    BY DEF IInv, TypeOK, RowsInv
  <2> QED
    BY <2>1, TwiceExplained
<1> QED
  BY <1>1, Invariant, PTL

\* Of two payouts that were credited with the same row, and of a payout and a firing, none
\* had marked the row when another read, unless that one is a saveRebateIn for which the
\* row was picked although the list showed it as paid.  So rebateSumToMT4 never pays what
\* is marked (findRebateByLogin, updRebateOver, updRebateOverByLogin).
THEOREM NoMarkedRowPaid == Spec => []PaidTwiceExplained
<1>1. IInv => PaidTwiceExplained
  BY DEF IInv, TypeOK, PayoutInv, PayoutOf, PaidTwiceExplained
<1> QED
  BY <1>1, Invariant, PTL

\* A row that counts as paid was credited, or rebateSumToMT4 marked it without having
\* summed it.
THEOREM MarkedRowsPaid == Spec => []OverUnpaidExplained
<1>1. IInv => OverUnpaidExplained
  BY DEF IInv
<1> QED
  BY <1>1, Invariant, PTL

LEMMA WaterBack ==
    ASSUME IInv, [Next]_vars, water' < water
    PROVE  \E n \in Firings, k \in Done :
               /\ job[n].pc = "working" /\ job'[n].pc = "done"
               /\ k \in job[n].beside \/ n \in job[k].beside
<1> DEFINE Goal == \E n \in Firings, k \in Done :
                       /\ job[n].pc = "working" /\ job'[n].pc = "done"
                       /\ k \in job[n].beside \/ n \in job[k].beside
<1> SUFFICES Goal
  OBVIOUS
<1>0. water \in Nat /\ TypeOK
  BY RebatesAssumption DEF IInv, TypeOK, Times
<1>1. ASSUME NEW n \in Firings, Commits(n) PROVE Goal
  <2>0. /\ JobOf(n) /\ Used(n) /\ job[n].todo = {} /\ AtEnd(n)
        /\ water' = time[job[n].at] /\ job[n].pc = "working" /\ job'[n].pc = "done"
    BY <1>1, JobInvIs DEF IInv, Commits, Ends, Used
  <2>1. job[n].at \in job[n].first /\ job[n].at \in Deals
    BY <1>0, <2>0, AllPaid, JobFields
  <2>2. water # 0
    BY <1>0, <2>0, <2>1, TimesAre
  <2>3. PICK k \in Firings : SetBy(k)
    BY <2>2 DEF IInv, WaterInv
  <2>4. ~(time[job[n].at] > water)
    BY <1>0, <2>0, <2>1, TimesAre
  <2> QED
    BY <2>0, <2>1, <2>3, <2>4 DEF SetBy, Done
<1>2. ASSUME water' = water PROVE Goal
  BY <1>0, <1>2
<1> HIDE DEF Goal
<1> QED
  BY <1>0, <1>1, <1>2, StepForms, FireForm DEF Close, Takes, Adds, Fails, Pays, Rests

\* The watermark moves back only when a firing commits that overlapped a committed one.
THEOREM WatermarkBackOnlyAfterOverlap == Spec => WatermarkBackExplained
<1>1. IInv /\ [Next]_vars =>
         [water' < water =>
            \E n \in Firings, k \in Done :
                /\ job[n].pc = "working" /\ job'[n].pc = "done"
                /\ k \in job[n].beside \/ n \in job[k].beside]_vars
  BY WaterBack
<1> QED
  BY <1>1, Invariant, PTL DEF Spec, WatermarkBackExplained
-----------------------------------------------------------------------------
(* What a commit carries, who holds t_temp_time, and that firings move on *)

\* What firing n makes visible: its rows are those of all the payees of all its
\* deals, and the watermark is at or after all of them.
CommitIsWhole(n) ==
    job[n].pc = "working" /\ job'[n].pc = "done" =>
        \A d \in job[n].first : /\ time[d] <= water'
                                /\ \A m \in PayeesOf(d) : RowOf(n, d, m) \in rows'

\* Rows and watermark change in no step but a commit.
CommitsAlone ==
    rows' # rows \/ water' # water =>
        \E n \in Firings : job[n].pc = "working" /\ job'[n].pc = "done"

Commit == CommitsAlone /\ \A n \in Firings : CommitIsWhole(n)

LEMMA CommitHolds == ASSUME IInv, [Next]_vars PROVE Commit
<1>0. TypeOK /\ \A n \in Firings : JobOf(n)
  BY JobInvIs DEF IInv
<1>1. ASSUME NEW n \in Firings, Commits(n) PROVE Commit
  <2>0. /\ JobOf(n) /\ Used(n) /\ job[n].todo = {} /\ AtEnd(n) /\ water' = time[job[n].at]
        /\ rows' = rows \cup job[n].made
        /\ job[n].pc = "working" /\ job'[n].pc = "done"
        /\ \A k \in Firings \ {n} : job'[k] = job[k]
    BY <1>0, <1>1 DEF Commits, Ends, Only, Used
  <2>1. CommitIsWhole(n)
    BY <1>0, <2>0, AllPaid DEF CommitIsWhole
  <2>2. \A k \in Firings \ {n} : CommitIsWhole(k)
    BY <2>0 DEF CommitIsWhole
  <2> QED
    BY <2>0, <2>1, <2>2 DEF Commit, CommitsAlone
<1>2. ASSUME UNCHANGED <<rows, water>>,
             \A n \in Firings : job[n].pc = "working" => job'[n].pc # "done"
      PROVE  Commit
  BY <1>2 DEF Commit, CommitsAlone, CommitIsWhole
<1>3. ASSUME NEW n \in Firings, Fire(n) PROVE Commit
  BY <1>0, <1>2, <1>3, FireForm
<1>4. ASSUME NEW n \in Firings, Fails(n) PROVE Commit
  BY <1>2, <1>4 DEF Fails, Ends, Only
<1> QED
  BY <1>0, <1>1, <1>2, <1>3, <1>4, StepForms DEF Close, Takes, Adds, Only, Pays, Rests

\* The rows of a firing and its watermark come together or not at all: a commit
\* brings the rows of every payee of every deal it had found and passes them all, and
\* nothing else moves rows or watermark (TradesServiceImpl.refreshTradesToRebate).
THEOREM CommitsAreWhole == Spec => [][Commit]_vars
<1>1. IInv /\ [Next]_vars => [Commit]_vars
  BY CommitHolds
<1> QED
  BY <1>1, Invariant, PTL DEF Spec

\* The row lock of t_temp_time belongs to the firing that has taken its last deal.
LockInv == \A n \in Firings : lock = n <=> job[n].pc = "working" /\ job[n].todo = {}

\* No step but one that takes or gives back the lock touches it.
LEMMA LockForms ==
    ASSUME TypeOK, [Next]_vars, NEW P,
           UNCHANGED <<lock, job>> => P,
           ASSUME NEW n \in Firings, Fire(n), lock' = lock PROVE P,
           ASSUME NEW n \in Firings, NEW d \in Deals, Takes(n, d),
                  IF job[n].todo = {d} THEN lock = 0 /\ lock' = n ELSE lock' = lock PROVE P,
           ASSUME NEW n \in Firings, Adds(n), lock' = lock PROVE P,
           ASSUME NEW n \in Firings, Commits(n), lock' = 0 PROVE P,
           ASSUME NEW n \in Firings, Fails(n), lock' = IF lock = n THEN 0 ELSE lock PROVE P
    PROVE  P
<1>1. ASSUME NEW n \in Firings, NEW d \in Deals, TakeDeal(n, d) PROVE P
  <2>1. IF job[n].todo = {d} THEN lock = 0 /\ lock' = n ELSE lock' = lock
    BY <1>1 DEF TakeDeal
  <2> QED
    BY <1>1, <2>1, TakesForm
<1>2. ASSUME NEW n \in Firings, Accrue(n) \/ \E b \in BOOLEAN : CreditPayee(n, b) PROVE P
  <2>1. lock' = lock
    BY <1>2 DEF Accrue, CreditPayee
  <2> QED
    BY <1>2, <2>1, AddsForm
<1>3. ASSUME NEW n \in Firings, CommitFiring(n) PROVE P
  <2>1. lock' = 0 /\ job'[n].pc = "done"
    BY <1>3 DEF CommitFiring, TypeOK, Job
  <2>2. Commits(n)
    BY <1>3, <2>1, EndsForm DEF Fails, Ends
  <2> QED
    BY <2>1, <2>2
<1>4. ASSUME NEW n \in Firings, FailFiring(n) PROVE P
  <2>1. lock' = (IF lock = n THEN 0 ELSE lock) /\ job'[n].pc = "failed"
    BY <1>4 DEF FailFiring, TypeOK, Job
  <2>2. Fails(n)
    BY <1>4, <2>1, EndsForm DEF Commits, Ends
  <2> QED
    BY <2>1, <2>2
<1>5. ASSUME NEW n \in Firings, Fire(n) PROVE P
  BY <1>5 DEF Fire
<1>6. ASSUME UNCHANGED <<lock, job>> PROVE P
  BY <1>6
<1>7. ASSUME NEW p \in Payouts, Pay(p) PROVE P
  BY <1>6, <1>7 DEF Pay, SaveRebateIn, PayoutCredited, PayoutRefused, MarkOver, FailPayout, jobVars
<1> QED
  BY <1>1, <1>2, <1>3, <1>4, <1>5, <1>6, <1>7
     DEF Next, Advance, Close, UpdateAutoRebate, RebateSumToMT4, PickRows, jobVars, vars

LEMMA LockStep == TypeOK /\ JobInv /\ LockInv /\ [Next]_vars => LockInv'
<1> SUFFICES ASSUME TypeOK, \A n \in Firings : JobOf(n), LockInv, [Next]_vars PROVE LockInv'
  BY JobInvIs
<1>0. \A n \in Firings : n # 0
  BY DEF Firings
<1>1. ASSUME NEW n \in Firings, Fire(n), lock' = lock PROVE LockInv'
  BY <1>1, FireForm DEF LockInv
<1>2. ASSUME NEW n \in Firings, NEW d \in Deals, Takes(n, d),
             IF job[n].todo = {d} THEN lock = 0 /\ lock' = n ELSE lock' = lock
      PROVE  LockInv'
  <2>1. \A k \in Firings \ {n} : lock' = k <=> job'[k].pc = "working" /\ job'[k].todo = {}
    BY <1>0, <1>2 DEF LockInv, Takes, Only
  <2>2. lock' = n <=> job'[n].pc = "working" /\ job'[n].todo = {}
    BY <1>2 DEF LockInv, Takes
  <2> QED
    BY <2>1, <2>2 DEF LockInv
<1>3. ASSUME NEW n \in Firings, Adds(n), lock' = lock PROVE LockInv'
  BY <1>3 DEF LockInv, Adds, Only, HasPayee
<1>4. ASSUME NEW n \in Firings, Commits(n), lock' = 0 PROVE LockInv'
  <2>1. lock = n
    BY <1>4 DEF LockInv, Commits, Ends
  <2> QED
    BY <1>0, <1>4, <2>1 DEF LockInv, Commits, Ends, Only
<1>5. ASSUME NEW n \in Firings, Fails(n), lock' = IF lock = n THEN 0 ELSE lock PROVE LockInv'
  BY <1>0, <1>5 DEF LockInv, Fails, Ends, Only
<1> QED
  BY <1>1, <1>2, <1>3, <1>4, <1>5, LockForms DEF LockInv

\* Whom the others wait for has nothing left to wait for: t_temp_time is locked just
\* by the firing that has taken the last of its deals, until it ends, so that firings
\* that overlap never wait for each other in a circle (updTempTime).
THEOREM LockedByTheLast == Spec => []LockInv
<1>1. Init => LockInv
  BY DEF Init, LockInv, Firings, NewJob
<1>2. IInv /\ LockInv /\ [Next]_vars => LockInv'
  BY LockStep DEF IInv
<1> QED
  BY <1>1, <1>2, Invariant, PTL DEF Spec

\* What firing n does in a step, if anything: it begins, goes to one deal less, goes to
\* the next payee of its deal, of whom there are Len(Payees[d]), or ends for good.
MovesOn(n) ==
    \/ job'[n] = job[n]
    \/ job[n].pc = "unused" /\ job'[n].pc = "working"
    \/ /\ job[n].pc = "working" /\ job'[n].pc = "working"
       /\ \/ \E d \in job[n].todo : job'[n].todo = job[n].todo \ {d} /\ job'[n].next = 1
          \/ /\ job'[n].todo = job[n].todo /\ job'[n].at = job[n].at
             /\ job'[n].next = job[n].next + 1 /\ job[n].next <= Len(Payees[job[n].at])
    \/ job[n].pc = "working" /\ job'[n].pc \in {"done", "failed"}

\* No firing goes round in circles: every step of one brings it nearer to its end,
\* which EveryDealPassed needs beside fairness.
THEOREM FiringsMoveOn == Spec => [][\A n \in Firings : MovesOn(n)]_vars
<1>1. ASSUME TypeOK, [Next]_vars PROVE \A n \in Firings : MovesOn(n)
  <2>1. ASSUME NEW n \in Firings, MovesOn(n), \A k \in Firings \ {n} : job'[k] = job[k]
        PROVE  \A k \in Firings : MovesOn(k)
    BY <2>1 DEF MovesOn
  <2>2. ASSUME NEW n \in Firings, Fire(n) PROVE \A k \in Firings : MovesOn(k)
    BY <1>1, <2>1, <2>2, FireForm DEF MovesOn
  <2>3. ASSUME NEW n \in Firings, NEW d \in Deals, Takes(n, d)
        PROVE  \A k \in Firings : MovesOn(k)
    BY <2>1, <2>3 DEF MovesOn, Takes, Only
  <2>4. ASSUME NEW n \in Firings, Adds(n) PROVE \A k \in Firings : MovesOn(k)
    BY <2>1, <2>4 DEF MovesOn, Adds, Only, HasPayee
  <2>5. ASSUME NEW n \in Firings, Commits(n) PROVE \A k \in Firings : MovesOn(k)
    BY <2>1, <2>5 DEF MovesOn, Commits, Ends, Only
  <2>6. ASSUME NEW n \in Firings, Fails(n) PROVE \A k \in Firings : MovesOn(k)
    BY <2>1, <2>6 DEF MovesOn, Fails, Ends, Only
  <2>7. ASSUME job' = job PROVE \A k \in Firings : MovesOn(k)
    BY <2>7 DEF MovesOn
  <2> QED
    BY <1>1, <2>2, <2>3, <2>4, <2>5, <2>6, <2>7, StepForms DEF Close, Pays, Rests
<1>2. IInv /\ [Next]_vars => [\A n \in Firings : MovesOn(n)]_vars
  BY <1>1 DEF IInv
<1> QED
  BY <1>2, Invariant, PTL DEF Spec
-----------------------------------------------------------------------------
(* The abstract specification *)

LEMMA LedgerInit == Init => Ledger!Init
  BY DEF Init, NoPayout, Marked, Ledger!Init

LEMMA LedgerStep == IInv /\ [Next]_vars => [Ledger!Next]_(Ledger!vars)
<1> SUFFICES ASSUME IInv, [Next]_vars PROVE [Ledger!Next]_(Ledger!vars)
  OBVIOUS
<1> DEFINE Goal == [Ledger!Next]_(Ledger!vars)
<1> SUFFICES Goal
  OBVIOUS
<1>0. TypeOK
  BY DEF IInv
<1>1. ASSUME UNCHANGED <<payout, paid>> PROVE Goal
  BY <1>1 DEF Ledger!vars, Marked
<1>2. ASSUME NEW p \in Payouts, Pays(p) PROVE Goal
  <2> DEFINE closed == {q \in Payouts : payout[q].pc \in {"done", "refused", "error"}}
  <2>0. /\ Paying(p) /\ PayoutOf(p)
        /\ p \notin closed
    BY <1>0, <1>2, PayForms DEF IInv, PayoutInv, Paying
  <2>1. CASE /\ payout'[p].pc \in {"picked", "mt4", "write"} /\ paid' = paid
    <3>1. Marked' = Marked /\ closed' = closed
      BY <2>0, <2>1 DEF Marked, Paying
    <3> QED
      BY <2>1, <3>1 DEF Ledger!vars
  <2>2. CASE payout'[p].pc \in {"refused", "error"} /\ paid' = paid
    <3>1. Marked' = Marked /\ closed' = closed \cup {p}
      BY <2>0, <2>2 DEF Marked, Paying
    <3>2. Ledger!Close(p)
      BY <2>0, <2>2, <3>1 DEF Ledger!Close
    <3> QED
      BY <3>2 DEF Ledger!Next
  <2>3. CASE payout[p].pc = "mt4" /\ payout'[p].pc = "write" /\ paid' = paid \cup {p}
    <3>1. Marked' = Marked /\ closed' = closed /\ p \notin paid
      BY <2>0, <2>3 DEF Marked, Paying, PayoutOf
    <3>2. Ledger!Move(p)
      BY <2>0, <2>3, <3>1 DEF Ledger!Move
    <3> QED
      BY <3>2 DEF Ledger!Next
  <2>4. CASE payout[p].pc = "mt4" /\ payout'[p].pc = "refused" /\ paid' = paid \cup {p}
    <3>1. Marked' = Marked /\ closed' = closed \cup {p} /\ p \notin paid
      BY <2>0, <2>4 DEF Marked, Paying, PayoutOf
    <3>2. Ledger!MoveUnseen(p)
      BY <2>0, <2>4, <3>1 DEF Ledger!MoveUnseen
    <3> QED
      BY <3>2 DEF Ledger!Next
  <2>5. CASE payout[p].pc = "write" /\ payout'[p].pc = "done" /\ paid' = paid
    <3>1. Marked' = Marked \cup {p} /\ closed' = closed \cup {p} /\ p \in paid
      BY <2>0, <2>5 DEF Marked, Paying, PayoutOf
    <3>2. Ledger!Book(p)
      BY <2>0, <2>5, <3>1 DEF Ledger!Book
    <3> QED
      BY <3>2 DEF Ledger!Next
  <2> HIDE DEF closed, Goal
  <2> QED
    BY <2>0, <2>1, <2>2, <2>3, <2>4, <2>5 DEF Paying
<1> HIDE DEF Goal
<1> QED
  BY <1>0, <1>1, <1>2, StepForms, FireForm DEF Close, Takes, Adds, Commits, Fails, Ends, Only

\* Payouts keep the promise of TransferLedger: no row is marked before MT4 confirmed
\* the credit, no payout is credited twice, and none acts after it has answered.
THEOREM ImplementsLedger == Spec => LedgerSpec
<1>1. LedgerSpec <=> Ledger!Init /\ [][Ledger!Next]_(Ledger!vars)
  BY DEF LedgerSpec, Ledger!Spec
<1> QED
  BY <1>1, LedgerInit, LedgerStep, Invariant, PTL DEF Spec

\* A rebate marked by a payout was credited by MT4 for that payout, and a payout that
\* has ended orders no credit any more (RebateServiceImpl.saveRebateIn, rebateSumToMT4).
THEOREM PayoutsSettle == Spec => []Ledger!Covered /\ [][Ledger!Settles]_(Ledger!vars)
  BY ImplementsLedger, Ledger!RecordsAreCovered, Ledger!RequestsSettle, PTL DEF LedgerSpec
=============================================================================
