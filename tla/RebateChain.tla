----------------------------- MODULE RebateChain -----------------------------
(***************************************************************************)
(* How refreshTradesToRebate divides one deal.  Every level of agents has  *)
(* a rebate per lot, a fixed amount or a number of points, or none.  The   *)
(* trader earns the rebate of its own level.  Going up from there, each    *)
(* manager earns what its rebate exceeds the highest one met so far, fixed *)
(* amounts and points being counted apart.  Every share is rounded to      *)
(* cents.  The hierarchy is data: nothing keeps it from having a cycle.    *)
(***************************************************************************)
EXTENDS Integers, Sequences, FiniteSets, Functions

CONSTANTS
    Managers,     \* rows of t_sys_manager
    Trader,       \* the manager whose account made the deal
    Values,       \* rebates of t_group_rebate, in cents or points
    PointValue,   \* what a point is worth per lot, in cents (mathCurrencyPoint)
    Volumes,      \* volumes of a deal, in ten-thousandths of a lot
    MaxParents,   \* the managers above the trader that are looked at (100)
    NoManager     \* the belongid of a manager without a superior

ASSUME ChainAssumption ==
    /\ Trader \in Managers
    /\ NoManager \notin Managers
    /\ Values \subseteq Nat
    /\ PointValue \in Nat
    /\ Volumes \subseteq Nat
    /\ MaxParents \in Nat

VARIABLES
    parent,       \* belongid of every manager
    setting,      \* the row of t_group_rebate for every manager's level
    volume,       \* volume of the deal
    pc,           \* where the division is
    at,           \* the manager to look at next
    left,         \* how many more managers may be looked at
    mark,         \* highest rebate met so far, per kind
    missing,      \* the kind whose mark is null, if any
    rows,         \* the rows inserted for the deal, in order
    total,        \* not in the code: what the rows add up to
    seen          \* not in the code: the managers looked at

inputs == <<parent, setting, volume>>
vars == <<parent, setting, volume, pc, at, left, mark, missing, rows, total, seen>>
-----------------------------------------------------------------------------
Kind == {"fixed", "point"}

Setting == [kind : Kind, value : Values] \cup [kind : {"none"}, value : {0}]

RebateRow == [mgr : Managers, rebate : Nat]

TypeOK ==
    /\ parent \in [Managers -> Managers \cup {NoManager}]
    /\ setting \in [Managers -> Setting]
    /\ volume \in Volumes
    /\ pc \in {"self", "up", "done", "failed"}
    /\ at \in Managers \cup {NoManager}
    /\ left \in 0..MaxParents
    /\ mark \in [Kind -> Nat]
    /\ missing \in Kind \cup {"none"}
    /\ rows \in Seq(RebateRow)
    /\ total \in Nat
    /\ seen \subseteq Managers

Init ==
    /\ parent \in [Managers -> Managers \cup {NoManager}]
    /\ setting \in [Managers -> Setting]
    /\ volume \in Volumes
    /\ pc = "self"
    /\ at = Trader
    /\ left = MaxParents
    /\ mark = [k \in Kind |-> 0]
    /\ missing = "none"
    /\ rows = <<>>
    /\ total = 0
    /\ seen = {}
-----------------------------------------------------------------------------
Worth(kind, value) == IF kind = "fixed" THEN value ELSE PointValue * value

Scale == 10000

\* getFixedRebate and getPointRebate: half a cent and more is rounded up, what is
\* negative is nothing.
Share(kind, excess) ==
    IF excess > 0 THEN (volume * Worth(kind, excess) + Scale \div 2) \div Scale ELSE 0

\* insertManagerRebate, for a positive rebate.
Insert(m, rebate) ==
    /\ rows' = IF rebate > 0 THEN Append(rows, [mgr |-> m, rebate |-> rebate]) ELSE rows
    /\ total' = total + rebate

\* Variant: the trader's rebate leaves the other kind at 0 instead of null.
OtherThanNone(kind) == "none"

\* The trader's row of t_group_rebate has a value in one of its two columns.
Other(kind) == CHOOSE k \in Kind : k # kind

Self ==
    LET own == setting[Trader]
    IN  /\ pc = "self"
        /\ IF own.kind = "none"
           THEN UNCHANGED <<mark, missing, rows, total>>
           ELSE /\ mark' = [mark EXCEPT ![own.kind] = own.value]
                /\ missing' = Other(own.kind)
                /\ Insert(Trader, Share(own.kind, own.value))
        /\ pc' = "up"
        /\ at' = parent[Trader]
        /\ seen' = {Trader}
        /\ UNCHANGED <<inputs, left>>

\* Variants: the mark follows every manager; the mark stays at the trader's.
RaiseAlways(kind, value) == [mark EXCEPT ![kind] = value]
RaiseNever(kind, value) == mark

Raise(kind, value) == IF value > mark[kind] THEN [mark EXCEPT ![kind] = value] ELSE mark

\* Variant: the number of managers is not counted down.
CountUncounted == left

MayLookUp == pc = "up" /\ left > 0 /\ at # NoManager

Count == left - 1

LookUp ==
    LET its == setting[at]
    IN  /\ MayLookUp
        /\ its.kind = "none" \/ its.kind # missing
        /\ IF its.kind = "none"
           THEN UNCHANGED <<mark, rows, total>>
           ELSE /\ mark' = Raise(its.kind, its.value)
                /\ Insert(at, Share(its.kind, its.value - mark[its.kind]))
        /\ left' = Count
        /\ at' = parent[at]
        /\ seen' = seen \cup {at}
        /\ UNCHANGED <<inputs, pc, missing>>

\* MathUtil.subtract of a null: the firing of the job fails.
LookUpNull ==
    /\ MayLookUp
    /\ setting[at].kind # "none"
    /\ setting[at].kind = missing
    /\ pc' = "failed"
    /\ left' = Count
    /\ seen' = seen \cup {at}
    /\ UNCHANGED <<inputs, at, mark, missing, rows, total>>

\* Variant: a manager without a rebate ends the division.
StopAtNone ==
    /\ pc = "up"
    /\ left = 0 \/ at = NoManager \/ setting[at].kind = "none"
    /\ pc' = "done"
    /\ UNCHANGED <<inputs, at, left, mark, missing, rows, total, seen>>

Stop ==
    /\ pc = "up"
    /\ left = 0 \/ at = NoManager
    /\ pc' = "done"
    /\ UNCHANGED <<inputs, at, left, mark, missing, rows, total, seen>>

Next == Self \/ LookUp \/ LookUpNull \/ Stop

Spec == Init /\ [][Next]_vars

\* The thread of the job runs on.
FairSpec == Spec /\ WF_vars(Next)
-----------------------------------------------------------------------------
(* Properties *)

\* A manager earns at most one row of a deal, whatever the hierarchy: one that is
\* met again in a cycle does not exceed the mark it has raised itself.
OneRowEach ==
    \A i, j \in 1..Len(rows) : rows[i].mgr = rows[j].mgr => i = j

\* The marks are the highest rebates met so far.
Highest(kind) ==
    /\ \A m \in seen : setting[m].kind = kind => setting[m].value <= mark[kind]
    /\ mark[kind] = 0 \/ \E m \in seen : setting[m].kind = kind /\ setting[m].value = mark[kind]

\* What a deal costs is set by the highest rebates on the chain, however many
\* managers share it: the rows add up to them but for half a cent per manager.
TotalIsHighest ==
    pc # "failed" =>
        LET exact == volume * Worth("fixed", mark["fixed"]) + volume * Worth("point", mark["point"])
            slack == (Scale \div 2) * (MaxParents - left + 1)
        IN  /\ Highest("fixed") /\ Highest("point")
            /\ exact - slack <= Scale * total
            /\ Scale * total <= exact + slack

\* A firing fails on a deal just when the trader has a rebate of one kind and a
\* manager above one of the other.
MixedFails ==
    pc = "failed" <=>
        /\ setting[Trader].kind # "none"
        /\ \E m \in seen : setting[m].kind \notin {"none", setting[Trader].kind}

\* With m, all managers above m were looked at.
ChainIsSeen == \A m \in seen : parent[m] \in seen \cup {NoManager}

\* Nobody on the chain is left out: all managers above the trader were looked at, or
\* as many different ones as may be; what a cycle takes is not taken from others.
ChainLookedAt ==
    pc = "done" => Trader \in seen /\ (ChainIsSeen \/ Cardinality(seen) = MaxParents + 1)

\* The division of a deal ends, in a cycle of managers as well.
DivisionEnds == <>(pc \in {"done", "failed"})
-----------------------------------------------------------------------------
(* The inductive invariant behind the safety properties *)

\* Who earned a row was looked at, and its rebate counts.
RowsInv ==
    \A i \in 1..Len(rows) :
        /\ rows[i].mgr \in seen
        /\ setting[rows[i].mgr].kind \in Kind

StartInv ==
    /\ pc = "self" => /\ seen = {} /\ rows = <<>> /\ total = 0 /\ missing = "none"
                      /\ left = MaxParents
                      /\ mark["fixed"] = 0 /\ mark["point"] = 0
    /\ pc # "self" => missing = IF setting[Trader].kind = "none" THEN "none"
                                ELSE Other(setting[Trader].kind)

\* No manager was looked at twice, unless there is none that was not.
ChainInv ==
    /\ IsFiniteSet(seen)
    /\ pc # "self" => Trader \in seen
    /\ pc = "up" =>
          /\ \E m \in seen : parent[m] = at
          /\ \A m \in seen : parent[m] \in seen \cup {at}
          /\ ChainIsSeen \/ Cardinality(seen) = MaxParents - left + 1

Rebates == [i \in DOMAIN rows |-> rows[i].rebate]

TotalInv == total = SumFunctionOnSet(Rebates, DOMAIN rows)

IInv ==
    /\ TypeOK
    /\ StartInv
    /\ ChainInv
    /\ ChainLookedAt
    /\ TotalInv
    /\ RowsInv
    /\ OneRowEach
    /\ TotalIsHighest
    /\ MixedFails
=============================================================================
