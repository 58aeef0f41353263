------------------------------- MODULE InGold -------------------------------
(***************************************************************************)
(* Deposits ("in gold").  A customer saves an order (a row of              *)
(* t_sys_in_gold); payment gateways call back, possibly several times, to  *)
(* say that it is paid; staff approve or refuse it.  A callback (when      *)
(* automatic deposits are on) and an approval both order the MT4 server to *)
(* credit the customer before they write the row.                          *)
(*                                                                         *)
(* A request is one HTTP call served by one thread inside one database     *)
(* transaction: it reads the row once (REPEATABLE READ, so the values stay *)
(* those of that read), talks to MT4 and to the mail server, writes the    *)
(* row by id with no condition on its state, and commits.  An exception    *)
(* rolls the row back and leaves the MT4 credit where it is.               *)
(***************************************************************************)
EXTENDS Naturals, Sequences

CONSTANTS
    Orders,    \* ids of deposit orders
    BBook,     \* the orders whose customer's group trades on the B book
    Amounts,   \* the dollar amounts a form may carry
    Locked,    \* callbacks served under the controller's monitor
    Plain,     \* callbacks served without it
    Untold,    \* those of them that give one answer whatever became of the order
    Notify,    \* payNotify calls: find the order by its order number
    Gaozhi,    \* result calls of the Gaozhi gateway
    Reviews,   \* decisions posted by staff
    NoOrder,   \* the order of a request that has not arrived yet
    NoReq      \* the owner of a free monitor

Callbacks == Locked \cup Plain \cup Notify

Requests == Callbacks \cup Gaozhi \cup Reviews

ASSUME InGoldAssumption ==
    /\ BBook \subseteq Orders
    /\ Amounts \subseteq Nat \ {0}
    /\ NoOrder \notin Orders
    /\ NoReq \notin Requests
    /\ Locked \cap (Plain \cup Notify \cup Gaozhi \cup Reviews) = {}
    /\ Untold \subseteq Plain
    /\ Plain \cap (Notify \cup Gaozhi \cup Reviews) = {}
    /\ Notify \cap (Gaozhi \cup Reviews) = {}
    /\ Gaozhi \cap Reviews = {}

VARIABLES
    row,        \* the committed row of every order
    autoIn,     \* t_sys_setting.autoIn: deposits are credited automatically
    monitor,    \* the request inside synchronized (this), or NoReq
    pc,         \* where every request is
    ctx,        \* what every request has read and means to write
    applied,    \* requests whose credit the MT4 server has applied
    log         \* per order, the requests that have written its row, in order

vars == <<row, autoIn, monitor, pc, ctx, applied, log>>
-----------------------------------------------------------------------------
Decided == {"PASS", "REFUSE"}

PayState == {"ABSENT", "UNPAY", "PAY"} \cup Decided

\* Whether order_number still is the one save() drew.  Callbacks overwrite it
\* with an empty string or the gateway's own number.
OrderNumber == {"own", "other"}

Row == [state : PayState, dollar : Amounts \cup {0}, no : OrderNumber, online : BOOLEAN]

Ended == {"ok", "error"}

Step == {"idle", "waiting", "mt4", "mail", "write"} \cup Ended

\* `saw` is not read by the code: how many writes of the row its read saw.
Context == [order : Orders \cup {NoOrder}, to : {"PASS", "REFUSE", "PAY"},
            dollar : Amounts \cup {0}, no : OrderNumber, saw : Nat]

Means(o, to, dollar, no, saw) ==
    [order |-> o, to |-> to, dollar |-> dollar, no |-> no, saw |-> saw]

TypeOK ==
    /\ row \in [Orders -> Row]
    /\ autoIn \in BOOLEAN
    /\ monitor \in Locked \cup {NoReq}
    /\ pc \in [Requests -> Step]
    /\ ctx \in [Requests -> Context]
    /\ applied \subseteq Requests
    /\ log \in [Orders -> Seq(Requests)]
    /\ \A h \in Requests : pc[h] # "idle" => ctx[h].order \in Orders

Init ==
    /\ row = [o \in Orders |-> [state |-> "ABSENT", dollar |-> 0,
                                no |-> "own", online |-> FALSE]]
    /\ autoIn \in BOOLEAN
    /\ monitor = NoReq
    /\ pc = [h \in Requests |-> "idle"]
    /\ ctx = [h \in Requests |-> Means(NoOrder, "PAY", 0, "own", 0)]
    /\ applied = {}
    /\ log = [o \in Orders |-> <<>>]
-----------------------------------------------------------------------------
(* Customers and administrators *)

\* A customer asks for `asked` dollars and pays money worth `paid` dollars.  An
\* offline payment (payType 4) counts as paid at once.
Save(o, asked, paid, online) ==
    /\ row[o].state = "ABSENT"
    /\ row' = [row EXCEPT ![o] =
                 [state  |-> IF online THEN "UNPAY" ELSE "PAY",
                  dollar |-> IF asked >= paid + 1 THEN paid ELSE asked,
                  no     |-> IF online THEN "own" ELSE "other",
                  online |-> online]]
    /\ UNCHANGED <<autoIn, monitor, pc, ctx, applied, log>>

SaveSysSetting ==
    /\ autoIn' = ~autoIn
    /\ UNCHANGED <<row, monitor, pc, ctx, applied, log>>
-----------------------------------------------------------------------------
(* Requests: arrival, reading the row, ending *)

\* A gateway notifies an order that is paid on line; the same order may be
\* notified by any number of calls.
Notified(h, o) ==
    /\ h \notin Reviews
    /\ pc[h] = "idle"
    /\ row[o].state # "ABSENT"
    /\ row[o].online
    /\ pc' = [pc EXCEPT ![h] = "waiting"]
    /\ ctx' = [ctx EXCEPT ![h] = Means(o, "PAY", 0, "own", 0)]
    /\ UNCHANGED <<row, autoIn, monitor, applied, log>>

\* Staff post the review form: the decision and the values the page carried.
ReviewPosted(h, o, to, dollar, no) ==
    /\ h \in Reviews
    /\ pc[h] = "idle"
    /\ row[o].state # "ABSENT"
    /\ pc' = [pc EXCEPT ![h] = "waiting"]
    /\ ctx' = [ctx EXCEPT ![h] = Means(o, to, dollar, no, 0)]
    /\ UNCHANGED <<row, autoIn, monitor, applied, log>>

\* Variant: every kind of request takes the monitor.
GotoTakingMonitor(h, step) ==
    /\ pc' = [pc EXCEPT ![h] = step]
    /\ monitor' = IF step \in Ended THEN NoReq ELSE h

\* Variant: an exception leaves the monitor taken.
GotoKeepingMonitor(h, step) ==
    /\ pc' = [pc EXCEPT ![h] = step]
    /\ monitor' = IF h \notin Locked THEN monitor
                  ELSE IF step = "ok" THEN NoReq ELSE h

\* A request that ends releases the monitor it holds.
Goto(h, step) ==
    /\ pc' = [pc EXCEPT ![h] = step]
    /\ monitor' = IF h \notin Locked THEN monitor
                  ELSE IF step \in Ended THEN NoReq ELSE h

\* Variant: the callbacks are not synchronized.
MayEnterAnyTime(h) == pc[h] = "waiting"

MayEnter(h) == pc[h] = "waiting" /\ (h \in Locked => monitor = NoReq)

\* Variant: automatic deposits skip the bookkeeping of A-book orders.
BeginCallbackAutoOnly(h) ==
    LET o    == ctx[h].order
        auto == autoIn /\ o \in BBook
    IN  /\ h \in Callbacks
        /\ MayEnter(h)
        /\ Goto(h, IF row[o].state # "UNPAY" \/ (autoIn /\ ~auto) THEN "ok"
                   ELSE IF auto THEN "mt4" ELSE "write")
        /\ ctx' = [ctx EXCEPT ![h] = Means(o, IF auto THEN "PASS" ELSE "PAY",
                                            row[o].dollar, "other", Len(log[o]))]
        /\ UNCHANGED <<row, autoIn, applied, log>>

\* checkResultDinpay and payNotify: only an unpaid order is looked at further.
\* payNotify no longer finds an order whose number was overwritten and fails.
BeginCallback(h) ==
    LET o    == ctx[h].order
        auto == autoIn /\ o \in BBook
    IN  /\ h \in Callbacks
        /\ MayEnter(h)
        /\ Goto(h, IF h \in Notify /\ row[o].no # "own" THEN "error"
                   ELSE IF row[o].state # "UNPAY" THEN "ok"
                   ELSE IF auto THEN "mt4" ELSE "write")
        /\ ctx' = [ctx EXCEPT ![h] =
                     Means(o, IF auto THEN "PASS" ELSE "PAY", row[o].dollar,
                           IF h \in Notify THEN row[o].no ELSE "other", Len(log[o]))]
        /\ UNCHANGED <<row, autoIn, applied, log>>

\* updateInGoldByResult: any state is overwritten once the amounts agree.
BeginGaozhi(h) ==
    LET o == ctx[h].order
    IN  /\ h \in Gaozhi
        /\ MayEnter(h)
        /\ \E agrees \in BOOLEAN : Goto(h, IF agrees THEN "write" ELSE "ok")
        /\ ctx' = [ctx EXCEPT ![h] = Means(o, "PAY", row[o].dollar, row[o].no, Len(log[o]))]
        /\ UNCHANGED <<row, autoIn, applied, log>>

\* Variant: a second review of a passed order goes through.
BeginReviewUnlessRefused(h) ==
    LET o == ctx[h].order
    IN  /\ h \in Reviews
        /\ MayEnter(h)
        /\ Goto(h, IF row[o].state = "REFUSE" THEN "ok"
                   ELSE IF ctx[h].to = "PASS" /\ o \in BBook THEN "mt4" ELSE "mail")
        /\ ctx' = [ctx EXCEPT ![h] =
                     Means(o, ctx[h].to, ctx[h].dollar, ctx[h].no, Len(log[o]))]
        /\ UNCHANGED <<row, autoIn, applied, log>>

\* saveReview: a decided order is left alone; an unpaid one is not.
BeginReview(h) ==
    LET o == ctx[h].order
    IN  /\ h \in Reviews
        /\ MayEnter(h)
        /\ Goto(h, IF row[o].state \in Decided THEN "ok"
                   ELSE IF ctx[h].to = "PASS" /\ o \in BBook THEN "mt4" ELSE "mail")
        /\ ctx' = [ctx EXCEPT ![h] =
                     Means(o, ctx[h].to, ctx[h].dollar, ctx[h].no, Len(log[o]))]
        /\ UNCHANGED <<row, autoIn, applied, log>>
-----------------------------------------------------------------------------
(* Requests: MT4, mail, commit, rollback *)

\* The server credits the account and its "0" arrives.  A callback's mail may
\* fail without consequence, so it goes straight to its write.
CreditConfirmed(h) ==
    /\ pc[h] = "mt4"
    /\ applied' = applied \cup {h}
    /\ Goto(h, IF h \in Reviews THEN "mail" ELSE "write")
    /\ UNCHANGED <<row, autoIn, ctx, log>>

\* The server credits the account and the connection breaks: connectMt4
\* returns "-100" or null, which its callers take for a refusal.
CreditUnconfirmed(h) ==
    /\ pc[h] = "mt4"
    /\ applied' = applied \cup {h}
    /\ Goto(h, "ok")
    /\ UNCHANGED <<row, autoIn, ctx, log>>

\* Variant: any answer of the server counts as success.
CreditRefusedUnnoticed(h) ==
    /\ pc[h] = "mt4"
    /\ Goto(h, IF h \in Reviews THEN "mail" ELSE "write")
    /\ UNCHANGED <<row, autoIn, ctx, applied, log>>

CreditRefused(h) ==
    /\ pc[h] = "mt4"
    /\ Goto(h, "ok")
    /\ UNCHANGED <<row, autoIn, ctx, applied, log>>

MailSent(h) ==
    /\ pc[h] = "mail"
    /\ Goto(h, "write")
    /\ UNCHANGED <<row, autoIn, ctx, applied, log>>

\* The customer's mail cannot be sent: the review returns before it writes.
MailFailed(h) ==
    /\ pc[h] = "mail"
    /\ Goto(h, "ok")
    /\ UNCHANGED <<row, autoIn, ctx, applied, log>>

\* updReviewStateByResult (to PAY) and updReviewState (the decisions), with the
\* commit that follows.
Write(h) ==
    LET o == ctx[h].order
    IN  /\ pc[h] = "write"
        /\ row' = [row EXCEPT ![o] =
                     [state  |-> ctx[h].to,
                      dollar |-> IF ctx[h].to = "PAY" THEN row[o].dollar ELSE ctx[h].dollar,
                      no     |-> ctx[h].no,
                      online |-> row[o].online]]
        /\ log' = [log EXCEPT ![o] = Append(@, h)]
        /\ Goto(h, "ok")
        /\ UNCHANGED <<autoIn, ctx, applied>>

\* An exception (no connection to MT4, a null field, a database error, a lock
\* wait that times out, the server going down): the transaction rolls back.
Fail(h) ==
    /\ pc[h] \in {"mt4", "mail", "write"} \/ MayEnter(h)
    /\ Goto(h, "error")
    /\ UNCHANGED <<row, autoIn, ctx, applied, log>>
-----------------------------------------------------------------------------
Begin(h) == BeginCallback(h) \/ BeginGaozhi(h) \/ BeginReview(h)

Mt4Answers(h) == CreditConfirmed(h) \/ CreditUnconfirmed(h) \/ CreditRefused(h)

MailAnswers(h) == MailSent(h) \/ MailFailed(h)

Handle(h) == Begin(h) \/ Mt4Answers(h) \/ MailAnswers(h) \/ Write(h) \/ Fail(h)

Next ==
    \/ \E o \in Orders, asked, paid \in Amounts, online \in BOOLEAN :
          Save(o, asked, paid, online)
    \/ SaveSysSetting
    \/ \E h \in Requests, o \in Orders : Notified(h, o)
    \/ \E h \in Requests, o \in Orders, to \in Decided, dollar \in Amounts, no \in OrderNumber :
          ReviewPosted(h, o, to, dollar, no)
    \/ \E h \in Requests : Handle(h)

Spec == Init /\ [][Next]_vars

\* Tomcat keeps running the threads it started, MT4 and the mail server answer
\* or drop the connection (there is no read timeout in connectMt4).
Fairness == \A h \in Requests : WF_vars(Handle(h))

FairSpec == Spec /\ Fairness
-----------------------------------------------------------------------------
(* Properties *)

Open == {"mt4", "mail", "write"}

\* The m-th write of an order's row took back the decision of its i-th: it is a
\* Gaozhi result, or a callback that had read the row before that decision.
Reopens(o, m, i) ==
    LET k == log[o][m]
    IN  ctx[k].to = "PAY" /\ (k \in Gaozhi \/ ctx[k].saw < i)

\* A B-book order that reads PASS was credited by MT4 for exactly the dollars
\* its row shows (checkResultDinpay and saveReview call MT4 before they write).
PassBacked ==
    \A o \in BBook : row[o].state = "PASS" =>
        LET h == log[o][Len(log[o])] IN h \in applied /\ ctx[h].dollar = row[o].dollar

\* A second credit of an order whose first credit the row already showed when
\* the second request read it happens only if the row was put back to PAY in
\* between.  Every other double credit comes from requests that overlap or from
\* a credit whose record was lost.
ExtraCreditExplained ==
    \A o \in Orders : \A i \in DOMAIN log[o] : \A g \in applied :
        (ctx[g].order = o /\ log[o][i] \in applied /\ i <= ctx[g].saw)
            => \E m \in (i + 1)..ctx[g].saw : Reopens(o, m, i)

\* An order stands refused after a recorded credit only if the refusal had been
\* read before that credit was recorded, or the row was put back to PAY.
RefusalExplained ==
    \A o \in Orders : row[o].state = "REFUSE" =>
        LET n == Len(log[o])
            saw == ctx[log[o][n]].saw
        IN  \A i \in 1..(n - 1) : (log[o][i] \in applied /\ i <= saw)
                => \E m \in (i + 1)..saw : Reopens(o, m, i)

\* Callbacks under the monitor never double a credit that was recorded: between
\* two of them that both credited, something put the row back to PAY.
LockedCreditsOnce ==
    \A o \in Orders : \A i, j \in DOMAIN log[o] :
        (i < j /\ {log[o][i], log[o][j]} \subseteq applied \cap Locked)
            => \E m \in (i + 1)..(j - 1) : Reopens(o, m, i)

\* A gateway that stops calling because it was answered "ok" leaves an unpaid
\* order behind only if MT4 did not confirm the automatic credit.
AckedPaymentRecorded ==
    \A h \in Callbacks \ Untold :
        (pc[h] = "ok" /\ row[ctx[h].order].state = "UNPAY") => ctx[h].to = "PASS"

\* Every request that has arrived is answered; the monitor cannot be kept by a
\* callback that has ended.
EveryRequestAnswered ==
    \A h \in Requests : pc[h] = "waiting" ~> pc[h] \in Ended

\* Deposits keep the promise of TransferLedger: a row is written as credited
\* only by a request whose own, single credit MT4 has confirmed.
Booked == {h \in Requests : /\ ctx[h].to = "PASS"
                           /\ ctx[h].order \in BBook
                           /\ \E i \in DOMAIN log[ctx[h].order] : log[ctx[h].order][i] = h}

Ledger == INSTANCE TransferLedger WITH
              moved <- applied, booked <- Booked, closed <- {h \in Requests : pc[h] \in Ended}

LedgerSpec == Ledger!Spec
-----------------------------------------------------------------------------
(* The inductive invariant behind the safety properties *)

\* The credit comes between the read and the write, and belongs to a B-book pass.
PcInv ==
    \A h \in Requests :
        /\ h \in applied => /\ ctx[h].to = "PASS" /\ ctx[h].order \in BBook
                            /\ pc[h] \notin {"idle", "waiting", "mt4"}
        /\ pc[h] = "mt4" => ctx[h].to = "PASS" /\ ctx[h].order \in BBook
        /\ (pc[h] \in {"mail", "write"} /\ ctx[h].to = "PASS" /\ ctx[h].order \in BBook)
              => h \in applied
        /\ h \in Gaozhi => ctx[h].to = "PAY"
        /\ pc[h] = "mail" => h \in Reviews

\* A request that went on after its read saw an order that was not decided,
\* unless it is a Gaozhi result.
SawUndecided(h) ==
    LET seen == log[ctx[h].order]
    IN  /\ ctx[h].saw <= Len(seen)
        /\ (h \notin Gaozhi /\ ctx[h].saw > 0) => ctx[seen[ctx[h].saw]].to = "PAY"

SawInv == \A h \in Requests : (pc[h] \in Open \/ h \in applied) => SawUndecided(h)

LogInv ==
    \A o \in Orders : \A i \in 1..Len(log[o]) :
        LET k == log[o][i]
        IN  /\ pc[k] = "ok"
            /\ ctx[k].order = o
            /\ ctx[k].saw < i
            /\ SawUndecided(k)
            /\ (ctx[k].to = "PASS" /\ o \in BBook) => k \in applied

\* The row shows its last write.
RowInv ==
    \A o \in Orders :
        IF Len(log[o]) = 0 THEN row[o].state \in {"ABSENT", "UNPAY", "PAY"}
        ELSE LET k == log[o][Len(log[o])]
             IN  /\ row[o].state = ctx[k].to
                 /\ ctx[k].to # "PAY" => row[o].dollar = ctx[k].dollar

\* A decision is taken back only by a reopening write.
ReopenInv ==
    \A o \in Orders : \A i, j \in 1..Len(log[o]) :
        (i < j /\ ctx[log[o][i]].to # "PAY" /\ ctx[log[o][j]].to = "PAY")
            => \E m \in (i + 1)..j : Reopens(o, m, i)

\* The monitor makes each of its requests see the writes of those before it.
MonitorInv ==
    /\ \A h \in Locked : pc[h] \in Open => monitor = h
    /\ \A o \in Orders : \A i \in 1..Len(log[o]) : log[o][i] \in Locked =>
          /\ \A h \in Locked : (pc[h] \in Open /\ ctx[h].order = o) => i <= ctx[h].saw
          /\ \A j \in (i + 1)..Len(log[o]) : log[o][j] \in Locked => i <= ctx[log[o][j]].saw

\* A request works on an order that was saved.
AckInv ==
    /\ \A h \in Requests : pc[h] # "idle" => row[ctx[h].order].state # "ABSENT"
    /\ AckedPaymentRecorded

IInv ==
    /\ TypeOK
    /\ PcInv
    /\ SawInv
    /\ LogInv
    /\ RowInv
    /\ ReopenInv
    /\ MonitorInv
    /\ AckInv
=============================================================================
