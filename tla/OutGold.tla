------------------------------- MODULE OutGold -------------------------------
(***************************************************************************)
(* Withdrawals ("out gold").  A customer asks for dollars that the copy of *)
(* the trading server's accounts (mt5_accounts) shows on the account;      *)
(* staff approve or refuse the order.  The approval of a B-book order has  *)
(* MT4 debit the account, mails the customer and only then writes the row. *)
(* A review reads the row for its amount and never for its state, so any   *)
(* order can be reviewed any number of times, also at the same time.       *)
(*                                                                         *)
(* The balance of an account is what it held at first and the sum of its   *)
(* entries: the debits ordered here, and movements the trading server      *)
(* makes for other reasons (deals, deposits, rebates).                     *)
(***************************************************************************)
EXTENDS Integers, FiniteSets, Functions

CONSTANTS
    Orders,       \* ids of withdrawal orders
    Customers,    \* customers
    Owner,        \* the customer of every order
    BBook,        \* the customers whose group trades on the B book
    Amounts,      \* the dollar amounts a form may carry; nothing keeps them positive
    Balance,      \* what every account holds at first
    Moves,        \* movements of accounts that are not withdrawals
    Holder,       \* the customer whose account a movement changes
    Worth,        \* the dollars it adds, or takes
    Reviews,      \* decisions posted by staff
    NoOrder       \* the order of a review that was not posted yet

ASSUME OutGoldAssumption ==
    /\ Owner \in [Orders -> Customers]
    /\ BBook \subseteq Customers
    /\ Amounts \subseteq Int
    /\ Balance \in Nat
    /\ Holder \in [Moves -> Customers]
    /\ Worth \in [Moves -> Int]
    /\ Moves \cap Reviews = {}
    /\ NoOrder \notin Orders

VARIABLES
    row,        \* the committed row of every order
    pc,         \* where every review is
    ctx,        \* what every review was posted for and has read
    applied,    \* reviews whose debit the MT4 server has applied
    written,    \* reviews that have written their order
    happened,   \* the other movements there have been
    mirror      \* entries of every customer that mt5_accounts shows

vars == <<row, pc, ctx, applied, written, happened, mirror>>
-----------------------------------------------------------------------------
\* `seen` is not read by the code: the entries mt5_accounts showed when the order
\* was saved.
Row == [state : {"ABSENT", "UNAUDITED", "PASS", "UNPASS"}, dollar : Amounts \cup {0},
        seen : SUBSET (Reviews \cup Moves)]

Ended == {"ok", "error"}

Step == {"idle", "waiting", "mt4", "mail", "write"} \cup Ended

Context == [order : Orders \cup {NoOrder}, to : {"PASS", "UNPASS"}, dollar : Amounts \cup {0}]

Means(o, to, dollar) == [order |-> o, to |-> to, dollar |-> dollar]

TypeOK ==
    /\ row \in [Orders -> Row]
    /\ pc \in [Reviews -> Step]
    /\ ctx \in [Reviews -> Context]
    /\ applied \subseteq Reviews
    /\ written \subseteq Reviews
    /\ happened \subseteq Moves
    /\ mirror \in [Customers -> SUBSET (applied \cup happened)]
    /\ \A h \in Reviews : pc[h] # "idle" =>
          ctx[h].order \in Orders /\ row[ctx[h].order].state # "ABSENT"

Init ==
    /\ row = [o \in Orders |-> [state |-> "ABSENT", dollar |-> 0, seen |-> {}]]
    /\ pc = [h \in Reviews |-> "idle"]
    /\ ctx = [h \in Reviews |-> Means(NoOrder, "UNPASS", 0)]
    /\ applied = {}
    /\ written = {}
    /\ happened = {}
    /\ mirror = [c \in Customers |-> {}]

DebitsOf(c) == {h \in applied : Owner[ctx[h].order] = c}

EntriesOf(c) == DebitsOf(c) \cup {e \in happened : Holder[e] = c}

Entry == [e \in Reviews \cup Moves |-> IF e \in Reviews THEN -ctx[e].dollar ELSE Worth[e]]

\* What an account holds after some entries.
Holds(entries) == Balance + SumFunctionOnSet(Entry, entries)
-----------------------------------------------------------------------------
\* Variant: the balance is not looked at.
SaveUnchecked(o, asked, paid) ==
    /\ row[o].state = "ABSENT"
    /\ row' = [row EXCEPT ![o] = [state  |-> "UNAUDITED",
                                  dollar |-> IF asked >= paid + 1 THEN paid ELSE asked,
                                  seen   |-> mirror[Owner[o]]]]
    /\ UNCHANGED <<pc, ctx, applied, written, happened, mirror>>

\* The form asks for `asked` dollars and for money worth `paid` dollars.  Orders
\* that wait for their review do not count against the balance.
Save(o, asked, paid) ==
    LET dollar == IF asked >= paid + 1 THEN paid ELSE asked
    IN  /\ row[o].state = "ABSENT"
        /\ dollar <= Holds(mirror[Owner[o]])
        /\ row' = [row EXCEPT ![o] = [state |-> "UNAUDITED", dollar |-> dollar,
                                      seen |-> mirror[Owner[o]]]]
        /\ UNCHANGED <<pc, ctx, applied, written, happened, mirror>>

\* The trading server copies its accounts to mt5_accounts from time to time.
CopyAccount(c) ==
    /\ mirror' = [mirror EXCEPT ![c] = EntriesOf(c)]
    /\ UNCHANGED <<row, pc, ctx, applied, written, happened>>

\* A deal is closed with a profit or a loss, a deposit or a rebate comes in.
Trade(e) ==
    /\ e \notin happened
    /\ happened' = happened \cup {e}
    /\ UNCHANGED <<row, pc, ctx, applied, written, mirror>>

\* Variant: the form of an order can be posted before the order is saved.
ReviewPostedAnyTime(h, o, to) ==
    /\ pc[h] = "idle"
    /\ pc' = [pc EXCEPT ![h] = "waiting"]
    /\ ctx' = [ctx EXCEPT ![h] = Means(o, to, 0)]
    /\ UNCHANGED <<row, applied, written, happened, mirror>>

ReviewPosted(h, o, to) ==
    /\ pc[h] = "idle"
    /\ row[o].state # "ABSENT"
    /\ pc' = [pc EXCEPT ![h] = "waiting"]
    /\ ctx' = [ctx EXCEPT ![h] = Means(o, to, 0)]
    /\ UNCHANGED <<row, applied, written, happened, mirror>>

Goto(h, step) == pc' = [pc EXCEPT ![h] = step]

\* Variant: MT4 is called before the decision is looked at.
BeginReviewDebiting(h) ==
    LET o == ctx[h].order
    IN  /\ pc[h] = "waiting"
        /\ Goto(h, IF Owner[o] \in BBook THEN "mt4" ELSE "mail")
        /\ ctx' = [ctx EXCEPT ![h] = Means(o, ctx[h].to, row[o].dollar)]
        /\ UNCHANGED <<row, applied, written, happened, mirror>>

\* saveReview reads the order and, to approve it on the B book, calls MT4.
BeginReview(h) ==
    LET o == ctx[h].order
    IN  /\ pc[h] = "waiting"
        /\ Goto(h, IF ctx[h].to = "PASS" /\ Owner[o] \in BBook THEN "mt4" ELSE "mail")
        /\ ctx' = [ctx EXCEPT ![h] = Means(o, ctx[h].to, row[o].dollar)]
        /\ UNCHANGED <<row, applied, written, happened, mirror>>

DebitConfirmed(h) ==
    /\ pc[h] = "mt4"
    /\ applied' = applied \cup {h}
    /\ Goto(h, "mail")
    /\ UNCHANGED <<row, ctx, written, happened, mirror>>

\* The server debits the account and its answer is lost.
DebitUnconfirmed(h) ==
    /\ pc[h] = "mt4"
    /\ applied' = applied \cup {h}
    /\ Goto(h, "ok")
    /\ UNCHANGED <<row, ctx, written, happened, mirror>>

\* Variant: any answer of the server counts as success.
DebitRefusedUnnoticed(h) ==
    /\ pc[h] = "mt4"
    /\ Goto(h, "mail")
    /\ UNCHANGED <<row, ctx, applied, written, happened, mirror>>

DebitRefused(h) ==
    /\ pc[h] = "mt4"
    /\ Goto(h, "ok")
    /\ UNCHANGED <<row, ctx, applied, written, happened, mirror>>

MailSent(h) ==
    /\ pc[h] = "mail"
    /\ Goto(h, "write")
    /\ UNCHANGED <<row, ctx, applied, written, happened, mirror>>

\* The mail cannot be sent: the review returns, after the debit, before it writes.
MailFailed(h) ==
    /\ pc[h] = "mail"
    /\ Goto(h, "ok")
    /\ UNCHANGED <<row, ctx, applied, written, happened, mirror>>

\* updReviewState, with the commit.
Write(h) ==
    LET o == ctx[h].order
    IN  /\ pc[h] = "write"
        /\ row' = [row EXCEPT ![o] = [state |-> ctx[h].to, dollar |-> row[o].dollar,
                                      seen |-> row[o].seen]]
        /\ written' = written \cup {h}
        /\ Goto(h, "ok")
        /\ UNCHANGED <<ctx, applied, happened, mirror>>

\* An exception: the row keeps its state and the debit stands.
Fail(h) ==
    /\ pc[h] \in {"waiting", "mt4", "mail", "write"}
    /\ Goto(h, "error")
    /\ UNCHANGED <<row, ctx, applied, written, happened, mirror>>
-----------------------------------------------------------------------------
Handle(h) ==
    \/ BeginReview(h)
    \/ DebitConfirmed(h) \/ DebitUnconfirmed(h) \/ DebitRefused(h)
    \/ MailSent(h) \/ MailFailed(h)
    \/ Write(h)
    \/ Fail(h)

Next ==
    \/ \E o \in Orders, asked, paid \in Amounts : Save(o, asked, paid)
    \/ \E c \in Customers : CopyAccount(c)
    \/ \E e \in Moves : Trade(e)
    \/ \E h \in Reviews, o \in Orders, to \in {"PASS", "UNPASS"} : ReviewPosted(h, o, to)
    \/ \E h \in Reviews : Handle(h)

Spec == Init /\ [][Next]_vars
-----------------------------------------------------------------------------
(* Properties *)

ReviewsOf(o) == {h \in Reviews : pc[h] # "idle" /\ ctx[h].order = o}

\* A B-book order that reads PASS had its dollars debited, by a review that
\* approved it (a refusal written later hides that debit).
PassDebited ==
    \A o \in Orders : (row[o].state = "PASS" /\ Owner[o] \in BBook) =>
        \E h \in applied \cap written : ctx[h].order = o /\ ctx[h].dollar = row[o].dollar

\* An order that got a single review reads refused only when nothing was debited
\* for it: a debit behind a refusal takes a second review.
DebitedRefusalExplained ==
    \A o \in Orders : row[o].state = "UNPASS" =>
        \A h \in applied : ctx[h].order = o => \E g \in written : g # h /\ ctx[g].order = o

\* An account that withdrawals left with less than nothing has, for every one of
\* them, something else that took money from it and that the balance its request was
\* compared with did not show: an order that waited beside it or was paid twice, an
\* account copied too late, a loss made since.
OverdrawExplained ==
    \A c \in Customers : Holds(EntriesOf(c)) < 0 =>
        \A h \in DebitsOf(c) :
            \E e \in EntriesOf(c) \ {h} : e \notin row[ctx[h].order].seen /\ Entry[e] < 0

\* Withdrawals keep the promise of TransferLedger.
Ledger == INSTANCE TransferLedger WITH
              Requests <- Reviews,
              moved    <- applied,
              booked   <- {h \in written : ctx[h].to = "PASS" /\ Owner[ctx[h].order] \in BBook},
              closed   <- {h \in Reviews : pc[h] \in Ended}

LedgerSpec == Ledger!Spec
-----------------------------------------------------------------------------
(* The inductive invariant behind the safety properties *)

\* The debit comes between the read and the write, belongs to a B-book approval,
\* and is for the dollars of the row, which never change.
PcInv ==
    \A h \in Reviews :
        /\ h \in applied => /\ ctx[h].to = "PASS" /\ Owner[ctx[h].order] \in BBook
                            /\ pc[h] \notin {"idle", "waiting", "mt4"}
        /\ pc[h] = "mt4" => ctx[h].to = "PASS" /\ Owner[ctx[h].order] \in BBook
        /\ (pc[h] \in {"mail", "write"} \/ h \in written)
              => (ctx[h].to = "PASS" /\ Owner[ctx[h].order] \in BBook => h \in applied)
        /\ (pc[h] \in {"mt4", "mail", "write"} \/ h \in applied)
              => ctx[h].dollar = row[ctx[h].order].dollar
        /\ h \in written => pc[h] = "ok"

\* A decided row shows the decision of a review that wrote it.
RowInv ==
    \A o \in Orders : row[o].state \in {"PASS", "UNPASS"} =>
        \E g \in written : ctx[g].order = o /\ ctx[g].to = row[o].state

\* An account is copied as it is; an order was shown entries of its customer, before
\* its own debits, after which the account could bear it.
SeenInv ==
    /\ IsFiniteSet(applied \cup happened)
    /\ \A c \in Customers : mirror[c] \subseteq EntriesOf(c)
    /\ \A o \in Orders : /\ row[o].seen \subseteq EntriesOf(Owner[o])
                         /\ row[o].state # "ABSENT" => row[o].dollar <= Holds(row[o].seen)
    /\ \A h \in applied : h \notin row[ctx[h].order].seen

IInv == TypeOK /\ PcInv /\ RowInv /\ SeenInv
=============================================================================
