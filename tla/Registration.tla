---------------------------- MODULE Registration ----------------------------
(***************************************************************************)
(* Managers: registration, review, and the hierarchy of agents.  Every     *)
(* request is one transaction that reads its snapshot (Begin...), perhaps  *)
(* calls MT4 and the mail server, and ends with one write of one row       *)
(* (Write).  updateByPrimaryKeySelective writes every column that is not   *)
(* null: what a form carries, or, where the code saves the row it had      *)
(* read, the whole row as it was then.                                     *)
(***************************************************************************)
EXTENDS Integers, FiniteSets

CONSTANTS
    Requests,   \* requests that change a row of t_sys_manager
    Starters,   \* managers there are at first
    Start,      \* their rows
    Kinds,      \* what kind every request may be of (a bound)
    Accounts,   \* account names typed into forms
    Levels,     \* levels typed into forms
    Parents,    \* managers chosen as parents in forms (a bound)
    NewType,    \* the type a registration gets: the default of the column
    Books,      \* the books of MT4, each with its counter: alogin, blogin
    First,      \* what the counters hold at first
    Removable,  \* managers staff may delete (a bound)
    Null

\* The row a request inserts has the request as its id.
Managers == Starters \cup Requests

Types == {"common", "agent"}

States == {"UNAUDITED", "PASS", "UNPASS"}

Kind == {"join", "edit", "move", "review", "rewrite", "upload"}

Row == [account : Accounts \cup {Start[m].account : m \in Starters} \cup {Null},
        state   : States \cup {Null},
        type    : Types \cup {Null},
        level   : Nat \cup {Null},
        belong  : Managers \cup {Null},
        login   : Nat \cup {Null}]

Columns(account, state, type, level, belong, login) ==
    [account |-> account, state |-> state, type |-> type, level |-> level,
     belong |-> belong, login |-> login]

Blank == Columns(Null, Null, Null, Null, Null, Null)

\* An agent stands below its parent: a higher number is a lower rank.
Disordered(child, parent) ==
    /\ child.type = "agent"
    /\ child.level # Null
    /\ parent.level # Null
    /\ child.level <= parent.level

ASSUME RegistrationAssumption ==
    /\ Starters \cap Requests = {}
    /\ Null \notin Managers \cup Accounts \cup Books \cup Kind \cup Types \cup States \cup Int
    /\ Levels \subseteq Nat
    /\ NewType \in {"common", Null}
    /\ First \in [Books -> Nat]
    /\ Removable \subseteq Managers
    /\ Start \in [Starters -> Row]
    /\ \A m \in Starters : Start[m].login = Null /\ Start[m].belong \in Starters \cup {Null}
    /\ \A m, n \in Starters :
          /\ m # n => Start[m].account # Start[n].account
          /\ Start[m].belong = n => ~Disordered(Start[m], Start[n])

VARIABLES
    managers,   \* ids of the rows of t_sys_manager
    row,        \* the rows
    by,         \* the request that last changed a column
    undid,      \* requests that changed a column they only read
    pc,         \* where every request is
    ctx,        \* the row a request works on and what it is going to write
    saw,        \* the requests that had ended when a request read
    counter,    \* alogin and blogin
    lock,       \* the request that holds the lock on a counter
    created     \* reviews whose account MT4 has opened

vars == <<managers, row, by, undid, pc, ctx, saw, counter, lock, created>>
-----------------------------------------------------------------------------
\* "no": ended without a write, "taken": the same, the number was in use,
\* "error": rolled back.
Ended == {"ok", "no", "taken", "error"}

Step == {"idle", "count", "mt4", "mail", "write"} \cup Ended

Context == [kind : Kind \cup {Null}, m : Managers \cup {Null}, new : Row,
            book : Books \cup {Null}]

Writers == [account : Requests \cup {Null}, type : Requests \cup {Null},
            level : Requests \cup {Null}, belong : Requests \cup {Null}]

Nobody == [account |-> Null, type |-> Null, level |-> Null, belong |-> Null]

TypeOK ==
    /\ managers \subseteq Managers
    /\ row \in [Managers -> Row]
    /\ by \in [Managers -> Writers]
    /\ undid \subseteq Requests
    /\ pc \in [Requests -> Step]
    /\ ctx \in [Requests -> Context]
    /\ saw \in [Requests -> SUBSET Requests]
    /\ counter \in [Books -> Nat]
    /\ lock \in [Books -> Requests \cup {Null}]
    /\ created \subseteq Requests

Init ==
    /\ managers = Starters
    /\ row = [m \in Managers |-> IF m \in Starters THEN Start[m] ELSE Blank]
    /\ by = [m \in Managers |-> Nobody]
    /\ undid = {}
    /\ pc = [h \in Requests |-> "idle"]
    /\ ctx = [h \in Requests |-> [kind |-> Null, m |-> Null, new |-> Blank, book |-> Null]]
    /\ saw = [h \in Requests |-> {}]
    /\ counter = First
    /\ lock = [b \in Books |-> Null]
    /\ created = {}
-----------------------------------------------------------------------------
(* The read of a request *)

\* Ids are those of starters and of requests that have inserted their row.
IsId(m) == m \in Starters \/ (m \in Requests /\ pc[m] = "ok")

\* Whom a form may name as the parent: also somebody who was deleted since the page
\* was made; nothing looks whether there is such a manager.
Named == {p \in Managers : IsId(p)}

\* h reads its snapshot and is going to write `new` to row m.
Enter(h, kind, m, new, book, step) ==
    /\ pc' = [pc EXCEPT ![h] = step]
    /\ ctx' = [ctx EXCEPT ![h] = [kind |-> kind, m |-> m, new |-> new, book |-> book]]
    /\ saw' = [saw EXCEPT ![h] = {k \in Requests : pc[k] \in Ended}]
    /\ UNCHANGED <<managers, row, by, undid, counter, lock, created>>

\* What h has read does not allow it.
TurnAway(h) ==
    /\ pc' = [pc EXCEPT ![h] = "no"]
    /\ UNCHANGED <<managers, row, by, undid, ctx, saw, counter, lock, created>>

\* Variant: accounts are not compared.
FreeAlways(account, m) == TRUE

\* No other row has the account.
Free(account, m) == \A n \in managers \ {m} : row[n].account # account

\* Variant: an agent may have the level of its parent.
BelowOrLevel(l, p) ==
    /\ p \in managers
    /\ l # Null
    /\ row[p].level # Null
    /\ l >= row[p].level

\* Level l is below that of manager p; a null among them is an exception.
Below(l, p) ==
    /\ p \in managers
    /\ l # Null
    /\ row[p].level # Null
    /\ l > row[p].level

\* Variant: a manager may get the level of a son.
AboveOrLevel(l, m) ==
    \A s \in managers :
        row[s].belong = m /\ row[s].level # Null => row[s].level >= l

AboveSons(l, m) ==
    \A s \in managers :
        row[s].belong = m /\ row[s].level # Null => row[s].level > l

\* A registration, or a row staff create; levels are not looked at.
BeginJoin(h, new) ==
    \/ Free(new.account, h) /\ Enter(h, "join", h, new, Null, "write")
    \/ ~Free(new.account, h) /\ TurnAway(h)

BeginEdit(h, m, a, t, l) ==
    LET allowed == /\ Free(a, m)
                   /\ t = "agent" => Below(l, row[m].belong) /\ AboveSons(l, m)
    IN  /\ m \in managers
        /\ \/ allowed /\ Enter(h, "edit", m, Columns(a, Null, t, l, Null, Null), Null, "write")
           \/ ~allowed /\ TurnAway(h)

\* settingBelong saves the row it has read, with another parent.
BeginMove(h, m, p) ==
    LET allowed == /\ row[m].type # Null
                   /\ row[m].type = "agent" => Below(row[m].level, p)
    IN  /\ m \in managers
        /\ \/ allowed /\ Enter(h, "move", m, [row[m] EXCEPT !.belong = p], Null, "write")
           \/ ~allowed /\ TurnAway(h)

\* Variant: a saved row waits for a review again.
BeginRewriteUnaudited(h, m) ==
    /\ m \in managers
    /\ Enter(h, "rewrite", m, [row[m] EXCEPT !.state = "UNAUDITED"], Null, "write")

\* Passwords, the log-in time, the MT4 passwords: the row is saved as it was read.
BeginRewrite(h, m) ==
    /\ m \in managers
    /\ Enter(h, "rewrite", m, row[m], Null, "write")

\* A photo: saves the row as it was read when the session k was opened.
BeginUpload(h, k) ==
    /\ ctx[k].kind = "rewrite"
    /\ pc[k] = "ok"
    /\ pc' = [pc EXCEPT ![h] = "write"]
    /\ ctx' = [ctx EXCEPT ![h] = [ctx[k] EXCEPT !.kind = "upload"]]
    /\ saw' = [saw EXCEPT ![h] = saw[k]]
    /\ UNCHANGED <<managers, row, by, undid, counter, lock, created>>

\* Whether m was decided before is not looked at.  To let m pass on book b (null
\* when its group has none) the review takes the next number of the counter.
BeginReview(h, m, to, a, t, l, p, b) ==
    LET parent  == IF p # Null THEN p ELSE row[m].belong
        allowed == b # Null /\ (t = "agent" => Below(l, parent))
    IN  /\ m \in managers
        /\ \/ /\ to = "UNPASS"
              /\ Enter(h, "review", m, Columns(a, to, t, l, p, Null), Null, "mail")
           \/ /\ to = "PASS" /\ allowed
              /\ Enter(h, "review", m, Columns(a, to, t, l, p, counter[b] + 1), b, "count")
           \/ to = "PASS" /\ ~allowed /\ TurnAway(h)
-----------------------------------------------------------------------------
(* The account of a review on MT4 *)

Number(h) == ctx[h].new.login

\* updateSysConfig: the row of the counter stays locked until the review ends.
LockCounter(h) ==
    /\ pc[h] = "count"
    /\ lock[ctx[h].book] = Null
    /\ lock' = [lock EXCEPT ![ctx[h].book] = h]
    /\ pc' = [pc EXCEPT ![h] = "mt4"]
    /\ UNCHANGED <<managers, row, by, undid, ctx, saw, counter, created>>

\* Variant: the counter keeps a number only when the review went well.
FinishForgetting(h, how) ==
    /\ pc' = [pc EXCEPT ![h] = how]
    /\ lock' = [b \in Books |-> IF lock[b] = h THEN Null ELSE lock[b]]
    /\ counter' = [b \in Books |-> IF lock[b] = h /\ how = "ok" THEN Number(h)
                                   ELSE counter[b]]

\* Variant: a refusal writes the counter as well.
FinishCounting(h, how) ==
    /\ pc' = [pc EXCEPT ![h] = how]
    /\ lock' = [b \in Books |-> IF lock[b] = h THEN Null ELSE lock[b]]
    /\ counter' = [b \in Books |-> IF how # "error" THEN Number(h) ELSE counter[b]]

\* h ends: the counter gets its number, unless an exception rolls it back.
Finish(h, how) ==
    /\ pc' = [pc EXCEPT ![h] = how]
    /\ lock' = [b \in Books |-> IF lock[b] = h THEN Null ELSE lock[b]]
    /\ counter' = [b \in Books |-> IF lock[b] = h /\ how # "error" THEN Number(h)
                                   ELSE counter[b]]

AccountOpened(h) ==
    /\ pc[h] = "mt4"
    /\ \A k \in created : Number(k) # Number(h)
    /\ created' = created \cup {h}
    /\ pc' = [pc EXCEPT ![h] = "mail"]
    /\ UNCHANGED <<managers, row, by, undid, ctx, saw, counter, lock>>

\* Variant: an answer that was lost counts as success.
AccountPresumed(h) ==
    /\ pc[h] = "mt4"
    /\ \A k \in created : Number(k) # Number(h)
    /\ created' = created \cup {h}
    /\ Finish(h, "ok")
    /\ UNCHANGED <<managers, row, by, undid, ctx, saw>>

\* MT4 opens the account and its answer is lost: -100, or an exception for null.
AccountUnconfirmed(h) ==
    /\ pc[h] = "mt4"
    /\ \A k \in created : Number(k) # Number(h)
    /\ created' = created \cup {h}
    /\ \E how \in {"no", "error"} : Finish(h, how)
    /\ UNCHANGED <<managers, row, by, undid, ctx, saw>>

NumberTaken(h) ==
    /\ pc[h] = "mt4"
    /\ \E k \in created : Number(k) = Number(h)
    /\ Finish(h, "taken")
    /\ UNCHANGED <<managers, row, by, undid, ctx, saw, created>>

\* Variant: any answer of the server counts as success.
AccountRefusedUnnoticed(h) ==
    /\ pc[h] = "mt4"
    /\ pc' = [pc EXCEPT ![h] = "mail"]
    /\ UNCHANGED <<managers, row, by, undid, ctx, saw, counter, lock, created>>

AccountRefused(h) ==
    /\ pc[h] = "mt4"
    /\ Finish(h, "no")
    /\ UNCHANGED <<managers, row, by, undid, ctx, saw, created>>

\* Variant: the review ends with its mail.
MailSentOnly(h) ==
    /\ pc[h] = "mail"
    /\ Finish(h, "ok")
    /\ UNCHANGED <<managers, row, by, undid, ctx, saw, created>>

MailSent(h) ==
    /\ pc[h] = "mail"
    /\ pc' = [pc EXCEPT ![h] = "write"]
    /\ UNCHANGED <<managers, row, by, undid, ctx, saw, counter, lock, created>>

\* The review returns before its write: an account MT4 has opened stays.
MailFailed(h) ==
    /\ pc[h] = "mail"
    /\ Finish(h, "no")
    /\ UNCHANGED <<managers, row, by, undid, ctx, saw, created>>

\* An exception, or the server going down.
Fail(h) ==
    /\ pc[h] \in {"count", "mt4", "mail", "write"}
    /\ Finish(h, "error")
    /\ UNCHANGED <<managers, row, by, undid, ctx, saw, created>>
-----------------------------------------------------------------------------
(* The write *)

Given(value, old) == IF value = Null THEN old ELSE value

\* updateByPrimaryKeySelective
Selective(old, new) ==
    Columns(Given(new.account, old.account), Given(new.state, old.state),
            Given(new.type, old.type), Given(new.level, old.level),
            Given(new.belong, old.belong), Given(new.login, old.login))

\* Who last changed each column, after h turned `old` into `new`.
Changed(h, old, new, who) ==
    [account |-> IF new.account = old.account THEN who.account ELSE h,
     type    |-> IF new.type = old.type THEN who.type ELSE h,
     level   |-> IF new.level = old.level THEN who.level ELSE h,
     belong  |-> IF new.belong = old.belong THEN who.belong ELSE h]

\* h saves a row it has read, and with it columns it was not asked to change.
Undoes(h, old, new) ==
    \/ ctx[h].kind \in {"rewrite", "upload"} /\ new # old
    \/ ctx[h].kind = "move" /\ new # [old EXCEPT !.belong = new.belong]

Insert(h) ==
    /\ pc[h] = "write"
    /\ ctx[h].kind = "join"
    /\ managers' = managers \cup {h}
    /\ row' = [row EXCEPT ![h] = ctx[h].new]
    /\ by' = [by EXCEPT ![h] = Changed(h, Blank, ctx[h].new, Nobody)]
    /\ Finish(h, "ok")
    /\ UNCHANGED <<undid, ctx, saw, created>>

\* The update; it finds nothing when the row was deleted.
Write(h) ==
    LET m   == ctx[h].m
        new == Selective(row[m], ctx[h].new)
    IN  /\ pc[h] = "write"
        /\ ctx[h].kind # "join"
        /\ IF m \in managers
           THEN /\ row' = [row EXCEPT ![m] = new]
                /\ by' = [by EXCEPT ![m] = Changed(h, row[m], new, by[m])]
                /\ undid' = IF Undoes(h, row[m], new) THEN undid \cup {h} ELSE undid
           ELSE UNCHANGED <<row, by, undid>>
        /\ Finish(h, "ok")
        /\ UNCHANGED <<managers, ctx, saw, created>>

\* batchDelete; the rows below keep their belongid.
Remove(m) ==
    /\ m \in managers \cap Removable
    /\ managers' = managers \ {m}
    /\ row' = [row EXCEPT ![m] = Blank]
    /\ by' = [by EXCEPT ![m] = Nobody]
    /\ UNCHANGED <<undid, pc, ctx, saw, counter, lock, created>>
-----------------------------------------------------------------------------
Begin(h) ==
    /\ pc[h] = "idle"
    /\ \/ /\ "join" \in Kinds[h]
          /\ \/ \E a \in Accounts, p \in Named \cap Parents :
                   BeginJoin(h, Columns(a, "UNAUDITED", NewType, Null, p, Null))
             \/ \E a \in Accounts, t \in Types, l \in Levels \cup {Null} :
                   BeginJoin(h, Columns(a, "UNAUDITED", t, l, Null, Null))
       \/ /\ "edit" \in Kinds[h]
          /\ \E m \in managers, t \in Types, l \in Levels \cup {Null} :
                \E a \in Accounts \cup {row[m].account} : BeginEdit(h, m, a, t, l)
       \/ /\ "move" \in Kinds[h]
          /\ \E m \in managers, p \in Named \cap Parents : BeginMove(h, m, p)
       \/ /\ "rewrite" \in Kinds[h]
          /\ \E m \in managers : BeginRewrite(h, m)
       \/ /\ "upload" \in Kinds[h]
          /\ \E k \in Requests : BeginUpload(h, k)
       \/ /\ "review" \in Kinds[h]
          /\ \E m \in managers, to \in {"PASS", "UNPASS"}, t \in Types,
                l \in Levels \cup {Null}, p \in (Named \cap Parents) \cup {Null},
                b \in Books \cup {Null} :
                \E a \in Accounts \cup {row[m].account} : BeginReview(h, m, to, a, t, l, p, b)

Handle(h) ==
    \/ LockCounter(h)
    \/ AccountOpened(h) \/ AccountUnconfirmed(h) \/ NumberTaken(h) \/ AccountRefused(h)
    \/ MailSent(h) \/ MailFailed(h)
    \/ Insert(h) \/ Write(h)
    \/ Fail(h)

Next ==
    \/ \E h \in Requests : Begin(h) \/ Handle(h)
    \/ \E m \in Managers : Remove(m)

Spec == Init /\ [][Next]_vars
-----------------------------------------------------------------------------
(* Properties *)

\* Neither of two requests knew what the other one did.
Overlap(g, h) == g # h /\ g \notin saw[h] /\ h \notin saw[g]

Overlapping(requests) == \E g, h \in requests : Overlap(g, h)

\* Requests that set a level without a look at the managers below.
SkipsSons(h) ==
    ctx[h].kind = "review" \/ (ctx[h].kind = "edit" /\ ctx[h].new.type = "common")

\* A refusal writes what the form carries without any check.
Refuses(h) == ctx[h].kind = "review" /\ ctx[h].new.state = "UNPASS"

\* The last writers of the columns that make m stand below p.
LastWriters(m, p) == {by[m].type, by[m].level, by[m].belong, by[p].level} \cap Requests

\* The level of p was changed without a look at the managers below, m was moved by a
\* refusal, a row was saved as it had been read earlier, or two requests did not know
\* of each other.
Reason(m, p) ==
    \/ by[p].level \in Requests /\ SkipsSons(by[p].level)
    \/ \E h \in LastWriters(m, p) : h \in undid \/ Refuses(h)
    \/ Overlapping(LastWriters(m, p))

\* An agent that is not below its parent got there by a review or the edit of a
\* common user that changed the parent's level, by a refusal that moved the agent,
\* by a row that was saved as it had been read earlier, or by two requests that
\* did not know of each other.
DisorderExplained ==
    \A m, p \in managers :
        row[m].belong = p /\ Disordered(row[m], row[p]) => Reason(m, p)

\* Managers each of which has its parent among them: a cycle, with what hangs on it.
\* One of them is a common user, has no level, or is not below its parent for one of
\* the reasons above; walks along belongid end in every other hierarchy.
CycleExplained ==
    \A cycle \in (SUBSET managers) \ {{}} : (\A m \in cycle : row[m].belong \in cycle) =>
        \E m \in cycle : \/ row[m].type # "agent"
                         \/ row[m].level = Null
                         \/ Reason(m, row[m].belong)

\* Two rows have one account only if a review gave it to one of them, a row was
\* saved as it had been read earlier, or the requests did not know of each other.
SameAccountExplained ==
    \A m, n \in managers : m # n /\ row[m].account = row[n].account =>
        LET last == {by[m].account, by[n].account} \cap Requests
        IN  \/ \E h \in last : h \in undid \/ ctx[h].kind = "review"
            \/ Overlapping(last)

\* Whoever undoes a change was at work, or had its session opened, when another
\* request, not itself one that saves what it has read unless it too undoes a
\* change, wrote the same manager.
UndoExplained ==
    \A h \in undid : \E k \in Requests :
        /\ pc[k] = "ok"
        /\ ctx[k].m = ctx[h].m
        /\ ctx[k].kind \notin {"rewrite", "upload"} \/ k \in undid
        /\ Overlap(h, k)

Recorded == {h \in created : pc[h] = "ok"}

\* A manager who passed its review here has a login that MT4 opened for it.
PassHasAccount ==
    \A m \in managers : row[m].state = "PASS" /\ (m \in Starters => Start[m].state # "PASS") =>
        \E h \in Recorded : ctx[h].m = m /\ row[m].login = Number(h)

\* An account on MT4 is the one its manager has, unless its review did not come to
\* its end, or another review opened a second one for the same manager.
OrphanExplained ==
    \A h \in Recorded : ctx[h].m \in managers =>
        \/ row[ctx[h].m].login = Number(h)
        \/ \E k \in Recorded : k # h /\ ctx[k].m = ctx[h].m

\* g took its number from the counter without knowing of k's.
SetBack(g, k) == Overlap(g, k) /\ ctx[g].book = ctx[k].book /\ Number(g) <= Number(k)

\* MT4 has a number already when a review asks for it because the review that had
\* it opened was rolled back or not over when this one read the counter, because
\* a review that overlapped that one has set the counter back, or because the
\* books count through the same numbers.
TakenExplained ==
    \A h \in Requests : pc[h] = "taken" => \E k \in created :
        /\ k # h /\ Number(k) = Number(h)
        /\ \/ pc[k] = "error"
           \/ k \notin saw[h]
           \/ ctx[k].book # ctx[h].book
           \/ \E g \in saw[h] : SetBack(g, k)

\* A review opens at most one account and records it only after MT4 said so.
Ledger == INSTANCE TransferLedger WITH
              moved  <- created,
              booked <- Recorded,
              closed <- {h \in Requests : pc[h] \in Ended}

LedgerSpec == Ledger!Spec
-----------------------------------------------------------------------------
(* The inductive invariant behind the safety properties *)

Pending == {"count", "mt4", "mail", "write"}

IdInv ==
    /\ \A m \in managers : IsId(m) /\ (row[m].belong # Null => IsId(row[m].belong))
    /\ \A m \in Managers \ managers : row[m] = Blank /\ by[m] = Nobody
    /\ \A h \in Requests : ctx[h].kind # Null =>
          /\ ctx[h].kind = "join" => ctx[h].m = h
          /\ ctx[h].kind # "join" => IsId(ctx[h].m)
          /\ ctx[h].new.belong # Null => IsId(ctx[h].new.belong)

WritersOf(m) == {by[m].account, by[m].type, by[m].level, by[m].belong}

\* Whoever changed a column or undid a change has ended, and so has whoever a
\* request saw.
WriterInv ==
    /\ \A m \in Managers : \A w \in WritersOf(m) \cap Requests : pc[w] = "ok" /\ ctx[w].m = m
    /\ \A h \in Requests : \A k \in saw[h] : pc[k] \in Ended
    /\ \A h \in undid : pc[h] = "ok"

\* h has read the column as w left it.
Known(h, w) == w = Null \/ w \in saw[h]

\* A request that was allowed compares its account with those it has read.
AccountInv ==
    \A h \in Requests : pc[h] \in Pending /\ ctx[h].kind \in {"join", "edit"} =>
        \A n \in managers \ {ctx[h].m} :
            Known(h, by[n].account) => row[n].account # ctx[h].new.account

\* Requests that compare a level with the parent's.
Compares(h) ==
    /\ ctx[h].kind \in {"edit", "move", "review"}
    /\ ctx[h].new.type = "agent"
    /\ ctx[h].new.state # "UNPASS" \/ ctx[h].kind = "move"

\* p is the parent h has compared with, and its level is as h has read it.
ComparedWith(h, p) ==
    /\ \/ ctx[h].new.belong = p
       \/ /\ ctx[h].new.belong = Null
          /\ row[ctx[h].m].belong = p
          /\ Known(h, by[ctx[h].m].belong)
    /\ row[p].level # Null
    /\ Known(h, by[p].level)

RankInv ==
    \A h \in Requests : pc[h] \in Pending /\ Compares(h) /\ ctx[h].m \in managers =>
        /\ ctx[h].new.level # Null
        /\ \A p \in managers : ComparedWith(h, p) => ctx[h].new.level > row[p].level
        /\ ctx[h].kind = "edit" => \A s \in managers :
              (/\ row[s].belong = ctx[h].m
               /\ row[s].level # Null
               /\ Known(h, by[s].belong)
               /\ Known(h, by[s].level)) => row[s].level > ctx[h].new.level
        /\ ctx[h].kind = "edit" /\ Known(h, by[ctx[h].m].belong) =>
              row[ctx[h].m].belong # ctx[h].m

Saves(h) == ctx[h].kind \in {"rewrite", "upload", "move"}

\* What a request carries that saves a row is the row, unless another one wrote it.
SavedInv ==
    \A h \in Requests : Saves(h) /\ ctx[h].m \in managers =>
        LET old == row[ctx[h].m]
            new == ctx[h].new
        IN  \/ new = old
            \/ ctx[h].kind = "move" /\ new = [old EXCEPT !.belong = new.belong]
            \/ \E k \in Requests :
                  /\ pc[k] = "ok"
                  /\ ctx[k].m = ctx[h].m
                  /\ ctx[k].kind \notin {"rewrite", "upload"} \/ k \in undid
                  /\ k \notin saw[h]

\* What the kinds of requests may carry, and where they can be.
FormInv ==
    \A h \in Requests :
        /\ pc[h] \in Pending => ctx[h].kind # Null
        /\ pc[h] \in {"count", "mt4"} => ctx[h].book # Null
        /\ pc[h] \in {"count", "mt4", "mail"} => ctx[h].kind = "review"
        /\ (ctx[h].book # Null) <=> (ctx[h].kind = "review" /\ ctx[h].new.state = "PASS")
        /\ ctx[h].kind = "review" => /\ ctx[h].new.state \in {"PASS", "UNPASS"}
                                     /\ ctx[h].new.type # Null
                                     /\ (ctx[h].new.login # Null) <=> (ctx[h].new.state = "PASS")
        /\ ctx[h].kind = "join" => /\ ctx[h].new.account # Null
                                   /\ ctx[h].new.state = "UNAUDITED"
                                   /\ ctx[h].new.login = Null
                                   /\ \/ ctx[h].new.type # "agent"
                                      \/ ctx[h].new.belong = Null
        /\ ctx[h].kind = "edit" => /\ ctx[h].new.state = Null
                                   /\ ctx[h].new.type # Null
                                   /\ ctx[h].new.belong = Null
                                   /\ ctx[h].new.login = Null
        /\ ctx[h].kind = "move" => ctx[h].new.type # Null /\ ctx[h].new.belong # Null

\* An account was opened for a review that lets somebody pass, and for every one
\* that gets beyond MT4.
OpenedInv ==
    /\ \A h \in created : ctx[h].book # Null /\ pc[h] \in {"mail", "write", "ok", "no", "error"}
    /\ \A h \in Requests : ctx[h].book # Null /\ pc[h] \in {"mail", "write", "ok"} => h \in created

\* Logins come from accounts, and nobody passes without one.
HasLogin(m, old) ==
    /\ old.login # Null => \E k \in Recorded : ctx[k].m = m /\ Number(k) = old.login
    /\ old.state = "PASS" /\ old.login = Null => m \in Starters /\ Start[m].state = "PASS"

LoginInv ==
    /\ \A m \in managers : HasLogin(m, row[m])
    /\ \A h \in Requests : Saves(h) => HasLogin(ctx[h].m, ctx[h].new)
    /\ \A h \in Recorded : ctx[h].m \in managers => row[ctx[h].m].login # Null

\* From the order to MT4 on, a review holds its counter.
LockInv ==
    \A h \in Requests, b \in Books :
        lock[b] = h <=> ctx[h].book = b /\ pc[h] \in {"mt4", "mail", "write"}

\* A number that was given is not above the counter, and below the number a later
\* review takes, unless the counter was set back.
CounterInv ==
    /\ \A k \in created : pc[k] \in {"ok", "no"} =>
          \/ Number(k) <= counter[ctx[k].book]
          \/ \E g \in Requests : pc[g] \in Ended /\ SetBack(g, k)
    /\ \A h \in Requests : \A k \in created \cap saw[h] :
          ctx[h].book = ctx[k].book /\ pc[k] # "error" =>
             \/ Number(k) < Number(h)
             \/ \E g \in saw[h] : SetBack(g, k)

IInv ==
    /\ TypeOK /\ IdInv /\ WriterInv /\ AccountInv /\ RankInv /\ SavedInv /\ FormInv
    /\ OpenedInv /\ LoginInv /\ LockInv /\ CounterInv
=============================================================================
