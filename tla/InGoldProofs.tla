----------------------------- MODULE InGoldProofs -----------------------------
(***************************************************************************)
(* Proofs about InGold for every set of orders, amounts and requests.      *)
(***************************************************************************)
EXTENDS InGold, SequenceTheorems, TLAPS

LEMMA NextCases ==
    ASSUME [Next]_vars,
           NEW P,
           ASSUME NEW o \in Orders, NEW asked \in Amounts, NEW paid \in Amounts,
                  NEW online \in BOOLEAN, Save(o, asked, paid, online)
           PROVE  P,
           SaveSysSetting => P,
           ASSUME NEW h \in Requests, NEW o \in Orders, Notified(h, o) PROVE P,
           ASSUME NEW h \in Requests, NEW o \in Orders, NEW to \in Decided,
                  NEW dollar \in Amounts, NEW no \in OrderNumber,
                  ReviewPosted(h, o, to, dollar, no)
           PROVE  P,
           ASSUME NEW h \in Requests, Begin(h) PROVE P,
           ASSUME NEW h \in Requests, Mt4Answers(h) PROVE P,
           ASSUME NEW h \in Requests, MailAnswers(h) PROVE P,
           ASSUME NEW h \in Requests, Write(h) PROVE P,
           ASSUME NEW h \in Requests, Fail(h) PROVE P,
           (UNCHANGED vars) => P
    PROVE  P
  BY DEF Next, Handle

\* What a request's step does to its place and to the monitor.
LEMMA GotoType ==
    ASSUME TypeOK, NEW h \in Requests, pc[h] # "idle",
           NEW step \in {"mail", "write", "ok", "error"}, Goto(h, step)
    PROVE  /\ pc' \in [Requests -> Step]
           /\ monitor' \in Locked \cup {NoReq}
           /\ \A k \in Requests : pc'[k] # "idle" => pc[k] # "idle"
  BY DEF Goto, TypeOK, Step, Ended

LEMMA TypeInit == Init => TypeOK
  BY InGoldAssumption DEF Init, TypeOK, Row, PayState, OrderNumber, Step, Context, Means

LEMMA TypeStep == TypeOK /\ [Next]_vars => TypeOK'
<1> USE InGoldAssumption
<1> SUFFICES ASSUME TypeOK, [Next]_vars PROVE TypeOK'
  OBVIOUS
<1>1. ASSUME NEW o \in Orders, NEW asked \in Amounts, NEW paid \in Amounts,
             NEW online \in BOOLEAN, Save(o, asked, paid, online)
      PROVE  TypeOK'
  BY <1>1 DEF TypeOK, Save, Row, PayState, OrderNumber
<1>2. CASE SaveSysSetting
  BY <1>2 DEF TypeOK, SaveSysSetting
<1>3. ASSUME NEW h \in Requests, NEW o \in Orders, Notified(h, o)
      PROVE  TypeOK'
  BY <1>3 DEF TypeOK, Notified, Context, Means, Step, OrderNumber
<1>4. ASSUME NEW h \in Requests, NEW o \in Orders, NEW to \in Decided,
             NEW dollar \in Amounts, NEW no \in OrderNumber,
             ReviewPosted(h, o, to, dollar, no)
      PROVE  TypeOK'
  BY <1>4 DEF TypeOK, ReviewPosted, Context, Means, Step, Decided, OrderNumber
<1>5. ASSUME NEW h \in Requests, Begin(h)
      PROVE  TypeOK'
  <2> DEFINE o == ctx[h].order
  <2>1. o \in Orders /\ Len(log[o]) \in Nat /\ row[o] \in Row /\ ctx[h] \in Context
    BY <1>5 DEF TypeOK, Begin, BeginCallback, BeginGaozhi, BeginReview, MayEnter
  <2>2. PICK to \in {"PASS", "REFUSE", "PAY"}, dollar \in Amounts \cup {0}, no \in OrderNumber :
           ctx' = [ctx EXCEPT ![h] = Means(o, to, dollar, no, Len(log[o]))]
    <3>1. CASE BeginCallback(h)
      BY <3>1, <2>1 DEF BeginCallback, Row, OrderNumber
    <3>2. CASE BeginGaozhi(h)
      BY <3>2, <2>1 DEF BeginGaozhi, Row
    <3>3. CASE BeginReview(h)
      BY <3>3, <2>1 DEF BeginReview, Context
    <3> QED
      BY <3>1, <3>2, <3>3, <1>5 DEF Begin
  <2>3. Means(o, to, dollar, no, Len(log[o])) \in Context
    BY <2>1, <2>2 DEF Means, Context
  <2>4. /\ ctx' \in [Requests -> Context]
        /\ \A k \in Requests : ctx'[k].order = ctx[k].order
    BY <2>1, <2>2, <2>3 DEF TypeOK, Means
  <2>5. PICK step \in {"error", "ok", "mt4", "mail", "write"} : Goto(h, step)
    BY <1>5 DEF Begin, BeginCallback, BeginGaozhi, BeginReview
  <2>6. /\ pc' \in [Requests -> Step]
        /\ monitor' \in Locked \cup {NoReq}
    BY <2>5 DEF Goto, TypeOK, Step, Ended
  <2>7. \A k \in Requests : pc'[k] # "idle" => ctx'[k].order \in Orders
    BY <2>1, <2>4, <2>5 DEF TypeOK, Goto
  <2>8. UNCHANGED <<row, autoIn, applied, log>>
    BY <1>5 DEF Begin, BeginCallback, BeginGaozhi, BeginReview
  <2> QED
    BY <2>4, <2>6, <2>7, <2>8 DEF TypeOK
<1>6. ASSUME NEW h \in Requests, Mt4Answers(h)
      PROVE  TypeOK'
  <2>1. PICK step \in {"mail", "write", "ok", "error"} : Goto(h, step)
    BY <1>6 DEF Mt4Answers, CreditConfirmed, CreditUnconfirmed, CreditRefused
  <2>2. /\ applied' \subseteq Requests
        /\ UNCHANGED <<row, autoIn, ctx, log>>
        /\ pc[h] # "idle"
    BY <1>6 DEF TypeOK, Mt4Answers, CreditConfirmed, CreditUnconfirmed, CreditRefused
  <2> QED
    BY <2>1, <2>2, GotoType DEF TypeOK
<1>7. ASSUME NEW h \in Requests, MailAnswers(h)
      PROVE  TypeOK'
  <2>1. PICK step \in {"mail", "write", "ok", "error"} : Goto(h, step)
    BY <1>7 DEF MailAnswers, MailSent, MailFailed
  <2>2. UNCHANGED <<row, autoIn, ctx, applied, log>> /\ pc[h] # "idle"
    BY <1>7 DEF MailAnswers, MailSent, MailFailed
  <2> QED
    BY <2>1, <2>2, GotoType DEF TypeOK
<1>8. ASSUME NEW h \in Requests, Write(h)
      PROVE  TypeOK'
  <2> DEFINE o == ctx[h].order
  <2>1. o \in Orders /\ ctx[h] \in Context /\ row[o] \in Row /\ log[o] \in Seq(Requests)
    BY <1>8 DEF TypeOK, Write
  <2>2. row' \in [Orders -> Row]
    BY <1>8, <2>1 DEF TypeOK, Write, Row, Context, PayState, Decided
  <2>3. log' \in [Orders -> Seq(Requests)]
    BY <1>8, <2>1, AppendProperties DEF TypeOK, Write
  <2>4. /\ pc' \in [Requests -> Step]
        /\ monitor' \in Locked \cup {NoReq}
        /\ \A k \in Requests : pc'[k] # "idle" => pc[k] # "idle"
    BY <1>8, GotoType DEF Write
  <2> QED
    BY <1>8, <2>2, <2>3, <2>4 DEF TypeOK, Write
<1>9. ASSUME NEW h \in Requests, Fail(h)
      PROVE  TypeOK'
  <2>1. Goto(h, "error") /\ UNCHANGED <<row, autoIn, ctx, applied, log>> /\ pc[h] # "idle"
    BY <1>9 DEF Fail, MayEnter
  <2> QED
    BY <2>1, GotoType DEF TypeOK
<1>10. CASE UNCHANGED vars
  BY <1>10 DEF TypeOK, vars
<1> QED
  BY <1>1, <1>2, <1>3, <1>4, <1>5, <1>6, <1>7, <1>8, <1>9, <1>10, NextCases

\* The values of every variable stay in their types, and a request that has
\* arrived works on an order of the table.
THEOREM TypeCorrect == Spec => []TypeOK
  BY TypeInit, TypeStep, PTL DEF Spec
-----------------------------------------------------------------------------
(* The five forms a step can take *)

Quiet ==
    /\ UNCHANGED <<ctx, log, pc, applied, monitor>>
    /\ \A o \in Orders : \/ row'[o] = row[o]
                         \/ (row[o].state = "ABSENT" /\ row'[o].state \in {"UNPAY", "PAY"})

Arrives(h) ==
    /\ pc[h] = "idle"
    /\ pc' = [pc EXCEPT ![h] = "waiting"]
    /\ \E c \in Context :
          /\ ctx' = [ctx EXCEPT ![h] = c]
          /\ c.order \in Orders
          /\ row[c.order].state # "ABSENT"
          /\ h \in Gaozhi => c.to = "PAY"
    /\ UNCHANGED <<row, monitor, applied, log>>

Reads(h, c, step) ==
    /\ MayEnter(h)
    /\ ctx' = [ctx EXCEPT ![h] = c]
    /\ c.order = ctx[h].order
    /\ c.saw = Len(log[c.order])
    /\ Goto(h, step)
    /\ step \in Open => h \in Gaozhi \/ row[c.order].state \notin Decided
    /\ step = "mt4" => c.to = "PASS" /\ c.order \in BBook
    /\ step \in {"mail", "write"} => ~(c.to = "PASS" /\ c.order \in BBook)
    /\ step = "mail" => h \in Reviews
    /\ h \in Gaozhi => c.to = "PAY"
    /\ (step = "ok" /\ h \in Callbacks) => row[c.order].state # "UNPAY"
    /\ UNCHANGED <<row, applied, log>>

Advances(h, step) ==
    /\ pc[h] \in Open \/ (MayEnter(h) /\ step = "error")
    /\ Goto(h, step)
    /\ step = "mail" => pc[h] = "mt4" /\ h \in Reviews
    /\ step \in {"write", "ok"} => pc[h] \in {"mt4", "mail"}
    /\ step \in {"mail", "write"} => pc[h] = "mail" \/ h \in applied'
    /\ applied' = applied \/ (pc[h] = "mt4" /\ applied' = applied \cup {h})
    /\ UNCHANGED <<row, ctx, log>>

AdvanceStep == {"mail", "write", "ok", "error"}

LEMMA StepForms ==
    ASSUME TypeOK, [Next]_vars
    PROVE  \/ Quiet
           \/ \E h \in Requests : Arrives(h)
           \/ \E h \in Requests, c \in Context, step \in AdvanceStep \cup {"mt4"} : Reads(h, c, step)
           \/ \E h \in Requests, step \in AdvanceStep : Advances(h, step)
           \/ \E h \in Requests : Write(h)
<1> DEFINE Form == \/ Quiet
                   \/ \E h \in Requests : Arrives(h)
                   \/ \E h \in Requests, c \in Context, step \in AdvanceStep \cup {"mt4"} :
                         Reads(h, c, step)
                   \/ \E h \in Requests, step \in AdvanceStep : Advances(h, step)
                   \/ \E h \in Requests : Write(h)
<1> SUFFICES Form
  OBVIOUS
<1> USE InGoldAssumption
<1>1. ASSUME NEW o \in Orders, NEW asked \in Amounts, NEW paid \in Amounts,
             NEW online \in BOOLEAN, Save(o, asked, paid, online)
      PROVE  Quiet
  BY <1>1 DEF Save, Quiet, TypeOK
<1>2. SaveSysSetting => Quiet
  BY DEF SaveSysSetting, Quiet
<1>3. ASSUME NEW h \in Requests, NEW o \in Orders, Notified(h, o)
      PROVE  Arrives(h)
  <2>1. Means(o, "PAY", 0, "own", 0) \in Context
    BY DEF Means, Context, OrderNumber
  <2> QED
    BY <1>3, <2>1 DEF Notified, Arrives, Means
<1>4. ASSUME NEW h \in Requests, NEW o \in Orders, NEW to \in Decided,
             NEW dollar \in Amounts, NEW no \in OrderNumber,
             ReviewPosted(h, o, to, dollar, no)
      PROVE  Arrives(h)
  <2>1. Means(o, to, dollar, no, 0) \in Context
    BY DEF Means, Context, OrderNumber, Decided
  <2>2. h \notin Gaozhi
    BY <1>4 DEF ReviewPosted
  <2> QED
    BY <1>4, <2>1, <2>2 DEF ReviewPosted, Arrives, Means
<1>5. ASSUME NEW h \in Requests, Begin(h)
      PROVE  \E c \in Context, step \in AdvanceStep \cup {"mt4"} : Reads(h, c, step)
  <2> DEFINE o == ctx[h].order
  <2>1. /\ o \in Orders /\ Len(log[o]) \in Nat /\ row[o] \in Row /\ ctx[h] \in Context
        /\ UNCHANGED <<row, applied, log>> /\ MayEnter(h)
    BY <1>5 DEF TypeOK, Begin, BeginCallback, BeginGaozhi, BeginReview, MayEnter
  <2>2. CASE BeginCallback(h)
    <3> DEFINE auto == autoIn /\ o \in BBook
               c == Means(o, IF auto THEN "PASS" ELSE "PAY", row[o].dollar,
                          IF h \in Notify THEN row[o].no ELSE "other", Len(log[o]))
               step == IF h \in Notify /\ row[o].no # "own" THEN "error"
                       ELSE IF row[o].state # "UNPAY" THEN "ok"
                       ELSE IF auto THEN "mt4" ELSE "write"
    <3>1. c \in Context
      BY <2>1 DEF Means, Context, Row, OrderNumber
    <3>2. Reads(h, c, step)
      BY <2>1, <2>2 DEF BeginCallback, Reads, Means, Open, Decided, Callbacks
    <3>3. step \in AdvanceStep \cup {"mt4"}
      BY DEF AdvanceStep
    <3> QED
      BY <3>1, <3>2, <3>3
  <2>3. CASE BeginGaozhi(h)
    <3> DEFINE c == Means(o, "PAY", row[o].dollar, row[o].no, Len(log[o]))
    <3>1. c \in Context
      BY <2>1 DEF Means, Context, Row
    <3>2. PICK step \in {"write", "ok"} : Goto(h, step)
      BY <2>3 DEF BeginGaozhi
    <3>3. Reads(h, c, step)
      BY <2>1, <2>3, <3>2 DEF BeginGaozhi, Reads, Means, Callbacks
    <3> QED
      BY <3>1, <3>3 DEF AdvanceStep
  <2>4. CASE BeginReview(h)
    <3> DEFINE c == Means(o, ctx[h].to, ctx[h].dollar, ctx[h].no, Len(log[o]))
               step == IF row[o].state \in Decided THEN "ok"
                       ELSE IF ctx[h].to = "PASS" /\ o \in BBook THEN "mt4" ELSE "mail"
    <3>1. c \in Context
      BY <2>1 DEF Means, Context
    <3>2. Reads(h, c, step)
      BY <2>1, <2>4 DEF BeginReview, Reads, Means, Callbacks, Open
    <3> QED
      BY <3>1, <3>2 DEF AdvanceStep
  <2> QED
    BY <1>5, <2>2, <2>3, <2>4 DEF Begin
<1>6. ASSUME NEW h \in Requests, Mt4Answers(h) \/ MailAnswers(h) \/ Fail(h)
      PROVE  \E step \in AdvanceStep : Advances(h, step)
  <2> USE DEF Advances, AdvanceStep, Open
  <2>1. CASE CreditConfirmed(h)
    <3>1. Advances(h, IF h \in Reviews THEN "mail" ELSE "write")
      BY <2>1 DEF CreditConfirmed
    <3> QED
      BY <3>1
  <2>2. CASE CreditUnconfirmed(h) \/ CreditRefused(h) \/ MailFailed(h)
    <3>1. Advances(h, "ok")
      BY <2>2 DEF CreditUnconfirmed, CreditRefused, MailFailed
    <3> QED
      BY <3>1
  <2>3. CASE MailSent(h)
    <3>1. Advances(h, "write")
      BY <2>3 DEF MailSent
    <3> QED
      BY <3>1
  <2>4. CASE Fail(h)
    <3>1. Advances(h, "error")
      BY <2>4 DEF Fail
    <3> QED
      BY <3>1
  <2> QED
    BY <1>6, <2>1, <2>2, <2>3, <2>4 DEF Mt4Answers, MailAnswers
<1>7. UNCHANGED vars => Quiet
  BY DEF vars, Quiet
<1> QED
  BY <1>1, <1>2, <1>3, <1>4, <1>5, <1>6, <1>7 DEF Next, Handle
-----------------------------------------------------------------------------
(* What a write does to the log and to the row *)

LEMMA LogTyped ==
    ASSUME TypeOK, NEW o \in Orders
    PROVE  /\ Len(log[o]) \in Nat
           /\ \A i \in 1..Len(log[o]) : log[o][i] \in Requests
  BY DEF TypeOK

LEMMA WriteFacts ==
    ASSUME TypeOK, NEW h \in Requests, Write(h)
    PROVE  LET o == ctx[h].order
               n == Len(log[o])
           IN  /\ o \in Orders /\ n \in Nat
               /\ pc[h] = "write"
               /\ UNCHANGED <<ctx, applied>>
               /\ pc' = [pc EXCEPT ![h] = "ok"]
               /\ \A p \in Orders : p # o => log'[p] = log[p] /\ row'[p] = row[p]
               /\ Len(log'[o]) = n + 1
               /\ \A i \in 1..n : log'[o][i] = log[o][i]
               /\ log'[o][n + 1] = h
               /\ row'[o].state = ctx[h].to
               /\ row'[o].dollar = IF ctx[h].to = "PAY" THEN row[o].dollar ELSE ctx[h].dollar
<1> DEFINE o == ctx[h].order
<1>1. o \in Orders /\ log[o] \in Seq(Requests) /\ pc[h] = "write"
  BY DEF TypeOK, Write
<1>2. /\ \A p \in Orders : p # o => log'[p] = log[p] /\ row'[p] = row[p]
      /\ log'[o] = Append(log[o], h)
      /\ row'[o].state = ctx[h].to
      /\ row'[o].dollar = IF ctx[h].to = "PAY" THEN row[o].dollar ELSE ctx[h].dollar
      /\ UNCHANGED <<ctx, applied>>
      /\ pc' = [pc EXCEPT ![h] = "ok"]
  BY <1>1 DEF Write, TypeOK, Goto
<1>3. /\ Len(log[o]) \in Nat /\ Len(log'[o]) = Len(log[o]) + 1
      /\ \A i \in 1..Len(log[o]) : log'[o][i] = log[o][i]
      /\ log'[o][Len(log[o]) + 1] = h
  BY <1>1, <1>2, AppendProperties, LenProperties
<1> QED
  BY <1>1, <1>2, <1>3

\* An entry of the log after a commit was there before it, or is the commit.
LEMMA NewEntry ==
    ASSUME TypeOK, NEW h \in Requests, Write(h), NEW o \in Orders,
           NEW i \in 1..Len(log'[o]), i \notin 1..Len(log[o])
    PROVE  o = ctx[h].order /\ i = Len(log[o]) + 1 /\ log'[o][i] = h
<1> DEFINE n == Len(log[o])
<1>1. o = ctx[h].order
  <2>1. o # ctx[h].order => log'[o] = log[o]
    BY WriteFacts
  <2> QED
    BY <2>1
<1>2. n \in Nat /\ Len(log'[o]) = n + 1 /\ log'[o][n + 1] = h
  BY <1>1, WriteFacts
<1>3. i = n + 1
  BY <1>2
<1> QED
  BY <1>1, <1>2, <1>3
-----------------------------------------------------------------------------
(* Every part of the inductive invariant is preserved *)

LEMMA PcStep == TypeOK /\ PcInv /\ [Next]_vars => PcInv'
<1> SUFFICES ASSUME TypeOK, PcInv, [Next]_vars, NEW k \in Requests
             PROVE  PcInv!(k)'
  BY DEF PcInv
<1>1. CASE Quiet
  BY <1>1 DEF PcInv, Quiet
<1>2. ASSUME NEW h \in Requests, Arrives(h)
      PROVE  PcInv!(k)'
  BY <1>2 DEF PcInv, Arrives, TypeOK
<1>3. ASSUME NEW h \in Requests, NEW c \in Context, NEW step \in AdvanceStep \cup {"mt4"},
             Reads(h, c, step)
      PROVE  PcInv!(k)'
  BY <1>3 DEF PcInv, Reads, TypeOK, MayEnter, Goto, AdvanceStep, Open
<1>4. ASSUME NEW h \in Requests, NEW step \in AdvanceStep, Advances(h, step)
      PROVE  PcInv!(k)'
  BY <1>4 DEF PcInv, Advances, TypeOK, MayEnter, Goto, AdvanceStep, Open
<1>5. ASSUME NEW h \in Requests, Write(h)
      PROVE  PcInv!(k)'
  BY <1>5, WriteFacts DEF PcInv, TypeOK
<1> QED
  BY <1>1, <1>2, <1>3, <1>4, <1>5, StepForms

\* A step only appends to the log, and leaves alone the requests recorded in it.
Kept ==
    \A o \in Orders :
        /\ Len(log[o]) \in Nat /\ Len(log'[o]) \in Nat
        /\ Len(log[o]) <= Len(log'[o])
        /\ \A i \in 1..Len(log[o]) : /\ log'[o][i] = log[o][i]
                                     /\ ctx'[log[o][i]] = ctx[log[o][i]]
                                     /\ pc'[log[o][i]] = "ok"

LEMMA LogKept == TypeOK /\ LogInv /\ [Next]_vars => Kept
<1> SUFFICES ASSUME TypeOK, LogInv, [Next]_vars, NEW o \in Orders
             PROVE  Kept!(o)
  BY DEF Kept
<1> USE LogTyped
<1>0. \A i \in 1..Len(log[o]) : pc[log[o][i]] = "ok"
  BY DEF LogInv
<1>1. CASE Quiet
  BY <1>0, <1>1 DEF Quiet
<1>2. ASSUME NEW h \in Requests, Arrives(h)
      PROVE  Kept!(o)
  <2>1. \A i \in 1..Len(log[o]) : log[o][i] # h
    BY <1>0, <1>2 DEF Arrives
  <2> QED
    BY <1>0, <1>2, <2>1 DEF Arrives, TypeOK
<1>3. ASSUME NEW h \in Requests, NEW c \in Context, NEW step \in AdvanceStep \cup {"mt4"},
             Reads(h, c, step)
      PROVE  Kept!(o)
  <2>1. \A i \in 1..Len(log[o]) : log[o][i] # h
    BY <1>0, <1>3 DEF Reads, MayEnter
  <2> QED
    BY <1>0, <1>3, <2>1 DEF Reads, Goto, TypeOK
<1>4. ASSUME NEW h \in Requests, NEW step \in AdvanceStep, Advances(h, step)
      PROVE  Kept!(o)
  <2>1. \A i \in 1..Len(log[o]) : log[o][i] # h
    BY <1>0, <1>4 DEF Advances, MayEnter, Open
  <2> QED
    BY <1>0, <1>4, <2>1 DEF Advances, Goto, TypeOK
<1>5. ASSUME NEW h \in Requests, Write(h)
      PROVE  Kept!(o)
  <2>1. \A i \in 1..Len(log[o]) : pc'[log[o][i]] = "ok"
    BY <1>0, <1>5, WriteFacts DEF TypeOK
  <2>2. CASE o = ctx[h].order
    BY <1>5, <2>1, <2>2, WriteFacts
  <2>3. CASE o # ctx[h].order
    BY <1>5, <2>1, <2>3, WriteFacts
  <2> QED
    BY <2>2, <2>3
<1> QED
  BY <1>1, <1>2, <1>3, <1>4, <1>5, StepForms

\* What a request saw is not undone by later writes.
LEMMA SawKept ==
    ASSUME TypeOK, Kept, NEW k \in Requests, ctx[k].order \in Orders,
           ctx'[k] = ctx[k], SawUndecided(k)
    PROVE  SawUndecided(k)'
<1> DEFINE o == ctx[k].order
           s == ctx[k].saw
<1>1. s \in Nat /\ Len(log[o]) \in Nat /\ s <= Len(log[o])
  BY DEF TypeOK, Context, SawUndecided
<1>2. Len(log[o]) <= Len(log'[o]) /\ Len(log'[o]) \in Nat
  BY DEF Kept
<1>3. s > 0 => /\ log'[o][s] = log[o][s]
               /\ ctx'[log[o][s]] = ctx[log[o][s]]
  BY <1>1 DEF Kept
<1>4. s <= Len(log'[o])
  BY <1>1, <1>2
<1>5. (k \notin Gaozhi /\ s > 0) => ctx'[log'[o][s]].to = "PAY"
  BY <1>3 DEF SawUndecided
<1> QED
  BY <1>4, <1>5 DEF SawUndecided

LEMMA SawStep == TypeOK /\ PcInv /\ SawInv /\ LogInv /\ RowInv /\ [Next]_vars => SawInv'
<1> SUFFICES ASSUME TypeOK, PcInv, SawInv, LogInv, RowInv, [Next]_vars,
                    NEW k \in Requests, (pc[k] \in Open \/ k \in applied)'
             PROVE  SawUndecided(k)'
  BY DEF SawInv
<1>0. Kept
  BY LogKept
<1>k. ASSUME pc[k] \in Open \/ k \in applied, ctx'[k] = ctx[k]
      PROVE  SawUndecided(k)'
  <2>1. ctx[k].order \in Orders
    BY <1>k DEF TypeOK, PcInv, Open
  <2> QED
    BY <1>0, <1>k, <2>1, SawKept DEF SawInv
<1>1. CASE Quiet
  BY <1>1, <1>k DEF Quiet, Open
<1>2. ASSUME NEW h \in Requests, Arrives(h)
      PROVE  SawUndecided(k)'
  <2>1. k # h
    BY <1>2 DEF Arrives, PcInv, Open, TypeOK
  <2> QED
    BY <1>2, <1>k, <2>1 DEF Arrives, TypeOK, Open
<1>3. ASSUME NEW h \in Requests, NEW c \in Context, NEW step \in AdvanceStep \cup {"mt4"},
             Reads(h, c, step)
      PROVE  SawUndecided(k)'
  <2>1. CASE k # h
    BY <1>3, <1>k, <2>1 DEF Reads, Goto, TypeOK, Open
  <2>2. CASE k = h
    <3> DEFINE o == c.order
               n == Len(log[o])
    <3>1. o \in Orders /\ n \in Nat /\ c.saw = n /\ ctx'[k] = c /\ UNCHANGED log
      BY <1>3, <2>2, LogTyped DEF Reads, MayEnter, TypeOK
    <3>2. h \notin applied
      BY <1>3 DEF PcInv, Reads, MayEnter
    <3>3. step \in Open
      BY <1>3, <2>2, <3>2 DEF Reads, Goto, TypeOK, Open
    <3>4. ASSUME h \notin Gaozhi, n > 0
          PROVE  ctx[log[o][n]].to = "PAY"
      <4>1. row[o].state \notin Decided
        BY <1>3, <3>3, <3>4 DEF Reads
      <4>2. row[o].state = ctx[log[o][n]].to
        BY <3>1, <3>4 DEF RowInv
      <4>3. ctx[log[o][n]].to \in {"PASS", "REFUSE", "PAY"}
        BY <3>1, <3>4, LogTyped DEF TypeOK, Context
      <4> QED
        BY <4>1, <4>2, <4>3 DEF Decided
    <3>5. n > 0 => ctx'[log[o][n]] = ctx[log[o][n]]
      BY <1>0, <3>1 DEF Kept
    <3> QED
      BY <2>2, <3>1, <3>4, <3>5 DEF SawUndecided
  <2> QED
    BY <2>1, <2>2
<1>4. ASSUME NEW h \in Requests, NEW step \in AdvanceStep, Advances(h, step)
      PROVE  SawUndecided(k)'
  BY <1>4, <1>k DEF Advances, Goto, TypeOK, Open, AdvanceStep
<1>5. ASSUME NEW h \in Requests, Write(h)
      PROVE  SawUndecided(k)'
  BY <1>5, <1>k, WriteFacts DEF TypeOK, Open
<1> QED
  BY <1>1, <1>2, <1>3, <1>4, <1>5, StepForms

\* A recorded request stays recorded, and credited if it was.
LEMMA AppliedKept == ASSUME TypeOK, [Next]_vars PROVE applied \subseteq applied'
  BY StepForms, WriteFacts DEF Quiet, Arrives, Reads, Advances

LEMMA LogStep == TypeOK /\ PcInv /\ SawInv /\ LogInv /\ [Next]_vars => LogInv'
<1> SUFFICES ASSUME TypeOK, PcInv, SawInv, LogInv, [Next]_vars,
                    NEW o \in Orders, NEW i \in 1..Len(log'[o])
             PROVE  LogInv!(o)!(i)'
  BY DEF LogInv
<1>0. Kept
  BY LogKept
<1>1. ASSUME i \in 1..Len(log[o])
      PROVE  LogInv!(o)!(i)'
  <2> DEFINE k == log[o][i]
  <2>1. k \in Requests /\ ctx[k].order = o /\ ctx[k].saw < i /\ SawUndecided(k)
    BY <1>1, LogTyped DEF LogInv
  <2>2. log'[o][i] = k /\ ctx'[k] = ctx[k] /\ pc'[k] = "ok"
    BY <1>0, <1>1 DEF Kept
  <2>3. SawUndecided(k)'
    BY <1>0, <2>1, <2>2, SawKept
  <2>4. ctx[k].to = "PASS" /\ o \in BBook => k \in applied'
    BY <1>1, AppliedKept DEF LogInv
  <2> QED
    BY <2>1, <2>2, <2>3, <2>4
<1>2. CASE UNCHANGED log
  BY <1>1, <1>2
<1>3. ASSUME NEW h \in Requests, Write(h)
      PROVE  LogInv!(o)!(i)'
  <2>1. CASE i \in 1..Len(log[o])
    BY <1>1, <2>1
  <2>2. CASE i \notin 1..Len(log[o])
    <3>1. o = ctx[h].order /\ i = Len(log[o]) + 1 /\ log'[o][i] = h
      BY <1>3, <2>2, NewEntry
    <3>2. ctx'[h] = ctx[h] /\ pc'[h] = "ok" /\ pc[h] = "write" /\ applied' = applied
      BY <1>3, WriteFacts DEF TypeOK
    <3>3. SawUndecided(h) /\ ctx[h].saw \in Nat /\ Len(log[o]) \in Nat
      BY <3>2, LogTyped DEF SawInv, Open, TypeOK, Context
    <3>4. ctx[h].saw < i
      BY <3>1, <3>3 DEF SawUndecided
    <3>5. SawUndecided(h)'
      BY <1>0, <3>1, <3>2, <3>3, SawKept
    <3>6. ctx[h].to = "PASS" /\ o \in BBook => h \in applied'
      BY <3>1, <3>2 DEF PcInv
    <3> QED
      BY <3>1, <3>2, <3>4, <3>5, <3>6
  <2> QED
    BY <2>1, <2>2
<1> QED
  BY <1>2, <1>3, StepForms DEF Quiet, Arrives, Reads, Advances

LEMMA RowStep == TypeOK /\ LogInv /\ RowInv /\ [Next]_vars => RowInv'
<1> SUFFICES ASSUME TypeOK, LogInv, RowInv, [Next]_vars, NEW o \in Orders
             PROVE  RowInv!(o)'
  BY DEF RowInv
<1> DEFINE n == Len(log[o])
<1>0. Kept
  BY LogKept
<1>n. n \in Nat
  BY LogTyped
<1>1. ASSUME log'[o] = log[o],
             \/ row'[o] = row[o]
             \/ row[o].state = "ABSENT" /\ row'[o].state \in {"UNPAY", "PAY"}
      PROVE  RowInv!(o)'
  <2>1. CASE n = 0
    BY <1>1, <2>1 DEF RowInv
  <2>2. CASE n > 0
    <3> DEFINE k == log[o][n]
    <3>1. row[o].state = ctx[k].to /\ (ctx[k].to # "PAY" => row[o].dollar = ctx[k].dollar)
      BY <2>2 DEF RowInv
    <3>2. ctx[k].to # "ABSENT"
      <4>1. k \in Requests
        BY <1>n, <2>2, LogTyped
      <4> QED
        BY <4>1 DEF TypeOK, Context
    <3>3. ctx'[k] = ctx[k]
      BY <1>0, <1>n, <2>2 DEF Kept
    <3> QED
      BY <1>1, <2>2, <3>1, <3>2, <3>3
  <2> QED
    BY <1>n, <2>1, <2>2
<1>2. ASSUME NEW h \in Requests, Write(h)
      PROVE  RowInv!(o)'
  <2>1. CASE o = ctx[h].order
    <3>1. Len(log'[o]) = n + 1 /\ log'[o][n + 1] = h /\ ctx' = ctx
      BY <1>2, <2>1, WriteFacts
    <3>2. /\ row'[o].state = ctx[h].to
          /\ ctx[h].to # "PAY" => row'[o].dollar = ctx[h].dollar
      BY <1>2, <2>1, WriteFacts
    <3> QED
      BY <1>n, <3>1, <3>2
  <2>2. CASE o # ctx[h].order
    BY <1>1, <1>2, <2>2, WriteFacts
  <2> QED
    BY <2>1, <2>2
<1> QED
  BY <1>1, <1>2, StepForms DEF Quiet, Arrives, Reads, Advances

\* A write is undone in the same way after more writes.
LEMMA ReopensKept ==
    ASSUME TypeOK, Kept, NEW o \in Orders, NEW m \in 1..Len(log[o]), NEW i, Reopens(o, m, i)
    PROVE  Reopens(o, m, i)'
  BY DEF Kept, Reopens

\* A request that read after some write read right after one that wrote PAY.
LEMMA LastSeen ==
    ASSUME NEW o \in Orders, Len(log[o]) \in Nat, NEW h \in Requests, h \notin Gaozhi,
           SawUndecided(h), ctx[h].order = o, ctx[h].saw \in Nat,
           NEW i \in 1..Len(log[o]), i <= ctx[h].saw
    PROVE  ctx[h].saw \in 1..Len(log[o]) /\ ctx[log[o][ctx[h].saw]].to = "PAY"
<1>1. ctx[h].saw > 0
  OBVIOUS
<1>2. ctx[h].saw <= Len(log[o]) /\ ctx[log[o][ctx[h].saw]].to = "PAY"
  BY <1>1 DEF SawUndecided
<1> QED
  BY <1>1, <1>2

LEMMA ReopenStep == TypeOK /\ SawInv /\ LogInv /\ ReopenInv /\ [Next]_vars => ReopenInv'
<1> SUFFICES ASSUME TypeOK, SawInv, LogInv, ReopenInv, [Next]_vars, NEW o \in Orders,
                    NEW i \in 1..Len(log'[o]), NEW j \in 1..Len(log'[o]), i < j,
                    ctx'[log'[o][i]].to # "PAY", ctx'[log'[o][j]].to = "PAY"
             PROVE  \E m \in (i + 1)..j : Reopens(o, m, i)'
  BY DEF ReopenInv
<1> DEFINE n == Len(log[o])
<1>0. Kept
  BY LogKept
<1>n. n \in Nat
  BY LogTyped
<1>1. CASE j \in 1..n
  <2>1. i \in 1..n /\ ctx[log[o][i]].to # "PAY" /\ ctx[log[o][j]].to = "PAY"
    BY <1>0, <1>1 DEF Kept
  <2>2. PICK m \in (i + 1)..j : Reopens(o, m, i)
    BY <1>1, <2>1 DEF ReopenInv
  <2>3. m \in 1..n
    BY <1>1, <2>1
  <2> QED
    BY <1>0, <2>2, <2>3, ReopensKept
<1>2. CASE j \notin 1..n
  <2>0. PICK h \in Requests : Write(h)
    BY <1>2, StepForms DEF Quiet, Arrives, Reads, Advances
  <2>1. /\ o = ctx[h].order /\ j = n + 1 /\ log'[o][j] = h
        /\ pc[h] = "write" /\ ctx'[h] = ctx[h]
    <3>1. pc[h] = "write" /\ ctx' = ctx
      BY <2>0, WriteFacts
    <3> QED
      BY <1>2, <2>0, <3>1, NewEntry
  <2>2. i \in 1..n /\ ctx[log[o][i]].to # "PAY" /\ ctx[h].to = "PAY"
    <3>1. i \in 1..n
      BY <1>n, <2>1
    <3>2. log'[o][i] = log[o][i] /\ ctx'[log[o][i]] = ctx[log[o][i]]
      BY <1>0, <3>1 DEF Kept
    <3> QED
      BY <2>1, <3>1, <3>2
  <2>3. CASE h \in Gaozhi \/ ctx[h].saw < i
    <3>1. Reopens(o, j, i)'
      BY <2>1, <2>2, <2>3 DEF Reopens
    <3>2. j \in (i + 1)..j
      BY <1>n, <2>1, <2>2
    <3> QED
      BY <3>1, <3>2
  <2>4. CASE h \notin Gaozhi /\ ~(ctx[h].saw < i)
    <3> DEFINE s == ctx[h].saw
    <3>1. SawUndecided(h) /\ s \in Nat
      BY <2>1 DEF SawInv, Open, TypeOK, Context
    <3>2. s \in 1..n /\ ctx[log[o][s]].to = "PAY"
      <4>1. i <= s /\ ctx[h].order = o
        BY <2>1, <2>2, <2>4, <3>1
      <4> QED
        BY <1>n, <2>2, <2>4, <3>1, <4>1, LastSeen
    <3>3. i < s
      BY <2>2, <2>4, <3>2
    <3>4. PICK m \in (i + 1)..s : Reopens(o, m, i)
      BY <2>2, <3>2, <3>3 DEF ReopenInv
    <3>5. m \in 1..n /\ m \in (i + 1)..j
      BY SMTT(30), <1>n, <2>1, <2>2, <3>2
    <3> QED
      BY <1>0, <3>4, <3>5, ReopensKept
  <2> QED
    BY <2>3, <2>4
<1> QED
  BY <1>1, <1>2

LEMMA MonitorStep == TypeOK /\ LogInv /\ MonitorInv /\ [Next]_vars => MonitorInv'
<1> SUFFICES ASSUME TypeOK, LogInv, MonitorInv, [Next]_vars PROVE MonitorInv'
  OBVIOUS
<1>0. Kept
  BY LogKept
<1> USE InGoldAssumption
\* One callback at most is between its read and its commit.
<1>1. \A k \in Locked : pc'[k] \in Open => monitor' = k
  <2>1. CASE Quiet
    BY <2>1 DEF Quiet, MonitorInv
  <2>2. ASSUME NEW h \in Requests, Arrives(h)
        PROVE  <1>1!:
    BY <2>2 DEF Arrives, MonitorInv, TypeOK, Open, Requests, Callbacks
  <2>3. ASSUME NEW h \in Requests, NEW c \in Context, NEW step \in AdvanceStep \cup {"mt4"},
               Reads(h, c, step)
        PROVE  <1>1!:
    BY <2>3 DEF Reads, MayEnter, Goto, MonitorInv, TypeOK, Open, Ended, Requests, Callbacks
  <2>4. ASSUME NEW h \in Requests, NEW step \in AdvanceStep, Advances(h, step)
        PROVE  <1>1!:
    BY <2>4 DEF Advances, MayEnter, Goto, MonitorInv, TypeOK, Open, Ended, Requests, Callbacks
  <2>5. ASSUME NEW h \in Requests, Write(h)
        PROVE  <1>1!:
    BY <2>5 DEF Write, Goto, MonitorInv, TypeOK, Open, Ended, Requests, Callbacks
  <2> QED
    BY <2>1, <2>2, <2>3, <2>4, <2>5, StepForms
\* So a callback that is at work has seen every recorded callback of its order.
<1>2. ASSUME NEW o \in Orders, NEW i \in 1..Len(log'[o]), log'[o][i] \in Locked,
             NEW k \in Locked, pc'[k] \in Open, ctx'[k].order = o
      PROVE  i <= ctx'[k].saw
  <2>k. k \in Requests
    BY DEF Requests, Callbacks
  <2>n. Len(log[o]) \in Nat
    BY LogTyped
  <2>0. ASSUME i \in 1..Len(log[o]), ctx'[k] = ctx[k], pc[k] \in Open
        PROVE  i <= ctx'[k].saw
    BY <1>0, <1>2, <2>0 DEF MonitorInv, Kept
  <2>1. CASE Quiet
    BY <1>2, <2>0, <2>1 DEF Quiet
  <2>2. ASSUME NEW h \in Requests, Arrives(h)
        PROVE  i <= ctx'[k].saw
    BY <1>2, <2>0, <2>2, <2>k DEF Arrives, TypeOK, Open
  <2>3. ASSUME NEW h \in Requests, NEW c \in Context, NEW step \in AdvanceStep \cup {"mt4"},
               Reads(h, c, step)
        PROVE  i <= ctx'[k].saw
    <3>1. CASE k = h
      BY <1>2, <2>3, <2>n, <3>1 DEF Reads, TypeOK
    <3>2. CASE k # h
      BY <1>2, <2>0, <2>3, <2>k, <3>2 DEF Reads, Goto, TypeOK
    <3> QED
      BY <3>1, <3>2
  <2>4. ASSUME NEW h \in Requests, NEW step \in AdvanceStep, Advances(h, step)
        PROVE  i <= ctx'[k].saw
    BY <1>2, <2>0, <2>4, <2>k DEF Advances, MayEnter, Goto, TypeOK, Open, AdvanceStep
  <2>5. ASSUME NEW h \in Requests, Write(h)
        PROVE  i <= ctx'[k].saw
    <3>1. k # h /\ pc[k] \in Open /\ ctx'[k] = ctx[k]
      BY <1>2, <2>5, <2>k, WriteFacts DEF TypeOK, Open
    <3>2. i \in 1..Len(log[o])
      <4>1. SUFFICES ASSUME i \notin 1..Len(log[o]) PROVE FALSE
        OBVIOUS
      <4>2. log'[o][i] = h /\ pc[h] = "write"
        BY <2>5, <4>1, NewEntry, WriteFacts
      <4> QED
        BY <1>2, <3>1, <4>2 DEF MonitorInv, Open
    <3> QED
      BY <2>0, <3>1, <3>2
  <2> QED
    BY <2>1, <2>2, <2>3, <2>4, <2>5, StepForms
<1>3. ASSUME NEW o \in Orders, NEW i \in 1..Len(log'[o]), log'[o][i] \in Locked,
             NEW j \in (i + 1)..Len(log'[o]), log'[o][j] \in Locked
      PROVE  i <= ctx'[log'[o][j]].saw
  <2>n. Len(log[o]) \in Nat /\ i \in Nat /\ j \in Nat
    BY LogTyped DEF Kept
  <2>1. CASE j \in 1..Len(log[o])
    <3>1. i \in 1..Len(log[o]) /\ j \in (i + 1)..Len(log[o])
      BY <1>3, <2>1
    <3> QED
      BY SMTT(30), <1>0, <1>3, <2>1, <3>1 DEF MonitorInv, Kept
  <2>2. CASE j \notin 1..Len(log[o])
    <3>1. PICK h \in Requests : Write(h)
      BY <2>2, <2>n, StepForms DEF Quiet, Arrives, Reads, Advances
    <3>2. /\ o = ctx[h].order /\ log'[o][j] = h /\ j = Len(log[o]) + 1
          /\ pc[h] = "write" /\ ctx'[h] = ctx[h]
      <4>1. j \in 1..Len(log'[o])
        BY <2>n
      <4>2. pc[h] = "write" /\ ctx' = ctx
        BY <3>1, WriteFacts
      <4> QED
        BY <2>2, <3>1, <4>1, <4>2, NewEntry
    <3>3. i \in 1..Len(log[o]) /\ log[o][i] = log'[o][i]
      <4>1. i \in 1..Len(log[o])
        BY <2>n, <3>2
      <4> QED
        BY <1>0, <4>1 DEF Kept
    <3> QED
      BY <1>3, <3>2, <3>3 DEF MonitorInv, Open
  <2> QED
    BY <2>1, <2>2
<1> QED
  BY <1>1, <1>2, <1>3 DEF MonitorInv

LEMMA AckStep == TypeOK /\ PcInv /\ AckInv /\ [Next]_vars => AckInv'
<1> SUFFICES ASSUME TypeOK, PcInv, AckInv, [Next]_vars PROVE AckInv'
  OBVIOUS
<1> USE InGoldAssumption
\* Saved orders stay saved, and only customers make one unpaid.
<1>1. \A o \in Orders : row[o].state # "ABSENT" =>
         /\ row'[o].state # "ABSENT"
         /\ row'[o].state = "UNPAY" => row[o].state = "UNPAY"
  <2>1. ASSUME NEW h \in Requests, Write(h), NEW o \in Orders
        PROVE  \/ row'[o] = row[o]
               \/ row'[o].state = ctx[h].to /\ ctx[h].to \notin {"ABSENT", "UNPAY"}
    <3>1. ctx[h].to \notin {"ABSENT", "UNPAY"}
      BY <2>1 DEF TypeOK, Context, Write
    <3>2. CASE o = ctx[h].order
      BY <2>1, <3>1, <3>2, WriteFacts
    <3>3. CASE o # ctx[h].order
      BY <2>1, <3>3, WriteFacts
    <3> QED
      BY <3>2, <3>3
  <2> QED
    BY <2>1, StepForms DEF Quiet, Arrives, Reads, Advances
<1>2. ASSUME NEW k \in Requests, pc'[k] # "idle"
      PROVE  row'[ctx'[k].order].state # "ABSENT"
  <2>0. ASSUME pc[k] # "idle", ctx'[k].order = ctx[k].order
        PROVE  row'[ctx'[k].order].state # "ABSENT"
    BY <1>1, <2>0 DEF AckInv, TypeOK
  <2>1. CASE Quiet
    BY <1>2, <2>0, <2>1 DEF Quiet
  <2>2. ASSUME NEW h \in Requests, Arrives(h)
        PROVE  row'[ctx'[k].order].state # "ABSENT"
    BY <1>2, <2>0, <2>2 DEF Arrives, TypeOK
  <2>3. ASSUME NEW h \in Requests, NEW c \in Context, NEW step \in AdvanceStep \cup {"mt4"},
               Reads(h, c, step)
        PROVE  row'[ctx'[k].order].state # "ABSENT"
    BY <1>2, <2>0, <2>3 DEF Reads, MayEnter, Goto, TypeOK
  <2>4. ASSUME NEW h \in Requests, NEW step \in AdvanceStep, Advances(h, step)
        PROVE  row'[ctx'[k].order].state # "ABSENT"
    BY <1>2, <2>0, <2>4 DEF Advances, MayEnter, Goto, TypeOK, Open
  <2>5. ASSUME NEW h \in Requests, Write(h)
        PROVE  row'[ctx'[k].order].state # "ABSENT"
    BY <1>2, <2>0, <2>5, WriteFacts DEF TypeOK
  <2> QED
    BY <2>1, <2>2, <2>3, <2>4, <2>5, StepForms
<1>3. ASSUME NEW k \in Callbacks \ Untold, pc'[k] = "ok", row'[ctx'[k].order].state = "UNPAY"
      PROVE  ctx'[k].to = "PASS"
  <2>k. k \in Requests /\ k \in Callbacks /\ k \notin Reviews
    BY DEF Requests, Callbacks
  <2>0. ASSUME pc[k] = "ok", ctx'[k] = ctx[k]
        PROVE  ctx'[k].to = "PASS"
    <3>1. row[ctx[k].order].state = "UNPAY"
      BY <1>1, <1>3, <2>0, <2>k DEF AckInv, TypeOK
    <3> QED
      BY <2>0, <3>1 DEF AckInv, AckedPaymentRecorded
  <2>1. CASE Quiet
    BY <1>3, <2>0, <2>1 DEF Quiet
  <2>2. ASSUME NEW h \in Requests, Arrives(h)
        PROVE  ctx'[k].to = "PASS"
    BY <1>3, <2>0, <2>2, <2>k DEF Arrives, TypeOK
  <2>3. ASSUME NEW h \in Requests, NEW c \in Context, NEW step \in AdvanceStep \cup {"mt4"},
               Reads(h, c, step)
        PROVE  ctx'[k].to = "PASS"
    BY <1>3, <2>0, <2>3, <2>k DEF Reads, MayEnter, Goto, TypeOK
  <2>4. ASSUME NEW h \in Requests, NEW step \in AdvanceStep, Advances(h, step)
        PROVE  ctx'[k].to = "PASS"
    BY <1>3, <2>0, <2>4, <2>k DEF Advances, PcInv, Goto, TypeOK
  <2>5. ASSUME NEW h \in Requests, Write(h)
        PROVE  ctx'[k].to = "PASS"
    <3>1. ctx'[k] = ctx[k] /\ (k # h => pc[k] = "ok")
      BY <1>3, <2>5, <2>k, WriteFacts DEF TypeOK
    <3>2. k # h
      BY SMTT(30), <1>3, <2>5, <3>1, WriteFacts DEF TypeOK, Context
    <3> QED
      BY <2>0, <3>1, <3>2
  <2> QED
    BY <2>1, <2>2, <2>3, <2>4, <2>5, StepForms
<1> QED
  BY <1>2, <1>3 DEF AckInv, AckedPaymentRecorded
-----------------------------------------------------------------------------
(* The inductive invariant and the properties that follow from it *)

LEMMA InvInit == Init => IInv
<1> SUFFICES ASSUME Init PROVE IInv
  OBVIOUS
<1>1. TypeOK
  BY TypeInit
<1>2. PcInv /\ SawInv
  BY InGoldAssumption DEF Init, PcInv, SawInv, Open, Means
<1>3. LogInv /\ RowInv /\ ReopenInv /\ MonitorInv
  BY InGoldAssumption DEF Init, LogInv, RowInv, ReopenInv, MonitorInv, Open, Requests, Callbacks
<1>4. AckInv
  BY InGoldAssumption DEF Init, AckInv, AckedPaymentRecorded, Requests, Callbacks
<1> QED
  BY <1>1, <1>2, <1>3, <1>4 DEF IInv

\* The data of the table, the monitor and the calls in flight stay consistent
\* with the history of writes at every interleaving of deposits and reviews.
THEOREM Inductive == Spec => []IInv
<1>1. IInv /\ [Next]_vars => IInv'
  BY TypeStep, PcStep, SawStep, LogStep, RowStep, ReopenStep, MonitorStep, AckStep DEF IInv
<1> QED
  BY InvInit, <1>1, PTL DEF Spec

\* A B-book order reads PASS only when MT4 credited the dollars its row shows.
THEOREM PassIsBacked == Spec => []PassBacked
<1>1. IInv => PassBacked
  <2> SUFFICES ASSUME IInv, NEW o \in BBook, row[o].state = "PASS"
               PROVE  PassBacked!(o)!2
    BY DEF PassBacked
  <2> DEFINE n == Len(log[o])
  <2>1. o \in Orders /\ n \in Nat
    BY InGoldAssumption, LogTyped DEF IInv
  <2>2. n # 0
    BY <2>1 DEF IInv, RowInv
  <2>3. n \in 1..n
    BY <2>1, <2>2
  <2>4. ctx[log[o][n]].to = "PASS" /\ row[o].dollar = ctx[log[o][n]].dollar
    BY <2>1, <2>2 DEF IInv, RowInv
  <2> QED
    BY <2>1, <2>3, <2>4 DEF IInv, LogInv
<1> QED
  BY Inductive, <1>1, PTL

\* A request that saw a recorded credit credits the order again only if the row
\* was put back to PAY between that record and its read.
THEOREM ExtraCreditIsExplained == Spec => []ExtraCreditExplained
<1>1. IInv => ExtraCreditExplained
  <2> SUFFICES ASSUME IInv, NEW o \in Orders, NEW i \in DOMAIN log[o], NEW g \in applied,
                      ctx[g].order = o, log[o][i] \in applied, i <= ctx[g].saw
               PROVE  \E m \in (i + 1)..ctx[g].saw : Reopens(o, m, i)
    BY DEF ExtraCreditExplained
  <2> DEFINE s == ctx[g].saw
  <2>1. /\ g \in Requests /\ s \in Nat /\ g \notin Gaozhi
        /\ Len(log[o]) \in Nat /\ i \in 1..Len(log[o]) /\ log[o][i] \in Requests
    BY DEF IInv, TypeOK, Context, PcInv
  <2>2. SawUndecided(g)
    BY <2>1 DEF IInv, SawInv
  <2>3. s \in 1..Len(log[o]) /\ ctx[log[o][s]].to = "PAY"
    BY <2>1, <2>2 DEF SawUndecided
  <2>4. ctx[log[o][i]].to # "PAY"
    BY <2>1 DEF IInv, PcInv
  <2>5. i < s
    BY <2>1, <2>3, <2>4
  <2> QED
    BY <2>1, <2>3, <2>4, <2>5 DEF IInv, ReopenInv
<1> QED
  BY Inductive, <1>1, PTL

\* An order is refused over a recorded credit only if the reviewer read the row
\* before that record, or the row was put back to PAY.
THEOREM RefusalIsExplained == Spec => []RefusalExplained
<1>1. IInv => RefusalExplained
  <2> SUFFICES ASSUME IInv, NEW o \in Orders, row[o].state = "REFUSE",
                      NEW i \in 1..(Len(log[o]) - 1), log[o][i] \in applied,
                      i <= ctx[log[o][Len(log[o])]].saw
               PROVE  \E m \in (i + 1)..ctx[log[o][Len(log[o])]].saw : Reopens(o, m, i)
    BY DEF RefusalExplained
  <2> DEFINE n == Len(log[o])
             k == log[o][n]
             s == ctx[k].saw
  <2>1. n \in Nat /\ n > 0 /\ i \in 1..n /\ n \in 1..n
    BY LogTyped DEF IInv
  <2>2. k \in Requests /\ log[o][i] \in Requests
    BY <2>1, LogTyped DEF IInv
  <2>3. ctx[k].to = "REFUSE"
    BY <2>1 DEF IInv, RowInv
  <2>4. s \in Nat /\ SawUndecided(k) /\ ctx[k].order = o /\ k \notin Gaozhi
    BY <2>1, <2>2, <2>3 DEF IInv, LogInv, PcInv, TypeOK, Context
  <2>5. s \in 1..n /\ ctx[log[o][s]].to = "PAY"
    BY <2>1, <2>2, <2>4, LastSeen
  <2>6. ctx[log[o][i]].to # "PAY"
    BY <2>2 DEF IInv, PcInv
  <2>7. i < s
    <3>1. i # s
      BY <2>5, <2>6
    <3>2. i <= s /\ i \in Nat /\ s \in Nat
      BY <2>1, <2>4, <2>5
    <3> HIDE DEF n, s
    <3> QED
      BY <3>1, <3>2
  <2> QED
    BY <2>1, <2>5, <2>6, <2>7 DEF IInv, ReopenInv
<1> QED
  BY Inductive, <1>1, PTL

\* Two recorded credits by callbacks under the monitor enclose a write that put
\* the row back to PAY.
THEOREM LockedCreditOnce == Spec => []LockedCreditsOnce
<1>1. IInv => LockedCreditsOnce
  <2> SUFFICES ASSUME IInv, NEW o \in Orders, NEW i \in DOMAIN log[o], NEW j \in DOMAIN log[o],
                      i < j, {log[o][i], log[o][j]} \subseteq applied \cap Locked
               PROVE  \E m \in (i + 1)..(j - 1) : Reopens(o, m, i)
    BY DEF LockedCreditsOnce
  <2> DEFINE n == Len(log[o])
             g == log[o][j]
             s == ctx[g].saw
  <2>1. n \in Nat /\ i \in 1..n /\ j \in 1..n /\ j \in (i + 1)..n
    BY DEF IInv, TypeOK
  <2>2. g \in Requests /\ log[o][i] \in Requests
    BY DEF Requests, Callbacks
  <2>3. /\ s \in Nat /\ ctx[g].order = o /\ s < j /\ SawUndecided(g)
        /\ g \notin Gaozhi
    BY <2>1, <2>2 DEF IInv, LogInv, PcInv, TypeOK, Context
  <2>4. i <= s
    BY <2>1 DEF IInv, MonitorInv
  <2>5. s \in 1..n /\ ctx[log[o][s]].to = "PAY"
    BY <2>1, <2>2, <2>3, <2>4, LastSeen
  <2>6. ctx[log[o][i]].to # "PAY"
    BY <2>2 DEF IInv, PcInv
  <2>7. i < s
    <3>1. i # s
      BY <2>5, <2>6
    <3>2. i <= s /\ i \in Nat /\ s \in Nat
      BY <2>1, <2>4, <2>5
    <3> HIDE DEF n, s
    <3> QED
      BY <3>1, <3>2
  <2>8. PICK m \in (i + 1)..s : Reopens(o, m, i)
    BY <2>1, <2>5, <2>6, <2>7 DEF IInv, ReopenInv
  <2>9. m \in (i + 1)..(j - 1)
    BY <2>1, <2>3
  <2> QED
    BY <2>8, <2>9
<1> QED
  BY Inductive, <1>1, PTL

\* A gateway answered "ok" leaves an unpaid order only when MT4 did not confirm.
THEOREM AckedPaymentIsRecorded == Spec => []AckedPaymentRecorded
<1>1. IInv => AckedPaymentRecorded
  BY DEF IInv, AckInv
<1> QED
  BY Inductive, <1>1, PTL
-----------------------------------------------------------------------------
(* The monitor is given back, and requests move on *)

\* synchronized (this) is held just by the callback between its read and its end.
HeldInv == \A h \in Locked : monitor = h <=> pc[h] \in Open

LEMMA HeldStep == TypeOK /\ HeldInv /\ [Next]_vars => HeldInv'
<1> SUFFICES ASSUME TypeOK, HeldInv, [Next]_vars PROVE HeldInv'
  OBVIOUS
<1> USE InGoldAssumption
<1>0. Locked \subseteq Requests
  BY DEF Requests, Callbacks
<1>1. CASE Quiet
  BY <1>1 DEF Quiet, HeldInv
<1>2. ASSUME NEW h \in Requests, Arrives(h) PROVE HeldInv'
  BY <1>0, <1>2 DEF Arrives, HeldInv, TypeOK, Open
<1>3. ASSUME NEW h \in Requests, NEW c \in Context, NEW step \in AdvanceStep \cup {"mt4"},
             Reads(h, c, step)
      PROVE  HeldInv'
  BY <1>0, <1>3 DEF Reads, MayEnter, Goto, HeldInv, TypeOK, Open, Ended, AdvanceStep
<1>4. ASSUME NEW h \in Requests, NEW step \in AdvanceStep, Advances(h, step) PROVE HeldInv'
  BY <1>0, <1>4 DEF Advances, MayEnter, Goto, HeldInv, TypeOK, Open, Ended, AdvanceStep
<1>5. ASSUME NEW h \in Requests, Write(h) PROVE HeldInv'
  BY <1>0, <1>5 DEF Write, Goto, HeldInv, TypeOK, Open, Ended
<1> QED
  BY <1>1, <1>2, <1>3, <1>4, <1>5, StepForms

\* The monitor of the controller belongs to one callback at most, which is past its
\* read and waits for no other request, and nobody keeps it: whoever ends, even with
\* an exception, has given it back (resultAfsl, resultYsb).
THEOREM MonitorIsHeldAtWork == Spec => []HeldInv
<1>1. Init => HeldInv
  BY InGoldAssumption DEF Init, HeldInv, Open, Requests, Callbacks
<1>2. IInv /\ HeldInv /\ [Next]_vars => HeldInv'
  BY HeldStep DEF IInv
<1> QED
  BY <1>1, <1>2, Inductive, PTL DEF Spec

\* How far a request is.
Rank(step) ==
    CASE step = "idle"    -> 0
      [] step = "waiting" -> 1
      [] step = "mt4"     -> 2
      [] step = "mail"    -> 3
      [] step = "write"   -> 4
      [] step \in Ended   -> 5

\* Requests never go back, and only a request that moves on takes or gives back the
\* monitor.
MovesOn ==
    /\ \A h \in Requests : pc'[h] # pc[h] => Rank(pc[h]) < Rank(pc'[h])
    /\ monitor' # monitor =>
          \E h \in Locked : pc'[h] # pc[h] /\ h = IF monitor = NoReq THEN monitor' ELSE monitor

\* A request takes at most five steps to its answer, whatever MT4, the mails and the
\* other requests do, and the monitor goes from hand to hand only through NoReq:
\* what EveryRequestAnswered needs beside fairness.
THEOREM RequestsMoveOn == Spec => [][MovesOn]_vars
<1> USE InGoldAssumption
<1>1. ASSUME IInv, HeldInv, [Next]_vars PROVE MovesOn
  <2>0. TypeOK /\ Locked \subseteq Requests
    BY <1>1 DEF IInv, Requests, Callbacks
  <2>1. CASE Quiet
    BY <2>1 DEF Quiet, MovesOn
  <2>2. ASSUME NEW h \in Requests, Arrives(h) PROVE MovesOn
    BY <2>0, <2>2 DEF Arrives, MovesOn, TypeOK, Rank, Ended
  <2>3. ASSUME NEW h \in Requests, NEW step \in AdvanceStep \cup {"mt4"}, Goto(h, step),
               MayEnter(h) \/ pc[h] \in Open, Rank(pc[h]) < Rank(step)
        PROVE  MovesOn
    <3>1. pc'[h] = step /\ \A k \in Requests \ {h} : pc'[k] = pc[k]
      BY <2>0, <2>3 DEF Goto, TypeOK
    <3>2. h \in Locked => monitor = IF MayEnter(h) THEN NoReq ELSE h
      BY <1>1, <2>3 DEF HeldInv, MayEnter, Open
    <3>3. pc'[h] # pc[h]
      BY <2>3, <3>1 DEF MayEnter, Open, AdvanceStep, Rank, Ended
    <3>4. ASSUME monitor' # monitor
          PROVE  h \in Locked /\ h = IF monitor = NoReq THEN monitor' ELSE monitor
      BY <2>0, <2>3, <3>2, <3>4 DEF Goto
    <3> QED
      BY <2>3, <3>1, <3>3, <3>4 DEF MovesOn
  <2>4. ASSUME NEW h \in Requests, NEW c \in Context, NEW step \in AdvanceStep \cup {"mt4"},
               Reads(h, c, step)
        PROVE  MovesOn
    <3>1. Rank(pc[h]) < Rank(step)
      BY <2>4 DEF Reads, MayEnter, Rank, AdvanceStep, Ended
    <3> QED
      BY <2>3, <2>4, <3>1 DEF Reads
  <2>5. ASSUME NEW h \in Requests, NEW step \in AdvanceStep, Advances(h, step) PROVE MovesOn
    <3>1. Rank(pc[h]) < Rank(step)
      BY <2>5 DEF Advances, MayEnter, Rank, AdvanceStep, Ended, Open
    <3> QED
      BY <2>3, <2>5, <3>1 DEF Advances
  <2>6. ASSUME NEW h \in Requests, Write(h) PROVE MovesOn
    <3>1. pc[h] = "write" /\ Goto(h, "ok") /\ Rank("write") < Rank("ok")
      BY <2>6 DEF Write, Rank, Ended
    <3> QED
      BY <2>3, <3>1 DEF AdvanceStep, Open
  <2> QED
    BY <1>1, <2>0, <2>1, <2>2, <2>4, <2>5, <2>6, StepForms
<1>2. IInv /\ HeldInv /\ [Next]_vars => [MovesOn]_vars
  BY <1>1
<1> QED
  BY <1>2, Inductive, MonitorIsHeldAtWork, PTL DEF Spec
-----------------------------------------------------------------------------
(* Deposits implement the transfer ledger *)

LEMMA LedgerInit == Init => Ledger!Init
<1> SUFFICES ASSUME Init PROVE Ledger!Init
  OBVIOUS
<1>1. Booked = {}
  <2>1. \A o \in BBook : log[o] = <<>>
    BY InGoldAssumption DEF Init
  <2> QED
    BY <2>1 DEF Booked
<1>2. {h \in Requests : pc[h] \in Ended} = {}
  BY DEF Init, Ended
<1> QED
  BY <1>1, <1>2 DEF Ledger!Init, Init

\* The booked requests, by the entries of the log instead of by the requests.
Logged(k) == \E o \in BBook : \E i \in 1..Len(log[o]) : log[o][i] = k

BookedIsLogged ==
    \A k \in Requests : k \in Booked <=> ctx[k].to = "PASS" /\ Logged(k)

LEMMA BookedIs == TypeOK /\ LogInv => BookedIsLogged
<1> SUFFICES ASSUME TypeOK, LogInv PROVE BookedIsLogged
  OBVIOUS
<1>1. \A o \in BBook : DOMAIN log[o] = 1..Len(log[o])
  BY InGoldAssumption DEF TypeOK
<1>2. \A o \in BBook : \A i \in 1..Len(log[o]) : ctx[log[o][i]].order = o
  BY InGoldAssumption DEF LogInv
<1> QED
  BY <1>1, <1>2 DEF Booked, BookedIsLogged, Logged

LEMMA BookedIsNext == (TypeOK /\ LogInv)' => BookedIsLogged'
  BY BookedIs, PTL

LEMMA BookedQuiet ==
    ASSUME TypeOK, LogInv, TypeOK', LogInv', Kept, log' = log
    PROVE  Booked' = Booked
<1>1. ASSUME NEW k \in Requests
      PROVE  k \in Booked <=> k \in Booked'
  <2>1. k \in Booked <=> ctx[k].to = "PASS" /\ Logged(k)
    BY BookedIs DEF BookedIsLogged
  <2>2. k \in Booked' <=> ctx'[k].to = "PASS" /\ Logged(k)
    BY BookedIsNext DEF BookedIsLogged, Logged
  <2>3. Logged(k) => ctx'[k] = ctx[k]
    BY InGoldAssumption DEF Kept, Logged
  <2> QED
    BY <2>1, <2>2, <2>3
<1>2. Booked \subseteq Requests /\ Booked' \subseteq Requests
  BY DEF Booked
<1> QED
  BY <1>1, <1>2

LEMMA BookedWrite ==
    ASSUME TypeOK, LogInv, TypeOK', LogInv', NEW h \in Requests, Write(h)
    PROVE  Booked' = IF ctx[h].to = "PASS" /\ ctx[h].order \in BBook
                     THEN Booked \cup {h} ELSE Booked
<1>1. ASSUME NEW k \in Requests
      PROVE  k \in Booked' <=> \/ k \in Booked
                               \/ k = h /\ ctx[h].to = "PASS" /\ ctx[h].order \in BBook
  <2>1. k \in Booked <=> ctx[k].to = "PASS" /\ Logged(k)
    BY BookedIs DEF BookedIsLogged
  <2>2. k \in Booked' <=> ctx'[k].to = "PASS" /\ Logged(k)'
    BY BookedIsNext DEF BookedIsLogged
  <2>3. ASSUME NEW o \in BBook
        PROVE  (\E i \in 1..Len(log'[o]) : log'[o][i] = k)
                 <=> \/ \E i \in 1..Len(log[o]) : log[o][i] = k
                     \/ k = h /\ ctx[h].order = o
    <3> DEFINE n == Len(log[o])
    <3>1. o \in Orders /\ n \in Nat
      BY InGoldAssumption, LogTyped
    <3>2. CASE o = ctx[h].order
      <4>1. /\ Len(log'[o]) = n + 1 /\ log'[o][n + 1] = h
            /\ \A i \in 1..n : log'[o][i] = log[o][i]
        BY <3>2, WriteFacts
      <4>2. 1..(n + 1) = (1..n) \cup {n + 1}
        BY <3>1
      <4> QED
        BY <3>2, <4>1, <4>2
    <3>3. CASE o # ctx[h].order
      BY <3>1, <3>3, WriteFacts
    <3> QED
      BY <3>2, <3>3
  <2>4. Logged(k)' <=> Logged(k) \/ (k = h /\ ctx[h].order \in BBook)
    BY <2>3 DEF Logged
  <2>5. ctx' = ctx
    BY WriteFacts
  <2> QED
    BY <2>1, <2>2, <2>4, <2>5
<1>2. Booked \subseteq Requests /\ Booked' \subseteq Requests
  BY DEF Booked
<1> QED
  BY <1>1, <1>2

\* What a request's move does to the set of closed requests.
LEMMA ClosedBy ==
    ASSUME TypeOK, NEW h \in Requests, NEW step \in AdvanceStep \cup {"mt4"},
           pc' = [pc EXCEPT ![h] = step], pc[h] \notin Ended
    PROVE  {k \in Requests : pc'[k] \in Ended} =
             IF step \in Ended THEN {k \in Requests : pc[k] \in Ended} \cup {h}
             ELSE {k \in Requests : pc[k] \in Ended}
  BY DEF TypeOK

LEMMA LedgerStep == IInv /\ IInv' /\ [Next]_vars => [Ledger!Next]_(Ledger!vars)
<1> SUFFICES ASSUME IInv, IInv', [Next]_vars PROVE [Ledger!Next]_(Ledger!vars)
  OBVIOUS
<1> DEFINE closed == {k \in Requests : pc[k] \in Ended}
<1> USE DEF Ledger!vars, Ledger!Next, Ledger!Move, Ledger!MoveUnseen, Ledger!Book, Ledger!Close
<1>0. Kept /\ TypeOK /\ PcInv /\ LogInv /\ TypeOK' /\ LogInv'
  BY LogKept DEF IInv
<1>1. CASE Quiet
  <2>1. Booked' = Booked
    BY <1>0, <1>1, BookedQuiet DEF Quiet
  <2> QED
    BY <1>1, <2>1 DEF Quiet
<1>2. ASSUME NEW h \in Requests, Arrives(h)
      PROVE  [Ledger!Next]_(Ledger!vars)
  <2>1. Booked' = Booked
    BY <1>0, <1>2, BookedQuiet DEF Arrives
  <2>2. closed' = closed
    BY <1>0, <1>2 DEF Arrives, Ended, TypeOK
  <2> QED
    BY <1>2, <2>1, <2>2 DEF Arrives
<1>3. ASSUME NEW h \in Requests, NEW c \in Context, NEW step \in AdvanceStep \cup {"mt4"},
             Reads(h, c, step)
      PROVE  [Ledger!Next]_(Ledger!vars)
  <2>1. Booked' = Booked /\ applied' = applied /\ h \notin closed
    BY <1>0, <1>3, BookedQuiet DEF Reads, MayEnter, Ended
  <2>2. closed' = IF step \in Ended THEN closed \cup {h} ELSE closed
    BY <1>0, <1>3, <2>1, ClosedBy DEF Reads, Goto
  <2> QED
    BY <2>1, <2>2
<1>4. ASSUME NEW h \in Requests, NEW step \in AdvanceStep, Advances(h, step)
      PROVE  [Ledger!Next]_(Ledger!vars)
  <2>1. Booked' = Booked /\ h \notin closed
    BY <1>0, <1>4, BookedQuiet DEF Advances, MayEnter, Ended, Open
  <2>2. closed' = IF step \in Ended THEN closed \cup {h} ELSE closed
    BY <1>0, <1>4, <2>1, ClosedBy DEF Advances, Goto
  <2>3. applied' = applied \/ (h \notin applied /\ applied' = applied \cup {h})
    BY <1>0, <1>4 DEF Advances, PcInv
  <2> QED
    BY <2>1, <2>2, <2>3
<1>5. ASSUME NEW h \in Requests, Write(h)
      PROVE  [Ledger!Next]_(Ledger!vars)
  <2> DEFINE pass == ctx[h].to = "PASS" /\ ctx[h].order \in BBook
  <2>1. Booked' = IF pass THEN Booked \cup {h} ELSE Booked
    BY <1>0, <1>5, BookedWrite
  <2>2. applied' = applied /\ h \notin closed /\ pc' = [pc EXCEPT ![h] = "ok"]
    BY <1>0, <1>5, WriteFacts DEF Ended
  <2>3. closed' = closed \cup {h}
    BY <1>0, <2>2, ClosedBy DEF AdvanceStep, Ended
  <2>4. pass => h \in applied
    BY <1>0, <1>5, WriteFacts DEF PcInv
  <2> QED
    BY <2>1, <2>2, <2>3, <2>4
<1> QED
  BY <1>0, <1>1, <1>2, <1>3, <1>4, <1>5, StepForms

\* Deposits keep the promise of the ledger: every request moves money at most
\* once, before it writes, and what it writes as credited was confirmed by MT4.
THEOREM ImplementsLedger == Spec => LedgerSpec
  BY Inductive, LedgerInit, LedgerStep, PTL DEF Spec, LedgerSpec, Ledger!Spec

\* A deposit recorded as credited was credited by MT4 for the request that recorded
\* it, and a request that has answered the staff or the gateway orders no credit any
\* more (saveReview, payNotify, checkResultDinpay).
THEOREM CreditsSettle == Spec => []Ledger!Covered /\ [][Ledger!Settles]_(Ledger!vars)
  BY ImplementsLedger, Ledger!RecordsAreCovered, Ledger!RequestsSettle, PTL DEF LedgerSpec
=============================================================================
