---------------------------- MODULE OutGoldProofs ----------------------------
(***************************************************************************)
(* Proofs about OutGold for every set of orders, customers, amounts and    *)
(* reviews.                                                                *)
(***************************************************************************)
EXTENDS OutGold, SetSums, TLAPS

(* The forms a step can take *)

Saves(o, dollar, seen) ==
    /\ row[o].state = "ABSENT"
    /\ seen = mirror[Owner[o]]
    /\ dollar <= Holds(seen)
    /\ row' = [row EXCEPT ![o] = [state |-> "UNAUDITED", dollar |-> dollar, seen |-> seen]]
    /\ UNCHANGED <<pc, ctx, applied, written, happened, mirror>>

\* The trading server copies accounts, or moves one.
Outside ==
    /\ mirror' \in [Customers -> SUBSET (applied \cup happened)]
    /\ \A c \in Customers : mirror'[c] \in {mirror[c], EntriesOf(c)}
    /\ happened' = happened \/ \E e \in Moves : happened' = happened \cup {e}
    /\ UNCHANGED <<row, pc, ctx, applied, written>>

\* A review moves on without reading or writing its order.
Advances(h, step) ==
    /\ pc[h] \in {"waiting", "mt4", "mail", "write"}
    /\ step # "write" \/ pc[h] = "mail"
    /\ pc' = [pc EXCEPT ![h] = step]
    /\ \/ applied' = applied /\ (pc[h] \in {"waiting", "mt4"} => step \in Ended)
       \/ pc[h] = "mt4" /\ applied' = applied \cup {h}
    /\ UNCHANGED <<row, ctx, written, happened, mirror>>

AdvanceStep == {"mail", "write", "ok", "error"}

LEMMA StepForms ==
    ASSUME TypeOK, [Next]_vars,
           NEW P,
           ASSUME NEW o \in Orders, NEW dollar \in Amounts, NEW seen \in SUBSET (Reviews \cup Moves),
                  Saves(o, dollar, seen)
           PROVE  P,
           Outside => P,
           ASSUME NEW h \in Reviews, NEW o \in Orders, NEW to \in {"PASS", "UNPASS"},
                  ReviewPosted(h, o, to)
           PROVE  P,
           ASSUME NEW h \in Reviews, BeginReview(h) PROVE P,
           ASSUME NEW h \in Reviews, NEW step \in AdvanceStep, Advances(h, step) PROVE P,
           ASSUME NEW h \in Reviews, Write(h) PROVE P,
           (UNCHANGED vars) => P
    PROVE  P
<1>1. ASSUME NEW o \in Orders, NEW asked \in Amounts, NEW paid \in Amounts,
             Save(o, asked, paid)
      PROVE  P
  <2> DEFINE dollar == IF asked >= paid + 1 THEN paid ELSE asked
  <2>1. dollar \in Amounts /\ mirror[Owner[o]] \in SUBSET (Reviews \cup Moves)
    BY OutGoldAssumption DEF TypeOK
  <2>2. Saves(o, dollar, mirror[Owner[o]])
    BY <1>1 DEF Save, Saves
  <2> QED
    BY <2>1, <2>2
<1>2. ASSUME NEW c \in Customers, CopyAccount(c)
      PROVE  P
  <2>1. EntriesOf(c) \in SUBSET (applied \cup happened)
    BY DEF EntriesOf, DebitsOf
  <2>2. Outside
    BY <1>2, <2>1 DEF CopyAccount, Outside, TypeOK
  <2> QED
    BY <2>2
<1>4. ASSUME NEW e \in Moves, Trade(e)
      PROVE  P
  <2>1. Outside
    BY <1>4 DEF Trade, Outside, TypeOK
  <2> QED
    BY <2>1
<1>3. ASSUME NEW h \in Reviews, Handle(h), ~BeginReview(h), ~Write(h)
      PROVE  P
  <2>1. \E step \in AdvanceStep : Advances(h, step)
    BY <1>3 DEF Handle, DebitConfirmed, DebitUnconfirmed, DebitRefused, MailSent, MailFailed,
       Fail, Advances, AdvanceStep, Goto, Ended
  <2> QED
    BY <2>1
<1> QED
  BY <1>1, <1>2, <1>3, <1>4 DEF Next
-----------------------------------------------------------------------------
LEMMA TypeInit == Init => TypeOK
  BY OutGoldAssumption DEF Init, TypeOK, Row, Step, Context, Means

LEMMA TypeStep == TypeOK /\ [Next]_vars => TypeOK'
<1> SUFFICES ASSUME TypeOK, [Next]_vars PROVE TypeOK'
  OBVIOUS
<1>1. ASSUME NEW o \in Orders, NEW dollar \in Amounts, NEW seen \in SUBSET (Reviews \cup Moves),
             Saves(o, dollar, seen)
      PROVE  TypeOK'
  BY <1>1 DEF TypeOK, Saves, Row
<1>2. CASE Outside
  BY <1>2 DEF TypeOK, Outside
<1>3. ASSUME NEW h \in Reviews, NEW o \in Orders, NEW to \in {"PASS", "UNPASS"},
             ReviewPosted(h, o, to)
      PROVE  TypeOK'
  BY <1>3 DEF TypeOK, ReviewPosted, Means, Context, Step
<1>4. ASSUME NEW h \in Reviews, BeginReview(h)
      PROVE  TypeOK'
  <2> DEFINE o == ctx[h].order
  <2>1. o \in Orders /\ row[o] \in Row /\ ctx[h] \in Context
    BY <1>4 DEF TypeOK, BeginReview
  <2>2. Means(o, ctx[h].to, row[o].dollar) \in Context
    BY <2>1 DEF Means, Context, Row
  <2> QED
    BY <1>4, <2>1, <2>2 DEF TypeOK, BeginReview, Goto, Means, Step
<1>5. ASSUME NEW h \in Reviews, NEW step \in AdvanceStep, Advances(h, step)
      PROVE  TypeOK'
  BY <1>5 DEF TypeOK, Advances, AdvanceStep, Step, Ended
<1>6. ASSUME NEW h \in Reviews, Write(h)
      PROVE  TypeOK'
  <2>1. ctx[h].order \in Orders /\ row[ctx[h].order] \in Row /\ ctx[h] \in Context
    BY <1>6 DEF TypeOK, Write
  <2> QED
    BY <1>6, <2>1 DEF TypeOK, Write, Goto, Row, Context, Step, Ended
<1>7. CASE UNCHANGED vars
  BY <1>7 DEF TypeOK, vars
<1> QED
  BY <1>1, <1>2, <1>3, <1>4, <1>5, <1>6, <1>7, StepForms

\* The values of every variable stay in their types, mt5_accounts never shows a
\* debit that was not applied, and a posted review works on a saved order.
THEOREM TypeCorrect == Spec => []TypeOK
  BY TypeInit, TypeStep, PTL DEF Spec
-----------------------------------------------------------------------------
(* The inductive invariant *)

\* PcInv for one review.
PcOf(h) ==
    /\ h \in applied => /\ ctx[h].to = "PASS" /\ Owner[ctx[h].order] \in BBook
                        /\ pc[h] \notin {"idle", "waiting", "mt4"}
    /\ pc[h] = "mt4" => ctx[h].to = "PASS" /\ Owner[ctx[h].order] \in BBook
    /\ (pc[h] \in {"mail", "write"} \/ h \in written)
          => (ctx[h].to = "PASS" /\ Owner[ctx[h].order] \in BBook => h \in applied)
    /\ (pc[h] \in {"mt4", "mail", "write"} \/ h \in applied)
          => ctx[h].dollar = row[ctx[h].order].dollar
    /\ h \in written => pc[h] = "ok"

LEMMA PcInvIs == PcInv <=> \A h \in Reviews : PcOf(h)
  BY DEF PcInv, PcOf

LEMMA PcStep == TypeOK /\ PcInv /\ [Next]_vars => \A k \in Reviews : PcOf(k)'
<1> SUFFICES ASSUME TypeOK, \A k \in Reviews : PcOf(k), [Next]_vars,
                    NEW k \in Reviews
             PROVE  PcOf(k)'
  BY PcInvIs
<1> USE DEF PcOf
<1>1. ASSUME NEW o \in Orders, NEW dollar \in Amounts, NEW seen \in SUBSET (Reviews \cup Moves),
             Saves(o, dollar, seen)
      PROVE  PcOf(k)'
  <2>1. pc[k] # "idle" => ctx[k].order # o
    BY <1>1 DEF TypeOK, Saves
  <2>2. pc[k] # "idle" => row'[ctx[k].order] = row[ctx[k].order]
    BY <1>1, <2>1 DEF TypeOK, Saves
  <2> QED
    BY <1>1, <2>2 DEF Saves
<1>2. CASE Outside
  BY <1>2 DEF Outside
<1>3. ASSUME NEW h \in Reviews, NEW o \in Orders, NEW to \in {"PASS", "UNPASS"},
             ReviewPosted(h, o, to)
      PROVE  PcOf(k)'
  BY <1>3 DEF TypeOK, ReviewPosted
<1>4. ASSUME NEW h \in Reviews, BeginReview(h)
      PROVE  PcOf(k)'
  <2>1. CASE k = h
    <3>1. ctx'[k] = Means(ctx[k].order, ctx[k].to, row[ctx[k].order].dollar)
      BY <1>4, <2>1 DEF TypeOK, BeginReview
    <3>2. /\ ctx'[k].order = ctx[k].order /\ ctx'[k].to = ctx[k].to
          /\ ctx'[k].dollar = row[ctx[k].order].dollar
      BY <3>1 DEF Means
    <3>3. k \notin applied /\ k \notin written
      BY <1>4, <2>1 DEF BeginReview
    <3>4. pc'[k] = IF ctx[k].to = "PASS" /\ Owner[ctx[k].order] \in BBook
                   THEN "mt4" ELSE "mail"
      BY <1>4, <2>1 DEF TypeOK, BeginReview, Goto
    <3>5. UNCHANGED <<row, applied, written>>
      BY <1>4 DEF BeginReview
    <3> QED
      BY <3>2, <3>3, <3>4, <3>5
  <2>2. CASE k # h
    BY <1>4, <2>2 DEF TypeOK, BeginReview, Goto
  <2> QED
    BY <2>1, <2>2
<1>5. ASSUME NEW h \in Reviews, NEW step \in AdvanceStep, Advances(h, step)
      PROVE  PcOf(k)'
  BY <1>5 DEF TypeOK, Advances, AdvanceStep, Ended
<1>6. ASSUME NEW h \in Reviews, Write(h)
      PROVE  PcOf(k)'
  <2>1. \A o \in Orders : row'[o].dollar = row[o].dollar
    BY <1>6 DEF TypeOK, Write
  <2>2. pc[k] # "idle" => ctx[k].order \in Orders
    BY DEF TypeOK
  <2>3. pc'[k] = IF k = h THEN "ok" ELSE pc[k]
    BY <1>6 DEF TypeOK, Write, Goto
  <2>4. written' = written \cup {h} /\ UNCHANGED <<ctx, applied>> /\ pc[h] = "write"
    BY <1>6 DEF Write
  <2> QED
    BY <2>1, <2>2, <2>3, <2>4
<1>7. CASE UNCHANGED vars
  BY <1>7 DEF vars
<1> QED
  BY <1>1, <1>2, <1>3, <1>4, <1>5, <1>6, <1>7, StepForms

LEMMA RowStep == TypeOK /\ PcInv /\ RowInv /\ [Next]_vars => RowInv'
<1> SUFFICES ASSUME TypeOK, \A h \in Reviews : PcOf(h), RowInv, [Next]_vars,
                    NEW r \in Orders, row'[r].state \in {"PASS", "UNPASS"}
             PROVE  \E g \in written' : ctx'[g].order = r /\ ctx'[g].to = row'[r].state
  BY PcInvIs DEF RowInv
<1>0. row[r].state \in {"PASS", "UNPASS"} =>
         \E g \in written : /\ g \in Reviews /\ pc[g] = "ok"
                            /\ ctx[g].order = r /\ ctx[g].to = row[r].state
  BY DEF RowInv, TypeOK, PcOf
<1>1. ASSUME NEW o \in Orders, NEW dollar \in Amounts, NEW seen \in SUBSET (Reviews \cup Moves),
             Saves(o, dollar, seen)
      PROVE  \E g \in written' : ctx'[g].order = r /\ ctx'[g].to = row'[r].state
  BY <1>0, <1>1 DEF TypeOK, Saves
<1>2. CASE Outside
  BY <1>0, <1>2 DEF Outside
<1>3. ASSUME NEW h \in Reviews, NEW o \in Orders, NEW to \in {"PASS", "UNPASS"},
             ReviewPosted(h, o, to)
      PROVE  \E g \in written' : ctx'[g].order = r /\ ctx'[g].to = row'[r].state
  BY <1>0, <1>3 DEF TypeOK, ReviewPosted
<1>4. ASSUME NEW h \in Reviews, BeginReview(h)
      PROVE  \E g \in written' : ctx'[g].order = r /\ ctx'[g].to = row'[r].state
  BY <1>0, <1>4 DEF TypeOK, BeginReview
<1>5. ASSUME NEW h \in Reviews, NEW step \in AdvanceStep, Advances(h, step)
      PROVE  \E g \in written' : ctx'[g].order = r /\ ctx'[g].to = row'[r].state
  BY <1>0, <1>5 DEF Advances
<1>6. ASSUME NEW h \in Reviews, Write(h)
      PROVE  \E g \in written' : ctx'[g].order = r /\ ctx'[g].to = row'[r].state
  <2>1. ctx' = ctx /\ written' = written \cup {h}
    BY <1>6 DEF Write
  <2>2. CASE ctx[h].order = r
    BY <1>6, <2>1, <2>2 DEF TypeOK, Write
  <2>3. CASE ctx[h].order # r
    BY <1>0, <1>6, <2>1, <2>3 DEF TypeOK, Write
  <2> QED
    BY <2>2, <2>3
<1>7. CASE UNCHANGED vars
  BY <1>0, <1>7 DEF vars
<1> QED
  BY <1>1, <1>2, <1>3, <1>4, <1>5, <1>6, <1>7, StepForms

-----------------------------------------------------------------------------
(* What accounts hold *)

Entries == applied \cup happened

LEMMA EntryType ==
    ASSUME TypeOK
    PROVE  /\ \A e \in Reviews \cup Moves : Entry[e] \in Int
           /\ \A h \in Reviews : ctx[h].dollar \in Int /\ Entry[h] = -ctx[h].dollar
           /\ \A e \in Moves : Entry[e] = Worth[e]
<1>1. \A h \in Reviews : ctx[h] \in Context
  BY DEF TypeOK
<1>2. \A x \in Context : x.dollar \in Amounts \cup {0}
  BY DEF Context
<1>3. Amounts \cup {0} \subseteq Int
  BY OutGoldAssumption
<1>4. \A h \in Reviews : ctx[h].dollar \in Int
  BY <1>1, <1>2, <1>3
<1>5. \A h \in Reviews : Entry[h] = -ctx[h].dollar
  BY DEF Entry
<1>6. \A e \in Moves : Entry[e] = Worth[e] /\ Worth[e] \in Int
  BY OutGoldAssumption DEF Entry
<1>7. \A h \in Reviews : Entry[h] \in Int
  BY <1>4, <1>5
<1> QED
  BY <1>4, <1>5, <1>6, <1>7

\* A review that was debited is not posted or read again.
LEMMA AppliedKeeps ==
    ASSUME TypeOK, \A h \in Reviews : PcOf(h), [Next]_vars
    PROVE  /\ applied \subseteq applied'
           /\ \A g \in applied : ctx'[g] = ctx[g]
<1> USE DEF PcOf
<1>1. ASSUME NEW o \in Orders, NEW dollar \in Amounts, NEW seen \in SUBSET (Reviews \cup Moves),
             Saves(o, dollar, seen)
      PROVE  applied' = applied /\ ctx' = ctx
  BY <1>1 DEF Saves
<1>2. CASE Outside
  BY <1>2 DEF Outside
<1>3. ASSUME NEW h \in Reviews, NEW o \in Orders, NEW to \in {"PASS", "UNPASS"},
             ReviewPosted(h, o, to)
      PROVE  applied' = applied /\ \A g \in applied : ctx'[g] = ctx[g]
  BY <1>3 DEF TypeOK, ReviewPosted
<1>4. ASSUME NEW h \in Reviews, BeginReview(h)
      PROVE  applied' = applied /\ \A g \in applied : ctx'[g] = ctx[g]
  BY <1>4 DEF TypeOK, BeginReview
<1>5. ASSUME NEW h \in Reviews, NEW step \in AdvanceStep, Advances(h, step)
      PROVE  applied \subseteq applied' /\ ctx' = ctx
  BY <1>5 DEF Advances
<1>6. ASSUME NEW h \in Reviews, Write(h)
      PROVE  applied' = applied /\ ctx' = ctx
  BY <1>6 DEF Write
<1>7. CASE UNCHANGED vars
  BY <1>7 DEF vars
<1> QED
  BY <1>1, <1>2, <1>3, <1>4, <1>5, <1>6, <1>7, StepForms

\* Holds after the step, of entries that are the same before and after it.
HoldsNext(D) == Balance + SumFunctionOnSet(Entry', D)

\* What the account holds after entries that are there does not change.
LEMMA HoldsKeeps ==
    ASSUME TypeOK, \A h \in Reviews : PcOf(h), [Next]_vars,
           NEW D \in SUBSET Entries, IsFiniteSet(D)
    PROVE  HoldsNext(D) = Holds(D)
<1>1. \A e \in D : Entry[e] \in Int /\ Entry'[e] = Entry[e]
  <2> SUFFICES ASSUME NEW e \in D PROVE Entry[e] \in Int /\ Entry'[e] = Entry[e]
    OBVIOUS
  <2>1. e \in Reviews \cup Moves /\ (e \in Reviews => e \in applied)
    BY OutGoldAssumption DEF TypeOK, Entries
  <2>2. e \in Reviews => ctx'[e] = ctx[e]
    BY <2>1, AppliedKeeps
  <2> QED
    BY <2>1, <2>2, EntryType DEF Entry
<1>2. SumFunctionOnSet(Entry', D) = SumFunctionOnSet(Entry, D)
  BY <1>1, SumSame
<1> QED
  BY <1>2 DEF Holds, HoldsNext

SeenOf(o) ==
    /\ row[o].seen \subseteq EntriesOf(Owner[o])
    /\ row[o].state # "ABSENT" => row[o].dollar <= Holds(row[o].seen)

\* A row keeps its dollars and the entries it shows, unless it is saved now.
Kept(r) ==
    \/ /\ row'[r].seen = row[r].seen
       /\ row'[r].dollar = row[r].dollar
       /\ row'[r].state = "ABSENT" <=> row[r].state = "ABSENT"
    \/ /\ row'[r].seen = mirror[Owner[r]]
       /\ row'[r].dollar <= Holds(mirror[Owner[r]])
       /\ row[r].state = "ABSENT"

LEMMA RowKeeps ==
    ASSUME TypeOK, [Next]_vars, NEW r \in Orders
    PROVE  Kept(r)
<1>1. ASSUME NEW o \in Orders, NEW dollar \in Amounts, NEW seen \in SUBSET (Reviews \cup Moves),
             Saves(o, dollar, seen)
      PROVE  Kept(r)
  BY <1>1 DEF TypeOK, Kept, Saves
<1>2. ASSUME Outside PROVE Kept(r)
  BY <1>2 DEF Kept, Outside
<1>3. ASSUME NEW h \in Reviews, NEW o \in Orders, NEW to \in {"PASS", "UNPASS"},
             ReviewPosted(h, o, to)
      PROVE  Kept(r)
  BY <1>3 DEF Kept, ReviewPosted
<1>4. ASSUME NEW h \in Reviews, BeginReview(h)
      PROVE  Kept(r)
  BY <1>4 DEF Kept, BeginReview
<1>5. ASSUME NEW h \in Reviews, NEW step \in AdvanceStep, Advances(h, step)
      PROVE  Kept(r)
  BY <1>5 DEF Kept, Advances
<1>6. ASSUME NEW h \in Reviews, Write(h)
      PROVE  Kept(r)
  <2>1. /\ ctx[h].order \in Orders /\ row[ctx[h].order].state # "ABSENT"
        /\ ctx[h].to \in {"PASS", "UNPASS"}
    BY <1>6 DEF TypeOK, Write, Context
  <2> QED
    BY <1>6, <2>1 DEF TypeOK, Kept, Write
<1>7. ASSUME UNCHANGED vars PROVE Kept(r)
  BY <1>7 DEF Kept, vars
<1> QED
  BY <1>1, <1>2, <1>3, <1>4, <1>5, <1>6, <1>7, StepForms

\* A review is debited only once it has read its order, and an order does not show a
\* debit made for it.
UnseenBefore(h) == h \notin row[ctx[h].order].seen

LEMMA UnseenStep ==
    ASSUME TypeOK, \A k \in Reviews : PcOf(k), SeenInv, [Next]_vars, NEW h \in applied'
    PROVE  UnseenBefore(h)'
<1>1. \A r \in Orders : row[r].seen \subseteq Entries
  <2> SUFFICES ASSUME NEW r \in Orders PROVE row[r].seen \subseteq Entries
    OBVIOUS
  <2>1. EntriesOf(Owner[r]) \subseteq Entries
    BY DEF EntriesOf, DebitsOf, Entries
  <2> QED
    BY <2>1 DEF SeenInv
<1>2. CASE h \in applied
  <2>1. h \in Reviews /\ ctx'[h] = ctx[h] /\ pc[h] # "idle"
    BY <1>2, AppliedKeeps DEF TypeOK, PcOf
  <2>2. ctx[h].order \in Orders /\ row[ctx[h].order].state # "ABSENT"
    BY <2>1 DEF TypeOK
  <2>3. row'[ctx[h].order].seen = row[ctx[h].order].seen
    BY <2>2, RowKeeps DEF Kept
  <2> QED
    BY <1>2, <2>1, <2>3 DEF SeenInv, UnseenBefore
<1>3. CASE h \notin applied
  <2>1. ASSUME NEW k \in Reviews, NEW step \in AdvanceStep, Advances(k, step)
        PROVE  UnseenBefore(h)'
    <3>1. h = k /\ pc[h] = "mt4" /\ UNCHANGED <<row, ctx>>
      BY <1>3, <2>1 DEF Advances
    <3>2. ctx[h].order \in Orders /\ h \notin Entries
      BY <1>3, <2>1, <3>1, OutGoldAssumption DEF TypeOK, Entries
    <3> QED
      BY <1>1, <3>1, <3>2 DEF UnseenBefore
  <2> QED
    BY <1>3, <2>1, StepForms DEF Saves, Outside, ReviewPosted, BeginReview, Write, vars
<1> QED
  BY <1>2, <1>3

\* The entries an order was shown stay its customer's, and it shows some that are.
LEMMA SeenStep ==
    ASSUME TypeOK, \A h \in Reviews : PcOf(h), SeenInv, [Next]_vars
    PROVE  SeenInv'
<1>0. IsFiniteSet(Entries) /\ happened \subseteq happened'
  <2>1. happened \subseteq happened'
    BY StepForms DEF Saves, Outside, ReviewPosted, BeginReview, Advances, Write, vars
  <2> QED
    BY <2>1 DEF SeenInv, Entries
<1>1. IsFiniteSet(applied' \cup happened')
  <2> DEFINE Goal == IsFiniteSet(applied' \cup happened')
  <2> SUFFICES Goal
    OBVIOUS
  <2>1. ASSUME NEW e, applied' \cup happened' = Entries \cup {e} PROVE Goal
    BY <1>0, <2>1, FS_AddElement
  <2>2. applied' \cup happened' = Entries => Goal
    BY <1>0
  <2>3. ASSUME NEW h \in Reviews, NEW step \in AdvanceStep, Advances(h, step)
        PROVE  Goal
    <3>1. applied' \cup happened' = Entries \/ applied' \cup happened' = Entries \cup {h}
      BY <2>3 DEF Advances, Entries
    <3> QED
      BY <2>1, <2>2, <3>1
  <2>4. ASSUME Outside PROVE Goal
    <3>1. \/ applied' \cup happened' = Entries
          \/ \E e \in Moves : applied' \cup happened' = Entries \cup {e}
      BY <2>4 DEF Outside, Entries
    <3> QED
      BY <2>1, <2>2, <3>1
  <2>5. applied' = applied /\ happened' = happened => Goal
    BY <2>2 DEF Entries
  <2> HIDE DEF Goal
  <2> QED
    BY <2>3, <2>4, <2>5, StepForms DEF Saves, ReviewPosted, BeginReview, Write, vars
<1>2. \A c \in Customers : EntriesOf(c) \subseteq EntriesOf(c)'
  BY <1>0, AppliedKeeps DEF EntriesOf, DebitsOf
<1>3. \A c \in Customers : mirror'[c] \in {mirror[c], EntriesOf(c)}
  <2>1. ASSUME NEW h \in Reviews, NEW step \in AdvanceStep, Advances(h, step)
        PROVE  mirror' = mirror
    BY <2>1 DEF Advances
  <2>2. mirror' = mirror => \A c \in Customers : mirror'[c] \in {mirror[c], EntriesOf(c)}
    OBVIOUS
  <2> QED
    BY <2>1, <2>2, StepForms DEF Saves, Outside, ReviewPosted, BeginReview, Write, vars
<1>4. \A c \in Customers : mirror[c] \subseteq EntriesOf(c)
  BY DEF SeenInv
<1>5. \A c \in Customers : mirror'[c] \subseteq EntriesOf(c)'
  <2> SUFFICES ASSUME NEW c \in Customers PROVE mirror'[c] \subseteq EntriesOf(c)'
    OBVIOUS
  <2> QED
    BY <1>2, <1>3, <1>4
<1>6. ASSUME NEW r \in Orders PROVE SeenOf(r)'
  <2>1. Owner[r] \in Customers
    BY OutGoldAssumption
  <2>2. row[r].seen \subseteq EntriesOf(Owner[r]) /\ mirror[Owner[r]] \subseteq EntriesOf(Owner[r])
    BY <2>1 DEF SeenInv
  <2>3. row'[r].seen \in {row[r].seen, mirror[Owner[r]]}
    BY RowKeeps DEF Kept
  <2>4. row'[r].seen \subseteq Entries /\ IsFiniteSet(row'[r].seen)
    <3>1. EntriesOf(Owner[r]) \subseteq Entries
      BY DEF EntriesOf, DebitsOf, Entries
    <3>2. row'[r].seen \subseteq Entries
      BY <2>2, <2>3, <3>1
    <3> QED
      BY <1>0, <3>2, FS_Subset
  <2>5. HoldsNext(row'[r].seen) = Holds(row'[r].seen)
    BY <2>4, HoldsKeeps
  <2>6. row'[r].state # "ABSENT" => row'[r].dollar <= Holds(row'[r].seen)
    BY RowKeeps DEF Kept, SeenInv
  <2>8. Holds(row[r].seen)' = HoldsNext(row'[r].seen)
    BY DEF Holds, HoldsNext
  <2>7. row'[r].seen \subseteq EntriesOf(Owner[r])'
    BY <1>2, <2>1, <2>2, <2>3
  <2> QED
    BY <2>5, <2>6, <2>7, <2>8 DEF SeenOf
<1>7. \A h \in applied' : UnseenBefore(h)'
  BY UnseenStep
<1> QED
  BY <1>1, <1>5, <1>6, <1>7 DEF SeenInv, SeenOf, UnseenBefore

\* An account that only gained beside what the order of h was shown, and the debit of h,
\* has not less than nothing.
LEMMA OverdrawHolds == TypeOK /\ PcInv /\ SeenInv => OverdrawExplained
<1> SUFFICES ASSUME TypeOK, PcInv, SeenInv, NEW c \in Customers, Holds(EntriesOf(c)) < 0,
                    NEW h \in DebitsOf(c)
             PROVE  \E e \in EntriesOf(c) \ {h} :
                       e \notin row[ctx[h].order].seen /\ Entry[e] < 0
  BY DEF OverdrawExplained
<1> DEFINE seen == row[ctx[h].order].seen
           all  == EntriesOf(c)
           with == seen \cup {h}
<1>1. h \in applied /\ h \in Reviews /\ Owner[ctx[h].order] = c
  BY DEF DebitsOf, TypeOK
<1>2. pc[h] # "idle" /\ ctx[h].dollar = row[ctx[h].order].dollar
  BY <1>1 DEF PcInv
<1>3. ctx[h].order \in Orders /\ row[ctx[h].order].state # "ABSENT"
  BY <1>1, <1>2 DEF TypeOK
<1>4. seen \subseteq all /\ h \notin seen /\ ctx[h].dollar <= Holds(seen)
  BY <1>1, <1>2, <1>3 DEF SeenInv
<1>5. h \in all /\ all \subseteq Reviews \cup Moves /\ IsFiniteSet(all) /\ IsFiniteSet(seen)
  <2>1. all \subseteq Entries /\ Entries \subseteq Reviews \cup Moves
    BY DEF EntriesOf, DebitsOf, Entries, TypeOK
  <2>2. IsFiniteSet(Entries)
    BY DEF SeenInv, Entries
  <2>3. IsFiniteSet(all)
    BY <2>1, <2>2, FS_Subset
  <2>4. IsFiniteSet(seen)
    BY <1>4, <2>3, FS_Subset
  <2> QED
    BY <2>1, <2>3, <2>4 DEF EntriesOf
<1>6. \A e \in all : Entry[e] \in Int
  BY <1>5, EntryType
<1>7. SumFunctionOnSet(Entry, with) = SumFunctionOnSet(Entry, seen) - ctx[h].dollar
  <2>1. \A e \in seen \cup {h} : Entry[e] \in Int
    BY <1>4, <1>5, <1>6
  <2>2. SumFunctionOnSet(Entry, seen \cup {h}) = SumFunctionOnSet(Entry, seen) + Entry[h]
    BY <1>4, <1>5, <2>1, SumAdd
  <2>3. SumFunctionOnSet(Entry, seen) \in Int
    BY <1>5, <2>1, SumType
  <2>4. Entry[h] = -ctx[h].dollar /\ ctx[h].dollar \in Int
    BY <1>1, EntryType
  <2> QED
    BY <2>2, <2>3, <2>4
<1>8. /\ SumFunctionOnSet(Entry, seen) \in Int /\ SumFunctionOnSet(Entry, all) \in Int
      /\ ctx[h].dollar \in Int
  <2>1. \A e \in seen : Entry[e] \in Int
    BY <1>4, <1>6
  <2> QED
    BY <1>1, <1>5, <1>6, <2>1, SumType, EntryType
<1>9. SumFunctionOnSet(Entry, all) < SumFunctionOnSet(Entry, with)
  <2>1. Balance + SumFunctionOnSet(Entry, all) < 0
    BY DEF Holds
  <2>2. ctx[h].dollar <= Balance + SumFunctionOnSet(Entry, seen)
    BY <1>4 DEF Holds
  <2> QED
    BY <1>7, <1>8, <2>1, <2>2, OutGoldAssumption
<1>10. with \in SUBSET all
  BY <1>4, <1>5
<1>11. \E e \in all \ with : ~(Entry[e] >= 0)
  <2> SUFFICES ASSUME \A e \in all \ with : Entry[e] >= 0 PROVE FALSE
    OBVIOUS
  <2>1. SumFunctionOnSet(Entry, with) <= SumFunctionOnSet(Entry, all)
    <3> HIDE DEF with, all
    <3> QED
      BY <1>5, <1>6, <1>10, SumGrows
  <2>2. SumFunctionOnSet(Entry, with) \in Int
    BY <1>7, <1>8
  <2> HIDE DEF with, all
  <2> QED
    BY <1>8, <1>9, <2>1, <2>2
<1>12. PICK e \in all \ with : ~(Entry[e] >= 0)
  BY <1>11
<1>13. Entry[e] \in Int /\ e \in all \ {h} /\ e \notin seen
  BY <1>6, <1>12
<1> QED
  BY <1>12, <1>13
-----------------------------------------------------------------------------
LEMMA InvInit == Init => IInv
<1> SUFFICES ASSUME Init PROVE PcInv /\ RowInv /\ SeenInv
  BY TypeInit DEF IInv
<1>1. PcInv /\ RowInv
  BY DEF Init, PcInv, RowInv
<1>2. applied \cup happened = {} /\ \A c \in Customers : EntriesOf(c) = {}
  BY DEF Init, EntriesOf, DebitsOf
<1>3. SeenInv
  BY <1>2, FS_EmptySet DEF Init, SeenInv
<1> QED
  BY <1>1, <1>3

LEMMA InvStep == IInv /\ [Next]_vars => IInv'
<1> SUFFICES ASSUME IInv, [Next]_vars PROVE IInv'
  OBVIOUS
<1>1. (\A k \in Reviews : PcOf(k)') => PcInv'
  BY DEF PcInv, PcOf
<1>2. TypeOK /\ (\A k \in Reviews : PcOf(k)) /\ SeenInv
  BY PcInvIs DEF IInv
<1> QED
  BY <1>1, <1>2, TypeStep, PcStep, RowStep, SeenStep DEF IInv

\* The invariant of the order of a review's debit, mail and write, and of what an
\* order was shown of the account (saveReview, findBalanceByLogin).
THEOREM Inductive == Spec => []IInv
  BY InvInit, InvStep, PTL DEF Spec
-----------------------------------------------------------------------------
LEMMA PassDebitedHolds == IInv => PassDebited
<1> SUFFICES ASSUME IInv, NEW o \in Orders, row[o].state = "PASS", Owner[o] \in BBook
             PROVE  \E h \in applied \cap written :
                       ctx[h].order = o /\ ctx[h].dollar = row[o].dollar
  BY DEF PassDebited
<1>1. PICK g \in written : ctx[g].order = o /\ ctx[g].to = "PASS"
  BY DEF IInv, RowInv
<1>2. g \in applied /\ ctx[g].dollar = row[o].dollar
  BY <1>1 DEF IInv, TypeOK, PcInv
<1> QED
  BY <1>1, <1>2

LEMMA DebitedRefusalHolds == IInv => DebitedRefusalExplained
<1> SUFFICES ASSUME IInv, NEW o \in Orders, row[o].state = "UNPASS",
                    NEW h \in applied, ctx[h].order = o
             PROVE  \E g \in written : g # h /\ ctx[g].order = o
  BY DEF DebitedRefusalExplained
<1>1. PICK g \in written : ctx[g].order = o /\ ctx[g].to = "UNPASS"
  BY DEF IInv, RowInv
<1>2. ctx[h].to = "PASS"
  BY DEF IInv, TypeOK, PcInv
<1> QED
  BY <1>1, <1>2

\* A B-book withdrawal that reads PASS was debited for the dollars it shows,
\* whatever was reviewed twice or at the same time (saveReview).
THEOREM PassIsDebited == Spec => []PassDebited
  BY Inductive, PassDebitedHolds, PTL

\* Nothing is debited behind a refusal by the review that refused: it takes a
\* second review of the same order (saveReview does not look at the state).
THEOREM DebitedRefusalIsExplained == Spec => []DebitedRefusalExplained
  BY Inductive, DebitedRefusalHolds, PTL

\* Behind an account below zero every withdrawal has a fall that the copied balance did
\* not show to its order, for every balance, all amounts, movements of the account for
\* other reasons and any number of orders and reviews (OutGoldServiceImpl.save and
\* saveReview).
THEOREM OverdrawIsExplained == Spec => []OverdrawExplained
<1>1. IInv => OverdrawExplained
  BY OverdrawHolds DEF IInv
<1> QED
  BY <1>1, Inductive, PTL
-----------------------------------------------------------------------------
(* Withdrawals implement the ledger *)

LEMMA LedgerInit == Init => Ledger!Init
  BY DEF Init, Ledger!Init, Ended

BookedReviews == {h \in written : ctx[h].to = "PASS" /\ Owner[ctx[h].order] \in BBook}

ClosedReviews == {h \in Reviews : pc[h] \in Ended}

LEMMA LedgerStep == IInv /\ [Next]_vars => [Ledger!Next]_(Ledger!vars)
<1> SUFFICES ASSUME IInv, [Next]_vars PROVE [Ledger!Next]_(Ledger!vars)
  OBVIOUS
<1> USE DEF Ledger!vars, Ledger!Next, Ledger!Move, Ledger!MoveUnseen, Ledger!Book,
            Ledger!Close, BookedReviews, ClosedReviews
<1>0. TypeOK /\ (\A h \in Reviews : PcOf(h)) /\ written \subseteq Reviews
  BY PcInvIs DEF IInv, TypeOK
<1>1. ASSUME NEW o \in Orders, NEW dollar \in Amounts, NEW seen \in SUBSET (Reviews \cup Moves),
             Saves(o, dollar, seen)
      PROVE  [Ledger!Next]_(Ledger!vars)
  BY <1>1 DEF Saves
<1>2. CASE Outside
  BY <1>2 DEF Outside
<1>3. ASSUME NEW h \in Reviews, NEW o \in Orders, NEW to \in {"PASS", "UNPASS"},
             ReviewPosted(h, o, to)
      PROVE  [Ledger!Next]_(Ledger!vars)
  <2>1. h \notin written
    BY <1>0, <1>3 DEF PcOf, ReviewPosted
  <2>2. \A g \in written : ctx'[g] = ctx[g]
    BY <1>0, <1>3, <2>1 DEF TypeOK, ReviewPosted
  <2>3. BookedReviews' = BookedReviews
    BY <1>3, <2>2 DEF ReviewPosted
  <2>4. ClosedReviews' = ClosedReviews /\ applied' = applied
    BY <1>0, <1>3 DEF TypeOK, ReviewPosted, Ended
  <2> QED
    BY <2>3, <2>4
<1>4. ASSUME NEW h \in Reviews, BeginReview(h)
      PROVE  [Ledger!Next]_(Ledger!vars)
  <2>1. h \notin written
    BY <1>0, <1>4 DEF PcOf, BeginReview
  <2>2. \A g \in written : ctx'[g] = ctx[g]
    BY <1>0, <1>4, <2>1 DEF TypeOK, BeginReview
  <2>3. BookedReviews' = BookedReviews
    BY <1>4, <2>2 DEF BeginReview
  <2>4. ClosedReviews' = ClosedReviews /\ applied' = applied
    BY <1>0, <1>4 DEF TypeOK, BeginReview, Goto, Ended
  <2> QED
    BY <2>3, <2>4
<1>5. ASSUME NEW h \in Reviews, NEW step \in AdvanceStep, Advances(h, step)
      PROVE  [Ledger!Next]_(Ledger!vars)
  <2>1. BookedReviews' = BookedReviews /\ h \notin ClosedReviews
    BY <1>5 DEF Advances, Ended
  <2>2. ClosedReviews' = IF step \in Ended THEN ClosedReviews \cup {h} ELSE ClosedReviews
    BY <1>0, <1>5, <2>1 DEF TypeOK, Advances
  <2>3. applied' = applied \/ (h \notin applied /\ applied' = applied \cup {h})
    BY <1>0, <1>5 DEF Advances, PcOf
  <2> QED
    BY <2>1, <2>2, <2>3
<1>6. ASSUME NEW h \in Reviews, Write(h)
      PROVE  [Ledger!Next]_(Ledger!vars)
  <2> DEFINE pass == ctx[h].to = "PASS" /\ Owner[ctx[h].order] \in BBook
  <2>1. BookedReviews' = IF pass THEN BookedReviews \cup {h} ELSE BookedReviews
    BY <1>6 DEF Write
  <2>2. ClosedReviews' = ClosedReviews \cup {h} /\ h \notin ClosedReviews /\ applied' = applied
    BY <1>0, <1>6 DEF TypeOK, Write, Goto, Ended
  <2>3. pass => h \in applied
    BY <1>0, <1>6 DEF PcOf, Write
  <2> QED
    BY <2>1, <2>2, <2>3
<1>7. CASE UNCHANGED vars
  BY <1>7 DEF vars
<1> QED
  BY <1>0, <1>1, <1>2, <1>3, <1>4, <1>5, <1>6, <1>7, StepForms

\* Withdrawals keep the promise of the ledger: every review moves money at most
\* once, before it writes, and writes an approval only after MT4 confirmed it.
THEOREM ImplementsLedger == Spec => LedgerSpec
  BY Inductive, LedgerInit, LedgerStep, PTL DEF Spec, LedgerSpec, Ledger!Spec

\* A withdrawal recorded as paid was debited by MT4 for the review that recorded it, and
\* a review that has answered orders no debit any more (saveReview).
THEOREM DebitsSettle == Spec => []Ledger!Covered /\ [][Ledger!Settles]_(Ledger!vars)
  BY ImplementsLedger, Ledger!RecordsAreCovered, Ledger!RequestsSettle, PTL DEF LedgerSpec
=============================================================================
