------------------------- MODULE RegistrationProofs -------------------------
(***************************************************************************)
(* Proofs about Registration for every set of requests, managers, accounts,*)
(* levels and books.                                                       *)
(***************************************************************************)
EXTENDS Registration, SetSums, TLAPS

(* The forms a step can take *)

JoinAsks(h, c) ==
    /\ c.kind = "join" /\ c.m = h
    /\ c.new.account \in Accounts
    /\ c.new.state = "UNAUDITED"
    /\ c.new.login = Null
    /\ c.new.type # "agent" \/ c.new.belong = Null
    /\ c.new.belong \in Named \cup {Null}
    /\ Free(c.new.account, h)

EditAsks(c) ==
    /\ c.kind = "edit" /\ c.m \in managers
    /\ c.new.type \in Types
    /\ c.new.state = Null
    /\ c.new.belong = Null
    /\ c.new.login = Null
    /\ Free(c.new.account, c.m)
    /\ c.new.type = "agent" => /\ Below(c.new.level, row[c.m].belong)
                               /\ AboveSons(c.new.level, c.m)

MoveAsks(c) ==
    /\ c.kind = "move" /\ c.m \in managers
    /\ c.new.belong \in Named
    /\ c.new = [row[c.m] EXCEPT !.belong = c.new.belong]
    /\ c.new.type # Null
    /\ c.new.type = "agent" => Below(c.new.level, c.new.belong)

RewriteAsks(c) ==
    /\ c.kind = "rewrite" /\ c.m \in managers
    /\ c.new = row[c.m]

ReviewAsks(c) ==
    /\ c.kind = "review" /\ c.m \in managers
    /\ c.new.type \in Types
    /\ c.new.belong \in Named \cup {Null}
    /\ \/ c.new.state = "UNPASS" /\ c.book = Null /\ c.new.login = Null
       \/ /\ c.new.state = "PASS" /\ c.book \in Books
          /\ c.new.login = counter[c.book] + 1
          /\ c.new.type = "agent" =>
                Below(c.new.level, IF c.new.belong # Null THEN c.new.belong
                                   ELSE row[c.m].belong)

Asks(h, c) ==
    /\ c \in Context
    /\ c.kind # "review" => c.book = Null
    /\ JoinAsks(h, c) \/ EditAsks(c) \/ MoveAsks(c) \/ RewriteAsks(c) \/ ReviewAsks(c)

FirstStep(c) ==
    IF c.kind # "review" THEN "write"
    ELSE IF c.new.state = "PASS" THEN "count" ELSE "mail"

\* h reads its snapshot.
Reads(h, c) ==
    /\ pc[h] = "idle"
    /\ Asks(h, c)
    /\ pc' = [pc EXCEPT ![h] = FirstStep(c)]
    /\ ctx' = [ctx EXCEPT ![h] = c]
    /\ saw' = [saw EXCEPT ![h] = {k \in Requests : pc[k] \in Ended}]
    /\ UNCHANGED <<managers, row, by, undid, counter, lock, created>>

\* h takes a step that neither reads nor writes a row.
Advances(h, step) ==
    /\ pc[h] \in Pending
    /\ pc' = [pc EXCEPT ![h] = step]
    /\ UNCHANGED <<managers, row, by, undid, ctx, saw>>

\* h ends or moves on as far as counters and accounts are concerned.
Releases(h, how) ==
    /\ lock' = [b \in Books |-> IF lock[b] = h THEN Null ELSE lock[b]]
    /\ counter' = [b \in Books |-> IF lock[b] = h /\ how # "error" THEN Number(h)
                                   ELSE counter[b]]

Opens(h) ==
    /\ pc[h] = "mt4"
    /\ \A k \in created : Number(k) # Number(h)
    /\ created' = created \cup {h}

\* What an advance does to them.
Counts(h, step) ==
    \/ /\ pc[h] = "count" /\ step = "mt4"
       /\ lock[ctx[h].book] = Null
       /\ lock' = [lock EXCEPT ![ctx[h].book] = h]
       /\ UNCHANGED <<counter, created>>
    \/ Opens(h) /\ step = "mail" /\ UNCHANGED <<counter, lock>>
    \/ Opens(h) /\ step \in {"no", "error"} /\ Releases(h, step)
    \/ /\ pc[h] = "mt4" /\ step \in {"no", "taken"} /\ Releases(h, step)
       /\ step = "taken" => \E k \in created : Number(k) = Number(h)
       /\ UNCHANGED created
    \/ pc[h] = "mail" /\ step = "write" /\ UNCHANGED <<counter, lock, created>>
    \/ pc[h] = "mail" /\ step = "no" /\ Releases(h, step) /\ UNCHANGED created
    \/ step = "error" /\ Releases(h, step) /\ UNCHANGED created

AdvanceStep == {"mt4", "mail", "write", "no", "taken", "error"}

LEMMA AskedJoin ==
    ASSUME TypeOK, NEW h \in Requests, NEW a \in Accounts, NEW t \in Types \cup {NewType},
           NEW l \in Levels \cup {Null}, NEW p \in Named \cup {Null},
           t = "agent" => p = Null,
           Free(a, h)
    PROVE  Asks(h, [kind |-> "join", m |-> h, book |-> Null,
                    new |-> Columns(a, "UNAUDITED", t, l, p, Null)])
  BY RegistrationAssumption
     DEF TypeOK, Asks, JoinAsks, Context, Kind, Columns, Row, Managers, Named, States, Types

LEMMA AskedEdit ==
    ASSUME TypeOK, NEW h \in Requests, NEW m \in managers, NEW t \in Types,
           NEW l \in Levels \cup {Null}, NEW a \in Accounts \cup {row[m].account},
           Free(a, m), t = "agent" => Below(l, row[m].belong) /\ AboveSons(l, m)
    PROVE  Asks(h, [kind |-> "edit", m |-> m, book |-> Null,
                    new |-> Columns(a, Null, t, l, Null, Null)])
<1>1. row[m] \in Row /\ m \in Managers
  BY DEF TypeOK
<1> QED
  BY <1>1, RegistrationAssumption
     DEF Asks, EditAsks, Context, Kind, Columns, Row, States, Types

LEMMA AskedMove ==
    ASSUME TypeOK, NEW h \in Requests, NEW m \in managers, NEW p \in Named,
           row[m].type # Null, row[m].type = "agent" => Below(row[m].level, p)
    PROVE  Asks(h, [kind |-> "move", m |-> m, book |-> Null,
                    new |-> [row[m] EXCEPT !.belong = p]])
<1>1. row[m] \in Row /\ m \in Managers /\ p \in Managers
  BY DEF TypeOK, Named
<1>2. [row[m] EXCEPT !.belong = p] \in Row
  BY <1>1 DEF Row
<1> QED
  BY <1>1, <1>2 DEF Asks, MoveAsks, Context, Kind, Row

LEMMA AskedRewrite ==
    ASSUME TypeOK, NEW h \in Requests, NEW m \in managers
    PROVE  Asks(h, [kind |-> "rewrite", m |-> m, book |-> Null, new |-> row[m]])
<1>1. row[m] \in Row /\ m \in Managers
  BY DEF TypeOK
<1> QED
  BY <1>1 DEF Asks, RewriteAsks, Context, Kind

LEMMA AskedRefusal ==
    ASSUME TypeOK, NEW h \in Requests, NEW m \in managers, NEW t \in Types,
           NEW l \in Levels \cup {Null}, NEW a \in Accounts \cup {row[m].account},
           NEW p \in Named \cup {Null}
    PROVE  Asks(h, [kind |-> "review", m |-> m, book |-> Null,
                    new |-> Columns(a, "UNPASS", t, l, p, Null)])
<1>1. row[m] \in Row /\ m \in Managers /\ p \in Managers \cup {Null}
  BY DEF TypeOK, Named
<1>2. Columns(a, "UNPASS", t, l, p, Null) \in Row
  BY <1>1, RegistrationAssumption DEF Columns, Row, States, Types
<1> QED
  BY <1>1, <1>2 DEF Asks, ReviewAsks, Context, Kind, Columns

LEMMA AskedApproval ==
    ASSUME TypeOK, NEW h \in Requests, NEW m \in managers, NEW t \in Types,
           NEW l \in Levels \cup {Null}, NEW a \in Accounts \cup {row[m].account},
           NEW p \in Named \cup {Null}, NEW b \in Books,
           t = "agent" => Below(l, IF p # Null THEN p ELSE row[m].belong)
    PROVE  Asks(h, [kind |-> "review", m |-> m, book |-> b,
                    new |-> Columns(a, "PASS", t, l, p, counter[b] + 1)])
<1>1. row[m] \in Row /\ m \in Managers /\ p \in Managers \cup {Null}
  BY DEF TypeOK, Named
<1>2. counter[b] + 1 \in Nat
  BY DEF TypeOK
<1>3. Columns(a, "PASS", t, l, p, counter[b] + 1) \in Row
  BY <1>1, <1>2, RegistrationAssumption DEF Columns, Row, States, Types
<1> QED
  BY <1>1, <1>3 DEF Asks, ReviewAsks, Context, Kind, Columns

\* A request that enters carries what it asked for and goes to its first step.
LEMMA EnteredReads ==
    ASSUME NEW h \in Requests, pc[h] = "idle",
           NEW kind, NEW m, NEW new, NEW book, NEW step,
           Enter(h, kind, m, new, book, step),
           Asks(h, [kind |-> kind, m |-> m, book |-> book, new |-> new]),
           step = FirstStep([kind |-> kind, m |-> m, book |-> book, new |-> new])
    PROVE  \E c : Reads(h, c)
<1> DEFINE c == [kind |-> kind, m |-> m, book |-> book, new |-> new]
<1>1. c = [kind |-> kind, m |-> m, new |-> new, book |-> book]
  OBVIOUS
<1>2. Reads(h, c)
  BY <1>1 DEF Enter, Reads
<1> QED
  BY <1>2

LEMMA BeginForms ==
    ASSUME TypeOK, NEW h \in Requests, Begin(h)
    PROVE  \/ pc[h] = "idle" /\ TurnAway(h)
           \/ \E c : Reads(h, c)
           \/ \E k \in Requests : pc[h] = "idle" /\ BeginUpload(h, k)
<1> DEFINE Goal == \/ pc[h] = "idle" /\ TurnAway(h)
                   \/ \E c : Reads(h, c)
                   \/ \E k \in Requests : pc[h] = "idle" /\ BeginUpload(h, k)
<1> SUFFICES Goal
  OBVIOUS
<1>0. pc[h] = "idle"
  BY DEF Begin
<1>1. ASSUME NEW a \in Accounts, NEW p \in Named \cap Parents,
             BeginJoin(h, Columns(a, "UNAUDITED", NewType, Null, p, Null))
      PROVE  Goal
  <2> DEFINE new == Columns(a, "UNAUDITED", NewType, Null, p, Null)
  <2>1. CASE ~Free(new.account, h)
    BY <1>0, <1>1, <2>1 DEF BeginJoin
  <2>2. CASE Free(new.account, h)
    <3>1. Enter(h, "join", h, new, Null, "write")
      BY <1>1, <2>2 DEF BeginJoin
    <3>2. Free(a, h) /\ NewType # "agent"
      BY <2>2, RegistrationAssumption DEF Columns, Types
    <3>3. Asks(h, [kind |-> "join", m |-> h, book |-> Null, new |-> new])
      BY <3>2, AskedJoin
    <3> QED
      BY <1>0, <3>1, <3>3, EnteredReads DEF FirstStep
  <2> QED
    BY <2>1, <2>2
<1>2. ASSUME NEW a \in Accounts, NEW t \in Types, NEW l \in Levels \cup {Null},
             BeginJoin(h, Columns(a, "UNAUDITED", t, l, Null, Null))
      PROVE  Goal
  <2> DEFINE new == Columns(a, "UNAUDITED", t, l, Null, Null)
  <2>1. CASE ~Free(new.account, h)
    BY <1>0, <1>2, <2>1 DEF BeginJoin
  <2>2. CASE Free(new.account, h)
    <3>1. Enter(h, "join", h, new, Null, "write")
      BY <1>2, <2>2 DEF BeginJoin
    <3>2. Free(a, h)
      BY <2>2 DEF Columns
    <3>3. Asks(h, [kind |-> "join", m |-> h, book |-> Null, new |-> new])
      BY <3>2, AskedJoin
    <3> QED
      BY <1>0, <3>1, <3>3, EnteredReads DEF FirstStep
  <2> QED
    BY <2>1, <2>2
<1>3. ASSUME NEW m \in managers, NEW t \in Types, NEW l \in Levels \cup {Null},
             NEW a \in Accounts \cup {row[m].account}, BeginEdit(h, m, a, t, l)
      PROVE  Goal
  <2> DEFINE new == Columns(a, Null, t, l, Null, Null)
             allowed == /\ Free(a, m)
                        /\ t = "agent" => Below(l, row[m].belong) /\ AboveSons(l, m)
  <2>1. CASE ~allowed
    BY <1>0, <1>3, <2>1 DEF BeginEdit
  <2>2. CASE allowed
    <3>1. Enter(h, "edit", m, new, Null, "write")
      BY <1>3, <2>2 DEF BeginEdit
    <3>2. Asks(h, [kind |-> "edit", m |-> m, book |-> Null, new |-> new])
      BY <2>2, AskedEdit
    <3> QED
      BY <1>0, <3>1, <3>2, EnteredReads DEF FirstStep
  <2> QED
    BY <2>1, <2>2
<1>4. ASSUME NEW m \in managers, NEW p \in Named, BeginMove(h, m, p)
      PROVE  Goal
  <2> DEFINE new == [row[m] EXCEPT !.belong = p]
             allowed == /\ row[m].type # Null
                        /\ row[m].type = "agent" => Below(row[m].level, p)
  <2>1. CASE ~allowed
    BY <1>0, <1>4, <2>1 DEF BeginMove
  <2>2. CASE allowed
    <3>1. Enter(h, "move", m, new, Null, "write")
      BY <1>4, <2>2 DEF BeginMove
    <3>2. Asks(h, [kind |-> "move", m |-> m, book |-> Null, new |-> new])
      BY <2>2, AskedMove
    <3> QED
      BY <1>0, <3>1, <3>2, EnteredReads DEF FirstStep
  <2> QED
    BY <2>1, <2>2
<1>5. ASSUME NEW m \in managers, BeginRewrite(h, m)
      PROVE  Goal
  <2>1. Enter(h, "rewrite", m, row[m], Null, "write")
    BY <1>5 DEF BeginRewrite
  <2> QED
    BY <1>0, <2>1, AskedRewrite, EnteredReads DEF FirstStep
<1>6. ASSUME NEW m \in managers, NEW to \in {"PASS", "UNPASS"}, NEW t \in Types,
             NEW l \in Levels \cup {Null}, NEW p \in Named \cup {Null},
             NEW b \in Books \cup {Null}, NEW a \in Accounts \cup {row[m].account},
             BeginReview(h, m, to, a, t, l, p, b)
      PROVE  Goal
  <2> DEFINE parent == IF p # Null THEN p ELSE row[m].belong
             allowed == b # Null /\ (t = "agent" => Below(l, parent))
             refused == Columns(a, "UNPASS", t, l, p, Null)
             passed == Columns(a, "PASS", t, l, p, counter[b] + 1)
  <2>1. CASE to = "PASS" /\ ~allowed
    BY <1>0, <1>6, <2>1 DEF BeginReview
  <2>2. CASE to = "UNPASS"
    <3>1. Enter(h, "review", m, refused, Null, "mail")
      BY <1>6, <2>2 DEF BeginReview
    <3>2. Asks(h, [kind |-> "review", m |-> m, book |-> Null, new |-> refused])
      BY AskedRefusal
    <3> QED
      BY <1>0, <3>1, <3>2, EnteredReads DEF FirstStep, Columns
  <2>3. CASE to = "PASS" /\ allowed
    <3>1. Enter(h, "review", m, passed, b, "count")
      BY <1>6, <2>3 DEF BeginReview
    <3>2. Asks(h, [kind |-> "review", m |-> m, book |-> b, new |-> passed])
      BY <2>3, AskedApproval
    <3> QED
      BY <1>0, <3>1, <3>2, EnteredReads DEF FirstStep, Columns
  <2> QED
    BY <2>1, <2>2, <2>3
<1>7. ASSUME NEW k \in Requests, BeginUpload(h, k)
      PROVE  Goal
  BY <1>0, <1>7
<1> HIDE DEF Goal
<1> QED
  BY <1>1, <1>2, <1>3, <1>4, <1>5, <1>6, <1>7 DEF Begin

LEMMA StepForms ==
    ASSUME TypeOK, [Next]_vars,
           NEW P,
           ASSUME NEW h \in Requests, pc[h] = "idle", TurnAway(h) PROVE P,
           ASSUME NEW h \in Requests, NEW c, Reads(h, c) PROVE P,
           ASSUME NEW h \in Requests, NEW k \in Requests, pc[h] = "idle", BeginUpload(h, k)
           PROVE  P,
           ASSUME NEW h \in Requests, NEW step \in AdvanceStep,
                  Advances(h, step), Counts(h, step)
           PROVE  P,
           ASSUME NEW h \in Requests, Insert(h) PROVE P,
           ASSUME NEW h \in Requests, Write(h) PROVE P,
           ASSUME NEW m \in managers, Remove(m) PROVE P,
           (UNCHANGED vars) => P
    PROVE  P
<1>1. ASSUME NEW h \in Requests, Begin(h) PROVE P
  BY <1>1, BeginForms
<1>2. ASSUME NEW h \in Requests, Handle(h), ~Insert(h), ~Write(h) PROVE P
  <2>1. \E step \in AdvanceStep : Advances(h, step) /\ Counts(h, step)
    BY <1>2 DEF Handle, LockCounter, AccountOpened, AccountUnconfirmed, NumberTaken,
       AccountRefused, MailSent, MailFailed, Fail, Finish, Advances, Counts, Opens,
       Releases, AdvanceStep, Pending
  <2> QED
    BY <2>1
<1>3. ASSUME NEW m \in Managers, Remove(m) PROVE P
  BY <1>3 DEF Remove
<1> QED
  BY <1>1, <1>2, <1>3 DEF Next
-----------------------------------------------------------------------------
LEMMA SelectiveRow == \A old, new \in Row : Selective(old, new) \in Row
  BY DEF Selective, Given, Columns, Row

LEMMA SelectiveColumns ==
    \A old, new : /\ Selective(old, new).level = Given(new.level, old.level)
                  /\ Selective(old, new).belong = Given(new.belong, old.belong)
  BY DEF Selective, Columns

LEMMA ChangedWriters ==
    \A h \in Requests, old, new \in Row, who \in Writers : Changed(h, old, new, who) \in Writers
  BY DEF Changed, Writers

LEMMA LockedNumber ==
    ASSUME TypeOK, FormInv, LockInv, NEW b \in Books, NEW h \in Requests, lock[b] = h
    PROVE  Number(h) \in Nat
<1>1. ctx[h].book = b /\ b # Null
  BY RegistrationAssumption DEF LockInv
<1>2. ctx[h].new.login # Null
  BY <1>1 DEF FormInv
<1>3. ctx[h].new \in Row
  BY DEF TypeOK, Context
<1> QED
  BY <1>2, <1>3 DEF Number, Row

LEMMA ReleaseType ==
    ASSUME TypeOK, FormInv, LockInv, NEW h \in Requests, NEW how, Releases(h, how)
    PROVE  counter' \in [Books -> Nat] /\ lock' \in [Books -> Requests \cup {Null}]
<1>1. \A b \in Books : lock[b] = h => Number(h) \in Nat
  BY LockedNumber
<1> QED
  BY <1>1 DEF TypeOK, Releases

LEMMA TypeInit == Init => TypeOK
<1> SUFFICES ASSUME Init PROVE TypeOK
  OBVIOUS
<1>1. Blank \in Row /\ Nobody \in Writers
  BY DEF Blank, Columns, Row, Nobody, Writers
<1>2. [kind |-> Null, m |-> Null, new |-> Blank, book |-> Null] \in Context
  BY <1>1 DEF Context
<1>3. row \in [Managers -> Row]
  BY <1>1, RegistrationAssumption DEF Init, Managers
<1> QED
  BY <1>1, <1>2, <1>3, RegistrationAssumption DEF Init, TypeOK, Managers, Step

LEMMA TypeStep == TypeOK /\ FormInv /\ LockInv /\ [Next]_vars => TypeOK'
<1> SUFFICES ASSUME TypeOK, FormInv, LockInv, [Next]_vars PROVE TypeOK'
  OBVIOUS
<1>1. ASSUME NEW h \in Requests, TurnAway(h) PROVE TypeOK'
  BY <1>1 DEF TypeOK, TurnAway, Step, Ended
<1>2. ASSUME NEW h \in Requests, NEW c, Reads(h, c) PROVE TypeOK'
  <2>1. c \in Context /\ FirstStep(c) \in Step
    BY <1>2 DEF Reads, Asks, FirstStep, Step
  <2> QED
    BY <1>2, <2>1 DEF TypeOK, Reads
<1>3. ASSUME NEW h \in Requests, NEW k \in Requests, BeginUpload(h, k) PROVE TypeOK'
  <2>1. ctx[k] \in Context
    BY DEF TypeOK
  <2>2. [ctx[k] EXCEPT !.kind = "upload"] \in Context
    BY <2>1 DEF Context, Kind
  <2> QED
    BY <1>3, <2>2 DEF TypeOK, BeginUpload, Step
<1>4. ASSUME NEW h \in Requests, NEW step \in AdvanceStep, Advances(h, step), Counts(h, step)
      PROVE  TypeOK'
  <2>1. counter' \in [Books -> Nat] /\ lock' \in [Books -> Requests \cup {Null}]
    BY <1>4, ReleaseType DEF Counts, TypeOK
  <2>2. created' \subseteq Requests
    BY <1>4 DEF Counts, Opens, TypeOK
  <2> QED
    BY <1>4, <2>1, <2>2 DEF TypeOK, Advances, AdvanceStep, Step, Ended
<1>5. ASSUME NEW h \in Requests, Insert(h) PROVE TypeOK'
  <2>1. Releases(h, "ok")
    BY <1>5 DEF Insert, Finish, Releases
  <2>2. ctx[h].new \in Row /\ Blank \in Row /\ Nobody \in Writers
    BY DEF TypeOK, Context, Blank, Columns, Row, Nobody, Writers
  <2>3. Changed(h, Blank, ctx[h].new, Nobody) \in Writers
    BY <2>2, ChangedWriters
  <2> QED
    BY <1>5, <2>1, <2>2, <2>3, ReleaseType
       DEF TypeOK, Insert, Finish, Managers, Step, Ended
<1>6. ASSUME NEW h \in Requests, Write(h) PROVE TypeOK'
  <2> DEFINE m == ctx[h].m
             new == Selective(row[m], ctx[h].new)
  <2>1. Releases(h, "ok")
    BY <1>6 DEF Write, Finish, Releases
  <2>2. m \in managers => new \in Row /\ Changed(h, row[m], new, by[m]) \in Writers
    <3>1. ctx[h].new \in Row
      BY DEF TypeOK, Context
    <3>2. m \in managers => row[m] \in Row /\ by[m] \in Writers
      BY DEF TypeOK
    <3> QED
      BY <3>1, <3>2, SelectiveRow, ChangedWriters
  <2>3. row' \in [Managers -> Row] /\ by' \in [Managers -> Writers] /\ undid' \subseteq Requests
    <3> HIDE DEF new
    <3>1. CASE m \in managers
      BY <1>6, <2>2, <3>1 DEF TypeOK, Write, new
    <3>2. CASE m \notin managers
      BY <1>6, <3>2 DEF TypeOK, Write
    <3> QED
      BY <3>1, <3>2
  <2> QED
    BY <1>6, <2>1, <2>3, ReleaseType DEF TypeOK, Write, Finish, Step, Ended
<1>7. ASSUME NEW m \in managers, Remove(m) PROVE TypeOK'
  <2>1. Blank \in Row /\ Nobody \in Writers
    BY DEF Blank, Columns, Row, Nobody, Writers
  <2> QED
    BY <1>7, <2>1 DEF TypeOK, Remove
<1>8. CASE UNCHANGED vars
  BY <1>8 DEF TypeOK, vars
<1> QED
  BY <1>1, <1>2, <1>3, <1>4, <1>5, <1>6, <1>7, <1>8, StepForms
-----------------------------------------------------------------------------
(* Forms, locks and accounts *)

\* FormInv for one request.
FormOf(h) ==
    /\ pc[h] \in Pending => ctx[h].kind # Null
    /\ pc[h] \in {"count", "mt4"} => ctx[h].book # Null
    /\ pc[h] \in {"count", "mt4", "mail"} => ctx[h].kind = "review"
    /\ (ctx[h].book # Null) <=> (ctx[h].kind = "review" /\ ctx[h].new.state = "PASS")
    /\ ctx[h].kind = "review" => /\ ctx[h].new.state \in {"PASS", "UNPASS"}
                                 /\ ctx[h].new.type # Null
                                 /\ (ctx[h].new.login # Null) <=> (ctx[h].new.state = "PASS")
    /\ ctx[h].kind = "join" => /\ ctx[h].new.account # Null
                               /\ ctx[h].new.state = "UNAUDITED"
                               /\ ctx[h].new.login = Null
                               /\ \/ ctx[h].new.type # "agent"
                                  \/ ctx[h].new.belong = Null
    /\ ctx[h].kind = "edit" => /\ ctx[h].new.state = Null
                               /\ ctx[h].new.type # Null
                               /\ ctx[h].new.belong = Null
                               /\ ctx[h].new.login = Null
    /\ ctx[h].kind = "move" => ctx[h].new.type # Null /\ ctx[h].new.belong # Null

LEMMA FormInvIs == FormInv <=> \A h \in Requests : FormOf(h)
  BY DEF FormInv, FormOf

\* What a request that reads may carry, and where it goes.
LEMMA AskedForm ==
    ASSUME TypeOK, NEW h \in Requests, NEW c, Reads(h, c)
    PROVE  FormOf(h)'
<1>1. ctx'[h] = c /\ pc'[h] = FirstStep(c) /\ Asks(h, c)
  BY DEF Reads, TypeOK
<1>2. Null \notin Managers \cup Accounts \cup Books \cup Kind \cup Types \cup States \cup Int
  BY RegistrationAssumption
<1>3. managers \subseteq Managers /\ Named \subseteq Managers
  BY DEF TypeOK, Named
<1>4. c.kind = "review" /\ c.new.state = "PASS" => c.new.login # Null
  BY <1>1, <1>2 DEF Asks, JoinAsks, EditAsks, MoveAsks, RewriteAsks, ReviewAsks, TypeOK
<1>5. c.kind \in {"join", "edit", "move", "rewrite", "review"}
  BY <1>1 DEF Asks, JoinAsks, EditAsks, MoveAsks, RewriteAsks, ReviewAsks
<1>6. c.kind # Null
  BY <1>2, <1>5 DEF Kind
<1>7. /\ pc'[h] \in {"count", "mt4"} => ctx'[h].book # Null
      /\ pc'[h] \in {"count", "mt4", "mail"} => ctx'[h].kind = "review"
      /\ (ctx'[h].book # Null) <=> (ctx'[h].kind = "review" /\ ctx'[h].new.state = "PASS")
  BY <1>1, <1>2, <1>5
     DEF Asks, JoinAsks, EditAsks, MoveAsks, RewriteAsks, ReviewAsks, FirstStep
<1>8. /\ ctx'[h].kind = "review" => /\ ctx'[h].new.state \in {"PASS", "UNPASS"}
                                    /\ ctx'[h].new.type # Null
                                    /\ (ctx'[h].new.login # Null)
                                          <=> (ctx'[h].new.state = "PASS")
      /\ ctx'[h].kind = "join" => /\ ctx'[h].new.account # Null
                                  /\ ctx'[h].new.state = "UNAUDITED"
                                  /\ ctx'[h].new.login = Null
                                  /\ \/ ctx'[h].new.type # "agent"
                                     \/ ctx'[h].new.belong = Null
  BY <1>1, <1>2, <1>4
     DEF Asks, JoinAsks, EditAsks, MoveAsks, RewriteAsks, ReviewAsks
<1>9. /\ ctx'[h].kind = "edit" => /\ ctx'[h].new.state = Null
                                  /\ ctx'[h].new.type # Null
                                  /\ ctx'[h].new.belong = Null
                                  /\ ctx'[h].new.login = Null
      /\ ctx'[h].kind = "move" => ctx'[h].new.type # Null /\ ctx'[h].new.belong # Null
  BY <1>1, <1>2, <1>3
     DEF Asks, JoinAsks, EditAsks, MoveAsks, RewriteAsks, ReviewAsks
<1> QED
  BY <1>1, <1>6, <1>7, <1>8, <1>9 DEF FormOf

\* Of the others nothing changes.
LEMMA OthersForm ==
    ASSUME NEW k \in Requests, FormOf(k), pc'[k] = pc[k], ctx'[k] = ctx[k]
    PROVE  FormOf(k)'
  BY DEF FormOf

LEMMA FormStep == TypeOK /\ FormInv /\ [Next]_vars => FormInv'
<1> SUFFICES ASSUME TypeOK, \A g \in Requests : FormOf(g), [Next]_vars,
                    NEW k \in Requests
             PROVE  FormOf(k)'
  BY FormInvIs DEF FormInv, FormOf
<1>1. ASSUME NEW h \in Requests, pc[h] = "idle", TurnAway(h) PROVE FormOf(k)'
  BY <1>1 DEF FormOf, TypeOK, TurnAway, Pending
<1>2. ASSUME NEW h \in Requests, NEW c, Reads(h, c) PROVE FormOf(k)'
  <2>1. CASE k = h
    BY <1>2, <2>1, AskedForm
  <2>2. CASE k # h
    BY <1>2, <2>2, OthersForm DEF TypeOK, Reads
  <2> QED
    BY <2>1, <2>2
<1>3. ASSUME NEW h \in Requests, NEW g \in Requests, BeginUpload(h, g) PROVE FormOf(k)'
  <2>1. CASE k = h
    <3>1. ctx[g] \in Context /\ FormOf(g) /\ ctx[g].kind = "rewrite"
      BY <1>3 DEF TypeOK, BeginUpload
    <3>2. ctx'[h] = [ctx[g] EXCEPT !.kind = "upload"] /\ pc'[h] = "write"
      BY <1>3 DEF BeginUpload, TypeOK
    <3>3. ctx'[h].book = ctx[g].book /\ ctx'[h].kind = "upload"
      BY <3>1, <3>2 DEF Context
    <3>4. ctx[g].book = Null
      BY <3>1 DEF FormOf
    <3>5. "upload" # Null
      BY RegistrationAssumption DEF Kind
    <3> QED
      BY <2>1, <3>2, <3>3, <3>4, <3>5 DEF FormOf, Pending
  <2>2. CASE k # h
    BY <1>3, <2>2, OthersForm DEF TypeOK, BeginUpload
  <2> QED
    BY <2>1, <2>2
<1>4. ASSUME NEW h \in Requests, NEW step \in AdvanceStep, Advances(h, step), Counts(h, step)
      PROVE  FormOf(k)'
  <2>1. CASE k = h
    <3>1. pc'[h] = step /\ ctx'[h] = ctx[h] /\ FormOf(h) /\ pc[h] \in Pending
      BY <1>4 DEF Advances, TypeOK
    <3>2. /\ step = "mt4" => pc[h] = "count"
          /\ step = "mail" => pc[h] = "mt4"
          /\ step # "count"
      BY <1>4 DEF Counts, Opens, AdvanceStep
    <3> QED
      BY <2>1, <3>1, <3>2 DEF FormOf, Pending
  <2>2. CASE k # h
    BY <1>4, <2>2, OthersForm DEF TypeOK, Advances
  <2> QED
    BY <2>1, <2>2
<1>5. ASSUME NEW h \in Requests, Insert(h) \/ Write(h) PROVE FormOf(k)'
  BY <1>5 DEF FormOf, TypeOK, Insert, Write, Finish, Pending
<1>6. ASSUME NEW m \in managers, Remove(m) PROVE FormOf(k)'
  BY <1>6, OthersForm DEF Remove
<1>7. CASE UNCHANGED vars
  BY <1>7, OthersForm DEF vars
<1> QED
  BY <1>1, <1>2, <1>3, <1>4, <1>5, <1>6, <1>7, StepForms

LEMMA LockStep == TypeOK /\ FormInv /\ LockInv /\ [Next]_vars => LockInv'
<1> SUFFICES ASSUME TypeOK, \A g \in Requests : FormOf(g), LockInv, [Next]_vars,
                    NEW k \in Requests, NEW b \in Books
             PROVE  (lock[b] = k <=> ctx[k].book = b /\ pc[k] \in {"mt4", "mail", "write"})'
  BY FormInvIs DEF LockInv
<1>0. /\ Null \notin Requests /\ Null \notin Books
      /\ lock[b] = k <=> ctx[k].book = b /\ pc[k] \in {"mt4", "mail", "write"}
  BY RegistrationAssumption DEF LockInv, Managers
<1>a. ASSUME lock' = lock, pc'[k] = pc[k], ctx'[k] = ctx[k]
      PROVE  (lock[b] = k <=> ctx[k].book = b /\ pc[k] \in {"mt4", "mail", "write"})'
  BY <1>0, <1>a
<1>b. ASSUME NEW h \in Requests, NEW how \in Ended, Releases(h, how), ctx' = ctx,
             pc' = [pc EXCEPT ![h] = how]
      PROVE  (lock[b] = k <=> ctx[k].book = b /\ pc[k] \in {"mt4", "mail", "write"})'
  <2>1. lock'[b] = IF lock[b] = h THEN Null ELSE lock[b]
    BY <1>b DEF Releases
  <2>2. CASE k = h
    BY <1>0, <1>b, <2>1, <2>2 DEF TypeOK, Ended
  <2>3. CASE k # h
    BY <1>0, <1>b, <2>1, <2>3 DEF TypeOK
  <2> QED
    BY <2>2, <2>3
<1>1. ASSUME NEW h \in Requests, pc[h] = "idle", TurnAway(h)
      PROVE  (lock[b] = k <=> ctx[k].book = b /\ pc[k] \in {"mt4", "mail", "write"})'
  BY <1>0, <1>1 DEF TypeOK, TurnAway
<1>2. ASSUME NEW h \in Requests, NEW c, Reads(h, c)
      PROVE  (lock[b] = k <=> ctx[k].book = b /\ pc[k] \in {"mt4", "mail", "write"})'
  <2>1. CASE k = h
    <3>1. FormOf(h)' /\ pc'[h] = FirstStep(c) /\ ctx'[h] = c
      BY <1>2, AskedForm DEF Reads, TypeOK
    <3>2. c.book = b => pc'[h] = "count"
      BY <1>0, <3>1 DEF FormOf, FirstStep
    <3> QED
      BY <1>0, <1>2, <2>1, <3>1, <3>2 DEF Reads
  <2>2. CASE k # h
    BY <1>2, <1>a, <2>2 DEF TypeOK, Reads
  <2> QED
    BY <2>1, <2>2
<1>3. ASSUME NEW h \in Requests, NEW g \in Requests, pc[h] = "idle", BeginUpload(h, g)
      PROVE  (lock[b] = k <=> ctx[k].book = b /\ pc[k] \in {"mt4", "mail", "write"})'
  <2>1. CASE k = h
    <3>1. ctx[g] \in Context /\ FormOf(g) /\ ctx[g].kind = "rewrite"
      BY <1>3 DEF TypeOK, BeginUpload
    <3>2. ctx'[h] = [ctx[g] EXCEPT !.kind = "upload"]
      BY <1>3 DEF BeginUpload, TypeOK
    <3>3. ctx'[h].book = Null
      BY <3>1, <3>2 DEF Context, FormOf
    <3> QED
      BY <1>0, <1>3, <2>1, <3>3 DEF BeginUpload
  <2>2. CASE k # h
    BY <1>3, <1>a, <2>2 DEF TypeOK, BeginUpload
  <2> QED
    BY <2>1, <2>2
<1>4. ASSUME NEW h \in Requests, NEW step \in AdvanceStep, Advances(h, step), Counts(h, step)
      PROVE  (lock[b] = k <=> ctx[k].book = b /\ pc[k] \in {"mt4", "mail", "write"})'
  <2>0. ctx' = ctx /\ pc' = [pc EXCEPT ![h] = step] /\ FormOf(h)
    BY <1>4 DEF Advances
  <2>1. CASE Releases(h, step) /\ step \in Ended
    BY <1>b, <2>0, <2>1
  <2>2. CASE lock' = lock /\ pc[h] \in {"mt4", "mail"} /\ step \in {"mail", "write"}
    <3>1. CASE k = h
      BY <1>0, <2>0, <2>2, <3>1 DEF TypeOK
    <3>2. CASE k # h
      BY <1>a, <2>0, <2>2, <3>2 DEF TypeOK
    <3> QED
      BY <3>1, <3>2
  <2>3. CASE /\ pc[h] = "count" /\ step = "mt4"
             /\ lock[ctx[h].book] = Null
             /\ lock' = [lock EXCEPT ![ctx[h].book] = h]
    <3>1. CASE ctx[h].book = b
      <4>1. lock'[b] = h
        BY <2>3, <3>1 DEF TypeOK
      <4>2. CASE k = h
        BY <2>0, <2>3, <3>1, <4>1, <4>2 DEF TypeOK
      <4>3. CASE k # h
        BY <1>0, <2>0, <2>3, <3>1, <4>1, <4>3 DEF TypeOK
      <4> QED
        BY <4>2, <4>3
    <3>2. CASE ctx[h].book # b
      <4>1. lock'[b] = lock[b]
        BY <2>3, <3>2 DEF TypeOK
      <4>2. CASE k = h
        BY <1>0, <2>0, <3>2, <4>1, <4>2 DEF TypeOK
      <4>3. CASE k # h
        BY <1>0, <2>0, <4>1, <4>3 DEF TypeOK
      <4> QED
        BY <4>2, <4>3
    <3> QED
      BY <3>1, <3>2
  <2> QED
    BY <1>4, <2>1, <2>2, <2>3 DEF Counts, Opens, Ended
<1>5. ASSUME NEW h \in Requests, Insert(h) \/ Write(h)
      PROVE  (lock[b] = k <=> ctx[k].book = b /\ pc[k] \in {"mt4", "mail", "write"})'
  <2>1. Releases(h, "ok") /\ ctx' = ctx /\ pc' = [pc EXCEPT ![h] = "ok"] /\ "ok" \in Ended
    BY <1>5 DEF Insert, Write, Finish, Releases, Ended
  <2> QED
    BY <1>b, <2>1
<1>6. ASSUME NEW m \in managers, Remove(m)
      PROVE  (lock[b] = k <=> ctx[k].book = b /\ pc[k] \in {"mt4", "mail", "write"})'
  BY <1>6, <1>a DEF Remove
<1>7. CASE UNCHANGED vars
  BY <1>7, <1>a DEF vars
<1> QED
  BY <1>1, <1>2, <1>3, <1>4, <1>5, <1>6, <1>7, StepForms

\* OpenedInv for one request.
OpenedOf(h) ==
    /\ h \in created => ctx[h].book # Null /\ pc[h] \in {"mail", "write", "ok", "no", "error"}
    /\ ctx[h].book # Null /\ pc[h] \in {"mail", "write", "ok"} => h \in created

LEMMA OpenedInvIs == TypeOK => (OpenedInv <=> \A h \in Requests : OpenedOf(h))
  BY DEF TypeOK, OpenedInv, OpenedOf

LEMMA OpenedStep == TypeOK /\ FormInv /\ OpenedInv /\ TypeOK' /\ [Next]_vars => OpenedInv'
<1> SUFFICES ASSUME TypeOK, \A g \in Requests : FormOf(g), \A g \in Requests : OpenedOf(g),
                    [Next]_vars, TypeOK', NEW k \in Requests
             PROVE  OpenedOf(k)'
  BY FormInvIs, OpenedInvIs DEF OpenedInv, OpenedOf, TypeOK
<1>a. ASSUME k \in created' <=> k \in created, pc'[k] = pc[k], ctx'[k] = ctx[k]
      PROVE  OpenedOf(k)'
  BY <1>a DEF OpenedOf
<1>1. ASSUME NEW h \in Requests, pc[h] = "idle", TurnAway(h) PROVE OpenedOf(k)'
  BY <1>1 DEF TypeOK, TurnAway, OpenedOf
<1>2. ASSUME NEW h \in Requests, NEW c, Reads(h, c) PROVE OpenedOf(k)'
  <2>1. CASE k = h
    <3>1. FormOf(h)' /\ pc'[h] = FirstStep(c) /\ ctx'[h] = c
      BY <1>2, AskedForm DEF Reads, TypeOK
    <3>2. c.book # Null => pc'[h] = "count"
      BY <3>1 DEF FormOf, FirstStep
    <3>3. h \notin created'
      BY <1>2 DEF Reads, OpenedOf
    <3> QED
      BY <2>1, <3>1, <3>2, <3>3 DEF OpenedOf
  <2>2. CASE k # h
    BY <1>2, <1>a, <2>2 DEF TypeOK, Reads
  <2> QED
    BY <2>1, <2>2
<1>3. ASSUME NEW h \in Requests, NEW g \in Requests, pc[h] = "idle", BeginUpload(h, g)
      PROVE  OpenedOf(k)'
  <2>1. CASE k = h
    <3>1. ctx[g] \in Context /\ FormOf(g) /\ ctx[g].kind = "rewrite"
      BY <1>3 DEF TypeOK, BeginUpload
    <3>2. ctx'[h] = [ctx[g] EXCEPT !.kind = "upload"]
      BY <1>3 DEF BeginUpload, TypeOK
    <3>3. ctx'[h].book = Null
      BY <3>1, <3>2 DEF Context, FormOf
    <3> QED
      BY <1>3, <2>1, <3>3 DEF BeginUpload, OpenedOf
  <2>2. CASE k # h
    BY <1>3, <1>a, <2>2 DEF TypeOK, BeginUpload
  <2> QED
    BY <2>1, <2>2
<1>4. ASSUME NEW h \in Requests, NEW step \in AdvanceStep, Advances(h, step), Counts(h, step)
      PROVE  OpenedOf(k)'
  <2>0. ctx' = ctx /\ pc' = [pc EXCEPT ![h] = step] /\ FormOf(h) /\ OpenedOf(h)
    BY <1>4 DEF Advances
  <2>1. CASE k = h
    BY <1>4, <2>0, <2>1 DEF TypeOK, FormOf, OpenedOf, Counts, Opens, AdvanceStep
  <2>2. CASE k # h
    BY <1>4, <1>a, <2>0, <2>2 DEF TypeOK, Counts, Opens
  <2> QED
    BY <2>1, <2>2
<1>5. ASSUME NEW h \in Requests, Insert(h) \/ Write(h) PROVE OpenedOf(k)'
  BY <1>5 DEF TypeOK, Insert, Write, Finish, OpenedOf
<1>6. ASSUME NEW m \in managers, Remove(m) PROVE OpenedOf(k)'
  BY <1>6, <1>a DEF Remove
<1>7. CASE UNCHANGED vars
  BY <1>7, <1>a DEF vars
<1> QED
  BY <1>1, <1>2, <1>3, <1>4, <1>5, <1>6, <1>7, StepForms
-----------------------------------------------------------------------------
(* Ids and writers *)

\* Whoever has ended stays as it is, with what it carries and what it saw.
LEMMA EndedStay ==
    ASSUME TypeOK, [Next]_vars, NEW k \in Requests, pc[k] \in Ended
    PROVE  pc'[k] = pc[k] /\ ctx'[k] = ctx[k] /\ saw'[k] = saw[k]
<1> DEFINE Same == pc'[k] = pc[k] /\ ctx'[k] = ctx[k] /\ saw'[k] = saw[k]
<1> SUFFICES Same
  OBVIOUS
<1>1. ASSUME NEW h \in Requests, pc[h] = "idle", TurnAway(h) PROVE Same
  BY <1>1 DEF TypeOK, TurnAway, Ended
<1>2. ASSUME NEW h \in Requests, NEW c, Reads(h, c) PROVE Same
  BY <1>2 DEF TypeOK, Reads, Ended
<1>3. ASSUME NEW h \in Requests, NEW g \in Requests, pc[h] = "idle", BeginUpload(h, g)
      PROVE  Same
  BY <1>3 DEF TypeOK, BeginUpload, Ended
<1>4. ASSUME NEW h \in Requests, NEW step \in AdvanceStep, Advances(h, step) PROVE Same
  BY <1>4 DEF TypeOK, Advances, Ended, Pending
<1>5. ASSUME NEW h \in Requests, Insert(h) \/ Write(h) PROVE Same
  BY <1>5 DEF TypeOK, Insert, Write, Finish, Ended
<1>6. ASSUME NEW m \in managers, Remove(m) PROVE Same
  BY <1>6 DEF Remove
<1>7. CASE UNCHANGED vars
  BY <1>7 DEF vars
<1> HIDE DEF Same
<1> QED
  BY <1>1, <1>2, <1>3, <1>4, <1>5, <1>6, <1>7, StepForms

\* Ids stay ids.
StaysId(m) == m \in Starters \/ (m \in Requests /\ pc'[m] = "ok")

LEMMA IdsStay ==
    ASSUME TypeOK, [Next]_vars, NEW m, IsId(m)
    PROVE  StaysId(m)
  BY EndedStay DEF IsId, StaysId, Ended

\* What holds of the parent column of a row and of a request.
RowId(m) == IsId(m) /\ (row[m].belong # Null => IsId(row[m].belong))

AskId(h) ==
    ctx[h].kind # Null =>
        /\ ctx[h].kind = "join" => ctx[h].m = h
        /\ ctx[h].kind # "join" => IsId(ctx[h].m)
        /\ ctx[h].new.belong # Null => IsId(ctx[h].new.belong)

NoRow(m) == m \notin managers => row[m] = Blank /\ by[m] = Nobody

LEMMA IdInvIs ==
    IdInv <=> /\ \A m \in managers : RowId(m)
              /\ \A m \in Managers : NoRow(m)
              /\ \A h \in Requests : AskId(h)
  BY DEF IdInv, RowId, AskId, NoRow

LEMMA AskIdStep ==
    ASSUME TypeOK, IdInv, [Next]_vars, NEW k \in Requests
    PROVE  AskId(k)'
<1>0. AskId(k) /\ \A m \in managers : RowId(m)
  BY IdInvIs
<1>a. ASSUME ctx'[k] = ctx[k]
      PROVE  AskId(k)'
  <2>1. /\ ctx[k].kind # Null /\ ctx[k].kind # "join" => StaysId(ctx[k].m)
        /\ ctx[k].kind # Null /\ ctx[k].new.belong # Null => StaysId(ctx[k].new.belong)
    BY <1>0, IdsStay DEF AskId
  <2> QED
    BY <1>0, <1>a, <2>1 DEF AskId, IsId, StaysId
<1>1. ASSUME NEW h \in Requests, TurnAway(h) PROVE AskId(k)'
  BY <1>1, <1>a DEF TurnAway
<1>2. ASSUME NEW h \in Requests, NEW c, Reads(h, c) PROVE AskId(k)'
  <2>1. CASE k = h
    <3>1. ctx'[h] = c /\ Asks(h, c)
      BY <1>2 DEF Reads, TypeOK
    <3>2. /\ c.kind = "join" => c.m = h
          /\ c.kind # "join" => c.m \in managers
          /\ \/ c.new.belong \in Named \cup {Null}
             \/ c.m \in managers /\ c.new.belong = row[c.m].belong
      BY <3>1 DEF Asks, JoinAsks, EditAsks, MoveAsks, RewriteAsks, ReviewAsks
    <3>3. /\ c.kind # "join" => IsId(c.m)
          /\ c.new.belong # Null => IsId(c.new.belong)
      BY <1>0, <3>2 DEF RowId, Named
    <3>4. /\ c.kind # "join" => StaysId(c.m)
          /\ c.new.belong # Null => StaysId(c.new.belong)
      BY <3>3, IdsStay
    <3> QED
      BY <2>1, <3>1, <3>2, <3>4 DEF AskId, IsId, StaysId
  <2>2. CASE k # h
    BY <1>2, <1>a, <2>2 DEF TypeOK, Reads
  <2> QED
    BY <2>1, <2>2
<1>3. ASSUME NEW h \in Requests, NEW g \in Requests, BeginUpload(h, g) PROVE AskId(k)'
  <2>1. CASE k = h
    <3>1. ctx[g] \in Context /\ AskId(g) /\ ctx[g].kind = "rewrite"
      BY <1>3, IdInvIs DEF TypeOK, BeginUpload
    <3>2. ctx'[h] = [ctx[g] EXCEPT !.kind = "upload"]
      BY <1>3 DEF BeginUpload, TypeOK
    <3>3. ctx'[h].m = ctx[g].m /\ ctx'[h].new = ctx[g].new /\ ctx'[h].kind = "upload"
      BY <3>1, <3>2 DEF Context
    <3>4. IsId(ctx[g].m) /\ (ctx[g].new.belong # Null => IsId(ctx[g].new.belong))
      BY <3>1, RegistrationAssumption DEF AskId, Kind
    <3>5. StaysId(ctx[g].m) /\ (ctx[g].new.belong # Null => StaysId(ctx[g].new.belong))
      BY <3>4, IdsStay
    <3> QED
      BY <2>1, <3>3, <3>5 DEF AskId, IsId, StaysId
  <2>2. CASE k # h
    BY <1>3, <1>a, <2>2 DEF TypeOK, BeginUpload
  <2> QED
    BY <2>1, <2>2
<1>4. ASSUME NEW h \in Requests, NEW step \in AdvanceStep, Advances(h, step) PROVE AskId(k)'
  BY <1>4, <1>a DEF Advances
<1>5. ASSUME NEW h \in Requests, Insert(h) \/ Write(h) PROVE AskId(k)'
  BY <1>5, <1>a DEF Insert, Write
<1>6. ASSUME NEW m \in managers, Remove(m) PROVE AskId(k)'
  BY <1>6, <1>a DEF Remove
<1>7. CASE UNCHANGED vars
  BY <1>7, <1>a DEF vars
<1> QED
  BY <1>1, <1>2, <1>3, <1>4, <1>5, <1>6, <1>7, StepForms
-----------------------------------------------------------------------------
(* What a step does to the rows *)

Quiet == UNCHANGED <<managers, row, by, undid>>

Inserts(w) ==
    /\ ctx[w].kind = "join" /\ ctx[w].m = w
    /\ w \notin managers /\ row[w] = Blank /\ by[w] = Nobody
    /\ managers' = managers \cup {w}
    /\ row'[w] = ctx[w].new
    /\ undid' = undid

Updates(w) ==
    LET m == ctx[w].m
    IN  /\ ctx[w].kind # "join" /\ m \in managers
        /\ managers' = managers
        /\ row'[m] = Selective(row[m], ctx[w].new)
        /\ undid' = IF Undoes(w, row[m], row'[m]) THEN undid \cup {w} ELSE undid

\* w writes the row it works on, and only that one.
Writes(w) ==
    /\ pc[w] = "write" /\ pc' = [pc EXCEPT ![w] = "ok"]
    /\ UNCHANGED <<ctx, saw, created>>
    /\ \A x \in Managers : x # ctx[w].m => row'[x] = row[x] /\ by'[x] = by[x]
    /\ by'[ctx[w].m] = Changed(w, row[ctx[w].m], row'[ctx[w].m], by[ctx[w].m])
    /\ ctx[w].m \in Managers
    /\ Inserts(w) \/ Updates(w)

Removes(m) ==
    /\ m \in managers
    /\ managers' = managers \ {m}
    /\ row' = [row EXCEPT ![m] = Blank]
    /\ by' = [by EXCEPT ![m] = Nobody]
    /\ UNCHANGED <<undid, pc, ctx, saw>>

LEMMA InsertWrites ==
    ASSUME TypeOK, FormInv, IdInv, NEW h \in Requests, Insert(h)
    PROVE  Writes(h)
<1>1. h \in Managers /\ ctx[h].kind = "join" /\ pc[h] = "write"
  BY DEF Insert, Managers
<1>2. ctx[h].m = h
  BY <1>1, IdInvIs, RegistrationAssumption DEF AskId, Kind
<1>3. h \notin managers
  BY <1>1, IdInvIs, RegistrationAssumption DEF RowId, IsId
<1>4. row[h] = Blank /\ by[h] = Nobody
  BY <1>1, <1>3, IdInvIs DEF NoRow
<1>5. /\ row'[h] = ctx[h].new
      /\ by'[h] = Changed(h, Blank, ctx[h].new, Nobody)
      /\ \A x \in Managers : x # h => row'[x] = row[x] /\ by'[x] = by[x]
  BY <1>1 DEF Insert, TypeOK
<1>6. Inserts(h)
  BY <1>1, <1>2, <1>3, <1>4, <1>5 DEF Insert, Inserts
<1> QED
  BY <1>1, <1>2, <1>4, <1>5, <1>6 DEF Insert, Finish, Writes

LEMMA WriteWrites ==
    ASSUME TypeOK, NEW h \in Requests, Write(h)
    PROVE  Quiet \/ Writes(h)
<1> DEFINE m == ctx[h].m
           new == Selective(row[m], ctx[h].new)
<1>1. CASE m \notin managers
  BY <1>1 DEF Write, Quiet
<1>2. CASE m \in managers
  <2>1. m \in Managers
    BY <1>2 DEF TypeOK
  <2> HIDE DEF new
  <2>2. /\ row' = [row EXCEPT ![m] = new]
        /\ by' = [by EXCEPT ![m] = Changed(h, row[m], new, by[m])]
        /\ undid' = IF Undoes(h, row[m], new) THEN undid \cup {h} ELSE undid
    BY <1>2 DEF Write, new
  <2> HIDE DEF m
  <2>3. /\ row'[m] = new
        /\ by'[m] = Changed(h, row[m], new, by[m])
        /\ \A x \in Managers : x # m => row'[x] = row[x] /\ by'[x] = by[x]
    BY <2>1, <2>2 DEF TypeOK
  <2> USE DEF m
  <2>4. Updates(h)
    BY <1>2, <2>2, <2>3 DEF Write, Updates, new
  <2> QED
    BY <2>1, <2>3, <2>4 DEF Write, Finish, Writes
<1> QED
  BY <1>1, <1>2

LEMMA RowForms ==
    ASSUME TypeOK, FormInv, IdInv, [Next]_vars,
           NEW P,
           Quiet => P,
           ASSUME NEW w \in Requests, Writes(w) PROVE P,
           ASSUME NEW m \in managers, Removes(m) PROVE P
    PROVE  P
<1>1. ASSUME NEW h \in Requests, TurnAway(h) PROVE Quiet
  BY <1>1 DEF TurnAway, Quiet
<1>2. ASSUME NEW h \in Requests, NEW c, Reads(h, c) PROVE Quiet
  BY <1>2 DEF Reads, Quiet
<1>3. ASSUME NEW h \in Requests, NEW g \in Requests, BeginUpload(h, g) PROVE Quiet
  BY <1>3 DEF BeginUpload, Quiet
<1>4. ASSUME NEW h \in Requests, NEW step \in AdvanceStep, Advances(h, step) PROVE Quiet
  BY <1>4 DEF Advances, Quiet
<1>5. ASSUME NEW m \in managers, Remove(m) PROVE Removes(m)
  BY <1>5 DEF Remove, Removes
<1>6. CASE UNCHANGED vars
  BY <1>6 DEF vars, Quiet
<1> QED
  BY <1>1, <1>2, <1>3, <1>4, <1>5, <1>6, StepForms, InsertWrites, WriteWrites

\* A column is as it was, or w wrote it.
Touched(w, x) ==
    /\ (row'[x].account = row[x].account /\ by'[x].account = by[x].account)
          \/ by'[x].account = w
    /\ (row'[x].type = row[x].type /\ by'[x].type = by[x].type) \/ by'[x].type = w
    /\ (row'[x].level = row[x].level /\ by'[x].level = by[x].level) \/ by'[x].level = w
    /\ (row'[x].belong = row[x].belong /\ by'[x].belong = by[x].belong)
          \/ by'[x].belong = w

LEMMA WriteTouches ==
    ASSUME NEW w \in Requests, Writes(w), NEW x \in Managers
    PROVE  Touched(w, x)
<1>1. CASE x # ctx[w].m
  BY <1>1 DEF Writes, Touched
<1>2. CASE x = ctx[w].m
  <2>1. by'[x] = Changed(w, row[x], row'[x], by[x])
    BY <1>2 DEF Writes
  <2> QED
    BY <2>1 DEF Changed, Touched
<1> QED
  BY <1>1, <1>2

LEMMA IdStep == TypeOK /\ FormInv /\ IdInv /\ TypeOK' /\ [Next]_vars => IdInv'
<1> SUFFICES ASSUME TypeOK, FormInv, IdInv, TypeOK', [Next]_vars PROVE IdInv'
  OBVIOUS
<1>0. \A m \in managers : StaysId(m) /\ (row[m].belong # Null => StaysId(row[m].belong))
  BY IdInvIs, IdsStay DEF RowId
<1>a. \A h \in Requests : AskId(h)'
  BY AskIdStep
<1>1. ASSUME NEW m \in managers'
      PROVE  RowId(m)'
  <2>1. CASE Quiet
    BY <1>0, <1>1, <2>1 DEF Quiet, RowId, IsId, StaysId
  <2>2. ASSUME NEW w \in Requests, Writes(w) PROVE RowId(m)'
    <3>1. CASE m # ctx[w].m
      <4>1. m \in managers /\ row'[m] = row[m]
        BY <1>1, <2>2, <3>1 DEF Writes, Inserts, Updates, TypeOK, Managers
      <4> QED
        BY <1>0, <4>1 DEF RowId, IsId, StaysId
    <3>2. CASE m = ctx[w].m
      <4>1. \/ row'[m].belong = ctx[w].new.belong
            \/ m \in managers /\ row'[m].belong = row[m].belong
        BY <2>2, <3>2 DEF Writes, Inserts, Updates, Selective, Given, Columns
      <4>2. StaysId(m)
        <5>1. CASE Inserts(w)
          BY <2>2, <3>2, <5>1 DEF Writes, Inserts, StaysId, TypeOK
        <5>2. CASE Updates(w)
          BY <1>0, <3>2, <5>2 DEF Updates
        <5> QED
          BY <2>2, <5>1, <5>2 DEF Writes
      <4>3. ctx[w].new.belong # Null => IsId(ctx[w].new.belong)
        <5>1. ctx[w].kind # Null
          BY <2>2, FormInvIs DEF Writes, FormOf, Pending
        <5> QED
          BY <5>1, IdInvIs DEF AskId
      <4>4. ctx[w].new.belong # Null => StaysId(ctx[w].new.belong)
        BY <4>3, IdsStay
      <4>5. row'[m].belong # Null => StaysId(row'[m].belong)
        BY <1>0, <4>1, <4>4
      <4> QED
        BY <4>2, <4>5 DEF RowId, IsId, StaysId
    <3> QED
      BY <3>1, <3>2
  <2>3. ASSUME NEW x \in managers, Removes(x) PROVE RowId(m)'
    <3>1. m \in managers /\ m # x /\ row'[m] = row[m]
      BY <1>1, <2>3 DEF Removes, TypeOK
    <3> QED
      BY <1>0, <3>1 DEF RowId, IsId, StaysId
  <2> QED
    BY <2>1, <2>2, <2>3, RowForms
<1>2. ASSUME NEW m \in Managers
      PROVE  NoRow(m)'
  <2>0. NoRow(m)
    BY IdInvIs
  <2>1. CASE Quiet
    BY <2>0, <2>1 DEF Quiet, NoRow
  <2>2. ASSUME NEW w \in Requests, Writes(w) PROVE NoRow(m)'
    BY <2>0, <2>2 DEF Writes, Inserts, Updates, NoRow
  <2>3. ASSUME NEW x \in managers, Removes(x) PROVE NoRow(m)'
    BY <2>0, <2>3 DEF Removes, NoRow, TypeOK
  <2> QED
    BY <2>1, <2>2, <2>3, RowForms
<1> QED
  BY <1>1, <1>2, <1>a DEF IdInv, RowId, AskId, NoRow
-----------------------------------------------------------------------------
(* Who wrote a column, and what a request has seen *)

WrittenBy(m) == \A w \in WritersOf(m) \cap Requests : pc[w] = "ok" /\ ctx[w].m = m

SeenEnded(h) == \A k \in saw[h] : pc[k] \in Ended

LEMMA WriterInvIs ==
    WriterInv <=> /\ \A m \in Managers : WrittenBy(m)
                  /\ \A h \in Requests : SeenEnded(h)
                  /\ \A h \in undid : pc[h] = "ok"
  BY DEF WriterInv, WrittenBy, SeenEnded

\* A request is at work after a step because it has just read, or still is.
LEMMA PendingForms ==
    ASSUME TypeOK, [Next]_vars, NEW k \in Requests, pc'[k] \in Pending
    PROVE  \/ \E c : Reads(k, c)
           \/ \E g \in Requests : pc[k] = "idle" /\ BeginUpload(k, g)
           \/ pc[k] \in Pending /\ ctx'[k] = ctx[k] /\ saw'[k] = saw[k]
<1> DEFINE Goal == \/ \E c : Reads(k, c)
                   \/ \E g \in Requests : pc[k] = "idle" /\ BeginUpload(k, g)
                   \/ pc[k] \in Pending /\ ctx'[k] = ctx[k] /\ saw'[k] = saw[k]
<1> SUFFICES Goal
  OBVIOUS
<1>1. ASSUME NEW h \in Requests, TurnAway(h) PROVE Goal
  BY <1>1 DEF TypeOK, TurnAway, Pending
<1>2. ASSUME NEW h \in Requests, NEW c, Reads(h, c) PROVE Goal
  BY <1>2 DEF TypeOK, Reads
<1>3. ASSUME NEW h \in Requests, NEW g \in Requests, pc[h] = "idle", BeginUpload(h, g)
      PROVE  Goal
  <2>1. CASE k = h
    BY <1>3, <2>1
  <2>2. CASE k # h
    BY <1>3, <2>2 DEF TypeOK, BeginUpload
  <2> QED
    BY <2>1, <2>2
<1>4. ASSUME NEW h \in Requests, NEW step \in AdvanceStep, Advances(h, step) PROVE Goal
  BY <1>4 DEF TypeOK, Advances
<1>5. ASSUME NEW h \in Requests, Insert(h) \/ Write(h) PROVE Goal
  BY <1>5 DEF TypeOK, Insert, Write, Finish, Pending
<1>6. ASSUME NEW m \in managers, Remove(m) PROVE Goal
  BY <1>6 DEF Remove
<1>7. CASE UNCHANGED vars
  BY <1>7 DEF vars
<1> HIDE DEF Goal
<1> QED
  BY <1>1, <1>2, <1>3, <1>4, <1>5, <1>6, <1>7, StepForms

LEMMA WriterStep ==
    TypeOK /\ FormInv /\ IdInv /\ WriterInv /\ TypeOK' /\ [Next]_vars => WriterInv'
<1> SUFFICES ASSUME TypeOK, FormInv, IdInv, WriterInv, TypeOK', [Next]_vars PROVE WriterInv'
  OBVIOUS
<1>1. ASSUME NEW m \in Managers
      PROVE  WrittenBy(m)'
  <2>0. \A w \in WritersOf(m) \cap Requests : pc'[w] = "ok" /\ ctx'[w].m = m
    BY WriterInvIs, EndedStay DEF WrittenBy, Ended
  <2>1. CASE Quiet
    BY <2>0, <2>1 DEF Quiet, WrittenBy, WritersOf
  <2>2. ASSUME NEW w \in Requests, Writes(w) PROVE WrittenBy(m)'
    <3>1. CASE m # ctx[w].m
      <4>1. by'[m] = by[m]
        BY <2>2, <3>1 DEF Writes
      <4> QED
        BY <2>0, <4>1 DEF WrittenBy, WritersOf
    <3>2. CASE m = ctx[w].m
      <4>1. Touched(w, m)
        BY <2>2, WriteTouches
      <4>2. pc'[w] = "ok" /\ ctx'[w].m = m
        BY <2>2, <3>2 DEF Writes, TypeOK
      <4>3. \A v \in WritersOf(m)' : v = w \/ v \in WritersOf(m)
        BY <4>1 DEF Touched, WritersOf
      <4> QED
        BY <2>0, <4>2, <4>3 DEF WrittenBy
    <3> QED
      BY <3>1, <3>2
  <2>3. ASSUME NEW x \in managers, Removes(x) PROVE WrittenBy(m)'
    <3>1. by'[m] = by[m] \/ by'[m] = Nobody
      BY <2>3 DEF Removes, TypeOK
    <3>2. Null \notin Requests
      BY RegistrationAssumption DEF Managers
    <3> QED
      BY <2>0, <3>1, <3>2 DEF WrittenBy, WritersOf, Nobody
  <2> QED
    BY <2>1, <2>2, <2>3, RowForms
<1>2. ASSUME NEW k \in Requests
      PROVE  SeenEnded(k)'
  <2>1. \A g \in Requests : SeenEnded(g)
    BY WriterInvIs
  <2>2. \A g \in Requests : pc[g] \in Ended => pc'[g] \in Ended
    BY EndedStay
  <2>3. saw'[k] \subseteq {g \in Requests : pc[g] \in Ended}
    <3> DEFINE Goal == saw'[k] \subseteq {g \in Requests : pc[g] \in Ended}
    <3> SUFFICES Goal
      OBVIOUS
    <3>0. \A g \in Requests : saw[g] \subseteq {x \in Requests : pc[x] \in Ended}
      BY <2>1 DEF SeenEnded, TypeOK
    <3>1. ASSUME NEW h \in Requests, TurnAway(h) PROVE Goal
      BY <3>0, <3>1 DEF TurnAway
    <3>2. ASSUME NEW h \in Requests, NEW c, Reads(h, c) PROVE Goal
      BY <3>0, <3>2 DEF Reads, TypeOK
    <3>3. ASSUME NEW h \in Requests, NEW g \in Requests, BeginUpload(h, g) PROVE Goal
      BY <3>0, <3>3 DEF BeginUpload, TypeOK
    <3>4. ASSUME NEW h \in Requests, NEW step \in AdvanceStep, Advances(h, step) PROVE Goal
      BY <3>0, <3>4 DEF Advances
    <3>5. ASSUME NEW h \in Requests, Insert(h) \/ Write(h) PROVE Goal
      BY <3>0, <3>5 DEF Insert, Write
    <3>6. ASSUME NEW m \in managers, Remove(m) PROVE Goal
      BY <3>0, <3>6 DEF Remove
    <3>7. CASE UNCHANGED vars
      BY <3>0, <3>7 DEF vars
    <3> HIDE DEF Goal
    <3> QED
      BY <3>1, <3>2, <3>3, <3>4, <3>5, <3>6, <3>7, StepForms
  <2> QED
    BY <2>2, <2>3 DEF SeenEnded
<1>3. ASSUME NEW h \in undid'
      PROVE  pc'[h] = "ok"
  <2>0. \A g \in undid : pc'[g] = "ok"
    BY WriterInvIs, EndedStay DEF Ended, TypeOK
  <2>1. CASE Quiet
    BY <1>3, <2>0, <2>1 DEF Quiet
  <2>2. ASSUME NEW w \in Requests, Writes(w) PROVE pc'[h] = "ok"
    BY <1>3, <2>0, <2>2 DEF Writes, Inserts, Updates, TypeOK
  <2>3. ASSUME NEW x \in managers, Removes(x) PROVE pc'[h] = "ok"
    BY <1>3, <2>0, <2>3 DEF Removes
  <2> QED
    BY <2>1, <2>2, <2>3, RowForms
<1> QED
  BY <1>1, <1>2, <1>3 DEF WriterInv, WrittenBy, SeenEnded

\* Nobody has seen a request that is still at work.
LEMMA Unseen ==
    ASSUME WriterInv, NEW w \in Requests, pc[w] \in Pending
    PROVE  \A h \in Requests : w \notin saw[h]
  BY DEF WriterInv, Ended, Pending

\* AccountInv for one request.
AccountOf(h) ==
    pc[h] \in Pending /\ ctx[h].kind \in {"join", "edit"} =>
        \A n \in managers : n # ctx[h].m /\ Known(h, by[n].account) =>
            row[n].account # ctx[h].new.account

LEMMA AccountInvIs == AccountInv <=> \A h \in Requests : AccountOf(h)
  BY DEF AccountInv, AccountOf

LEMMA AccountStep ==
    TypeOK /\ FormInv /\ IdInv /\ WriterInv /\ AccountInv /\ TypeOK' /\ [Next]_vars
        => AccountInv'
<1> SUFFICES ASSUME TypeOK, FormInv, IdInv, WriterInv, AccountInv, TypeOK', [Next]_vars,
                    NEW k \in Requests, pc'[k] \in Pending, ctx'[k].kind \in {"join", "edit"},
                    NEW n \in managers', n # ctx'[k].m, Known(k, by[n].account)'
             PROVE  row'[n].account # ctx'[k].new.account
  BY DEF AccountInv
<1>1. ASSUME NEW c, Reads(k, c)
      PROVE  row'[n].account # ctx'[k].new.account
  <2>1. ctx'[k] = c /\ Asks(k, c) /\ n \in managers \ {c.m} /\ row' = row
    BY <1>1 DEF Reads, TypeOK
  <2>2. Free(c.new.account, c.m)
    BY <2>1 DEF Asks, JoinAsks, EditAsks, MoveAsks, RewriteAsks, ReviewAsks
  <2> QED
    BY <2>1, <2>2 DEF Free
<1>2. ASSUME NEW g \in Requests, BeginUpload(k, g)
      PROVE  row'[n].account # ctx'[k].new.account
  <2>1. ctx'[k] = [ctx[g] EXCEPT !.kind = "upload"] /\ ctx[g] \in Context
    BY <1>2 DEF BeginUpload, TypeOK
  <2> QED
    BY <2>1 DEF Context
<1>3. CASE pc[k] \in Pending /\ ctx'[k] = ctx[k] /\ saw'[k] = saw[k]
  <2>0. \A x \in managers : x # ctx[k].m /\ Known(k, by[x].account) =>
                                row[x].account # ctx[k].new.account
    BY <1>3, AccountInvIs DEF AccountOf
  <2>1. CASE Quiet
    BY <1>3, <2>0, <2>1 DEF Quiet, Known
  <2>2. ASSUME NEW w \in Requests, Writes(w)
        PROVE  row'[n].account # ctx'[k].new.account
    <3>1. pc[w] \in Pending /\ w # Null
      BY <2>2, RegistrationAssumption DEF Writes, Pending, Managers
    <3>2. w \notin saw[k]
      BY <3>1, Unseen
    <3>3. n \in Managers
      BY DEF TypeOK
    <3>4. row'[n].account = row[n].account /\ by'[n].account = by[n].account
      BY <1>3, <2>2, <3>1, <3>2, <3>3, WriteTouches DEF Touched, Known
    <3>5. n \in managers
      <4>1. CASE Inserts(w) /\ n = w
        <5>1. row'[n].account # Null /\ row[n].account = Null
          BY <2>2, <4>1, FormInvIs DEF Inserts, FormOf, Blank, Columns
        <5> QED
          BY <3>4, <5>1
      <4> QED
        BY <2>2, <4>1 DEF Writes, Inserts, Updates
    <3> QED
      BY <1>3, <2>0, <3>4, <3>5 DEF Known
  <2>3. ASSUME NEW x \in managers, Removes(x)
        PROVE  row'[n].account # ctx'[k].new.account
    <3>1. n \in managers /\ row'[n] = row[n] /\ by'[n] = by[n]
      BY <2>3 DEF Removes, TypeOK
    <3> QED
      BY <1>3, <2>0, <3>1 DEF Known
  <2> QED
    BY <2>1, <2>2, <2>3, RowForms
<1> QED
  BY <1>1, <1>2, <1>3, PendingForms
-----------------------------------------------------------------------------
(* Ranks *)

\* RankInv for one request.
AboveParent(h) ==
    \A p \in managers : ComparedWith(h, p) => ctx[h].new.level > row[p].level

AboveKnownSons(h) ==
    \A s \in managers :
        (/\ row[s].belong = ctx[h].m
         /\ row[s].level # Null
         /\ Known(h, by[s].belong)
         /\ Known(h, by[s].level)) => row[s].level > ctx[h].new.level

NotOwnParent(h) == Known(h, by[ctx[h].m].belong) => row[ctx[h].m].belong # ctx[h].m

RankOf(h) ==
    pc[h] \in Pending /\ Compares(h) /\ ctx[h].m \in managers =>
        /\ ctx[h].new.level # Null
        /\ AboveParent(h)
        /\ ctx[h].kind = "edit" => AboveKnownSons(h) /\ NotOwnParent(h)

LEMMA RankInvIs == RankInv <=> \A h \in Requests : RankOf(h)
  BY DEF RankInv, RankOf, AboveParent, AboveKnownSons, NotOwnParent

\* A comparison holds of the row it was made on.
LEMMA AskedRank ==
    ASSUME TypeOK, TypeOK', NEW k \in Requests, NEW c, Reads(k, c)
    PROVE  RankOf(k)'
<1> SUFFICES ASSUME Compares(k)', ctx'[k].m \in managers'
             PROVE  /\ ctx'[k].new.level # Null
                    /\ AboveParent(k)'
                    /\ ctx'[k].kind = "edit" => AboveKnownSons(k)' /\ NotOwnParent(k)'
  BY DEF RankOf
<1>1. /\ ctx'[k] = c /\ Asks(k, c)
      /\ row' = row /\ managers' = managers
  BY DEF Reads, TypeOK
<1>2. c.new.type = "agent" /\ c.m \in managers
  BY <1>1 DEF Compares
<1>3. c.kind \in {"edit", "move", "review"} /\ (c.new.state # "UNPASS" \/ c.kind = "move")
  BY <1>1 DEF Compares
<1>4. Null \notin managers /\ Null \notin Named
  BY RegistrationAssumption DEF TypeOK, Named
<1>5. LET p == IF c.new.belong # Null THEN c.new.belong ELSE row[c.m].belong
      IN  Below(c.new.level, p)
  BY <1>1, <1>2, <1>3, <1>4 DEF Asks, JoinAsks, EditAsks, MoveAsks, RewriteAsks, ReviewAsks
<1>6. c.kind = "edit" => AboveSons(c.new.level, c.m)
  BY <1>1, <1>2, <1>3 DEF Asks, JoinAsks, EditAsks, MoveAsks, RewriteAsks, ReviewAsks
<1>7. c.kind = "edit" => c.new.belong = Null
  BY <1>1, <1>2, <1>3 DEF Asks, JoinAsks, EditAsks, MoveAsks, RewriteAsks, ReviewAsks
<1>8. c.new.level # Null /\ AboveParent(k)'
  BY <1>1, <1>4, <1>5 DEF Below, AboveParent, ComparedWith
<1>9. c.kind = "edit" => AboveKnownSons(k)'
  BY <1>1, <1>6 DEF AboveSons, AboveKnownSons
<1>10. c.kind = "edit" => NotOwnParent(k)'
  <2> SUFFICES ASSUME c.kind = "edit", row[c.m].belong = c.m PROVE FALSE
    BY <1>1 DEF NotOwnParent
  <2>1. row[c.m].level # Null /\ c.new.level > row[c.m].level
    BY <1>5, <1>7 DEF Below
  <2>2. row[c.m].level > c.new.level
    BY <1>2, <1>6, <2>1 DEF AboveSons
  <2>3. row[c.m].level \in Int /\ c.new.level \in Int
    <3>1. row[c.m] \in Row /\ c.new \in Row /\ c.new.level # Null
      BY <1>1, <1>2, <1>8 DEF TypeOK, Asks, Context
    <3> QED
      BY <2>1, <3>1 DEF Row
  <2> QED
    BY <2>1, <2>2, <2>3
<1> QED
  BY <1>1, <1>8, <1>9, <1>10

\* Nor does it matter to it what a request writes that it has not seen.
LEMMA UnseenRank ==
    ASSUME TypeOK, TypeOK', IdInv, WriterInv, NEW w \in Requests, Writes(w),
           NEW k \in Requests, pc[k] \in Pending, ctx'[k] = ctx[k], saw'[k] = saw[k],
           RankOf(k), pc'[k] \in Pending
    PROVE  RankOf(k)'
<1> SUFFICES ASSUME Compares(k)', ctx'[k].m \in managers'
             PROVE  /\ ctx'[k].new.level # Null
                    /\ AboveParent(k)'
                    /\ ctx'[k].kind = "edit" => AboveKnownSons(k)' /\ NotOwnParent(k)'
  BY DEF RankOf
<1>1. pc[w] \in Pending /\ w # Null
  BY RegistrationAssumption DEF Writes, Pending, Managers
<1>2. w \notin saw[k]
  BY <1>1, Unseen
<1>3. \A x \in Managers :
         /\ Known(k, by[x].level)' => row'[x].level = row[x].level /\ by'[x].level = by[x].level
         /\ Known(k, by[x].belong)' => row'[x].belong = row[x].belong
                                       /\ by'[x].belong = by[x].belong
  BY <1>1, <1>2, WriteTouches DEF Touched, Known
<1>4. managers' \subseteq Managers /\ managers \subseteq Managers
  BY DEF TypeOK
<1>5. \A x \in managers' : row'[x].level # Null /\ Known(k, by[x].level)' => x \in managers
  <2> SUFFICES ASSUME NEW x \in managers', row'[x].level # Null, Known(k, by[x].level)',
                      x \notin managers
               PROVE  FALSE
    OBVIOUS
  <2>1. Inserts(w) /\ x = w
    BY DEF Writes, Inserts, Updates
  <2>2. row[x].level = Null
    BY <2>1 DEF Inserts, Blank, Columns
  <2> QED
    BY <1>3, <1>4, <2>2
<1>6. ctx[k].m \in managers
  <2>1. IsId(ctx[k].m) /\ Null \notin Kind
    BY IdInvIs, RegistrationAssumption DEF AskId, Compares, Kind
  <2>2. ctx[k].m # w \/ ~Inserts(w)
    BY <1>1, <2>1, RegistrationAssumption DEF IsId, Pending, Inserts, Writes
  <2> QED
    BY <2>2 DEF Writes, Inserts, Updates
<1>7. /\ Compares(k)
      /\ ctx[k].new.level # Null
      /\ AboveParent(k)
      /\ ctx[k].kind = "edit" => AboveKnownSons(k) /\ NotOwnParent(k)
  BY <1>6 DEF RankOf, Compares
<1>8. AboveParent(k)'
  <2> SUFFICES ASSUME NEW p \in managers', ComparedWith(k, p)'
               PROVE  ctx'[k].new.level > row'[p].level
    BY DEF AboveParent
  <2>1. p \in managers /\ row'[p].level = row[p].level /\ by'[p].level = by[p].level
    BY <1>3, <1>4, <1>5 DEF ComparedWith
  <2>2. ComparedWith(k, p)
    BY <1>3, <1>4, <1>6, <2>1 DEF ComparedWith, Known
  <2> QED
    BY <1>7, <2>1, <2>2 DEF AboveParent
<1>9. ctx[k].kind = "edit" => AboveKnownSons(k)'
  <2> SUFFICES ASSUME ctx[k].kind = "edit", NEW s \in managers',
                      row'[s].belong = ctx'[k].m, row'[s].level # Null,
                      Known(k, by[s].belong)', Known(k, by[s].level)'
               PROVE  row'[s].level > ctx'[k].new.level
    BY DEF AboveKnownSons
  <2>1. s \in managers
    BY <1>5
  <2>2. /\ row'[s].level = row[s].level /\ by'[s].level = by[s].level
        /\ row'[s].belong = row[s].belong /\ by'[s].belong = by[s].belong
    BY <1>3, <1>4
  <2> QED
    BY <1>7, <2>1, <2>2 DEF AboveKnownSons, Known
<1>10. ctx[k].kind = "edit" => NotOwnParent(k)'
  BY <1>3, <1>4, <1>6, <1>7 DEF NotOwnParent, Known
<1> QED
  BY <1>7, <1>8, <1>9, <1>10

LEMMA RankStep ==
    TypeOK /\ FormInv /\ IdInv /\ WriterInv /\ RankInv /\ TypeOK' /\ [Next]_vars => RankInv'
<1> SUFFICES ASSUME TypeOK, FormInv, IdInv, WriterInv, \A h \in Requests : RankOf(h), TypeOK',
                    [Next]_vars, NEW k \in Requests, pc'[k] \in Pending
             PROVE  RankOf(k)'
  BY RankInvIs DEF RankInv, RankOf, AboveParent, AboveKnownSons, NotOwnParent
<1>1. ASSUME NEW c, Reads(k, c) PROVE RankOf(k)'
  BY <1>1, AskedRank
<1>2. ASSUME NEW g \in Requests, BeginUpload(k, g) PROVE RankOf(k)'
  <2>1. ctx'[k] = [ctx[g] EXCEPT !.kind = "upload"] /\ ctx[g] \in Context
    BY <1>2 DEF BeginUpload, TypeOK
  <2>2. ctx'[k].kind = "upload"
    BY <2>1 DEF Context
  <2> QED
    BY <2>2 DEF RankOf, Compares
<1>3. CASE pc[k] \in Pending /\ ctx'[k] = ctx[k] /\ saw'[k] = saw[k]
  <2>1. CASE Quiet
    BY <1>3, <2>1 DEF Quiet, RankOf, Compares, AboveParent, ComparedWith, Known,
       AboveKnownSons, NotOwnParent
  <2>2. ASSUME NEW w \in Requests, Writes(w) PROVE RankOf(k)'
    BY <1>3, <2>2, UnseenRank
  <2>3. ASSUME NEW x \in managers, Removes(x) PROVE RankOf(k)'
    <3>1. \A m \in managers' : m \in managers /\ row'[m] = row[m] /\ by'[m] = by[m]
      BY <2>3 DEF Removes, TypeOK
    <3> QED
      BY <1>3, <3>1 DEF RankOf, Compares, AboveParent, ComparedWith, Known,
         AboveKnownSons, NotOwnParent
  <2> QED
    BY <2>1, <2>2, <2>3, RowForms
<1> QED
  BY <1>1, <1>2, <1>3, PendingForms
-----------------------------------------------------------------------------
(* Saved rows *)

\* Another request wrote the row h works on after h had read it.
Missed(h) ==
    \E k \in Requests :
        /\ pc[k] = "ok"
        /\ ctx[k].m = ctx[h].m
        /\ ctx[k].kind \notin {"rewrite", "upload"} \/ k \in undid
        /\ k \notin saw[h]

\* What h carries is the row it works on.
AsRead(h, old) ==
    \/ ctx[h].new = old
    \/ ctx[h].kind = "move" /\ ctx[h].new = [old EXCEPT !.belong = ctx[h].new.belong]

SavedOf(h) ==
    Saves(h) /\ ctx[h].m \in managers => AsRead(h, row[ctx[h].m]) \/ Missed(h)

LEMMA SavedInvIs == SavedInv <=> \A h \in Requests : SavedOf(h)
  BY DEF SavedInv, SavedOf, Missed, AsRead

LEMMA SelectiveSame == \A old \in Row : Selective(old, old) = old
  BY DEF Selective, Given, Columns, Row

LEMMA SelectiveMoved ==
    ASSUME NEW old \in Row, NEW p \in Managers, p # Null
    PROVE  Selective(old, [old EXCEPT !.belong = p]) = [old EXCEPT !.belong = p]
  BY DEF Selective, Given, Columns, Row

LEMMA UndidStays ==
    ASSUME TypeOK, FormInv, IdInv, [Next]_vars
    PROVE  undid \subseteq undid'
<1>1. CASE Quiet
  BY <1>1 DEF Quiet
<1>2. ASSUME NEW w \in Requests, Writes(w) PROVE undid \subseteq undid'
  BY <1>2 DEF Writes, Inserts, Updates
<1>3. ASSUME NEW x \in managers, Removes(x) PROVE undid \subseteq undid'
  BY <1>3 DEF Removes
<1> QED
  BY <1>1, <1>2, <1>3, RowForms

\* What was missed stays missed.
LEMMA MissedStays ==
    ASSUME TypeOK, FormInv, IdInv, [Next]_vars,
           NEW h \in Requests, Missed(h), ctx'[h].m = ctx[h].m, saw'[h] = saw[h]
    PROVE  Missed(h)'
  BY EndedStay, UndidStays DEF Missed, Ended

\* Who saves a row without having missed anything changes nothing but what it is for.
LEMMA SaveChanges ==
    ASSUME TypeOK, FormInv, NEW w \in Requests, Writes(w), Updates(w), Saves(w),
           AsRead(w, row[ctx[w].m])
    PROVE  /\ row'[ctx[w].m] = ctx[w].new
           /\ ~Undoes(w, row[ctx[w].m], row'[ctx[w].m])
<1> DEFINE old == row[ctx[w].m]
<1>1. old \in Row /\ ctx[w].new \in Row
  BY DEF Writes, TypeOK, Context
<1>2. row'[ctx[w].m] = Selective(old, ctx[w].new)
  BY DEF Updates
<1>3. "rewrite" # "move" /\ "upload" # "move"
  OBVIOUS
<1>4. CASE ctx[w].new = old
  <2>1. row'[ctx[w].m] = old
    BY <1>1, <1>2, <1>4, SelectiveSame
  <2>2. old = [old EXCEPT !.belong = old.belong]
    BY <1>1 DEF Row
  <2> QED
    BY <1>4, <2>1, <2>2 DEF Undoes
<1>5. CASE ctx[w].kind = "move" /\ ctx[w].new = [old EXCEPT !.belong = ctx[w].new.belong]
  <2>1. ctx[w].new.belong \in Managers /\ ctx[w].new.belong # Null
    BY <1>1, <1>5, FormInvIs DEF FormOf, Row
  <2>2. row'[ctx[w].m] = ctx[w].new
    BY <1>1, <1>2, <1>5, <2>1, SelectiveMoved
  <2> QED
    BY <1>3, <1>5, <2>2 DEF Undoes
<1> QED
  BY <1>4, <1>5 DEF AsRead

LEMMA SavedStep ==
    TypeOK /\ FormInv /\ IdInv /\ WriterInv /\ SavedInv /\ TypeOK' /\ [Next]_vars => SavedInv'
<1> SUFFICES ASSUME TypeOK, FormInv, IdInv, WriterInv, \A h \in Requests : SavedOf(h), TypeOK',
                    [Next]_vars, NEW k \in Requests, Saves(k)', ctx'[k].m \in managers'
             PROVE  AsRead(k, row[ctx[k].m])' \/ Missed(k)'
  BY SavedInvIs DEF SavedInv, SavedOf, AsRead, Missed
<1>a. ASSUME ctx'[k] = ctx[k], saw'[k] = saw[k]
      PROVE  AsRead(k, row[ctx[k].m])' \/ Missed(k)'
  <2> DEFINE m == ctx[k].m
  <2>0. m \in managers => AsRead(k, row[m]) \/ Missed(k)
    BY <1>a DEF Saves, SavedOf
  <2>m. Missed(k) => Missed(k)'
    BY <1>a, MissedStays
  <2>1. CASE Quiet
    <3>1. m \in managers /\ row' = row
      BY <1>a, <2>1 DEF Quiet
    <3> QED
      BY <1>a, <2>0, <2>m, <3>1 DEF AsRead
  <2>2. ASSUME NEW w \in Requests, Writes(w)
        PROVE  AsRead(k, row[ctx[k].m])' \/ Missed(k)'
    <3>0. m \in managers
      <4>1. IsId(m) \/ ctx[k].kind = "join"
        BY <1>a, IdInvIs, RegistrationAssumption DEF AskId, Saves, Kind
      <4>2. m # w \/ ~Inserts(w)
        BY <1>a, <2>2, <4>1, RegistrationAssumption DEF IsId, Inserts, Writes, Saves
      <4> QED
        BY <1>a, <2>2, <4>2 DEF Writes, Inserts, Updates
    <3>1. CASE ctx[w].m # m
      <4>1. row'[m] = row[m]
        BY <2>2, <3>0, <3>1 DEF Writes, TypeOK
      <4> QED
        BY <1>a, <2>0, <2>m, <3>0, <4>1 DEF AsRead
    <3>2. CASE ctx[w].m = m /\ Inserts(w)
      BY <3>0, <3>2 DEF Inserts
    <3>3. CASE ctx[w].m = m /\ Updates(w) /\ w = k
      <4>1. CASE AsRead(k, row[m])
        <5>1. row'[m] = ctx[k].new
          BY <1>a, <2>2, <3>3, <4>1, SaveChanges DEF Saves
        <5> QED
          BY <1>a, <5>1 DEF AsRead
      <4>2. CASE Missed(k)
        BY <2>m, <4>2
      <4> QED
        BY <2>0, <3>0, <4>1, <4>2
    <3>4. CASE ctx[w].m = m /\ Updates(w) /\ w # k
      <4>1. w \notin saw'[k] /\ pc'[w] = "ok" /\ ctx'[w] = ctx[w]
        BY <1>a, <2>2, Unseen DEF Writes, Pending, TypeOK
      <4>2. CASE ctx[w].kind \notin {"rewrite", "upload"} \/ w \in undid'
        BY <1>a, <3>4, <4>1, <4>2 DEF Missed
      <4>3. CASE ctx[w].kind \in {"rewrite", "upload"} /\ w \notin undid'
        <5>1. row'[m] = row[m]
          BY <3>4, <4>3 DEF Updates, Undoes
        <5> QED
          BY <1>a, <2>0, <2>m, <3>0, <5>1 DEF AsRead
      <4> QED
        BY <4>2, <4>3
    <3> QED
      BY <2>2, <3>1, <3>2, <3>3, <3>4 DEF Writes
  <2>3. ASSUME NEW x \in managers, Removes(x)
        PROVE  AsRead(k, row[ctx[k].m])' \/ Missed(k)'
    <3>1. m \in managers /\ row'[m] = row[m]
      BY <1>a, <2>3 DEF Removes, TypeOK
    <3> QED
      BY <1>a, <2>0, <2>m, <3>1 DEF AsRead
  <2> QED
    BY <2>1, <2>2, <2>3, RowForms
<1>1. ASSUME NEW h \in Requests, TurnAway(h)
      PROVE  AsRead(k, row[ctx[k].m])' \/ Missed(k)'
  BY <1>1, <1>a DEF TurnAway
<1>2. ASSUME NEW h \in Requests, NEW c, Reads(h, c)
      PROVE  AsRead(k, row[ctx[k].m])' \/ Missed(k)'
  <2>1. CASE k = h
    <3>1. ctx'[k] = c /\ Asks(k, c) /\ row' = row
      BY <1>2, <2>1 DEF Reads, TypeOK
    <3>2. /\ c.kind \in {"rewrite", "move"}
          /\ \/ c.new = row[c.m]
             \/ c.kind = "move" /\ c.new = [row[c.m] EXCEPT !.belong = c.new.belong]
      BY <3>1 DEF Saves, Asks, JoinAsks, EditAsks, MoveAsks, RewriteAsks, ReviewAsks
    <3> QED
      BY <3>1, <3>2 DEF AsRead
  <2>2. CASE k # h
    BY <1>2, <1>a, <2>2 DEF Reads, TypeOK
  <2> QED
    BY <2>1, <2>2
<1>3. ASSUME NEW h \in Requests, NEW g \in Requests, pc[h] = "idle", BeginUpload(h, g)
      PROVE  AsRead(k, row[ctx[k].m])' \/ Missed(k)'
  <2>1. CASE k = h
    <3>1. /\ ctx'[k] = [ctx[g] EXCEPT !.kind = "upload"] /\ ctx[g] \in Context
          /\ saw'[k] = saw[g] /\ ctx[g].kind = "rewrite" /\ row' = row
          /\ managers' = managers /\ undid' = undid
      BY <1>3, <2>1 DEF BeginUpload, TypeOK
    <3>2. ctx'[k].m = ctx[g].m /\ ctx'[k].new = ctx[g].new
      BY <3>1 DEF Context
    <3>3. SavedOf(g)
      OBVIOUS
    <3>4. AsRead(g, row[ctx[g].m]) \/ Missed(g)
      BY <3>1, <3>2, <3>3 DEF SavedOf, Saves
    <3>5. CASE AsRead(g, row[ctx[g].m])
      BY <3>1, <3>2, <3>5 DEF AsRead
    <3>6. CASE Missed(g)
      <4>1. \A j \in Requests : pc[j] = "ok" => pc'[j] = "ok" /\ ctx'[j] = ctx[j]
        BY EndedStay DEF Ended
      <4> QED
        BY <3>1, <3>2, <3>6, <4>1 DEF Missed
    <3> QED
      BY <3>4, <3>5, <3>6
  <2>2. CASE k # h
    BY <1>3, <1>a, <2>2 DEF BeginUpload, TypeOK
  <2> QED
    BY <2>1, <2>2
<1>4. ASSUME NEW h \in Requests, NEW step \in AdvanceStep, Advances(h, step)
      PROVE  AsRead(k, row[ctx[k].m])' \/ Missed(k)'
  BY <1>4, <1>a DEF Advances
<1>5. ASSUME NEW h \in Requests, Insert(h) \/ Write(h)
      PROVE  AsRead(k, row[ctx[k].m])' \/ Missed(k)'
  BY <1>5, <1>a DEF Insert, Write
<1>6. ASSUME NEW m \in managers, Remove(m)
      PROVE  AsRead(k, row[ctx[k].m])' \/ Missed(k)'
  BY <1>6, <1>a DEF Remove
<1>7. CASE UNCHANGED vars
  BY <1>7, <1>a DEF vars
<1> QED
  BY <1>1, <1>2, <1>3, <1>4, <1>5, <1>6, <1>7, StepForms
-----------------------------------------------------------------------------
(* Logins *)

\* An account h has been opened for m and recorded: n is its number.
LoginOf(m, n) == \E k \in Recorded : ctx[k].m = m /\ Number(k) = n

PassedAtFirst(m) == m \in Starters /\ Start[m].state = "PASS"

\* HasLogin of the columns it looks at.
LoginFits(m, login, state) ==
    /\ login # Null => LoginOf(m, login)
    /\ state = "PASS" /\ login = Null => PassedAtFirst(m)

LEMMA HasLoginIs == \A m, old : HasLogin(m, old) <=> LoginFits(m, old.login, old.state)
  BY DEF HasLogin, LoginFits, LoginOf, PassedAtFirst

RecordedLogin(k) ==
    k \in created /\ pc[k] = "ok" /\ ctx[k].m \in managers => row[ctx[k].m].login # Null

LEMMA LoginInvIs ==
    TypeOK => (LoginInv <=> /\ \A m \in managers : HasLogin(m, row[m])
                            /\ \A h \in Requests : Saves(h) => HasLogin(ctx[h].m, ctx[h].new)
                            /\ \A k \in Requests : RecordedLogin(k))
  BY DEF TypeOK, LoginInv, RecordedLogin, Recorded

\* The same in the next state, of values as they are now.
FitsLater(m, login, state) ==
    /\ login # Null => \E k \in Requests : /\ k \in created' /\ pc'[k] = "ok"
                                           /\ ctx'[k].m = m /\ ctx'[k].new.login = login
    /\ state = "PASS" /\ login = Null => PassedAtFirst(m)

LEMMA FitsLaterIs ==
    ASSUME TypeOK', NEW m, NEW old, FitsLater(m, old.login, old.state)
    PROVE  HasLogin(m, old)'
  BY DEF TypeOK, HasLogin, FitsLater, Recorded, Number, PassedAtFirst

LEMMA CreatedStays ==
    ASSUME TypeOK, [Next]_vars
    PROVE  created \subseteq created'
<1> DEFINE Goal == created \subseteq created'
<1> SUFFICES Goal
  OBVIOUS
<1>1. ASSUME NEW h \in Requests, TurnAway(h) PROVE Goal
  BY <1>1 DEF TurnAway
<1>2. ASSUME NEW h \in Requests, NEW c, Reads(h, c) PROVE Goal
  BY <1>2 DEF Reads
<1>3. ASSUME NEW h \in Requests, NEW g \in Requests, BeginUpload(h, g) PROVE Goal
  BY <1>3 DEF BeginUpload
<1>4. ASSUME NEW h \in Requests, NEW step \in AdvanceStep, Counts(h, step) PROVE Goal
  BY <1>4 DEF Counts, Opens
<1>5. ASSUME NEW h \in Requests, Insert(h) \/ Write(h) PROVE Goal
  BY <1>5 DEF Insert, Write
<1>6. ASSUME NEW m \in managers, Remove(m) PROVE Goal
  BY <1>6 DEF Remove
<1>7. CASE UNCHANGED vars
  BY <1>7 DEF vars
<1> HIDE DEF Goal
<1> QED
  BY <1>1, <1>2, <1>3, <1>4, <1>5, <1>6, <1>7, StepForms

LEMMA LoginStays ==
    ASSUME TypeOK, [Next]_vars, NEW m, NEW login, NEW state, LoginFits(m, login, state)
    PROVE  FitsLater(m, login, state)
  BY EndedStay, CreatedStays
     DEF LoginFits, LoginOf, FitsLater, Recorded, Number, Ended, TypeOK

\* A request whose account is recorded in this step has written its row.
LEMMA NewlyRecorded ==
    ASSUME TypeOK, [Next]_vars, NEW k \in Requests, k \in created', pc'[k] = "ok",
           ~(k \in created /\ pc[k] = "ok")
    PROVE  pc[k] = "write" /\ (Insert(k) \/ Write(k))
<1> DEFINE Goal == pc[k] = "write" /\ (Insert(k) \/ Write(k))
<1> SUFFICES Goal
  OBVIOUS
<1>1. ASSUME NEW h \in Requests, TurnAway(h) PROVE Goal
  BY <1>1 DEF TypeOK, TurnAway
<1>2. ASSUME NEW h \in Requests, NEW c, Reads(h, c) PROVE Goal
  BY <1>2 DEF TypeOK, Reads, FirstStep
<1>3. ASSUME NEW h \in Requests, NEW g \in Requests, BeginUpload(h, g) PROVE Goal
  BY <1>3 DEF TypeOK, BeginUpload
<1>4. ASSUME NEW h \in Requests, NEW step \in AdvanceStep, Advances(h, step), Counts(h, step)
      PROVE  Goal
  BY <1>4 DEF TypeOK, Advances, Counts, Opens, AdvanceStep, Pending
<1>5. ASSUME NEW h \in Requests, Insert(h) \/ Write(h) PROVE Goal
  BY <1>5 DEF TypeOK, Insert, Write, Finish
<1>6. ASSUME NEW m \in managers, Remove(m) PROVE Goal
  BY <1>6 DEF Remove
<1>7. CASE UNCHANGED vars
  BY <1>7 DEF vars
<1> HIDE DEF Goal
<1> QED
  BY <1>1, <1>2, <1>3, <1>4, <1>5, <1>6, <1>7, StepForms

LEMMA GivenFits ==
    ASSUME NEW m, NEW l1, NEW s1, NEW l2, NEW s2, LoginFits(m, l1, s1), LoginFits(m, l2, s2)
    PROVE  LoginFits(m, Given(l2, l1), Given(s2, s1))
  BY DEF LoginFits, Given

\* The row a request writes has a login that was opened for it.
LEMMA WrittenFits ==
    ASSUME TypeOK, FormInv, OpenedInv, LoginInv, [Next]_vars,
           NEW w \in Requests, Writes(w)
    PROVE  FitsLater(ctx[w].m, row'[ctx[w].m].login, row'[ctx[w].m].state)
<1> DEFINE m == ctx[w].m
           new == ctx[w].new
<1>0. FormOf(w) /\ OpenedOf(w) /\ "UNPASS" # "PASS" /\ "UNAUDITED" # "PASS"
  BY FormInvIs, OpenedInvIs
<1>1. CASE Inserts(w)
  BY <1>0, <1>1 DEF Inserts, FormOf, FitsLater
<1>2. CASE Updates(w) /\ ctx[w].book # Null
  <2>1. new.login # Null /\ new.state = "PASS" /\ w \in created
    BY <1>0, <1>2 DEF FormOf, OpenedOf, Writes
  <2>2. row'[m].login = new.login
    BY <1>2, <2>1 DEF Updates, Selective, Given, Columns
  <2>3. w \in created' /\ pc'[w] = "ok" /\ ctx'[w] = ctx[w]
    BY <2>1 DEF Writes, TypeOK
  <2> QED
    BY <2>1, <2>2, <2>3 DEF FitsLater
<1>3. CASE Updates(w) /\ ctx[w].book = Null
  <2>1. LoginFits(m, row[m].login, row[m].state)
    BY <1>3, LoginInvIs, HasLoginIs DEF Updates
  <2>2. LoginFits(m, new.login, new.state)
    <3>1. CASE Saves(w)
      BY <3>1, LoginInvIs, HasLoginIs
    <3>2. CASE ctx[w].kind = "edit"
      <4>1. new.login = Null /\ new.state = Null
        BY <1>0, <3>2 DEF FormOf
      <4> QED
        BY <4>1, RegistrationAssumption DEF LoginFits, States
    <3>3. CASE ctx[w].kind = "review"
      BY <1>0, <1>3, <3>3 DEF FormOf, LoginFits
    <3>4. ctx[w].kind \in {"edit", "review"} \/ Saves(w)
      <4>1. ctx[w].kind \in Kind \cup {Null} /\ ctx[w].kind # Null /\ ctx[w].kind # "join"
        BY <1>0, <1>3 DEF TypeOK, Context, FormOf, Writes, Updates, Pending
      <4> QED
        BY <4>1 DEF Kind, Saves
    <3> QED
      BY <3>1, <3>2, <3>3, <3>4
  <2>3. LoginFits(m, Given(new.login, row[m].login), Given(new.state, row[m].state))
    BY <2>1, <2>2, GivenFits
  <2>4. /\ row'[m].login = Given(new.login, row[m].login)
        /\ row'[m].state = Given(new.state, row[m].state)
    BY <1>3 DEF Updates, Selective, Columns
  <2> QED
    BY <2>3, <2>4, LoginStays
<1> QED
  BY <1>1, <1>2, <1>3 DEF Writes

LEMMA RowLoginStep ==
    ASSUME TypeOK, FormInv, IdInv, OpenedInv, LoginInv, TypeOK', [Next]_vars,
           NEW m \in managers'
    PROVE  HasLogin(m, row[m])'
<1> SUFFICES FitsLater(m, row'[m].login, row'[m].state)
  BY DEF TypeOK, HasLogin, FitsLater, Recorded, Number, PassedAtFirst
<1>0. m \in managers => FitsLater(m, row[m].login, row[m].state)
  BY LoginInvIs, HasLoginIs, LoginStays
<1>1. CASE Quiet
  BY <1>0, <1>1 DEF Quiet
<1>2. ASSUME NEW w \in Requests, Writes(w)
      PROVE  FitsLater(m, row'[m].login, row'[m].state)
  <2>1. CASE m = ctx[w].m
    BY <1>2, <2>1, WrittenFits
  <2>2. CASE m # ctx[w].m
    <3>1. m \in managers /\ row'[m] = row[m]
      BY <1>2, <2>2 DEF Writes, Inserts, Updates, TypeOK, Managers
    <3> QED
      BY <1>0, <3>1
  <2> QED
    BY <2>1, <2>2
<1>3. ASSUME NEW x \in managers, Removes(x)
      PROVE  FitsLater(m, row'[m].login, row'[m].state)
  BY <1>0, <1>3 DEF Removes, TypeOK
<1> QED
  BY <1>1, <1>2, <1>3, RowForms

LEMMA SavedLoginStep ==
    ASSUME TypeOK, FormInv, IdInv, OpenedInv, LoginInv, TypeOK', [Next]_vars,
           NEW k \in Requests, Saves(k)'
    PROVE  HasLogin(ctx[k].m, ctx[k].new)'
<1> DEFINE Goal == FitsLater(ctx'[k].m, ctx'[k].new.login, ctx'[k].new.state)
<1> SUFFICES Goal
  BY DEF TypeOK, HasLogin, FitsLater, Recorded, Number, PassedAtFirst
<1>a. ASSUME ctx'[k] = ctx[k] PROVE Goal
  BY <1>a, LoginInvIs, HasLoginIs, LoginStays DEF Saves
<1>1. ASSUME NEW h \in Requests, TurnAway(h) PROVE Goal
  BY <1>1, <1>a DEF TurnAway
<1>2. ASSUME NEW h \in Requests, NEW c, Reads(h, c) PROVE Goal
  <2>1. CASE k = h
    <3>1. ctx'[k] = c /\ Asks(k, c)
      BY <1>2, <2>1 DEF Reads, TypeOK
    <3>2. RewriteAsks(c) \/ MoveAsks(c)
      BY <3>1 DEF Saves, Asks, JoinAsks, EditAsks, ReviewAsks
    <3>3. c.m \in managers /\ row[c.m] \in Row
      BY <3>2 DEF RewriteAsks, MoveAsks, TypeOK
    <3>4. c.new.login = row[c.m].login /\ c.new.state = row[c.m].state
      <4>1. CASE RewriteAsks(c)
        BY <4>1 DEF RewriteAsks
      <4>2. CASE MoveAsks(c)
        BY <3>3, <4>2 DEF MoveAsks, Row
      <4> QED
        BY <3>2, <4>1, <4>2
    <3>5. FitsLater(c.m, row[c.m].login, row[c.m].state)
      BY <3>3, LoginInvIs, HasLoginIs, LoginStays
    <3> QED
      BY <3>1, <3>4, <3>5
  <2>2. CASE k # h
    BY <1>2, <1>a, <2>2 DEF Reads, TypeOK
  <2> QED
    BY <2>1, <2>2
<1>3. ASSUME NEW h \in Requests, NEW g \in Requests, pc[h] = "idle", BeginUpload(h, g)
      PROVE  Goal
  <2>1. CASE k = h
    <3>1. /\ ctx'[k] = [ctx[g] EXCEPT !.kind = "upload"] /\ ctx[g] \in Context
          /\ ctx[g].kind = "rewrite"
      BY <1>3, <2>1 DEF BeginUpload, TypeOK
    <3>2. ctx'[k].m = ctx[g].m /\ ctx'[k].new = ctx[g].new
      BY <3>1 DEF Context
    <3>3. FitsLater(ctx[g].m, ctx[g].new.login, ctx[g].new.state)
      BY <3>1, LoginInvIs, HasLoginIs, LoginStays DEF Saves
    <3> QED
      BY <3>2, <3>3
  <2>2. CASE k # h
    BY <1>3, <1>a, <2>2 DEF BeginUpload, TypeOK
  <2> QED
    BY <2>1, <2>2
<1>4. ASSUME NEW h \in Requests, NEW step \in AdvanceStep, Advances(h, step) PROVE Goal
  BY <1>4, <1>a DEF Advances
<1>5. ASSUME NEW h \in Requests, Insert(h) \/ Write(h) PROVE Goal
  BY <1>5, <1>a DEF Insert, Write
<1>6. ASSUME NEW m \in managers, Remove(m) PROVE Goal
  BY <1>6, <1>a DEF Remove
<1>7. CASE UNCHANGED vars
  BY <1>7, <1>a DEF vars
<1> HIDE DEF Goal
<1> QED
  BY <1>1, <1>2, <1>3, <1>4, <1>5, <1>6, <1>7, StepForms

LEMMA RecordedLoginStep ==
    ASSUME TypeOK, FormInv, IdInv, OpenedInv, LoginInv, TypeOK', [Next]_vars,
           NEW k \in Requests, k \in created', pc'[k] = "ok", ctx'[k].m \in managers'
    PROVE  row'[ctx'[k].m].login # Null
<1>0. FormOf(k) /\ OpenedOf(k)
  BY FormInvIs, OpenedInvIs
<1>1. CASE k \in created /\ pc[k] = "ok"
  <2> DEFINE m == ctx[k].m
  <2>1. ctx'[k] = ctx[k]
    BY <1>1, EndedStay DEF Ended
  <2>2. ctx[k].kind = "review" /\ IsId(m)
    BY <1>0, <1>1, IdInvIs, RegistrationAssumption DEF FormOf, OpenedOf, AskId, Kind
  <2>3. m \in managers => row[m].login # Null
    BY <1>1, LoginInvIs DEF RecordedLogin
  <2>4. CASE Quiet
    BY <2>1, <2>3, <2>4 DEF Quiet
  <2>5. ASSUME NEW w \in Requests, Writes(w) PROVE row'[m].login # Null
    <3>1. m \in managers
      BY <2>1, <2>2, <2>5, RegistrationAssumption DEF Writes, Inserts, Updates, IsId
    <3>2. CASE m # ctx[w].m
      BY <2>3, <2>5, <3>1, <3>2 DEF Writes, TypeOK
    <3>3. CASE m = ctx[w].m
      BY <2>3, <2>5, <3>1, <3>3 DEF Writes, Inserts, Updates, Selective, Given, Columns
    <3> QED
      BY <3>2, <3>3
  <2>6. ASSUME NEW x \in managers, Removes(x) PROVE row'[m].login # Null
    BY <2>1, <2>3, <2>6 DEF Removes, TypeOK
  <2> QED
    BY <2>1, <2>4, <2>5, <2>6, RowForms
<1>2. CASE ~(k \in created /\ pc[k] = "ok")
  <2>1. pc[k] = "write" /\ (Insert(k) \/ Write(k))
    BY <1>2, NewlyRecorded
  <2>2. k \in created /\ ctx'[k] = ctx[k]
    BY <2>1 DEF Insert, Write
  <2>3. ctx[k].kind = "review" /\ ctx[k].new.login # Null
    BY <1>0, <2>2 DEF FormOf, OpenedOf
  <2>4. Write(k)
    BY <2>1, <2>3 DEF Insert
  <2>5. Quiet \/ Writes(k)
    BY <2>4, WriteWrites
  <2>6. CASE Writes(k)
    BY <2>2, <2>3, <2>6 DEF Writes, Inserts, Updates, Selective, Given, Columns
  <2>7. CASE Quiet /\ ~Writes(k)
    <3> DEFINE m == ctx[k].m
               new == Selective(row[m], ctx[k].new)
    <3>1. m \in managers /\ m \in Managers
      BY <2>2, <2>7 DEF Quiet, TypeOK
    <3>2. new.login # Null
      BY <2>3 DEF Selective, Given, Columns
    <3> HIDE DEF new
    <3>3. row' = [row EXCEPT ![m] = new]
      BY <2>4, <3>1 DEF Write, new
    <3> QED
      BY <2>2, <3>1, <3>2, <3>3 DEF TypeOK
  <2> QED
    BY <2>5, <2>6, <2>7
<1> QED
  BY <1>1, <1>2

LEMMA LoginStep ==
    TypeOK /\ FormInv /\ IdInv /\ OpenedInv /\ LoginInv /\ TypeOK' /\ [Next]_vars => LoginInv'
<1> SUFFICES ASSUME TypeOK, FormInv, IdInv, OpenedInv, LoginInv, TypeOK', [Next]_vars
             PROVE  LoginInv'
  OBVIOUS
<1>1. \A m \in managers' : HasLogin(m, row[m])'
  BY RowLoginStep
<1>2. \A k \in Requests : Saves(k)' => HasLogin(ctx[k].m, ctx[k].new)'
  BY SavedLoginStep
<1>3. \A k \in Recorded' : ctx'[k].m \in managers' => row'[ctx'[k].m].login # Null
  BY RecordedLoginStep DEF Recorded, TypeOK
<1> QED
  BY <1>1, <1>2, <1>3 DEF LoginInv
-----------------------------------------------------------------------------
(* Counters *)

\* CounterInv for one account, and for a request and one account.
GivenBelow(k) ==
    k \in created /\ pc[k] \in {"ok", "no"} =>
        \/ Number(k) <= counter[ctx[k].book]
        \/ \E g \in Requests : pc[g] \in Ended /\ SetBack(g, k)

SeenBelow(h, k) ==
    k \in created \cap saw[h] /\ ctx[h].book = ctx[k].book /\ pc[k] # "error" =>
        \/ Number(k) < Number(h)
        \/ \E g \in saw[h] : SetBack(g, k)

LEMMA CounterInvIs ==
    TypeOK => (CounterInv <=> /\ \A k \in Requests : GivenBelow(k)
                              /\ \A h, k \in Requests : SeenBelow(h, k))
  BY DEF TypeOK, CounterInv, GivenBelow, SeenBelow

\* What a request carries and saw is settled when it has read.
LEMMA BegunStay ==
    ASSUME TypeOK, [Next]_vars, NEW k \in Requests, pc[k] # "idle"
    PROVE  ctx'[k] = ctx[k] /\ saw'[k] = saw[k] /\ pc'[k] # "idle"
<1> DEFINE Same == ctx'[k] = ctx[k] /\ saw'[k] = saw[k] /\ pc'[k] # "idle"
<1> SUFFICES Same
  OBVIOUS
<1>1. ASSUME NEW h \in Requests, pc[h] = "idle", TurnAway(h) PROVE Same
  BY <1>1 DEF TypeOK, TurnAway
<1>2. ASSUME NEW h \in Requests, NEW c, Reads(h, c) PROVE Same
  BY <1>2 DEF TypeOK, Reads
<1>3. ASSUME NEW h \in Requests, NEW g \in Requests, pc[h] = "idle", BeginUpload(h, g)
      PROVE  Same
  BY <1>3 DEF TypeOK, BeginUpload
<1>4. ASSUME NEW h \in Requests, NEW step \in AdvanceStep, Advances(h, step) PROVE Same
  BY <1>4 DEF TypeOK, Advances, AdvanceStep
<1>5. ASSUME NEW h \in Requests, Insert(h) \/ Write(h) PROVE Same
  BY <1>5 DEF TypeOK, Insert, Write, Finish
<1>6. ASSUME NEW m \in managers, Remove(m) PROVE Same
  BY <1>6 DEF Remove
<1>7. CASE UNCHANGED vars
  BY <1>7 DEF vars
<1> HIDE DEF Same
<1> QED
  BY <1>1, <1>2, <1>3, <1>4, <1>5, <1>6, <1>7, StepForms

LEMMA SetBackStays ==
    ASSUME TypeOK, [Next]_vars, NEW g \in Requests, NEW k \in Requests,
           pc[g] \in Ended, pc[k] # "idle", SetBack(g, k)
    PROVE  SetBack(g, k)' /\ pc'[g] \in Ended
<1>1. /\ ctx'[k] = ctx[k] /\ saw'[k] = saw[k]
      /\ ctx'[g] = ctx[g] /\ saw'[g] = saw[g] /\ pc'[g] = pc[g]
  BY BegunStay, EndedStay
<1> QED
  BY <1>1 DEF SetBack, Overlap, Number

\* An account that was opened has a number of its book.
LEMMA OpenedNumber ==
    ASSUME TypeOK, FormInv, OpenedInv, NEW k \in created
    PROVE  /\ Number(k) \in Nat /\ ctx[k].book \in Books /\ ctx[k].book # Null
           /\ counter[ctx[k].book] \in Nat
           /\ pc[k] \in {"mail", "write", "ok", "no", "error"}
<1>1. k \in Requests /\ FormOf(k) /\ OpenedOf(k) /\ ctx[k] \in Context
  BY FormInvIs, OpenedInvIs DEF TypeOK
<1>2. ctx[k].new.login # Null /\ ctx[k].new \in Row
  BY <1>1 DEF FormOf, OpenedOf, Context
<1> QED
  BY <1>1, <1>2 DEF OpenedOf, Context, Row, Number, TypeOK

\* An account is opened by a request that is at MT4.
LEMMA NewlyCreated ==
    ASSUME TypeOK, [Next]_vars, NEW k \in created', k \notin created
    PROVE  pc[k] = "mt4"
<1> DEFINE Goal == pc[k] = "mt4"
<1> SUFFICES Goal
  OBVIOUS
<1>1. ASSUME NEW h \in Requests, TurnAway(h) PROVE Goal
  BY <1>1 DEF TurnAway
<1>2. ASSUME NEW h \in Requests, NEW c, Reads(h, c) PROVE Goal
  BY <1>2 DEF Reads
<1>3. ASSUME NEW h \in Requests, NEW g \in Requests, BeginUpload(h, g) PROVE Goal
  BY <1>3 DEF BeginUpload
<1>4. ASSUME NEW h \in Requests, NEW step \in AdvanceStep, Counts(h, step) PROVE Goal
  BY <1>4 DEF Counts, Opens
<1>5. ASSUME NEW h \in Requests, Insert(h) \/ Write(h) PROVE Goal
  BY <1>5 DEF Insert, Write
<1>6. ASSUME NEW m \in managers, Remove(m) PROVE Goal
  BY <1>6 DEF Remove
<1>7. CASE UNCHANGED vars
  BY <1>7 DEF vars
<1> HIDE DEF Goal
<1> QED
  BY <1>1, <1>2, <1>3, <1>4, <1>5, <1>6, <1>7, StepForms

\* Nothing changes for an account while no counter does.
LEMMA GivenStays ==
    ASSUME TypeOK, FormInv, OpenedInv, [Next]_vars, NEW k \in Requests, GivenBelow(k),
           k \in created, pc[k] \in {"ok", "no"},
           counter'[ctx[k].book] = counter[ctx[k].book]
    PROVE  GivenBelow(k)'
<1>1. ctx'[k] = ctx[k] /\ pc[k] # "idle"
  BY BegunStay
<1>2. CASE Number(k) <= counter[ctx[k].book]
  BY <1>1, <1>2 DEF GivenBelow, Number
<1>3. ASSUME NEW g \in Requests, pc[g] \in Ended, SetBack(g, k) PROVE GivenBelow(k)'
  BY <1>1, <1>3, SetBackStays DEF GivenBelow
<1> QED
  BY <1>2, <1>3 DEF GivenBelow

\* h ends and writes its counter.
LEMMA GivenReleases ==
    ASSUME TypeOK, FormInv, WriterInv, OpenedInv, LockInv, CounterInv, TypeOK', [Next]_vars,
           NEW h \in Requests, NEW how \in Ended, pc[h] \in Pending, Releases(h, how),
           pc[h] = "count" => how = "error",
           pc' = [pc EXCEPT ![h] = how], ctx' = ctx, saw' = saw,
           created' \subseteq created \cup {h}, OpenedInv', FormInv',
           NEW k \in Requests, k \in created', pc'[k] \in {"ok", "no"}
    PROVE  GivenBelow(k)'
<1>1. CASE k = h
  <2> DEFINE b == ctx[h].book
  <2>1. FormOf(h)' /\ OpenedOf(h)' /\ ctx[h] \in Context
    BY FormInvIs, OpenedInvIs DEF FormInv, FormOf, OpenedInv, OpenedOf, TypeOK
  <2>2. b \in Books /\ how \in {"ok", "no"}
    BY <1>1, <2>1 DEF OpenedOf, Context, TypeOK
  <2>3. lock[b] = h
    BY <2>2 DEF LockInv, Pending
  <2>4. counter'[b] = Number(h)
    BY <2>2, <2>3 DEF Releases
  <2>5. Number(h) \in Nat
    BY <2>2, <2>3, LockedNumber
  <2> QED
    BY <1>1, <2>4, <2>5 DEF GivenBelow, Number
<1>2. CASE k # h
  <2> DEFINE b == ctx[k].book
  <2>1. k \in created /\ pc[k] = pc'[k]
    BY <1>2 DEF TypeOK
  <2>2. /\ Number(k) \in Nat /\ b \in Books /\ counter[b] \in Nat /\ GivenBelow(k)
        /\ pc[k] # "idle" /\ pc[k] # "error"
    BY <2>1, OpenedNumber, CounterInvIs
  <2>3. CASE lock[b] # h \/ how = "error"
    <3>1. counter'[b] = counter[b]
      BY <2>2, <2>3 DEF Releases
    <3> QED
      BY <2>1, <2>2, <3>1, GivenStays
  <2>4. CASE lock[b] = h /\ how # "error"
    <3>1. counter'[b] = Number(h) /\ Number(h) \in Nat /\ ctx[h].book = b
      BY <2>2, <2>4, LockedNumber DEF Releases, LockInv
    <3>2. CASE Number(k) <= Number(h)
      BY <3>1, <3>2 DEF GivenBelow, Number
    <3>3. ASSUME NEW g \in Requests, pc[g] \in Ended, SetBack(g, k) PROVE GivenBelow(k)'
      BY <2>2, <3>3, SetBackStays DEF GivenBelow
    <3>4. CASE k \notin saw[h] /\ ~(Number(k) <= Number(h))
      <4>1. h \notin saw[k]
        BY Unseen
      <4>2. Number(h) <= Number(k)
        BY <2>2, <3>1, <3>4
      <4>3. SetBack(h, k)
        BY <1>2, <3>1, <3>4, <4>1, <4>2 DEF SetBack, Overlap
      <4>4. SetBack(h, k)' /\ pc'[h] \in Ended
        BY <4>3 DEF SetBack, Overlap, Number, TypeOK
      <4> QED
        BY <4>4 DEF GivenBelow
    <3>5. CASE k \in saw[h] /\ ~(Number(k) <= Number(h))
      <4>1. SeenBelow(h, k)
        BY CounterInvIs
      <4>2. ~(Number(k) < Number(h))
        BY <2>2, <3>1, <3>5
      <4>3. PICK g \in saw[h] : SetBack(g, k)
        BY <2>1, <2>2, <3>1, <3>5, <4>1, <4>2 DEF SeenBelow
      <4>4. g \in Requests /\ pc[g] \in Ended
        BY <4>3 DEF TypeOK, WriterInv
      <4> QED
        BY <3>3, <4>3, <4>4
    <3> QED
      BY <3>2, <3>4, <3>5
  <2> QED
    BY <2>3, <2>4
<1> QED
  BY <1>1, <1>2

LEMMA GivenStep ==
    ASSUME TypeOK, FormInv, WriterInv, OpenedInv, LockInv, CounterInv, TypeOK', FormInv',
           OpenedInv', [Next]_vars, NEW k \in Requests, k \in created', pc'[k] \in {"ok", "no"}
    PROVE  GivenBelow(k)'
<1> DEFINE Goal == GivenBelow(k)'
<1> SUFFICES Goal
  OBVIOUS
<1>0. GivenBelow(k)
  BY CounterInvIs
<1>a. ASSUME counter' = counter, k \in created, pc[k] \in {"ok", "no"} PROVE Goal
  BY <1>0, <1>a, GivenStays
<1>1. ASSUME NEW h \in Requests, pc[h] = "idle", TurnAway(h) PROVE Goal
  <2>1. k \in created /\ pc[k] # "idle"
    BY <1>1, OpenedNumber DEF TurnAway
  <2> QED
    BY <1>1, <1>a, <2>1 DEF TypeOK, TurnAway
<1>2. ASSUME NEW h \in Requests, NEW c, Reads(h, c) PROVE Goal
  BY <1>2, <1>a DEF TypeOK, Reads, FirstStep
<1>3. ASSUME NEW h \in Requests, NEW g \in Requests, BeginUpload(h, g) PROVE Goal
  BY <1>3, <1>a DEF TypeOK, BeginUpload
<1>4. ASSUME NEW h \in Requests, NEW step \in AdvanceStep, Advances(h, step), Counts(h, step)
      PROVE  Goal
  <2>0. /\ pc[h] \in Pending /\ pc' = [pc EXCEPT ![h] = step] /\ ctx' = ctx /\ saw' = saw
        /\ created' \subseteq created \cup {h}
    BY <1>4 DEF Advances, Counts, Opens
  <2>1. CASE step \in Ended
    <3>1. Releases(h, step) /\ (pc[h] = "count" => step = "error")
      BY <1>4, <2>1 DEF Counts, Opens, Ended
    <3> QED
      BY <2>0, <2>1, <3>1, GivenReleases
  <2>2. CASE step \notin Ended
    <3>1. counter' = counter
      BY <1>4, <2>2 DEF Counts, Opens, Ended
    <3>2. k # h /\ k \in created /\ pc[k] = pc'[k]
      BY <2>0, <2>2 DEF TypeOK, Ended
    <3> QED
      BY <1>a, <3>1, <3>2
  <2> QED
    BY <2>1, <2>2
<1>5. ASSUME NEW h \in Requests, Insert(h) \/ Write(h) PROVE Goal
  <2>1. /\ pc[h] \in Pending /\ pc[h] # "count" /\ pc' = [pc EXCEPT ![h] = "ok"]
        /\ ctx' = ctx /\ saw' = saw /\ created' = created /\ Releases(h, "ok")
        /\ "ok" \in Ended
    BY <1>5 DEF Insert, Write, Finish, Releases, Pending, Ended
  <2> QED
    BY <2>1, GivenReleases
<1>6. ASSUME NEW m \in managers, Remove(m) PROVE Goal
  BY <1>6, <1>a DEF Remove
<1>7. CASE UNCHANGED vars
  BY <1>7, <1>a DEF vars
<1> HIDE DEF Goal
<1> QED
  BY <1>1, <1>2, <1>3, <1>4, <1>5, <1>6, <1>7, StepForms

LEMMA SeenStep ==
    ASSUME TypeOK, FormInv, WriterInv, OpenedInv, CounterInv, TypeOK',
           [Next]_vars, NEW h \in Requests, NEW k \in Requests
    PROVE  SeenBelow(h, k)'
<1> SUFFICES ASSUME k \in created' \cap saw'[h], ctx'[h].book = ctx'[k].book, pc'[k] # "error"
             PROVE  \/ Number(k)' < Number(h)'
                    \/ \E g \in saw'[h] : SetBack(g, k)'
  BY DEF SeenBelow
<1> DEFINE Goal == \/ Number(k)' < Number(h)'
                   \/ \E g \in saw'[h] : SetBack(g, k)'
<1> SUFFICES Goal
  OBVIOUS
<1>a. ASSUME ctx'[h] = ctx[h], saw'[h] = saw[h] PROVE Goal
  <2>1. k \in saw[h] /\ pc[k] \in Ended
    BY <1>a DEF WriterInv
  <2>2. k \in created
    BY <2>1, NewlyCreated DEF Ended
  <2>3. ctx'[k] = ctx[k] /\ pc'[k] = pc[k] /\ pc[k] # "idle"
    BY <2>1, EndedStay DEF Ended
  <2>4. SeenBelow(h, k)
    BY CounterInvIs
  <2>5. CASE Number(k) < Number(h)
    BY <1>a, <2>3, <2>5 DEF Number
  <2>6. ASSUME NEW g \in saw[h], SetBack(g, k) PROVE Goal
    <3>1. g \in Requests /\ pc[g] \in Ended
      BY <2>6 DEF TypeOK, WriterInv
    <3> QED
      BY <1>a, <2>3, <2>6, <3>1, SetBackStays
  <2> QED
    BY <1>a, <2>1, <2>2, <2>3, <2>4, <2>5, <2>6 DEF SeenBelow
<1>1. ASSUME NEW j \in Requests, TurnAway(j) PROVE Goal
  BY <1>1, <1>a DEF TurnAway
<1>2. ASSUME NEW j \in Requests, NEW c, Reads(j, c) PROVE Goal
  <2>1. CASE h # j
    BY <1>2, <1>a, <2>1 DEF Reads, TypeOK
  <2>2. CASE h = j
    <3>1. /\ ctx'[h] = c /\ Asks(h, c) /\ pc[h] = "idle"
          /\ saw'[h] = {g \in Requests : pc[g] \in Ended} /\ created' = created
      BY <1>2, <2>2 DEF Reads, TypeOK
    <3>2. k \in created /\ pc[k] \in Ended /\ pc[k] # "idle" /\ h # k
      BY <3>1 DEF Ended
    <3>3. ctx'[k] = ctx[k] /\ pc'[k] = pc[k] /\ c.book = ctx[k].book
      BY <3>1, <3>2, EndedStay
    <3>4. /\ Number(k) \in Nat /\ ctx[k].book \in Books /\ ctx[k].book # Null
          /\ counter[ctx[k].book] \in Nat /\ pc[k] \in {"ok", "no"}
      BY <3>2, <3>3, OpenedNumber DEF Ended
    <3>5. c.new.login = counter[ctx[k].book] + 1
      BY <3>1, <3>3, <3>4
         DEF Asks, JoinAsks, EditAsks, MoveAsks, RewriteAsks, ReviewAsks
    <3>6. GivenBelow(k)
      BY CounterInvIs
    <3>7. CASE Number(k) <= counter[ctx[k].book]
      <4>1. Number(k) < c.new.login
        BY <3>4, <3>5, <3>7
      <4> QED
        BY <3>1, <3>3, <4>1 DEF Number
    <3>8. ASSUME NEW g \in Requests, pc[g] \in Ended, SetBack(g, k) PROVE Goal
      BY <3>1, <3>2, <3>8, SetBackStays
    <3> QED
      BY <3>2, <3>4, <3>6, <3>7, <3>8 DEF GivenBelow
  <2> QED
    BY <2>1, <2>2
<1>3. ASSUME NEW j \in Requests, NEW f \in Requests, pc[j] = "idle", BeginUpload(j, f)
      PROVE  Goal
  <2>1. CASE h # j
    BY <1>3, <1>a, <2>1 DEF BeginUpload, TypeOK
  <2>2. CASE h = j
    <3>1. /\ ctx'[h] = [ctx[f] EXCEPT !.kind = "upload"] /\ ctx[f] \in Context
          /\ ctx[f].kind = "rewrite" /\ saw'[h] = saw[f] /\ created' = created
          /\ FormOf(f)
      BY <1>3, <2>2, FormInvIs DEF BeginUpload, TypeOK
    <3>2. ctx'[h].book = Null
      BY <3>1 DEF Context, FormOf
    <3>3. k \in created /\ pc[k] \in Ended
      BY <3>1 DEF WriterInv
    <3>4. ctx'[k] = ctx[k] /\ ctx[k].book # Null
      BY <3>3, EndedStay, OpenedNumber DEF TypeOK
    <3> QED
      BY <3>2, <3>4
  <2> QED
    BY <2>1, <2>2
<1>4. ASSUME NEW j \in Requests, NEW step \in AdvanceStep, Advances(j, step) PROVE Goal
  BY <1>4, <1>a DEF Advances
<1>5. ASSUME NEW j \in Requests, Insert(j) \/ Write(j) PROVE Goal
  BY <1>5, <1>a DEF Insert, Write
<1>6. ASSUME NEW m \in managers, Remove(m) PROVE Goal
  BY <1>6, <1>a DEF Remove
<1>7. CASE UNCHANGED vars
  BY <1>7, <1>a DEF vars
<1> HIDE DEF Goal
<1> QED
  BY <1>1, <1>2, <1>3, <1>4, <1>5, <1>6, <1>7, StepForms

LEMMA CounterStep ==
    TypeOK /\ FormInv /\ WriterInv /\ OpenedInv /\ LockInv /\ CounterInv
        /\ TypeOK' /\ FormInv' /\ OpenedInv' /\ [Next]_vars => CounterInv'
<1> SUFFICES ASSUME TypeOK, FormInv, WriterInv, OpenedInv, LockInv, CounterInv,
                    TypeOK', FormInv', OpenedInv', [Next]_vars
             PROVE  CounterInv'
  OBVIOUS
<1>1. \A k \in Requests : GivenBelow(k)'
  <2> SUFFICES ASSUME NEW k \in Requests, k \in created', pc'[k] \in {"ok", "no"}
               PROVE  GivenBelow(k)'
    BY DEF GivenBelow
  <2> QED
    BY GivenStep
<1>2. \A h, k \in Requests : SeenBelow(h, k)'
  BY SeenStep
<1> QED
  BY <1>1, <1>2 DEF CounterInv, GivenBelow, SeenBelow, TypeOK
-----------------------------------------------------------------------------
(* The invariant *)

LEMMA InvInit == Init => IInv
<1> SUFFICES ASSUME Init PROVE IInv
  OBVIOUS
<1> USE DEF Init
<1>0. /\ Null \notin Managers \cup Accounts \cup Books \cup Kind \cup Types \cup States \cup Int
      /\ Starters \cap Requests = {}
  BY RegistrationAssumption
<1>1. TypeOK
  BY TypeInit
<1>2. IdInv
  <2>1. \A m \in managers : RowId(m)
    BY RegistrationAssumption DEF RowId, IsId, Managers
  <2>2. \A m \in Managers : NoRow(m)
    BY DEF NoRow
  <2>3. \A h \in Requests : AskId(h)
    BY DEF AskId
  <2> QED
    BY <2>1, <2>2, <2>3, IdInvIs
<1>3. WriterInv
  BY <1>0 DEF WriterInv, WritersOf, Nobody, Managers
<1>4. AccountInv /\ RankInv
  BY DEF AccountInv, RankInv, Pending
<1>5. SavedInv
  BY <1>0 DEF SavedInv, Saves, Kind
<1>6. FormInv
  BY <1>0 DEF FormInv, Pending, Kind
<1>7. OpenedInv
  BY DEF OpenedInv
<1>8. LoginInv
  <2>1. \A m \in managers : HasLogin(m, row[m])
    BY RegistrationAssumption DEF HasLogin, Managers
  <2>2. \A h \in Requests : ~Saves(h)
    BY <1>0 DEF Saves, Kind
  <2> QED
    BY <2>1, <2>2 DEF LoginInv, Recorded
<1>9. LockInv /\ CounterInv
  BY <1>0 DEF LockInv, CounterInv, Managers
<1> QED
  BY <1>1, <1>2, <1>3, <1>4, <1>5, <1>6, <1>7, <1>8, <1>9 DEF IInv

LEMMA InvStep == IInv /\ [Next]_vars => IInv'
<1> SUFFICES ASSUME IInv, [Next]_vars PROVE IInv'
  OBVIOUS
<1>1. TypeOK' /\ FormInv' /\ LockInv'
  BY TypeStep, FormStep, LockStep DEF IInv
<1>2. IdInv' /\ WriterInv' /\ AccountInv' /\ RankInv' /\ SavedInv'
  BY <1>1, IdStep, WriterStep, AccountStep, RankStep, SavedStep DEF IInv
<1>3. OpenedInv' /\ LoginInv'
  BY <1>1, OpenedStep, LoginStep DEF IInv
<1>4. CounterInv'
  BY <1>1, <1>3, CounterStep DEF IInv
<1> QED
  BY <1>1, <1>2, <1>3, <1>4 DEF IInv

\* The invariant the safety properties follow from.
THEOREM Inductive == Spec => []IInv
  BY InvInit, InvStep, PTL DEF Spec

\* The values of every variable stay in their types: whatever was written meanwhile,
\* a counter only ever gets the number of the review that holds it.
THEOREM TypeCorrect == Spec => []TypeOK
<1>1. IInv => TypeOK
  BY DEF IInv
<1> QED
  BY <1>1, Inductive, PTL
-----------------------------------------------------------------------------
(* Accounts on MT4 and numbers *)

LEMMA PassHasAccountHolds == IInv => PassHasAccount
<1> SUFFICES ASSUME IInv, NEW m \in managers, row[m].state = "PASS",
                    m \in Starters => Start[m].state # "PASS"
             PROVE  \E h \in Recorded : ctx[h].m = m /\ row[m].login = Number(h)
  BY DEF PassHasAccount
<1>1. HasLogin(m, row[m])
  BY DEF IInv, LoginInv
<1> QED
  BY <1>1 DEF HasLogin

LEMMA OrphanHolds == IInv => OrphanExplained
<1> SUFFICES ASSUME IInv, NEW h \in Recorded, ctx[h].m \in managers
             PROVE  \/ row[ctx[h].m].login = Number(h)
                    \/ \E k \in Recorded : k # h /\ ctx[k].m = ctx[h].m
  BY DEF OrphanExplained
<1>1. HasLogin(ctx[h].m, row[ctx[h].m]) /\ row[ctx[h].m].login # Null
  BY DEF IInv, LoginInv
<1> QED
  BY <1>1 DEF HasLogin

\* Managers who pass here have the account of a review that ran to its end,
\* whatever was refused, lost, rolled back or saved over meanwhile.
THEOREM PassHasItsAccount == Spec => []PassHasAccount
  BY Inductive, PassHasAccountHolds, PTL

\* The accounts the database does not know are those whose review stopped on the
\* way and those a second review of the same manager replaced.
THEOREM OrphanIsExplained == Spec => []OrphanExplained
  BY Inductive, OrphanHolds, PTL

\* TakenExplained for one review and one account.
TakenBy(h, k) ==
    /\ k # h /\ Number(k) = Number(h)
    /\ \/ pc[k] = "error"
       \/ k \notin saw[h]
       \/ ctx[k].book # ctx[h].book
       \/ \E g \in saw[h] : SetBack(g, k)

LEMMA TakenStays ==
    ASSUME IInv, [Next]_vars, NEW h \in Requests, pc[h] = "taken",
           NEW k \in created, TakenBy(h, k)
    PROVE  k \in created' /\ TakenBy(h, k)'
<1>1. TypeOK /\ OpenedInv /\ FormInv /\ WriterInv
  BY DEF IInv
<1>2. k \in Requests /\ pc[k] # "idle" /\ k \in created'
  BY <1>1, CreatedStays, OpenedNumber DEF TypeOK
<1>3. /\ ctx'[h] = ctx[h] /\ saw'[h] = saw[h]
      /\ ctx'[k] = ctx[k] /\ saw'[k] = saw[k]
      /\ pc[k] = "error" => pc'[k] = "error"
  BY <1>1, <1>2, BegunStay, EndedStay DEF Ended
<1>4. \A g \in saw[h] : SetBack(g, k) => SetBack(g, k)'
  <2> SUFFICES ASSUME NEW g \in saw[h], SetBack(g, k) PROVE SetBack(g, k)'
    OBVIOUS
  <2>1. g \in Requests /\ pc[g] \in Ended
    BY <1>1 DEF TypeOK, WriterInv
  <2> QED
    BY <1>1, <1>2, <2>1, SetBackStays
<1> QED
  BY <1>2, <1>3, <1>4 DEF TakenBy, Number

\* A review that is told that its number is in use has just been told.
LEMMA NewlyTaken ==
    ASSUME TypeOK, [Next]_vars, NEW h \in Requests, pc'[h] = "taken", pc[h] # "taken"
    PROVE  /\ pc[h] = "mt4" /\ \E k \in created : Number(k) = Number(h)
           /\ ctx' = ctx /\ saw' = saw /\ created' = created
           /\ \A k \in Requests : k # h => pc'[k] = pc[k]
<1> DEFINE Goal == /\ pc[h] = "mt4" /\ \E k \in created : Number(k) = Number(h)
                   /\ ctx' = ctx /\ saw' = saw /\ created' = created
                   /\ \A k \in Requests : k # h => pc'[k] = pc[k]
<1> SUFFICES Goal
  OBVIOUS
<1>1. ASSUME NEW j \in Requests, TurnAway(j) PROVE Goal
  BY <1>1 DEF TurnAway, TypeOK
<1>2. ASSUME NEW j \in Requests, NEW c, Reads(j, c) PROVE Goal
  BY <1>2 DEF Reads, TypeOK, FirstStep
<1>3. ASSUME NEW j \in Requests, NEW f \in Requests, BeginUpload(j, f) PROVE Goal
  BY <1>3 DEF BeginUpload, TypeOK
<1>4. ASSUME NEW j \in Requests, NEW step \in AdvanceStep, Advances(j, step), Counts(j, step)
      PROVE  Goal
  <2>1. j = h /\ step = "taken"
    BY <1>4 DEF Advances, TypeOK
  <2>2. /\ pc[h] = "mt4" /\ created' = created
        /\ \E k \in created : Number(k) = Number(h)
    BY <1>4, <2>1 DEF Counts
  <2> QED
    BY <1>4, <2>1, <2>2 DEF Advances, TypeOK
<1>5. ASSUME NEW j \in Requests, Insert(j) \/ Write(j) PROVE Goal
  BY <1>5 DEF Insert, Write, Finish, TypeOK
<1>6. ASSUME NEW m \in managers, Remove(m) PROVE Goal
  BY <1>6 DEF Remove
<1>7. CASE UNCHANGED vars
  BY <1>7 DEF vars
<1> HIDE DEF Goal
<1> QED
  BY <1>1, <1>2, <1>3, <1>4, <1>5, <1>6, <1>7, StepForms

LEMMA TakenStep == IInv /\ TakenExplained /\ [Next]_vars => TakenExplained'
<1> SUFFICES ASSUME IInv, TakenExplained, [Next]_vars, NEW h \in Requests, pc'[h] = "taken"
             PROVE  \E k \in created' : TakenBy(h, k)'
  BY DEF TakenExplained, TakenBy
<1>0. TypeOK /\ OpenedInv /\ FormInv /\ WriterInv /\ CounterInv
  BY DEF IInv
<1>1. CASE pc[h] = "taken"
  <2>1. PICK k \in created : TakenBy(h, k)
    BY <1>1 DEF TakenExplained, TakenBy
  <2> QED
    BY <1>1, <2>1, TakenStays
<1>2. CASE pc[h] # "taken"
  <2>1. /\ pc[h] = "mt4" /\ \E k \in created : Number(k) = Number(h)
        /\ ctx' = ctx /\ saw' = saw /\ created' = created
        /\ \A k \in Requests : k # h => pc'[k] = pc[k]
    BY <1>0, <1>2, NewlyTaken
  <2>2. PICK k \in created : Number(k) = Number(h)
    BY <2>1
  <2>3. /\ Number(k) \in Nat /\ k \in Requests
        /\ pc[k] \in {"mail", "write", "ok", "no", "error"}
    BY <1>0, OpenedNumber DEF TypeOK
  <2>4. k # h /\ pc'[k] = pc[k]
    BY <2>1, <2>3
  <2>5. SeenBelow(h, k)
    BY <1>0, <2>3, CounterInvIs
  <2>6. TakenBy(h, k)
    BY <2>2, <2>3, <2>4, <2>5 DEF SeenBelow, TakenBy
  <2> QED
    BY <2>1, <2>4, <2>6 DEF TakenBy, SetBack, Overlap, Number
<1> QED
  BY <1>1, <1>2

LEMMA TakenInit == Init => TakenExplained
  BY DEF Init, TakenExplained

\* MT4 has the number of a review already only after an exception, an overlap or on
\* books whose counters meet: a review that ran alone never gets a number in use.
THEOREM TakenIsExplained == Spec => []TakenExplained
  BY Inductive, TakenInit, TakenStep, PTL DEF Spec
-----------------------------------------------------------------------------
(* Undone changes *)

LEMMA UndoStep == IInv /\ UndoExplained /\ [Next]_vars => UndoExplained'
<1> SUFFICES ASSUME IInv, UndoExplained, [Next]_vars, NEW h \in undid'
             PROVE  \E k \in Requests : /\ pc'[k] = "ok"
                                        /\ ctx'[k].m = ctx'[h].m
                                        /\ \/ ctx'[k].kind \notin {"rewrite", "upload"}
                                           \/ k \in undid'
                                        /\ Overlap(h, k)'
  BY DEF UndoExplained
<1>0. TypeOK /\ FormInv /\ IdInv /\ WriterInv /\ SavedInv /\ undid \subseteq undid'
  BY UndidStays DEF IInv
<1>a. ASSUME NEW k \in Requests, pc[k] = "ok", ctx[k].m = ctx[h].m, h \in Requests,
             ctx[k].kind \notin {"rewrite", "upload"} \/ k \in undid, Overlap(h, k),
             ctx'[h] = ctx[h], saw'[h] = saw[h]
      PROVE  \E j \in Requests : /\ pc'[j] = "ok"
                                 /\ ctx'[j].m = ctx'[h].m
                                 /\ \/ ctx'[j].kind \notin {"rewrite", "upload"}
                                    \/ j \in undid'
                                 /\ Overlap(h, j)'
  <2>1. pc'[k] = "ok" /\ ctx'[k] = ctx[k] /\ saw'[k] = saw[k]
    BY <1>0, <1>a, EndedStay DEF Ended
  <2> QED
    BY <1>0, <1>a, <2>1 DEF Overlap
<1>1. CASE h \in undid
  <2>1. h \in Requests /\ ctx'[h] = ctx[h] /\ saw'[h] = saw[h]
    BY <1>0, <1>1, EndedStay DEF TypeOK, WriterInv, Ended
  <2> QED
    BY <1>1, <1>a, <2>1 DEF UndoExplained
<1>2. CASE h \notin undid
  <2>1. ASSUME NEW w \in Requests, Writes(w)
        PROVE  \E k \in Requests : /\ pc'[k] = "ok"
                                   /\ ctx'[k].m = ctx'[h].m
                                   /\ \/ ctx'[k].kind \notin {"rewrite", "upload"}
                                      \/ k \in undid'
                                   /\ Overlap(h, k)'
    <3>1. h = w /\ Updates(w) /\ Undoes(w, row[ctx[w].m], row'[ctx[w].m])
      BY <1>2, <2>1 DEF Writes, Inserts, Updates
    <3>2. Saves(w) /\ ctx[w].m \in managers
      BY <3>1 DEF Undoes, Saves, Updates
    <3>3. AsRead(w, row[ctx[w].m]) \/ Missed(w)
      BY <1>0, <3>2, SavedInvIs DEF SavedOf
    <3>4. ~AsRead(w, row[ctx[w].m])
      BY <1>0, <2>1, <3>1, <3>2, SaveChanges
    <3>5. PICK k \in Requests : /\ pc[k] = "ok"
                                /\ ctx[k].m = ctx[w].m
                                /\ ctx[k].kind \notin {"rewrite", "upload"} \/ k \in undid
                                /\ k \notin saw[w]
      BY <3>3, <3>4 DEF Missed
    <3>6. w # k /\ w \notin saw[k] /\ ctx' = ctx /\ saw' = saw
      BY <1>0, <2>1, <3>5, Unseen DEF Writes, Pending
    <3> QED
      BY <1>a, <3>1, <3>5, <3>6 DEF Overlap
  <2>2. CASE Quiet
    BY <1>2, <2>2 DEF Quiet
  <2>3. ASSUME NEW x \in managers, Removes(x) PROVE FALSE
    BY <1>2, <2>3 DEF Removes
  <2> QED
    BY <1>0, <2>1, <2>2, <2>3, RowForms
<1> QED
  BY <1>1, <1>2

LEMMA UndoInit == Init => UndoExplained
  BY DEF Init, UndoExplained

\* Whoever undoes a change had missed it: it takes another request that wrote the
\* same manager after the row, or the session's copy of it, was read.
THEOREM UndoIsExplained == Spec => []UndoExplained
  BY Inductive, UndoInit, UndoStep, PTL DEF Spec
-----------------------------------------------------------------------------
(* Accounts two managers have *)

\* SameAccountExplained for two rows.
Twice(m, n) ==
    LET last == {by[m].account, by[n].account} \cap Requests
    IN  \/ \E h \in last : h \in undid \/ ctx[h].kind = "review"
        \/ Overlapping(last)

LEMMA SameAccountInvIs ==
    SameAccountExplained <=>
        \A m, n \in managers : m # n /\ row[m].account = row[n].account => Twice(m, n)
  BY DEF SameAccountExplained, Twice

LEMMA TwiceSymmetric == \A m, n \in Managers : Twice(m, n) => Twice(n, m)
  BY DEF Twice

\* The writers of a row have ended.
LEMMA WritersEnded ==
    ASSUME TypeOK, WriterInv, NEW m \in Managers, NEW w \in WritersOf(m), w \in Requests
    PROVE  pc[w] = "ok"
  BY DEF WriterInv

LEMMA OverlapStays ==
    ASSUME TypeOK, [Next]_vars, NEW g \in Requests, NEW h \in Requests,
           pc[g] = "ok", pc[h] = "ok", Overlap(g, h)
    PROVE  Overlap(g, h)'
  BY EndedStay DEF Overlap, Ended

LEMMA TwiceStays ==
    ASSUME IInv, [Next]_vars, NEW m \in Managers, NEW n \in Managers, Twice(m, n),
           by'[m].account = by[m].account, by'[n].account = by[n].account
    PROVE  Twice(m, n)'
<1> DEFINE last == {by[m].account, by[n].account} \cap Requests
<1>1. TypeOK /\ WriterInv /\ undid \subseteq undid'
  BY UndidStays DEF IInv
<1>2. \A h \in last : h \in Requests /\ pc[h] = "ok"
  BY <1>1 DEF WriterInv, WritersOf
<1>3. \A h \in last : ctx'[h] = ctx[h]
  BY <1>1, <1>2, EndedStay DEF Ended
<1>4. \A g, h \in last : Overlap(g, h) => Overlap(g, h)'
  BY <1>1, <1>2, OverlapStays
<1>5. last' = last
  OBVIOUS
<1> HIDE DEF last
<1>6. \/ \E h \in last : h \in undid \/ ctx[h].kind = "review"
      \/ \E g, h \in last : Overlap(g, h)
  BY DEF Twice, Overlapping, last
<1>7. \/ \E h \in last : h \in undid' \/ ctx'[h].kind = "review"
      \/ \E g, h \in last : Overlap(g, h)'
  BY <1>1, <1>3, <1>4, <1>6
<1> QED
  BY <1>5, <1>7 DEF Twice, Overlapping, last

\* The account w writes was free as far as w knew, or the reason is w.
LEMMA WrittenAccount ==
    ASSUME IInv, [Next]_vars, NEW w \in Requests, Writes(w),
           NEW m \in Managers, m = ctx[w].m, NEW n \in managers, n # m,
           row'[m].account # row[m].account \/ Inserts(w),
           row'[m].account = row[n].account
    PROVE  Twice(m, n)'
<1>1. TypeOK /\ FormInv /\ IdInv /\ WriterInv /\ AccountInv /\ FormOf(w) /\ n \in Managers
  BY FormInvIs DEF IInv, TypeOK
<1>2. by'[m].account = w
  <2>1. row'[m].account # row[m].account
    BY <1>1 DEF Inserts, Blank, Columns, FormOf
  <2> QED
    BY <2>1 DEF Writes, Changed
<1>3. by'[n] = by[n] /\ row'[n] = row[n] /\ ctx' = ctx /\ saw' = saw
  BY <1>1 DEF Writes
<1>4. w \in {by'[m].account, by'[n].account} \cap Requests
  BY <1>2
<1>5. CASE ctx[w].kind = "review"
  BY <1>3, <1>4, <1>5 DEF Twice
<1>6. CASE ctx[w].kind \in {"rewrite", "upload", "move"}
  <2>1. Updates(w) /\ row[m] \in Row
    BY <1>1, <1>6 DEF Writes, Inserts, TypeOK
  <2>2. Undoes(w, row[m], row'[m])
    <3>1. row'[m] # row[m] /\ row'[m].account # row[m].account
      BY <2>1 DEF Updates, Inserts
    <3>2. [row[m] EXCEPT !.belong = row'[m].belong].account = row[m].account
      BY <2>1 DEF Row
    <3> QED
      BY <1>6, <3>1, <3>2 DEF Undoes
  <2>3. w \in undid'
    BY <2>1, <2>2 DEF Updates
  <2> QED
    BY <1>4, <2>3 DEF Twice
<1>7. CASE ctx[w].kind \in {"join", "edit"}
  <2>1. row'[m].account = ctx[w].new.account
    <3>1. CASE Inserts(w)
      BY <3>1 DEF Inserts
    <3>2. CASE Updates(w)
      <4>1. row'[m].account = Given(ctx[w].new.account, row[m].account)
        BY <3>2 DEF Updates, Selective, Columns
      <4>2. row'[m].account # row[m].account
        BY <3>2 DEF Updates, Inserts
      <4> QED
        BY <4>1, <4>2 DEF Given
    <3> QED
      BY <3>1, <3>2 DEF Writes
  <2>2. ~Known(w, by[n].account)
    <3>1. AccountOf(w) /\ pc[w] \in Pending
      BY <1>1, AccountInvIs DEF Writes, Pending
    <3> QED
      BY <1>7, <2>1, <3>1 DEF AccountOf
  <2>k. by[n].account \in Requests
    BY <1>1, <2>2 DEF Known, TypeOK, Writers
  <2>3. PICK k \in Requests : k = by[n].account /\ k \notin saw[w] /\ pc[k] = "ok"
    BY <1>1, <2>2, <2>k DEF Known, WriterInv, WritersOf
  <2>4. w # k /\ w \notin saw[k]
    BY <1>1, <2>3, Unseen DEF Writes, Pending
  <2>5. Overlap(w, k)'
    BY <1>3, <2>3, <2>4 DEF Overlap
  <2>6. k \in {by'[m].account, by'[n].account} \cap Requests
    BY <1>3, <2>3
  <2> QED
    BY <1>4, <2>5, <2>6 DEF Twice, Overlapping
<1>8. ctx[w].kind \in Kind
  BY <1>1 DEF TypeOK, Context, FormOf, Writes, Pending
<1> QED
  BY <1>5, <1>6, <1>7, <1>8 DEF Kind

LEMMA SameAccountStep == IInv /\ SameAccountExplained /\ [Next]_vars => SameAccountExplained'
<1> SUFFICES ASSUME IInv, SameAccountExplained, [Next]_vars,
                    NEW m \in managers', NEW n \in managers', m # n,
                    row'[m].account = row'[n].account
             PROVE  Twice(m, n)'
  BY DEF SameAccountExplained, Twice
<1>0. /\ TypeOK /\ FormInv /\ IdInv /\ WriterInv /\ m \in Managers /\ n \in Managers
      /\ \A x, y \in managers : x # y /\ row[x].account = row[y].account => Twice(x, y)
  BY SameAccountInvIs, InvStep DEF IInv, TypeOK
<1>1. CASE Quiet
  BY <1>0, <1>1, TwiceStays DEF Quiet
<1>2. ASSUME NEW x \in managers, Removes(x) PROVE Twice(m, n)'
  <2>1. /\ m \in managers /\ row'[m] = row[m] /\ by'[m] = by[m]
        /\ n \in managers /\ row'[n] = row[n] /\ by'[n] = by[n]
    BY <1>0, <1>2 DEF Removes, TypeOK
  <2> QED
    BY <1>0, <2>1, TwiceStays
<1>3. ASSUME NEW w \in Requests, Writes(w) PROVE Twice(m, n)'
  <2> DEFINE x == ctx[w].m
  <2>1. CASE m # x /\ n # x
    <3>1. /\ m \in managers /\ row'[m] = row[m] /\ by'[m] = by[m]
          /\ n \in managers /\ row'[n] = row[n] /\ by'[n] = by[n]
      BY <1>0, <1>3, <2>1 DEF Writes, Inserts, Updates
    <3> QED
      BY <1>0, <3>1, TwiceStays
  <2>2. ASSUME NEW y \in managers', NEW z \in managers', y = x, z # x,
               row'[y].account = row'[z].account
        PROVE  Twice(y, z)'
    <3>1. y \in Managers /\ z \in Managers
      BY <1>3, <2>2 DEF Writes, Inserts, Updates, TypeOK, IInv
    <3>2. z \in managers /\ row'[z] = row[z] /\ by'[z] = by[z]
      BY <1>3, <2>2, <3>1 DEF Writes, Inserts, Updates
    <3>3. CASE row'[x].account # row[x].account \/ Inserts(w)
      BY <1>3, <2>2, <3>1, <3>2, <3>3, WrittenAccount
    <3>4. CASE row'[x].account = row[x].account /\ Updates(w)
      <4>1. by'[x].account = by[x].account /\ x \in managers
        BY <1>3, <3>4 DEF Writes, Changed, Updates
      <4>2. Twice(y, z)
        BY <1>0, <2>2, <3>2, <3>4, <4>1
      <4> QED
        BY <2>2, <3>1, <3>2, <4>1, <4>2, TwiceStays
    <3> QED
      BY <1>3, <3>3, <3>4 DEF Writes
  <2>3. CASE m = x
    BY <2>2, <2>3
  <2>4. CASE n = x
    <3>1. Twice(n, m)'
      BY <2>2, <2>4
    <3> QED
      BY <3>1 DEF Twice
  <2> QED
    BY <2>1, <2>3, <2>4
<1> QED
  BY <1>0, <1>1, <1>2, <1>3, RowForms

LEMMA SameAccountInit == Init => SameAccountExplained
  BY RegistrationAssumption DEF Init, SameAccountExplained, Managers

\* Account names are unique but for reviews, which do not compare them, undone
\* changes and requests that did not know of each other.
THEOREM SameAccountIsExplained == Spec => []SameAccountExplained
  BY Inductive, SameAccountInit, SameAccountStep, PTL DEF Spec
-----------------------------------------------------------------------------
(* Agents that are not below their parents *)

LEMMA LastWritersEnded ==
    ASSUME IInv, NEW m \in Managers, NEW p \in Managers
    PROVE  \A h \in LastWriters(m, p) : h \in Requests /\ pc[h] = "ok"
  BY DEF IInv, WriterInv, WritersOf, LastWriters

LEMMA ReasonStays ==
    ASSUME IInv, [Next]_vars, NEW m \in Managers, NEW p \in Managers, Reason(m, p),
           by'[m].type = by[m].type, by'[m].level = by[m].level,
           by'[m].belong = by[m].belong, by'[p].level = by[p].level
    PROVE  Reason(m, p)'
<1> DEFINE last == LastWriters(m, p)
<1>1. TypeOK /\ undid \subseteq undid'
  BY UndidStays DEF IInv
<1>2. \A h \in last : h \in Requests /\ pc[h] = "ok"
  BY LastWritersEnded
<1>3. \A h \in last : ctx'[h] = ctx[h]
  BY <1>1, <1>2, EndedStay DEF Ended
<1>4. \A g, h \in last : Overlap(g, h) => Overlap(g, h)'
  BY <1>1, <1>2, OverlapStays
<1>5. last' = last /\ by'[p].level = by[p].level
  BY DEF LastWriters
<1>6. by[p].level \in Requests => by[p].level \in last
  BY DEF LastWriters
<1> HIDE DEF last
<1>7. \/ by[p].level \in last /\ SkipsSons(by[p].level)
      \/ \E h \in last : h \in undid \/ Refuses(h)
      \/ \E g, h \in last : Overlap(g, h)
  BY <1>6 DEF Reason, Overlapping, last
<1>8. CASE by[p].level \in last /\ SkipsSons(by[p].level)
  BY <1>2, <1>3, <1>5, <1>8 DEF Reason, SkipsSons
<1>9. CASE \E h \in last : h \in undid \/ Refuses(h)
  <2>1. \E h \in last : h \in undid' \/ Refuses(h)'
    BY <1>1, <1>3, <1>9 DEF Refuses
  <2> QED
    BY <1>5, <2>1 DEF Reason, last
<1>10. CASE \E g, h \in last : Overlap(g, h)
  <2>1. \E g, h \in last : Overlap(g, h)'
    BY <1>4, <1>10
  <2> QED
    BY <1>5, <2>1 DEF Reason, Overlapping, last
<1> QED
  BY <1>7, <1>8, <1>9, <1>10

\* Whoever wrote a column that w does not know of has ended.
LEMMA UnknownWriter ==
    ASSUME IInv, NEW w \in Requests, NEW m \in Managers, NEW k \in WritersOf(m), ~Known(w, k)
    PROVE  k \in Requests /\ k \notin saw[w] /\ pc[k] = "ok"
<1>1. k \in Requests \cup {Null}
  BY DEF IInv, TypeOK, Writers, WritersOf
<1>2. k # Null /\ k \notin saw[w]
  BY DEF Known
<1> QED
  BY <1>1, <1>2 DEF IInv, WriterInv

\* A writer that w has not seen is a reason.
LEMMA OverlapReason ==
    ASSUME IInv, NEW w \in Requests, Writes(w), NEW m \in Managers, NEW p \in Managers,
           w \in LastWriters(m, p)', NEW k \in Requests, k \in LastWriters(m, p)',
           pc[k] = "ok", k \notin saw[w]
    PROVE  Reason(m, p)'
<1>1. w # k /\ w \notin saw[k] /\ saw' = saw
  BY Unseen DEF IInv, Writes, Pending
<1>2. Overlap(w, k)'
  BY <1>1 DEF Overlap
<1> QED
  BY <1>2 DEF Reason, Overlapping

\* The level of the parent p has changed.
LEMMA ParentDisorders ==
    ASSUME IInv, [Next]_vars, TypeOK', NEW w \in Requests, Writes(w), Updates(w),
           NEW x \in managers, x = ctx[w].m, NEW m \in managers,
           row'[m].belong = x, Disordered(row'[m], row'[x]),
           row'[x].level # row[x].level,
           ~Undoes(w, row[x], row'[x])
    PROVE  Reason(m, x)'
<1>1. /\ TypeOK /\ FormOf(w) /\ RankOf(w) /\ WriterInv /\ pc[w] \in Pending
      /\ x \in Managers /\ m \in Managers /\ ctx' = ctx
  BY FormInvIs, RankInvIs DEF IInv, TypeOK, Writes, Pending
<1>2. /\ by'[x] = Changed(w, row[x], row'[x], by[x])
      /\ row'[x] = Selective(row[x], ctx[w].new)
  BY DEF Writes, Updates
<1>3. by'[x].level = w /\ w \in LastWriters(m, x)'
  BY <1>2 DEF Changed, LastWriters
<1>4. CASE SkipsSons(w)
  BY <1>1, <1>3, <1>4 DEF Reason, SkipsSons
<1>5. CASE ctx[w].kind \in {"rewrite", "upload", "move"}
  <2>1. row[x] \in Row
    BY <1>1 DEF TypeOK
  <2>2. [row[x] EXCEPT !.belong = row'[x].belong].level = row[x].level
    BY <2>1 DEF Row
  <2> QED
    BY <1>5, <2>2 DEF Undoes
<1>6. CASE ctx[w].kind = "edit" /\ ctx[w].new.type # "common"
  <2>1. ctx[w].new.type = "agent" /\ ctx[w].new.state = Null /\ ctx[w].new.belong = Null
    <3>1. ctx[w].new \in Row
      BY <1>1 DEF TypeOK, Context
    <3> QED
      BY <1>1, <1>6, <3>1 DEF FormOf, Row, Types
  <2>2. Compares(w)
    BY <1>6, <2>1, RegistrationAssumption DEF Compares, States
  <2>3. ctx[w].new.level # Null /\ AboveKnownSons(w) /\ NotOwnParent(w)
    BY <1>1, <1>6, <2>2 DEF RankOf
  <2>4. row'[x].level = ctx[w].new.level /\ row'[x].belong = row[x].belong
    <3>1. /\ row'[x].level = Given(ctx[w].new.level, row[x].level)
          /\ row'[x].belong = Given(ctx[w].new.belong, row[x].belong)
      BY <1>2, SelectiveColumns
    <3> QED
      BY <2>1, <2>3, <3>1 DEF Given
  <2>5. CASE m = x
    <3>1. ~Known(w, by[x].belong)
      BY <2>3, <2>4, <2>5 DEF NotOwnParent
    <3>2. by'[x].belong = by[x].belong
      BY <1>2, <2>4 DEF Changed
    <3>3. PICK k \in WritersOf(x) : k = by[x].belong
      BY DEF WritersOf
    <3>4. k \in Requests /\ k \notin saw[w] /\ pc[k] = "ok"
      BY <1>1, <3>1, <3>3, UnknownWriter
    <3>5. k \in LastWriters(m, x)'
      BY <2>5, <3>2, <3>3, <3>4 DEF LastWriters
    <3> QED
      BY <1>1, <1>3, <3>4, <3>5, OverlapReason
  <2>6. CASE m # x
    <3>1. row'[m] = row[m] /\ by'[m] = by[m]
      BY <1>1, <2>6 DEF Writes
    <3>2. row[m].level # Null /\ row[m].belong = ctx[w].m /\ row[m].level <= ctx[w].new.level
      BY <2>4, <3>1 DEF Disordered
    <3>3. row[m].level \in Int /\ ctx[w].new.level \in Int
      <4>1. row[m] \in Row /\ ctx[w].new \in Row
        BY <1>1 DEF TypeOK, Context
      <4> QED
        BY <2>3, <3>2, <4>1 DEF Row
    <3>4. ~(row[m].level > ctx[w].new.level)
      BY <3>2, <3>3
    <3>5. ~Known(w, by[m].belong) \/ ~Known(w, by[m].level)
      BY <2>3, <3>2, <3>4 DEF AboveKnownSons
    <3>6. PICK k \in {by[m].belong, by[m].level} : ~Known(w, k)
      BY <3>5
    <3>7. k \in WritersOf(m)
      BY <3>6 DEF WritersOf
    <3>8. k \in Requests /\ k \notin saw[w] /\ pc[k] = "ok"
      BY <1>1, <3>6, <3>7, UnknownWriter
    <3>9. k \in LastWriters(m, x)'
      BY <3>1, <3>6, <3>8 DEF LastWriters
    <3> QED
      BY <1>1, <1>3, <3>8, <3>9, OverlapReason
  <2> QED
    BY <2>5, <2>6
<1>7. ctx[w].kind \in {"edit", "move", "review", "rewrite", "upload"}
  <2>1. ctx[w].kind \in Kind \cup {Null} /\ ctx[w].kind # Null /\ ctx[w].kind # "join"
    BY <1>1 DEF TypeOK, Context, FormOf, Updates
  <2> QED
    BY <2>1 DEF Kind
<1> QED
  BY <1>4, <1>5, <1>6, <1>7 DEF SkipsSons

\* The child m has changed, its parent's level has not.
LEMMA ChildDisorders ==
    ASSUME IInv, [Next]_vars, TypeOK', NEW w \in Requests, Writes(w), Updates(w),
           NEW m \in managers, m = ctx[w].m, NEW p \in managers,
           row'[m].belong = p, Disordered(row'[m], row'[p]),
           row'[p].level = row[p].level,
           \/ row'[m].type # row[m].type
           \/ row'[m].level # row[m].level
           \/ row'[m].belong # row[m].belong,
           ~Undoes(w, row[m], row'[m]), ~Refuses(w)
    PROVE  Reason(m, p)'
<1>1. /\ TypeOK /\ FormOf(w) /\ RankOf(w) /\ WriterInv /\ pc[w] \in Pending
      /\ p \in Managers /\ m \in Managers /\ ctx' = ctx
  BY FormInvIs, RankInvIs DEF IInv, TypeOK, Writes, Pending
<1>2. /\ by'[m] = Changed(w, row[m], row'[m], by[m])
      /\ row'[m] = Selective(row[m], ctx[w].new)
  BY DEF Writes, Updates
<1>3. w \in LastWriters(m, p)'
  BY <1>2 DEF Changed, LastWriters
<1>4. by'[p].level = by[p].level
  <2>1. CASE p = m
    BY <1>2, <2>1 DEF Changed
  <2>2. CASE p # m
    BY <1>1, <2>2 DEF Writes
  <2> QED
    BY <2>1, <2>2
<1>5. ctx[w].kind \in {"edit", "move", "review"}
  <2>1. ctx[w].kind \in Kind \cup {Null} /\ ctx[w].kind # Null /\ ctx[w].kind # "join"
    BY <1>1 DEF TypeOK, Context, FormOf, Updates
  <2>2. ctx[w].kind \notin {"rewrite", "upload"}
    BY DEF Undoes
  <2> QED
    BY <2>1, <2>2 DEF Kind
<1>6. ctx[w].new.type # Null
  BY <1>1, <1>5 DEF FormOf
<1>7. ctx[w].new.type = "agent"
  BY <1>2, <1>6 DEF Selective, Given, Columns, Disordered
<1>8. Compares(w)
  <2>1. ctx[w].kind = "edit" => ctx[w].new.state = Null
    BY <1>1 DEF FormOf
  <2> QED
    BY <1>5, <1>7, <2>1, RegistrationAssumption DEF Compares, Refuses, States
<1>9. ctx[w].new.level # Null /\ AboveParent(w)
  BY <1>1, <1>8 DEF RankOf
<1>10. /\ row'[m].level = ctx[w].new.level
       /\ row'[m].belong = Given(ctx[w].new.belong, row[m].belong)
  <2>1. /\ row'[m].level = Given(ctx[w].new.level, row[m].level)
        /\ row'[m].belong = Given(ctx[w].new.belong, row[m].belong)
    BY <1>2, SelectiveColumns
  <2> QED
    BY <1>9, <2>1 DEF Given
<1>11. row[p].level # Null /\ ctx[w].new.level <= row[p].level
  BY <1>10 DEF Disordered
<1>12. ~(ctx[w].new.level > row[p].level)
  <2>1. row[p] \in Row /\ ctx[w].new \in Row
    BY <1>1 DEF TypeOK, Context
  <2>2. row[p].level \in Int /\ ctx[w].new.level \in Int
    BY <1>9, <1>11, <2>1 DEF Row
  <2> QED
    BY <1>11, <2>2
<1>13. ~ComparedWith(w, p)
  BY <1>9, <1>12 DEF AboveParent
<1>14. \/ ~Known(w, by[p].level)
       \/ ctx[w].new.belong = Null /\ ~Known(w, by[m].belong)
  BY <1>10, <1>11, <1>13 DEF ComparedWith, Given
<1>15. CASE ~Known(w, by[p].level)
  <2>1. PICK k \in WritersOf(p) : k = by[p].level
    BY DEF WritersOf
  <2>2. k \in Requests /\ k \notin saw[w] /\ pc[k] = "ok"
    BY <1>1, <1>15, <2>1, UnknownWriter
  <2>3. k \in LastWriters(m, p)'
    BY <1>4, <2>1, <2>2 DEF LastWriters
  <2> QED
    BY <1>1, <1>3, <2>2, <2>3, OverlapReason
<1>16. CASE ctx[w].new.belong = Null /\ ~Known(w, by[m].belong)
  <2>1. PICK k \in WritersOf(m) : k = by[m].belong
    BY DEF WritersOf
  <2>2. k \in Requests /\ k \notin saw[w] /\ pc[k] = "ok"
    BY <1>1, <1>16, <2>1, UnknownWriter
  <2>3. by'[m].belong = by[m].belong
    BY <1>2, <1>10, <1>16 DEF Changed, Given
  <2>4. k \in LastWriters(m, p)'
    BY <2>1, <2>2, <2>3 DEF LastWriters
  <2> QED
    BY <1>1, <1>3, <2>2, <2>4, OverlapReason
<1> QED
  BY <1>14, <1>15, <1>16

\* A row that has just been inserted is neither an agent below somebody nor a parent.
LEMMA InsertOrders ==
    ASSUME IInv, [Next]_vars, TypeOK', NEW w \in Requests, Writes(w), Inserts(w),
           NEW m \in managers', NEW p \in managers',
           row'[m].belong = p, Disordered(row'[m], row'[p])
    PROVE  m # w /\ p # w
<1>1. /\ TypeOK /\ FormOf(w) /\ pc[w] \in Pending /\ m \in Managers /\ p \in Managers
      /\ p # Null
  BY FormInvIs, RegistrationAssumption DEF IInv, TypeOK, Writes, Pending
<1>2. ASSUME m = w PROVE FALSE
  BY <1>1, <1>2 DEF Inserts, FormOf, Disordered
<1>3. ASSUME p = w, m # w PROVE FALSE
  <2>1. m \in managers /\ row'[m] = row[m]
    BY <1>1, <1>3 DEF Writes, Inserts
  <2>2. IsId(w)
    BY <1>1, <1>3, <2>1, IdInvIs DEF IInv, RowId
  <2> QED
    BY <1>1, <2>2, RegistrationAssumption DEF IsId, Pending
<1> QED
  BY <1>2, <1>3

LEMMA DisorderWrites ==
    ASSUME IInv, DisorderExplained, [Next]_vars, TypeOK', NEW w \in Requests, Writes(w),
           NEW m \in managers', NEW p \in managers',
           row'[m].belong = p, Disordered(row'[m], row'[p])
    PROVE  Reason(m, p)'
<1>0. TypeOK /\ m \in Managers /\ p \in Managers /\ ctx' = ctx
  BY DEF IInv, TypeOK, Writes
<1>1. m \in managers /\ p \in managers
  BY InsertOrders DEF Writes, Inserts, Updates
<1>2. PICK x \in Managers : x = ctx[w].m
  BY DEF Writes
<1>3. /\ \A y \in Managers : y # x => row'[y] = row[y] /\ by'[y] = by[y]
      /\ by'[x] = Changed(w, row[x], row'[x], by[x])
  BY <1>2 DEF Writes
<1>4. CASE /\ row'[m].type = row[m].type /\ row'[m].level = row[m].level
           /\ row'[m].belong = row[m].belong /\ row'[p].level = row[p].level
  <2>1. /\ by'[m].type = by[m].type /\ by'[m].level = by[m].level
        /\ by'[m].belong = by[m].belong
    <3>1. CASE m = x
      BY <1>3, <1>4, <3>1 DEF Changed
    <3>2. CASE m # x
      BY <1>0, <1>3, <3>2
    <3> QED
      BY <3>1, <3>2
  <2>2. by'[p].level = by[p].level
    <3>1. CASE p = x
      <4>1. by'[x].level = IF row'[x].level = row[x].level THEN by[x].level ELSE w
        BY <1>3 DEF Changed
      <4> QED
        BY <1>4, <3>1, <4>1
    <3>2. CASE p # x
      BY <1>0, <1>3, <3>2
    <3> QED
      BY <3>1, <3>2
  <2>3. Reason(m, p)
    BY <1>1, <1>4 DEF DisorderExplained, Disordered
  <2> QED
    BY <1>0, <2>1, <2>2, <2>3, ReasonStays
<1>5. CASE \/ row'[m].type # row[m].type \/ row'[m].level # row[m].level
           \/ row'[m].belong # row[m].belong \/ row'[p].level # row[p].level
  <2>1. m = x \/ p = x
    BY <1>0, <1>3, <1>5
  <2>2. Updates(w) /\ x \in managers
    <3>1. ~Inserts(w)
      BY <1>1, <1>2, <2>1 DEF Inserts
    <3> QED
      BY <1>2, <3>1 DEF Writes, Updates
  <2>3. w \in LastWriters(m, p)'
    <3>1. row'[p].level # row[p].level => by'[p].level = w
      BY <1>0, <1>3 DEF Changed
    <3>2. /\ row'[m].type # row[m].type => by'[m].type = w
          /\ row'[m].level # row[m].level => by'[m].level = w
          /\ row'[m].belong # row[m].belong => by'[m].belong = w
      BY <1>0, <1>3 DEF Changed
    <3> QED
      BY <1>5, <3>1, <3>2 DEF LastWriters
  <2>4. CASE Undoes(w, row[x], row'[x])
    <3>1. w \in undid'
      BY <1>2, <2>2, <2>4 DEF Updates
    <3> QED
      BY <2>3, <3>1 DEF Reason
  <2>5. CASE Refuses(w)
    BY <1>0, <2>3, <2>5 DEF Reason, Refuses
  <2>6. CASE ~Undoes(w, row[x], row'[x]) /\ ~Refuses(w) /\ row'[p].level # row[p].level
    <3>1. p = x
      BY <1>0, <1>3, <2>6
    <3>2. Reason(m, x)'
      BY <1>1, <1>2, <2>2, <2>6, <3>1, ParentDisorders
    <3> QED
      BY <3>1, <3>2
  <2>7. CASE ~Undoes(w, row[x], row'[x]) /\ ~Refuses(w) /\ row'[p].level = row[p].level
    <3>1. m = x
      BY <1>0, <1>3, <1>5, <2>7
    <3> QED
      BY <1>1, <1>2, <1>5, <2>2, <2>7, <3>1, ChildDisorders
  <2> QED
    BY <2>4, <2>5, <2>6, <2>7
<1> QED
  BY <1>4, <1>5

LEMMA DisorderStep == IInv /\ DisorderExplained /\ [Next]_vars => DisorderExplained'
<1> SUFFICES ASSUME IInv, DisorderExplained, [Next]_vars,
                    NEW m \in managers', NEW p \in managers',
                    row'[m].belong = p, Disordered(row'[m], row'[p])
             PROVE  Reason(m, p)'
  BY DEF DisorderExplained, Reason, LastWriters, Disordered
<1>0. TypeOK /\ FormInv /\ IdInv /\ TypeOK' /\ m \in Managers /\ p \in Managers
  BY InvStep DEF IInv, TypeOK
<1>1. CASE Quiet
  <2>1. Reason(m, p)
    BY <1>1 DEF DisorderExplained, Quiet
  <2> QED
    BY <1>0, <1>1, <2>1, ReasonStays DEF Quiet
<1>2. ASSUME NEW w \in Requests, Writes(w) PROVE Reason(m, p)'
  BY <1>0, <1>2, DisorderWrites
<1>3. ASSUME NEW x \in managers, Removes(x) PROVE Reason(m, p)'
  <2>1. /\ m \in managers /\ row'[m] = row[m] /\ by'[m] = by[m]
        /\ p \in managers /\ row'[p] = row[p] /\ by'[p] = by[p]
    BY <1>0, <1>3 DEF Removes, TypeOK
  <2>2. Reason(m, p)
    BY <2>1 DEF DisorderExplained
  <2> QED
    BY <1>0, <2>1, <2>2, ReasonStays
<1> QED
  BY <1>0, <1>1, <1>2, <1>3, RowForms

LEMMA DisorderInit == Init => DisorderExplained
<1> SUFFICES ASSUME Init, NEW m \in Starters, NEW p \in Starters,
                    Start[m].belong = p, Disordered(Start[m], Start[p])
             PROVE  FALSE
  BY DEF Init, DisorderExplained, Managers
<1> QED
  BY RegistrationAssumption

\* Agents stand below their parents, whatever is edited, moved and deleted, but for
\* what reviews, edits of common users, undone changes and overlaps put in disorder.
THEOREM DisorderIsExplained == Spec => []DisorderExplained
  BY Inductive, DisorderInit, DisorderStep, PTL DEF Spec

\* The lowest level in a cycle is that of a manager whose parent's level is lower.
LEMMA CycleHolds == IInv /\ DisorderExplained => CycleExplained
<1> SUFFICES ASSUME IInv, DisorderExplained, NEW cycle \in (SUBSET managers) \ {{}},
                    \A m \in cycle : row[m].belong \in cycle,
                    \A m \in cycle : /\ row[m].type = "agent"
                                     /\ row[m].level # Null
                                     /\ ~Reason(m, row[m].belong)
             PROVE  FALSE
  BY DEF CycleExplained
<1> DEFINE levels == {row[m].level : m \in cycle}
<1>1. \A m \in cycle : m \in managers /\ row[m].level \in Nat
  <2>1. \A m \in cycle : m \in managers /\ row[m] \in Row
    BY DEF IInv, TypeOK
  <2>2. \A x \in Row : x.level \in Nat \cup {Null}
    BY DEF Row
  <2> QED
    BY <2>1, <2>2
<1>2. levels # {} /\ levels \subseteq Nat
  <2>1. \E m \in cycle : TRUE
    OBVIOUS
  <2> QED
    BY <1>1, <2>1
<1>3. PICK l \in levels : \A k \in levels : l <= k
  <2> HIDE DEF levels
  <2> QED
    BY <1>2, LeastNatural
<1>4. PICK m \in cycle : row[m].level = l
  OBVIOUS
<1> DEFINE p == row[m].belong
<1>5. p \in cycle /\ row[p].level \in levels
  OBVIOUS
<1>6. ~Disordered(row[m], row[p])
  BY <1>1, <1>5 DEF DisorderExplained
<1>7. row[p].level < row[m].level
  BY <1>1, <1>5, <1>6 DEF Disordered
<1>8. l <= row[p].level /\ row[p].level \in Nat /\ l \in Nat
  BY <1>1, <1>3, <1>4, <1>5
<1> QED
  BY <1>4, <1>7, <1>8

\* The walks of getUnderlingTree, which nothing bounds, and of the division of deals
\* meet a cycle only where a common user has managers below it, a level is missing, or
\* an agent came out of order in one of the ways DisorderExplained names.
THEOREM CycleIsExplained == Spec => []CycleExplained
  BY Inductive, DisorderIsExplained, CycleHolds, PTL
-----------------------------------------------------------------------------
(* The counters of logins *)

\* Reviews between the update of their counter and their end.
AtWork(h) == pc[h] \in {"mt4", "mail", "write"}

\* Two of them do not share a counter, and the one a review waits for is past the
\* point where it could wait itself.
OnePerCounter ==
    /\ \A g, h \in Requests : AtWork(g) /\ AtWork(h) /\ ctx[g].book = ctx[h].book
                                 /\ ctx[g].book # Null => g = h
    /\ \A h \in Requests : pc[h] = "count" /\ lock[ctx[h].book] # Null =>
          LET g == lock[ctx[h].book]
          IN  g \in Requests \ {h} /\ AtWork(g) /\ ctx[g].book = ctx[h].book

\* A counter is written by one review at a time, from updateSysConfig to the commit,
\* and reviews that wait for each other's counters cannot wait in a circle
\* (ManagerServiceImpl.updateManagerReview).
THEOREM CountersAreExclusive == Spec => []OnePerCounter
<1>1. ASSUME IInv PROVE OnePerCounter
  <2>0. TypeOK /\ LockInv /\ \A h \in Requests : FormOf(h)
    BY <1>1, FormInvIs DEF IInv
  <2>1. ASSUME NEW g \in Requests, NEW h \in Requests, AtWork(g), AtWork(h),
               ctx[g].book = ctx[h].book, ctx[g].book # Null
        PROVE  g = h
    <3>1. ctx[g].book \in Books
      BY <2>0, <2>1 DEF TypeOK, Context
    <3>2. lock[ctx[g].book] = g /\ lock[ctx[g].book] = h
      BY <2>0, <2>1, <3>1 DEF LockInv, AtWork
    <3> QED
      BY <3>2
  <2>2. ASSUME NEW h \in Requests, pc[h] = "count", lock[ctx[h].book] # Null
        PROVE  /\ lock[ctx[h].book] \in Requests \ {h} /\ AtWork(lock[ctx[h].book])
               /\ ctx[lock[ctx[h].book]].book = ctx[h].book
    <3>1. ctx[h].book \in Books
      BY <2>0, <2>2 DEF FormOf, TypeOK, Context
    <3>2. PICK g \in Requests : lock[ctx[h].book] = g
      BY <2>0, <2>2, <3>1 DEF TypeOK
    <3>3. ctx[g].book = ctx[h].book /\ AtWork(g)
      BY <2>0, <3>1, <3>2 DEF LockInv, AtWork
    <3> QED
      BY <2>2, <3>2, <3>3 DEF AtWork
  <2> QED
    BY <2>1, <2>2 DEF OnePerCounter
<1> QED
  BY <1>1, Inductive, PTL
-----------------------------------------------------------------------------
(* Reviews implement the ledger *)

LEMMA LedgerInit == Init => Ledger!Init
  BY DEF Init, Ledger!Init, Recorded, Ended

ClosedRequests == {h \in Requests : pc[h] \in Ended}

LEMMA LedgerStep == IInv /\ [Next]_vars => [Ledger!Next]_(Ledger!vars)
<1> SUFFICES ASSUME IInv, [Next]_vars PROVE [Ledger!Next]_(Ledger!vars)
  OBVIOUS
<1> USE DEF Ledger!vars, Ledger!Next, Ledger!Move, Ledger!MoveUnseen, Ledger!Book,
            Ledger!Close, ClosedRequests
<1>0. TypeOK /\ \A g \in Requests : OpenedOf(g)
  BY OpenedInvIs DEF IInv
<1>1. ASSUME NEW h \in Requests, pc[h] = "idle", TurnAway(h)
      PROVE  [Ledger!Next]_(Ledger!vars)
  <2>1. Recorded' = Recorded /\ created' = created
    BY <1>0, <1>1 DEF TurnAway, Recorded, TypeOK
  <2>2. h \notin ClosedRequests /\ ClosedRequests' = ClosedRequests \cup {h}
    BY <1>0, <1>1 DEF TurnAway, TypeOK, Ended
  <2> QED
    BY <2>1, <2>2
<1>2. ASSUME NEW h \in Requests, NEW c, Reads(h, c) PROVE [Ledger!Next]_(Ledger!vars)
  <2>1. Recorded' = Recorded /\ created' = created
    BY <1>0, <1>2 DEF Reads, FirstStep, Recorded, TypeOK
  <2>2. ClosedRequests' = ClosedRequests
    BY <1>0, <1>2 DEF Reads, FirstStep, TypeOK, Ended
  <2> QED
    BY <2>1, <2>2
<1>3. ASSUME NEW h \in Requests, NEW g \in Requests, pc[h] = "idle", BeginUpload(h, g)
      PROVE  [Ledger!Next]_(Ledger!vars)
  <2>1. Recorded' = Recorded /\ created' = created
    BY <1>0, <1>3 DEF BeginUpload, Recorded, TypeOK
  <2>2. ClosedRequests' = ClosedRequests
    BY <1>0, <1>3 DEF BeginUpload, TypeOK, Ended
  <2> QED
    BY <2>1, <2>2
<1>4. ASSUME NEW h \in Requests, NEW step \in AdvanceStep, Advances(h, step), Counts(h, step)
      PROVE  [Ledger!Next]_(Ledger!vars)
  <2>1. h \notin ClosedRequests
    BY <1>4 DEF Advances, Pending, Ended
  <2>2. ClosedRequests' = IF step \in Ended THEN ClosedRequests \cup {h} ELSE ClosedRequests
    BY <1>0, <1>4, <2>1 DEF Advances, TypeOK
  <2>3. created' = created \/ (pc[h] = "mt4" /\ created' = created \cup {h})
    BY <1>4 DEF Counts, Opens
  <2>4. pc[h] = "mt4" => h \notin created
    BY <1>0 DEF OpenedOf
  <2>5. Recorded' = Recorded
    <3>1. pc[h] # "ok" /\ pc'[h] # "ok" /\ \A g \in Requests : g # h => pc'[g] = pc[g]
      BY <1>0, <1>4 DEF Advances, AdvanceStep, Pending, TypeOK
    <3> QED
      BY <1>0, <2>3, <3>1 DEF Recorded, TypeOK
  <2> QED
    BY <2>1, <2>2, <2>3, <2>4, <2>5
<1>5. ASSUME NEW h \in Requests, Insert(h) \/ Write(h) PROVE [Ledger!Next]_(Ledger!vars)
  <2>1. created' = created /\ pc[h] = "write" /\ pc' = [pc EXCEPT ![h] = "ok"]
    BY <1>5 DEF Insert, Write, Finish
  <2>2. h \notin ClosedRequests /\ ClosedRequests' = ClosedRequests \cup {h}
    BY <1>0, <2>1 DEF TypeOK, Ended
  <2>3. Recorded' = IF h \in created THEN Recorded \cup {h} ELSE Recorded
    BY <1>0, <2>1 DEF TypeOK, Recorded
  <2> QED
    BY <2>1, <2>2, <2>3
<1>6. ASSUME NEW m \in managers, Remove(m) PROVE [Ledger!Next]_(Ledger!vars)
  BY <1>6 DEF Remove, Recorded
<1>7. CASE UNCHANGED vars
  BY <1>7 DEF vars, Recorded
<1> QED
  BY <1>0, <1>1, <1>2, <1>3, <1>4, <1>5, <1>6, <1>7, StepForms

\* Reviews keep the promise of the ledger: each opens at most one account on MT4,
\* before it writes, and writes a login only after MT4 confirmed it.
THEOREM ImplementsLedger == Spec => LedgerSpec
  BY Inductive, LedgerInit, LedgerStep, PTL DEF Spec, LedgerSpec, Ledger!Spec

\* A login recorded by a review is of an account MT4 opened for that review, and a
\* review that has ended opens none any more (updateManagerReview).
THEOREM AccountsSettle == Spec => []Ledger!Covered /\ [][Ledger!Settles]_(Ledger!vars)
  BY ImplementsLedger, Ledger!RecordsAreCovered, Ledger!RequestsSettle, PTL DEF LedgerSpec
=============================================================================
