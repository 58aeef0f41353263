--------------------------- MODULE SessionsProofs ---------------------------
(***************************************************************************)
(* Proofs about Sessions for every finite set of requests and sessions and *)
(* every limit.                                                            *)
(***************************************************************************)
EXTENDS Sessions, FiniteSetTheorems, TLAPS

(* The inductive invariant *)

Counting == {"clear", "wrong", "in", "refused"}

\* A request that has ended before r began is the same ever since.
SawInv == \A r \in Requests : saw[r] \subseteq {q \in Requests : pc[q] \in Ended}

\* What a request works with: log-ins a counter and visits a queue, which is named
\* by the log-in or visit that made it.
UsesOf(r) ==
    /\ (pc[r] = "idle") <=> (session[r] = Null)
    /\ pc[r] \in {"idle", "retry", "newCount", "get", "put"} => uses[r] = Null
    /\ pc[r] \in {"count"} \cup Counting => uses[r] \in Makers(Logins)
    /\ r \in Visits /\ pc[r] \notin {"get", "put"} => uses[r] \in Makers(Visits)
    /\ (victim[r] # Null) => r \in Visits /\ pc[r] \notin {"get", "put", "look", "push"}
    /\ pc[r] = "mark" => victim[r] # Null

UsesInv ==
    /\ \A r \in Requests : UsesOf(r)
    /\ retryCache # Null => retryCache \in Makers(Logins)
    /\ cache # Null => cache \in Makers(Visits)

\* A counter counts the log-ins that came to the comparison, and who logs in leaves
\* it behind.
Counted(c) == {q \in Requests : uses[q] = c /\ pc[q] \in Counting}

CountInv ==
    /\ \A c \in Requests : Cardinality(Counted(c)) = retryCount[c]
    /\ \A q \in Requests : pc[q] = "in" =>
          /\ retryCache # uses[q]
          /\ \A r \in Requests : pc[r] = "count" /\ uses[r] = uses[q] => q \notin saw[r]

Wrong == {r \in Requests : pc[r] = "wrong"}

\* The log-ins that failed have numbers up to MaxRetry, each its own of its counter.
Numbers(f) ==
    /\ f \in [Wrong -> Requests \X Nat]
    /\ \A r \in Wrong : /\ f[r][1] = uses[r]
                        /\ f[r][2] \in 1..MaxRetry
                        /\ f[r][2] <= retryCount[uses[r]]
    /\ \A q, r \in Wrong : f[q] = f[r] => q = r

WrongInv == \E f : Numbers(f)

\* Why there can be a second counter, or a second queue.
Forgotten == drops > 0 \/ \E p \in Logins : pc[p] = "in"

CounterInv ==
    /\ ~Forgotten /\ retryCache = Null => Makers(Logins) = {}
    /\ \A q \in Makers(Logins), r \in Requests :
          q # r /\ (r \in Makers(Logins) \/ pc[r] = "newCount") => Forgotten \/ Overlap(q, r)

QueueInv ==
    /\ drops = 0 /\ cache = Null => Makers(Visits) = {}
    /\ \A q \in Makers(Visits), r \in Requests :
          q # r /\ (r \in Makers(Visits) \/ pc[r] = "put") => drops > 0 \/ Overlap(q, r)

\* A queue is too long only while somebody is about to shorten it, and whoever came
\* through has its session in the queue unless it was told to leave.
LengthInv ==
    torn = {} =>
       \A d \in Requests : Len(deque[d]) > maxSession =>
          \E r \in Requests : uses[r] = d /\ pc[r] \in {"size", "remove", "mark"}

MemberInv ==
    torn = {} =>
       \A r \in Requests : pc[r] \in {"size", "remove", "mark", "answer", "passed"} =>
          \/ session[r] \in Members(deque[uses[r]])
          \/ session[r] \in kickout
          \/ state[session[r]] = "over"
          \/ \E q \in Requests : pc[q] = "mark" /\ victim[q] = session[r]

\* The entries of the log are of requests that came to put their session in, once.
LogInv ==
    /\ \A i \in DOMAIN log : /\ log[i] \in Visits
                             /\ pc[log[i]] \notin {"get", "put", "look", "push"}
    /\ \A i, j \in DOMAIN log : log[i] = log[j] => i = j

\* What a queue holds came in by the log, the latest at the head.
Places(d, k) ==
    /\ k \in [1..Len(deque[d]) -> DOMAIN log]
    /\ \A j \in 1..Len(deque[d]) : Entered(k[j], deque[d][j], d)
    /\ \A i, j \in 1..Len(deque[d]) : i < j => k[j] < k[i]

PlaceInv == torn = {} => \A d \in Requests : \E k : Places(d, k)

\* Two requests that overlapped put one session into one queue.
Twice ==
    \E q, r \in Visits :
        /\ Overlap(q, r) /\ uses[q] = uses[r]
        /\ q \in Members(log) /\ r \in Members(log) /\ session[q] = session[r]

TwiceInv ==
    torn = {} =>
       /\ Twice \/ \A d \in Requests : \A i, j \in DOMAIN deque[d] :
                      deque[d][i] = deque[d][j] => i = j
       /\ \A r \in Requests : pc[r] = "push" /\ session[r] \in Members(Queue(r)) =>
             \E q \in Members(log) : /\ Overlap(q, r) /\ uses[q] = uses[r]
                                     /\ session[q] = session[r]

\* What KickExplained says of a session.
Kicked(s) ==
    \/ \E i \in DOMAIN log :
          session[log[i]] = s /\ Cardinality(Later(i) \ {s}) >= maxSession
    \/ torn # {}
    \/ \E q, r \in Visits :
          /\ Overlap(q, r)
          /\ uses[q] = uses[r]
          /\ \/ q \in Members(log) /\ r \in Members(log) /\ session[q] = session[r]
             \/ victim[q] # Null /\ victim[r] # Null

KickInv ==
    /\ \A s \in kickout : Kicked(s)
    /\ \A r \in Requests : pc[r] = "mark" => Kicked(victim[r])
    /\ \A r \in Requests : pc[r] = "remove" =>
          \/ torn # {}
          \/ Len(Queue(r)) > maxSession
          \/ \E q \in Visits : Overlap(q, r) /\ uses[q] = uses[r] /\ victim[q] # Null

IInv ==
    /\ TypeOK /\ SawInv /\ UsesInv
    /\ CountInv /\ WrongInv /\ RefusedExplained /\ CounterInv
    /\ QueueInv /\ LengthInv /\ MemberInv /\ LogInv /\ PlaceInv /\ TwiceInv /\ KickInv
-----------------------------------------------------------------------------
(* The forms a step can take *)

\* Request r, alone, goes to a step.
Moves(r, step) ==
    /\ pc' = [pc EXCEPT ![r] = step]
    /\ \A q \in Requests \ {r} : /\ session'[q] = session[q] /\ uses'[q] = uses[q]
                                 /\ victim'[q] = victim[q] /\ saw'[q] = saw[q]
    /\ pc[r] # "idle" => session'[r] = session[r] /\ saw'[r] = saw[r]

AtLogin(r) ==
    /\ pc[r] \in LoginStep \cup {"idle"}
    /\ \E step \in LoginStep \cup {"wrong", "in", "refused"} : Moves(r, step)
    /\ pc[r] \notin {"retry", "newCount"} => uses' = uses
    /\ victim' = victim
    /\ \A s \in SessionIds : state[s] = "over" <=> state'[s] = "over"
    /\ UNCHANGED <<kickout, queueVars, drops>>

AtFilter(r) ==
    /\ pc[r] \in FilterStep \cup {"idle"}
    /\ \E step \in FilterStep \cup {"passed", "out", "error"} : Moves(r, step)
    /\ pc[r] \notin {"get", "put"} => uses' = uses
    /\ UNCHANGED <<retryVars, drops>>

\* No request moves.
Rests ==
    /\ UNCHANGED <<pc, session, uses, victim, saw, deque, torn, log, kickout, retryCount>>
    /\ \A s \in SessionIds : state[s] = "over" => state'[s] = "over"
    /\ retryCache' = retryCache \/ (retryCache' = Null /\ drops' = drops + 1)
    /\ cache' = cache \/ (cache' = Null /\ drops' = drops + 1)
    /\ drops' = drops \/ drops' = drops + 1

LEMMA Fixed == Null \notin Requests /\ Null \notin SessionIds
  BY SessionsAssumption

LEMMA LoginMoves ==
    ASSUME TypeOK, NEW r \in Requests,
           LoginStepOf(r) \/ \E s \in SessionIds : Login(r, s)
    PROVE  AtLogin(r)
<1> USE DEF AtLogin, Moves, Goto, TypeOK, LoginStep, sessionVars, queueVars, contextVars
<1>1. ASSUME NEW s \in SessionIds, Login(r, s) PROVE AtLogin(r)
  BY <1>1 DEF Login, Begin
<1>2. CASE FindCount(r)
  BY <1>2 DEF FindCount
<1>3. CASE PutCount(r)
  BY <1>3 DEF PutCount
<1>4. CASE Count(r)
  BY <1>4 DEF Count
<1>5. CASE Enter(r)
  BY <1>5 DEF Enter, LoggedIn
<1> QED
  BY <1>1, <1>2, <1>3, <1>4, <1>5 DEF LoginStepOf

LEMMA FilterMoves ==
    ASSUME TypeOK, NEW r \in Requests,
           FilterStepOf(r) \/ \E s \in SessionIds : Visit(r, s)
    PROVE  AtFilter(r)
<1> USE DEF AtFilter, Moves, Goto, TypeOK, FilterStep, retryVars, contextVars
<1>1. ASSUME NEW s \in SessionIds, Visit(r, s) PROVE AtFilter(r)
  BY <1>1 DEF Visit, Begin
<1>2. CASE Get(r) \/ Put(r)
  BY <1>2 DEF Get, Put
<1>3. CASE Look(r)
  BY <1>3 DEF Look
<1>4. CASE Push(r)
  BY <1>4 DEF Push
<1>5. CASE Size(r)
  BY <1>5 DEF Size
<1>6. CASE Remove(r) \/ RemoveNone(r)
  BY <1>6 DEF Remove, RemoveNone
<1>7. CASE Mark(r)
  BY <1>7 DEF Mark
<1>8. CASE Wander(r)
  BY <1>8 DEF Wander
<1>9. CASE Answer(r)
  BY <1>9 DEF Answer
<1> QED
  BY <1>1, <1>2, <1>3, <1>4, <1>5, <1>6, <1>7, <1>8, <1>9 DEF FilterStepOf

LEMMA RestForms ==
    ASSUME TypeOK,
           DropCount \/ DropQueue \/ UNCHANGED vars \/ \E s \in SessionIds : End(s)
    PROVE  Rests
<1>1. ASSUME NEW s \in SessionIds, End(s) PROVE Rests
  BY <1>1 DEF Rests, End, TypeOK, queueVars, retryVars, contextVars
<1>2. CASE DropCount \/ DropQueue \/ UNCHANGED vars
  BY <1>2 DEF Rests, DropCount, DropQueue, vars, sessionVars, queueVars, retryVars, contextVars
<1> QED
  BY <1>1, <1>2

LEMMA LoginForms ==
    ASSUME TypeOK, [Next]_vars,
           NEW P,
           ASSUME NEW r \in Requests, NEW s \in SessionIds, Login(r, s) PROVE P,
           ASSUME NEW r \in Requests, FindCount(r) PROVE P,
           ASSUME NEW r \in Requests, PutCount(r) PROVE P,
           ASSUME NEW r \in Requests, Count(r) PROVE P,
           ASSUME NEW r \in Requests, Enter(r) PROVE P,
           ASSUME NEW r \in Requests, AtFilter(r) PROVE P,
           Rests => P
    PROVE  P
<1>1. ASSUME NEW r \in Requests, NEW s \in SessionIds, Visit(r, s) PROVE P
  BY <1>1, FilterMoves
<1>2. ASSUME NEW r \in Requests, FilterStepOf(r) PROVE P
  BY <1>2, FilterMoves
<1>3. ASSUME NEW r \in Requests, LoginStepOf(r) PROVE P
  BY <1>3 DEF LoginStepOf
<1> QED
  BY <1>1, <1>2, <1>3, RestForms DEF Next

LEMMA FilterForms ==
    ASSUME TypeOK, [Next]_vars,
           NEW P,
           ASSUME NEW r \in Requests, AtLogin(r) PROVE P,
           ASSUME NEW r \in Requests, NEW s \in SessionIds, Visit(r, s) PROVE P,
           ASSUME NEW r \in Requests, FilterStepOf(r) PROVE P,
           Rests => P
    PROVE  P
<1>1. ASSUME NEW r \in Requests, NEW s \in SessionIds, Login(r, s) PROVE P
  BY <1>1, LoginMoves
<1>2. ASSUME NEW r \in Requests, LoginStepOf(r) PROVE P
  BY <1>2, LoginMoves
<1> QED
  BY <1>1, <1>2, RestForms DEF Next
-----------------------------------------------------------------------------
(* Types *)

LEMMA TypeInit == Init => TypeOK
  BY SessionsAssumption DEF Init, TypeOK

LEMMA ListTypes ==
    ASSUME NEW q \in Seq(SessionIds), NEW s \in SessionIds
    PROVE  /\ <<s>> \o q \in Seq(SessionIds)
           /\ Len(<<s>> \o q) = Len(q) + 1
           /\ (<<s>> \o q)[1] = s
           /\ \A i \in 1..Len(q) : (<<s>> \o q)[i + 1] = q[i]
           /\ q # <<>> => /\ Len(q) \in Nat \ {0}
                          /\ q[Len(q)] \in SessionIds
                          /\ SubSeq(q, 1, Len(q) - 1) \in Seq(SessionIds)
                          /\ Len(SubSeq(q, 1, Len(q) - 1)) = Len(q) - 1
                          /\ \A i \in 1..(Len(q) - 1) : SubSeq(q, 1, Len(q) - 1)[i] = q[i]
  OBVIOUS

LEMMA ChangeType ==
    ASSUME TypeOK, NEW r \in Requests, NEW list \in Seq(SessionIds),
           uses[r] \in Requests, Change(r, list)
    PROVE  deque' \in [Requests -> Seq(SessionIds)] /\ torn' \subseteq Requests
<1>1. PICK l \in Seq(SessionIds), t \in SUBSET Requests :
         deque' = [deque EXCEPT ![uses[r]] = l] /\ torn' = t
  <2>1. <<>> \in Seq(SessionIds)
    OBVIOUS
  <2>2. torn \in SUBSET Requests /\ torn \cup {uses[r]} \in SUBSET Requests
    BY DEF TypeOK
  <2>3. CASE deque' = [deque EXCEPT ![uses[r]] = list] /\ torn' = torn
    BY <2>2, <2>3
  <2>4. CASE deque' = [deque EXCEPT ![uses[r]] = <<>>] /\ torn' = torn \cup {uses[r]}
    BY <2>1, <2>2, <2>4
  <2> QED
    BY <2>3, <2>4 DEF Change
<1>2. deque \in [Requests -> Seq(SessionIds)]
  BY DEF TypeOK
<1> QED
  BY <1>1, <1>2

LEMMA LoginType ==
    ASSUME TypeOK, NEW r \in Requests, UsesOf(r),
           LoginStepOf(r) \/ \E s \in SessionIds : Login(r, s)
    PROVE  TypeOK'
<1> USE DEF Goto, TypeOK, LoginStep, FilterStep, Ended, sessionVars, queueVars, retryVars,
        contextVars
<1>1. ASSUME NEW s \in SessionIds, Login(r, s) PROVE TypeOK'
  BY <1>1 DEF Login, Begin
<1>2. CASE FindCount(r)
  BY <1>2 DEF FindCount
<1>3. CASE PutCount(r)
  BY <1>3 DEF PutCount
<1>4. CASE Count(r)
  <2>1. uses[r] \in Requests
    BY <1>4 DEF Count, UsesOf, Makers, Logins
  <2>2. retryCount' \in [Requests -> Nat]
    BY <1>4, <2>1 DEF Count
  <2>3. pc' \in [Requests -> {"idle"} \cup LoginStep \cup FilterStep \cup Ended]
    BY <1>4 DEF Count
  <2> QED
    BY <1>4, <2>2, <2>3 DEF Count
<1>5. CASE Enter(r)
  BY <1>5 DEF Enter, LoggedIn
<1> QED
  BY <1>1, <1>2, <1>3, <1>4, <1>5 DEF LoginStepOf

LEMMA FilterType ==
    ASSUME TypeOK, \A q \in Requests : UsesOf(q), NEW r \in Requests,
           FilterStepOf(r) \/ \E s \in SessionIds : Visit(r, s)
    PROVE  TypeOK'
<1>0. pc[r] \in FilterStep \ {"get", "put"} => uses[r] \in Requests /\ session[r] \in SessionIds
  BY DEF UsesOf, Makers, Visits, TypeOK, FilterStep
<1>1. ASSUME NEW s \in SessionIds, Visit(r, s) PROVE TypeOK'
  BY <1>1 DEF Visit, Begin, Goto, TypeOK, FilterStep, sessionVars, queueVars, retryVars
<1>2. CASE Get(r)
  BY <1>2 DEF Get, Goto, TypeOK, FilterStep, sessionVars, queueVars, retryVars, contextVars
<1>3. CASE Put(r)
  BY <1>3 DEF Put, Goto, TypeOK, FilterStep, sessionVars, queueVars, retryVars, contextVars
<1>4. CASE Look(r)
  <2>1. \E step \in {"size", "error", "push"} : pc' = [pc EXCEPT ![r] = step]
    BY <1>4 DEF Look, Goto
  <2>2. pc' \in [Requests -> {"idle"} \cup LoginStep \cup FilterStep \cup Ended]
    BY <2>1 DEF TypeOK, FilterStep, Ended
  <2>3. UNCHANGED <<sessionVars, queueVars, retryVars, drops, uses, contextVars>>
    BY <1>4 DEF Look
  <2> QED
    BY <2>2, <2>3 DEF TypeOK, sessionVars, queueVars, retryVars, contextVars
<1>5. CASE Push(r)
  <2>1. uses[r] \in Requests /\ session[r] \in SessionIds /\ Queue(r) \in Seq(SessionIds)
    BY <1>0, <1>5 DEF Push, FilterStep, Queue, TypeOK
  <2>2. deque' \in [Requests -> Seq(SessionIds)] /\ torn' \subseteq Requests
    BY <1>5, <2>1, ListTypes, ChangeType DEF Push
  <2>3. log' \in Seq(Requests)
    BY <1>5 DEF Push, TypeOK
  <2> QED
    BY <1>5, <2>2, <2>3 DEF Push, Goto, TypeOK, FilterStep, sessionVars, retryVars,
       contextVars
<1>6. CASE Size(r)
  BY <1>6 DEF Size, Goto, TypeOK, FilterStep, sessionVars, queueVars, retryVars, contextVars
<1>7. CASE Remove(r)
  <2>1. uses[r] \in Requests /\ Queue(r) \in Seq(SessionIds) /\ Queue(r) # <<>>
    BY <1>0, <1>7 DEF Remove, FilterStep, Queue, TypeOK
  <2>2. /\ Queue(r)[Len(Queue(r))] \in SessionIds
        /\ SubSeq(Queue(r), 1, Len(Queue(r)) - 1) \in Seq(SessionIds)
    BY <2>1, ListTypes
  <2>3. deque' \in [Requests -> Seq(SessionIds)] /\ torn' \subseteq Requests
    BY <1>7, <2>1, <2>2, ChangeType DEF Remove
  <2>4. victim' \in [Requests -> SessionIds \cup {Null}]
    BY <1>7, <2>2 DEF Remove, TypeOK
  <2> QED
    BY <1>7, <2>3, <2>4 DEF Remove, Goto, TypeOK, FilterStep, sessionVars, retryVars
<1>8. CASE RemoveNone(r)
  BY <1>8 DEF RemoveNone, Goto, TypeOK, Ended, sessionVars, queueVars, retryVars, contextVars
<1>9. CASE Mark(r)
  <2>1. victim[r] \in SessionIds
    BY <1>9 DEF Mark, UsesOf, TypeOK
  <2> QED
    BY <1>9, <2>1 DEF Mark, Marked, Goto, TypeOK, FilterStep, queueVars, retryVars, contextVars
<1>10. CASE Wander(r)
  <2>1. kickout' \subseteq SessionIds
    <3>1. ASSUME NEW q \in Requests, uses[q] = uses[r], kickout' = Marked(session[q])
          PROVE  kickout' \subseteq SessionIds
      <4>1. uses[r] # Null
        BY <1>0, <1>10, Fixed DEF Wander, FilterStep
      <4>2. pc[q] # "idle"
        BY <3>1, <4>1 DEF UsesOf
      <4>3. session[q] \in SessionIds
        BY <4>2 DEF UsesOf, TypeOK
      <4> QED
        BY <3>1, <4>3 DEF Marked, TypeOK
    <3> QED
      BY <1>10, <3>1 DEF Wander, TypeOK
  <2>2. pc' \in [Requests -> {"idle"} \cup LoginStep \cup FilterStep \cup Ended]
    BY <1>10 DEF Wander, Goto, TypeOK, FilterStep, Ended
  <2>3. UNCHANGED <<state, queueVars, retryVars, drops, uses, contextVars>>
    BY <1>10 DEF Wander
  <2> QED
    BY <2>1, <2>2, <2>3 DEF TypeOK, queueVars, retryVars, contextVars
<1>11. CASE Answer(r)
  <2>1. \E step \in {"passed", "error", "out"} : pc' = [pc EXCEPT ![r] = step]
    BY <1>11 DEF Answer, Goto
  <2>2. pc' \in [Requests -> {"idle"} \cup LoginStep \cup FilterStep \cup Ended]
    BY <2>1 DEF TypeOK, Ended
  <2>3. state' \in [SessionIds -> {"new", "live", "over"}]
    BY <1>11 DEF Answer, TypeOK
  <2>4. UNCHANGED <<kickout, queueVars, retryVars, drops, uses, contextVars>>
    BY <1>11 DEF Answer
  <2> QED
    BY <2>2, <2>3, <2>4 DEF TypeOK, queueVars, retryVars, contextVars
<1> QED
  BY <1>1, <1>2, <1>3, <1>4, <1>5, <1>6, <1>7, <1>8, <1>9, <1>10, <1>11 DEF FilterStepOf

LEMMA TypeStep == TypeOK /\ UsesInv /\ [Next]_vars => TypeOK'
<1> SUFFICES ASSUME TypeOK, \A r \in Requests : UsesOf(r), [Next]_vars PROVE TypeOK'
  BY DEF UsesInv
<1>1. ASSUME NEW r \in Requests, NEW s \in SessionIds, Login(r, s) \/ Visit(r, s)
      PROVE  TypeOK'
  BY <1>1, LoginType, FilterType
<1>2. ASSUME NEW r \in Requests, LoginStepOf(r) \/ FilterStepOf(r) PROVE TypeOK'
  BY <1>2, LoginType, FilterType
<1>3. ASSUME NEW s \in SessionIds, End(s) PROVE TypeOK'
  BY <1>3 DEF End, TypeOK, queueVars, retryVars, contextVars
<1>4. CASE DropCount \/ DropQueue
  BY <1>4, SessionsAssumption
     DEF DropCount, DropQueue, TypeOK, sessionVars, queueVars, retryVars, contextVars
<1>5. CASE UNCHANGED vars
  BY <1>5 DEF TypeOK, vars
<1> QED
  BY <1>1, <1>2, <1>3, <1>4, <1>5 DEF Next
-----------------------------------------------------------------------------
(* What no step takes back *)

LEMMA Forms ==
    ASSUME TypeOK, [Next]_vars
    PROVE  Rests \/ \E r \in Requests : AtLogin(r) \/ AtFilter(r)
  BY LoginMoves, FilterMoves, RestForms DEF Next

\* Of requests.
Progress ==
    /\ \A r \in Requests : pc[r] # "idle" =>
          pc'[r] # "idle" /\ session'[r] = session[r] /\ saw'[r] = saw[r]
    /\ \A r \in Requests : pc[r] \in Ended => pc'[r] = pc[r]
    /\ \A r \in Requests : uses[r] # Null => uses'[r] = uses[r]
    /\ \A r \in Requests : r \in Logins => r \in Logins'
    /\ \A r \in Requests : r \in Visits => r \in Visits'
    /\ drops > 0 => drops' > 0

LEMMA Progresses == TypeOK /\ UsesInv /\ [Next]_vars => Progress
<1> SUFFICES ASSUME TypeOK, UsesInv, [Next]_vars PROVE Progress
  OBVIOUS
<1>0. \A r \in Requests : UsesOf(r)
  BY DEF UsesInv
<1>1. ASSUME NEW r \in Requests, AtLogin(r) \/ AtFilter(r) PROVE Progress
  <2>1. PICK step : Moves(r, step) /\ step \in LoginStep \cup FilterStep \cup Ended
    BY <1>1 DEF AtLogin, AtFilter, Ended
  <2>2. pc[r] \notin Ended /\ step # "idle"
    BY <1>1, <2>1 DEF AtLogin, AtFilter, LoginStep, FilterStep, Ended
  <2>3. drops' = drops
    BY <1>1 DEF AtLogin, AtFilter
  <2>4. \A q \in Requests \ {r} : pc'[q] = pc[q]
    BY <2>1 DEF Moves, TypeOK
  <2>5. pc'[r] = step
    BY <2>1 DEF Moves, TypeOK
  <2>6. (r \in Logins => r \in Logins') /\ (r \in Visits => r \in Visits')
    <3>1. CASE AtLogin(r)
      <4>1. pc'[r] \in LoginStep \cup {"wrong", "in", "refused"}
        BY <3>1 DEF AtLogin, Moves, TypeOK
      <4>2. r \notin Visits
        BY <3>1 DEF AtLogin, Visits, LoginStep, FilterStep
      <4> QED
        BY <4>1, <4>2 DEF Logins
    <3>2. CASE AtFilter(r)
      <4>1. pc'[r] \in FilterStep \cup {"passed", "out", "error"}
        BY <3>2 DEF AtFilter, Moves, TypeOK
      <4>2. r \notin Logins
        BY <3>2 DEF AtFilter, Logins, LoginStep, FilterStep
      <4> QED
        BY <4>1, <4>2 DEF Visits
    <3> QED
      BY <1>1, <3>1, <3>2
  <2>7. \A q \in Requests \ {r} : (q \in Logins => q \in Logins') /\ (q \in Visits => q \in Visits')
    BY <2>4 DEF Logins, Visits
  <2>8. uses[r] # Null => uses'[r] = uses[r]
    BY <1>0, <1>1 DEF AtFilter, AtLogin, UsesOf
  <2> QED
    BY <2>1, <2>2, <2>3, <2>4, <2>5, <2>6, <2>7, <2>8 DEF Moves, Progress
<1>2. CASE Rests
  BY <1>2 DEF Rests, Progress, Logins, Visits, TypeOK
<1> QED
  BY <1>1, <1>2, Forms

\* Of sessions, queues and the log.
Remains ==
    /\ torn \subseteq torn'
    /\ kickout \subseteq kickout'
    /\ \A s \in SessionIds : state[s] = "over" => state'[s] = "over"
    /\ \A r \in Requests : victim[r] # Null => victim'[r] # Null
    /\ log' = log \/ \E r \in Requests : pc[r] = "push" /\ log' = Append(log, r)

LEMMA Remain == TypeOK /\ UsesInv /\ [Next]_vars => Remains
<1> SUFFICES ASSUME TypeOK, UsesInv, [Next]_vars PROVE Remains
  OBVIOUS
<1> DEFINE Goal == Remains
<1> SUFFICES Goal
  OBVIOUS
<1>1. ASSUME NEW r \in Requests, AtLogin(r) PROVE Goal
  BY <1>1 DEF AtLogin, Remains, queueVars
<1>2. ASSUME NEW r \in Requests, NEW s \in SessionIds, Visit(r, s) PROVE Goal
  BY <1>2 DEF Visit, Begin, Remains, sessionVars, queueVars
<1>3. ASSUME NEW r \in Requests, FilterStepOf(r) PROVE Goal
  <2>1. CASE Get(r) \/ Put(r) \/ Look(r) \/ Size(r) \/ RemoveNone(r)
    BY <2>1 DEF Get, Put, Look, Size, RemoveNone, Remains, sessionVars, queueVars, contextVars
  <2>2. CASE Push(r)
    BY <2>2 DEF Push, Change, Remains, sessionVars, contextVars
  <2>3. CASE Remove(r)
    <3>1. victim' = [victim EXCEPT ![r] = Queue(r)[Len(Queue(r))]]
      BY <2>3 DEF Remove
    <3>2. Queue(r)[Len(Queue(r))] # Null
      <4>1. pc[r] = "remove" /\ UsesOf(r) /\ r \in Visits
        BY <2>3 DEF Remove, UsesInv, Visits, FilterStep
      <4>2. uses[r] \in Requests
        BY <4>1 DEF UsesOf, Makers, Visits
      <4>3. Queue(r) \in Seq(SessionIds) /\ Queue(r) # <<>>
        BY <4>2, <2>3 DEF Remove, Queue, TypeOK
      <4> QED
        BY <4>3, ListTypes, Fixed
    <3>3. torn \subseteq torn'
      BY <2>3 DEF Remove, Change
    <3> QED
      BY <2>3, <3>1, <3>2, <3>3 DEF Remove, Remains, sessionVars, TypeOK
  <2>4. CASE Mark(r)
    BY <2>4 DEF Mark, Marked, Remains, queueVars, contextVars
  <2>5. CASE Wander(r)
    BY <2>5 DEF Wander, Marked, Remains, queueVars, contextVars
  <2>6. CASE Answer(r)
    BY <2>6 DEF Answer, Remains, queueVars, contextVars, TypeOK
  <2> QED
    BY <1>3, <2>1, <2>2, <2>3, <2>4, <2>5, <2>6 DEF FilterStepOf
<1>4. Rests => Goal
  BY DEF Rests, Remains
<1> HIDE DEF Goal
<1> QED
  BY <1>1, <1>2, <1>3, <1>4, FilterForms

LEMMA OverlapRemains ==
    ASSUME Progress, NEW q \in Requests, NEW r \in Requests, pc[q] # "idle", pc[r] # "idle"
    PROVE  Overlap(q, r)' <=> Overlap(q, r)
  BY DEF Overlap, Progress

LEMMA LogRemains ==
    ASSUME TypeOK, Remains
    PROVE  /\ DOMAIN log \subseteq DOMAIN log'
           /\ \A i \in DOMAIN log : log'[i] = log[i]
<1>1. log \in Seq(Requests)
  BY DEF TypeOK
<1>2. ASSUME NEW r \in Requests, log' = Append(log, r)
      PROVE  /\ DOMAIN log \subseteq DOMAIN log'
             /\ \A i \in DOMAIN log : log'[i] = log[i]
  BY <1>1, <1>2
<1> QED
  BY <1>2 DEF Remains
-----------------------------------------------------------------------------
(* What requests saw and what they use *)

LEMMA SawStep == TypeOK /\ UsesInv /\ SawInv /\ [Next]_vars => SawInv'
<1> SUFFICES ASSUME TypeOK, UsesInv, SawInv, [Next]_vars, NEW r \in Requests
             PROVE  saw'[r] \subseteq {q \in Requests : pc'[q] \in Ended}
  BY DEF SawInv
<1>1. Progress
  BY Progresses
<1>2. {q \in Requests : pc[q] \in Ended} \subseteq {q \in Requests : pc'[q] \in Ended}
  BY <1>1 DEF Progress
<1>3. saw'[r] = saw[r] \/ saw'[r] = {q \in Requests : pc[q] \in Ended}
  <2>1. ASSUME NEW q \in Requests, NEW s \in SessionIds, NEW step, Begin(q, s, step)
        PROVE  saw'[r] = saw[r] \/ saw'[r] = {p \in Requests : pc[p] \in Ended}
    BY <2>1 DEF Begin, TypeOK
  <2>2. ASSUME NEW q \in Requests, LoginStepOf(q) \/ FilterStepOf(q) PROVE saw' = saw
    BY <2>2 DEF LoginStepOf, FilterStepOf, FindCount, PutCount, Count, Enter, Get, Put, Look,
       Push, Size, Remove, RemoveNone, Mark, Wander, Answer, contextVars
  <2> QED
    BY <2>1, <2>2, RestForms DEF Next, Login, Visit, Rests
<1> QED
  BY <1>2, <1>3 DEF SawInv

LEMMA UsesStep == TypeOK /\ UsesInv /\ [Next]_vars => UsesInv'
<1> SUFFICES ASSUME TypeOK, UsesInv, [Next]_vars PROVE UsesInv'
  OBVIOUS
<1>0. TypeOK' /\ Progress /\ Remains
  BY TypeStep, Progresses, Remain
<1>1. /\ Makers(Logins) \subseteq Makers(Logins)'
      /\ Makers(Visits) \subseteq Makers(Visits)'
  BY <1>0, Fixed DEF Makers, Progress, Logins, Visits
<1>2. ASSUME NEW r \in Requests, AtLogin(r) \/ AtFilter(r), NEW q \in Requests \ {r}
      PROVE  UsesOf(q)'
  <2>1. pc'[q] = pc[q] /\ session'[q] = session[q] /\ uses'[q] = uses[q] /\ victim'[q] = victim[q]
    BY <1>2 DEF AtLogin, AtFilter, Moves, TypeOK
  <2>2. q \in Visits' <=> q \in Visits
    BY <2>1 DEF Visits
  <2>3. UsesOf(q)
    BY DEF UsesInv
  <2>4. uses[q] \in Makers(Logins) => uses[q] \in Makers(Logins)'
    BY <1>1
  <2>5. uses[q] \in Makers(Visits) => uses[q] \in Makers(Visits)'
    BY <1>1
  <2> QED
    BY <2>1, <2>2, <2>3, <2>4, <2>5 DEF UsesOf
<1>3. ASSUME Rests, NEW q \in Requests PROVE UsesOf(q)'
  BY <1>3 DEF Rests, UsesOf, UsesInv, Makers, Logins, Visits
<1>4. ASSUME NEW r \in Requests, NEW s \in SessionIds, Login(r, s) \/ Visit(r, s)
      PROVE  UsesOf(r)'
  <2>1. UsesOf(r) /\ pc[r] = "idle" /\ r \notin Visits
    BY <1>4 DEF Login, Visit, Begin, UsesInv, Visits, FilterStep
  <2>2. session'[r] = s /\ uses'[r] = Null /\ victim'[r] = Null
    BY <1>4, <2>1 DEF Login, Visit, Begin, UsesOf, TypeOK
  <2>3. pc'[r] \in {"retry", "get"}
    BY <1>4 DEF Login, Visit, Begin, Goto, TypeOK
  <2>4. pc'[r] = "retry" => r \notin Visits'
    BY DEF Visits, FilterStep
  <2> QED
    BY <2>2, <2>3, <2>4, Fixed DEF UsesOf, Counting
<1>5. ASSUME NEW r \in Requests, LoginStepOf(r) PROVE UsesOf(r)'
  <2>1. UsesOf(r) /\ pc[r] \in LoginStep /\ victim' = victim /\ session' = session
    BY <1>5 DEF UsesInv, LoginStepOf, FindCount, PutCount, Count, Enter, LoginStep, contextVars
  <2>2. r \notin Visits /\ pc[r] # "idle"
    BY <2>1 DEF Visits, LoginStep, FilterStep
  <2>3. victim'[r] = Null /\ session'[r] # Null
    BY <2>1, <2>2 DEF UsesOf
  <2>4. pc'[r] \in {"newCount", "count"} \cup Counting
    BY <1>5 DEF LoginStepOf, FindCount, PutCount, Count, Enter, Goto, Counting, TypeOK
  <2>5. pc'[r] = "newCount" => uses'[r] = Null
    BY <1>5, <2>1 DEF LoginStepOf, FindCount, PutCount, Count, Enter, Goto, TypeOK, UsesOf
  <2>6. pc'[r] # "newCount" => uses'[r] \in Makers(Logins)'
    <3>1. CASE FindCount(r)
      BY <1>1, <3>1 DEF FindCount, Goto, TypeOK, UsesInv
    <3>2. CASE PutCount(r)
      BY <3>2 DEF PutCount, Goto, TypeOK, Makers, Logins, LoginStep
    <3>3. CASE Count(r) \/ Enter(r)
      <4>1. uses[r] \in Makers(Logins) /\ uses' = uses
        BY <2>1, <3>3 DEF Count, Enter, UsesOf, Counting
      <4> QED
        BY <1>1, <4>1
    <3> QED
      BY <1>5, <3>1, <3>2, <3>3 DEF LoginStepOf
  <2>7. r \notin Visits'
    BY <2>4 DEF Visits, FilterStep, Counting
  <2> QED
    BY <2>3, <2>4, <2>5, <2>6, <2>7 DEF UsesOf, Counting
<1>6. ASSUME NEW r \in Requests, FilterStepOf(r) PROVE UsesOf(r)'
  <2>1. UsesOf(r) /\ pc[r] \in FilterStep /\ session' = session
    BY <1>6 DEF UsesInv, FilterStepOf, Get, Put, Look, Push, Size, Remove, RemoveNone, Mark,
       Wander, Answer, FilterStep, contextVars
  <2>2. r \in Visits /\ pc[r] # "idle" /\ session'[r] # Null
    BY <2>1 DEF Visits, FilterStep, UsesOf
  <2>3. r \in Visits'
    BY <1>0, <2>2 DEF Progress
  <2>4. CASE Get(r) \/ Put(r) \/ Look(r)
    <3>1. pc[r] \in {"get", "put", "look"} /\ victim'[r] = Null
      BY <2>1, <2>4 DEF Get, Put, Look, contextVars, UsesOf
    <3>2. CASE Get(r)
      <4>1. pc'[r] \in {"put", "look"}
        BY <3>2 DEF Get, Goto, TypeOK
      <4>2. pc'[r] = "put" => uses'[r] = Null
        BY <3>2, <2>1 DEF Get, Goto, TypeOK, UsesOf
      <4>3. pc'[r] = "look" => uses'[r] \in Makers(Visits)'
        BY <1>1, <3>2 DEF Get, Goto, TypeOK, UsesInv
      <4> QED
        BY <2>2, <2>3, <3>1, <4>1, <4>2, <4>3 DEF UsesOf, Counting
    <3>3. CASE Put(r)
      <4>1. pc'[r] = "look" /\ uses'[r] = r
        BY <3>3 DEF Put, Goto, TypeOK
      <4>2. uses'[r] \in Makers(Visits)'
        BY <2>3, <4>1 DEF Makers
      <4> QED
        BY <2>2, <2>3, <3>1, <4>1, <4>2 DEF UsesOf, Counting
    <3>4. CASE Look(r)
      <4>1. pc'[r] \in {"size", "error", "push"} /\ uses' = uses
        BY <3>4 DEF Look, Goto, TypeOK
      <4>2. uses[r] \in Makers(Visits)
        BY <2>1, <2>2, <3>4 DEF Look, UsesOf
      <4>3. uses'[r] \in Makers(Visits)'
        BY <1>1, <4>1, <4>2
      <4> QED
        BY <2>2, <2>3, <3>1, <4>1, <4>3 DEF UsesOf, Counting
    <3> QED
      BY <2>4, <3>2, <3>3, <3>4
  <2>5. CASE Push(r) \/ Size(r) \/ Remove(r) \/ RemoveNone(r) \/ Mark(r) \/ Wander(r) \/ Answer(r)
    <3>1. /\ pc[r] \in {"look", "push", "size", "remove", "mark", "answer"}
          /\ uses' = uses
          /\ pc'[r] \in {"size", "remove", "mark", "answer", "passed", "out", "error"}
      BY <2>5 DEF Push, Size, Remove, RemoveNone, Mark, Wander, Answer, Goto, TypeOK
    <3>2. uses[r] \in Makers(Visits)
      BY <2>1, <2>2, <3>1 DEF UsesOf
    <3>3. uses'[r] \in Makers(Visits)'
      BY <1>1, <3>1, <3>2
    <3>4. pc'[r] = "mark" => victim'[r] # Null
      <4>1. CASE Remove(r)
        <5>1. uses[r] \in Requests
          BY <3>2 DEF Makers, Visits
        <5>2. Queue(r) \in Seq(SessionIds) /\ Queue(r) # <<>>
          BY <4>1, <5>1 DEF Remove, Queue, TypeOK
        <5>3. victim'[r] = Queue(r)[Len(Queue(r))]
          BY <4>1 DEF Remove, TypeOK
        <5> QED
          BY <5>2, <5>3, ListTypes, Fixed
      <4>2. CASE ~Remove(r)
        BY <2>5, <4>2 DEF Push, Size, RemoveNone, Mark, Wander, Answer, Goto, TypeOK
      <4> QED
        BY <4>1, <4>2
    <3> QED
      BY <2>2, <2>3, <3>1, <3>3, <3>4 DEF UsesOf, Counting
  <2> QED
    BY <1>6, <2>4, <2>5 DEF FilterStepOf
<1>7. \A q \in Requests : UsesOf(q)'
  <2>1. ASSUME NEW r \in Requests, UsesOf(r)', AtLogin(r) \/ AtFilter(r)
        PROVE  \A q \in Requests : UsesOf(q)'
    BY <1>2, <2>1
  <2>2. ASSUME NEW r \in Requests, NEW s \in SessionIds, Login(r, s) \/ Visit(r, s)
        PROVE  \A q \in Requests : UsesOf(q)'
    BY <1>4, <2>1, <2>2, LoginMoves, FilterMoves
  <2>3. ASSUME NEW r \in Requests, LoginStepOf(r) \/ FilterStepOf(r)
        PROVE  \A q \in Requests : UsesOf(q)'
    BY <1>5, <1>6, <2>1, <2>3, LoginMoves, FilterMoves
  <2> QED
    BY <1>3, <2>2, <2>3, RestForms DEF Next
<1>8. retryCache' # Null => retryCache' \in Makers(Logins)'
  <2> DEFINE Goal == retryCache' # Null => retryCache' \in Makers(Logins)'
  <2> SUFFICES Goal
    OBVIOUS
  <2>1. retryCache' = retryCache => Goal
    BY <1>1 DEF UsesInv
  <2>2. ASSUME NEW r \in Requests, PutCount(r) PROVE Goal
    BY <2>2 DEF PutCount, Goto, TypeOK, Makers, Logins, LoginStep
  <2>3. ASSUME NEW r \in Requests, NEW s \in SessionIds, Login(r, s) PROVE Goal
    BY <2>1, <2>3 DEF Login, Begin, retryVars
  <2>4. ASSUME NEW r \in Requests, FindCount(r) PROVE Goal
    BY <2>1, <2>4 DEF FindCount, retryVars
  <2>5. ASSUME NEW r \in Requests, Count(r) PROVE Goal
    BY <2>1, <2>5 DEF Count
  <2>6. ASSUME NEW r \in Requests, Enter(r) PROVE Goal
    BY <2>6 DEF Enter
  <2>7. ASSUME NEW r \in Requests, AtFilter(r) PROVE Goal
    BY <2>1, <2>7 DEF AtFilter, retryVars
  <2>8. Rests => Goal
    BY <2>1 DEF Rests
  <2> HIDE DEF Goal
  <2> QED
    BY <2>2, <2>3, <2>4, <2>5, <2>6, <2>7, <2>8, LoginForms
<1>9. cache' # Null => cache' \in Makers(Visits)'
  <2> DEFINE Goal == cache' # Null => cache' \in Makers(Visits)'
  <2> SUFFICES Goal
    OBVIOUS
  <2>1. cache' = cache => Goal
    BY <1>1 DEF UsesInv
  <2>2. ASSUME NEW r \in Requests, AtLogin(r) PROVE Goal
    BY <2>1, <2>2 DEF AtLogin, queueVars
  <2>3. ASSUME NEW r \in Requests, NEW s \in SessionIds, Visit(r, s) PROVE Goal
    BY <2>1, <2>3 DEF Visit, Begin, queueVars
  <2>4. ASSUME NEW r \in Requests, FilterStepOf(r) PROVE Goal
    <3>1. CASE Put(r)
      BY <3>1 DEF Put, Goto, TypeOK, Makers, Visits, FilterStep
    <3>2. CASE ~Put(r)
      <4>1. cache' = cache
        BY <2>4, <3>2 DEF FilterStepOf, Get, Look, Push, Size, Remove, RemoveNone, Mark,
           Wander, Answer, queueVars
      <4> QED
        BY <2>1, <4>1
    <3> QED
      BY <3>1, <3>2
  <2>5. Rests => Goal
    BY <2>1 DEF Rests
  <2> HIDE DEF Goal
  <2> QED
    BY <2>2, <2>3, <2>4, <2>5, FilterForms
<1> QED
  BY <1>7, <1>8, <1>9 DEF UsesInv
-----------------------------------------------------------------------------
(* What a counter counts *)

LEMMA LoginUses ==
    ASSUME UsesInv, NEW r \in Requests, pc[r] \in {"count"} \cup Counting
    PROVE  uses[r] \in Requests /\ uses[r] \in Makers(Logins) /\ uses[uses[r]] = uses[r]
  BY DEF UsesInv, UsesOf, Makers, Logins

LEMMA CountedFinite == ASSUME NEW c PROVE IsFiniteSet(Counted(c))
  BY SessionsAssumption, FS_Subset DEF Counted

LEMMA CountStep ==
    ASSUME TypeOK, SawInv, UsesInv, CountInv, [Next]_vars
    PROVE  CountInv'
<1> DEFINE Same == /\ retryCount' = retryCount
                   /\ \A c \in Requests : Counted(c)' = Counted(c)
           Goal == \A c \in Requests : Cardinality(Counted(c)') = retryCount'[c]
           Apart == \A q, r \in Requests :
                       pc'[q] = "in" =>
                          /\ retryCache' # uses'[q]
                          /\ pc'[r] = "count" /\ uses'[r] = uses'[q] => q \notin saw'[r]
<1>0. \A r \in Requests : UsesOf(r)
  BY DEF UsesInv
<1>1. Same => Goal
  BY DEF CountInv
<1>2. Goal
  <2>1. ASSUME NEW r \in Requests, NEW s \in SessionIds, Login(r, s) PROVE Same
    BY <2>1 DEF Login, Begin, Goto, TypeOK, retryVars, Counted, Counting
  <2>2. ASSUME NEW r \in Requests, FindCount(r) PROVE Same
    BY <2>2 DEF FindCount, Goto, TypeOK, retryVars, Counted, Counting
  <2>3. ASSUME NEW r \in Requests, PutCount(r) PROVE Same
    BY <2>3 DEF PutCount, Goto, TypeOK, Counted, Counting
  <2>4. ASSUME NEW r \in Requests, Count(r) PROVE Goal
    <3>1. uses[r] \in Requests /\ pc[r] = "count" /\ uses' = uses
      BY <2>4, LoginUses DEF Count
    <3>2. r \notin Counted(uses[r])
      BY <3>1 DEF Counted, Counting
    <3>3. pc'[r] \in Counting /\ \A q \in Requests \ {r} : pc'[q] = pc[q]
      BY <2>4 DEF Count, Goto, TypeOK, Counting
    <3>4. Counted(uses[r])' = Counted(uses[r]) \cup {r}
      BY <3>1, <3>3 DEF Counted
    <3>5. ASSUME NEW c \in Requests \ {uses[r]} PROVE Counted(c)' = Counted(c)
      BY <3>1, <3>3 DEF Counted
    <3>6. Cardinality(Counted(uses[r])') = Cardinality(Counted(uses[r])) + 1
      BY <3>2, <3>4, CountedFinite, FS_AddElement
    <3>7. retryCount' = [retryCount EXCEPT ![uses[r]] = retryCount[uses[r]] + 1]
      BY <2>4 DEF Count
    <3> QED
      BY <3>1, <3>5, <3>6, <3>7 DEF CountInv, TypeOK
  <2>5. ASSUME NEW r \in Requests, Enter(r) PROVE Same
    BY <2>5 DEF Enter, Goto, TypeOK, Counted, Counting
  <2>6. ASSUME NEW r \in Requests, AtFilter(r) PROVE Same
    <3>1. pc[r] \notin Counting /\ pc'[r] \notin Counting /\ retryCount' = retryCount
      BY <2>6 DEF AtFilter, Moves, TypeOK, Counting, FilterStep, retryVars
    <3>2. \A q \in Requests \ {r} : pc'[q] = pc[q] /\ uses'[q] = uses[q]
      BY <2>6 DEF AtFilter, Moves, TypeOK
    <3> QED
      BY <3>1, <3>2 DEF Counted
  <2>7. Rests => Same
    BY DEF Rests, Counted
  <2> HIDE DEF Goal, Same
  <2> QED
    BY <1>1, <2>1, <2>2, <2>3, <2>4, <2>5, <2>6, <2>7, LoginForms
<1>3. Apart
  <2>0. ASSUME NEW q \in Requests, NEW r \in Requests, pc[q] = "in"
        PROVE  /\ retryCache # uses[q]
               /\ pc[r] = "count" /\ uses[r] = uses[q] => q \notin saw[r]
               /\ uses[q] \in Requests /\ uses[uses[q]] = uses[q] /\ uses[q] # Null
    BY <2>0, LoginUses, Fixed DEF CountInv, Counting
  <2>1. ASSUME NEW r \in Requests, NEW s \in SessionIds, Login(r, s) PROVE Apart
    BY <2>1, <2>0 DEF Login, Begin, Goto, TypeOK, retryVars
  <2>2. ASSUME NEW r \in Requests, FindCount(r) PROVE Apart
    <3>1. saw' = saw /\ retryCache' = retryCache /\ pc[r] = "retry"
      BY <2>2 DEF FindCount, retryVars, contextVars
    <3>2. pc'[r] = "newCount" \/ (pc'[r] = "count" /\ uses'[r] = retryCache)
      BY <2>2 DEF FindCount, Goto, TypeOK
    <3>3. \A q \in Requests \ {r} : pc'[q] = pc[q] /\ uses'[q] = uses[q]
      BY <2>2 DEF FindCount, Goto, TypeOK
    <3> QED
      BY <2>0, <3>1, <3>2, <3>3
  <2>3. ASSUME NEW r \in Requests, PutCount(r) PROVE Apart
    <3>1. uses[r] = Null
      BY <1>0, <2>3 DEF PutCount, UsesOf
    <3> QED
      BY <2>3, <2>0, <3>1 DEF PutCount, Goto, TypeOK, contextVars
  <2>4. ASSUME NEW r \in Requests, Count(r) PROVE Apart
    BY <2>4, <2>0 DEF Count, Goto, TypeOK, TooMany, contextVars
  <2>5. ASSUME NEW r \in Requests, Enter(r) PROVE Apart
    <3>1. uses[r] # Null /\ uses' = uses /\ saw' = saw /\ retryCache' = Null
      BY <2>5, LoginUses, Fixed DEF Enter, Counting, contextVars
    <3>2. \A q \in Requests : r \notin saw[q]
      BY <2>5 DEF Enter, SawInv, Ended
    <3>3. \A q \in Requests : /\ pc'[q] = "in" => q = r \/ pc[q] = "in"
                              /\ pc'[q] = "count" => pc[q] = "count"
      BY <2>5 DEF Enter, Goto, TypeOK
    <3>4. ASSUME NEW q \in Requests, NEW p \in Requests, pc'[q] = "in"
          PROVE  /\ retryCache' # uses'[q]
                 /\ pc'[p] = "count" /\ uses'[p] = uses'[q] => q \notin saw'[p]
      <4>1. CASE q = r
        BY <3>1, <3>2, <4>1
      <4>2. CASE pc[q] = "in"
        BY <2>0, <3>1, <3>3, <4>2
      <4> QED
        BY <3>3, <3>4, <4>1, <4>2
    <3> QED
      BY <3>4
  <2>6. ASSUME NEW r \in Requests, AtFilter(r) PROVE Apart
    <3>1. pc'[r] \notin {"in", "count"} /\ retryCache' = retryCache
      BY <2>6 DEF AtFilter, Moves, TypeOK, FilterStep, retryVars
    <3>2. \A q \in Requests \ {r} : pc'[q] = pc[q] /\ uses'[q] = uses[q] /\ saw'[q] = saw[q]
      BY <2>6 DEF AtFilter, Moves, TypeOK
    <3> QED
      BY <2>0, <3>1, <3>2
  <2>7. Rests => Apart
    BY <2>0 DEF Rests
  <2> HIDE DEF Apart
  <2> QED
    BY <2>1, <2>2, <2>3, <2>4, <2>5, <2>6, <2>7, LoginForms
<1> QED
  BY <1>2, <1>3 DEF CountInv

\* The log-ins that failed, numbered.
LEMMA WrongStep ==
    ASSUME TypeOK, UsesInv, CountInv, WrongInv, [Next]_vars
    PROVE  WrongInv'
<1>0. PICK f : Numbers(f)
  BY DEF WrongInv
<1> DEFINE Same == /\ Wrong' = Wrong
                   /\ \A q \in Wrong : uses'[q] = uses[q]
                   /\ \A q \in Wrong : retryCount[uses[q]] <= retryCount'[uses[q]]
<1>1. \A q \in Wrong : uses[q] \in Requests /\ retryCount[uses[q]] \in Nat
  BY LoginUses DEF Wrong, Counting, TypeOK
<1>2. Same => WrongInv'
  <2> SUFFICES ASSUME Same, TypeOK' PROVE Numbers(f)'
    BY TypeStep DEF WrongInv
  <2>1. \A q \in Wrong : retryCount'[uses[q]] \in Nat
    BY <1>1 DEF TypeOK
  <2>2. ASSUME NEW q \in Wrong PROVE f[q][2] <= retryCount'[uses[q]]
    BY <1>0, <1>1, <2>1, <2>2, SessionsAssumption DEF Numbers
  <2> QED
    BY <1>0, <2>2 DEF Numbers
<1>3. ASSUME retryCount' = retryCount, Wrong' = Wrong, \A q \in Wrong : uses'[q] = uses[q]
      PROVE  WrongInv'
  <2>1. Same
    BY <1>1, <1>3
  <2> QED
    BY <1>2, <2>1
<1> HIDE DEF Same
<1> DEFINE Goal == WrongInv'
<1> SUFFICES Goal
  OBVIOUS
<1>4. Progress
  BY Progresses
<1>5. \A q \in Wrong : uses'[q] = uses[q]
  BY <1>1, <1>4, Fixed DEF Progress, Wrong
<1>6. ASSUME NEW r \in Requests, NEW s \in SessionIds, Login(r, s) PROVE Goal
  <2>1. Wrong' = Wrong /\ retryCount' = retryCount
    BY <1>6 DEF Login, Begin, Goto, TypeOK, retryVars, Wrong
  <2> QED
    BY <1>3, <1>5, <2>1
<1>7. ASSUME NEW r \in Requests, FindCount(r) PROVE Goal
  <2>1. Wrong' = Wrong /\ retryCount' = retryCount
    BY <1>7 DEF FindCount, Goto, TypeOK, retryVars, Wrong
  <2> QED
    BY <1>3, <1>5, <2>1
<1>8. ASSUME NEW r \in Requests, PutCount(r) PROVE Goal
  <2>1. Wrong' = Wrong /\ retryCount' = retryCount
    BY <1>8 DEF PutCount, Goto, TypeOK, Wrong
  <2> QED
    BY <1>3, <1>5, <2>1
<1>9. ASSUME NEW r \in Requests, Count(r) PROVE Goal
  <2>1. PICK c \in Requests, n \in Nat :
           /\ c = uses[r] /\ n = retryCount[c] + 1
           /\ retryCount' = [retryCount EXCEPT ![c] = n]
           /\ pc'[r] \in IF n > MaxRetry THEN {"refused"} ELSE {"clear", "wrong"}
    <3>1. uses[r] \in Requests
      BY <1>9, LoginUses DEF Count
    <3>2. /\ retryCount[uses[r]] + 1 \in Nat
          /\ retryCount' = [retryCount EXCEPT ![uses[r]] = retryCount[uses[r]] + 1]
      BY <1>9, <3>1 DEF Count, TypeOK
    <3>3. pc'[r] \in IF retryCount[uses[r]] + 1 > MaxRetry THEN {"refused"} ELSE {"clear", "wrong"}
      BY <1>9 DEF Count, TooMany, Goto, TypeOK
    <3> QED
      BY <3>1, <3>2, <3>3
  <2>2. \A q \in Requests \ {r} : pc'[q] = pc[q]
    BY <1>9 DEF Count, Goto, TypeOK
  <2>3. \A q \in Wrong : retryCount[uses[q]] <= retryCount'[uses[q]]
    BY <1>1, <2>1 DEF TypeOK
  <2>4. r \notin Wrong /\ uses' = uses
    BY <1>9 DEF Count, Wrong
  <2>5. CASE pc'[r] # "wrong"
    <3>1. Wrong' = Wrong
      BY <2>2, <2>4, <2>5 DEF Wrong
    <3> QED
      BY <1>2, <1>5, <2>3, <3>1 DEF Same
  <2>6. CASE pc'[r] = "wrong"
    <3> DEFINE g == [q \in Wrong' |-> IF q = r THEN <<c, n>> ELSE f[q]]
    <3>1. Wrong' = Wrong \cup {r}
      BY <2>2, <2>6 DEF Wrong
    <3>2. n \in 1..MaxRetry
      <4>1. ~(n > MaxRetry)
        BY <2>1, <2>6
      <4>2. retryCount[c] \in Nat /\ n = retryCount[c] + 1
        BY <2>1 DEF TypeOK
      <4> QED
        BY <4>1, <4>2, SessionsAssumption
    <3>3. g \in [Wrong' -> Requests \X Nat] /\ g[r] = <<c, n>> /\ \A q \in Wrong : g[q] = f[q]
      BY <1>0, <2>1, <2>4, <3>1 DEF Numbers
    <3>4. ASSUME NEW q \in Wrong PROVE f[q][2] <= retryCount'[uses[q]] /\ f[q] # <<c, n>>
      <4>1. f[q] \in Requests \X Nat /\ f[q][1] = uses[q] /\ f[q][2] <= retryCount[uses[q]]
        BY <1>0 DEF Numbers
      <4>2. f[q][2] <= retryCount'[uses[q]]
        <5>1. retryCount[uses[q]] \in Nat /\ retryCount'[uses[q]] \in Nat
          BY <1>1, <2>1 DEF TypeOK
        <5> QED
          BY <2>3, <4>1, <5>1
      <4>3. f[q] = <<c, n>> => uses[q] = c /\ n <= retryCount[c]
        BY <4>1
      <4> QED
        BY <2>1, <4>2, <4>3 DEF TypeOK
    <3>5. \A q \in Wrong' : /\ g[q][1] = uses'[q]
                            /\ g[q][2] \in 1..MaxRetry
                            /\ g[q][2] <= retryCount'[uses'[q]]
      <4>1. g[r][1] = uses'[r] /\ g[r][2] \in 1..MaxRetry /\ g[r][2] <= retryCount'[uses'[r]]
        <5>1. g[r][1] = c /\ g[r][2] = n /\ uses'[r] = c
          BY <2>1, <2>4, <3>3
        <5>2. retryCount'[c] = n
          BY <2>1 DEF TypeOK
        <5> QED
          BY <3>2, <5>1, <5>2
      <4>2. ASSUME NEW q \in Wrong
            PROVE  g[q][1] = uses'[q] /\ g[q][2] \in 1..MaxRetry /\ g[q][2] <= retryCount'[uses'[q]]
        BY <1>0, <2>4, <3>3, <3>4 DEF Numbers
      <4> QED
        BY <3>1, <4>1, <4>2
    <3>6. \A q, p \in Wrong' : g[q] = g[p] => q = p
      BY <1>0, <3>1, <3>3, <3>4 DEF Numbers
    <3> HIDE DEF g
    <3> QED
      BY <3>3, <3>5, <3>6 DEF WrongInv, Numbers
  <2> QED
    BY <2>5, <2>6
<1>10. ASSUME NEW r \in Requests, Enter(r) PROVE Goal
  <2>1. Wrong' = Wrong /\ retryCount' = retryCount
    BY <1>10 DEF Enter, Goto, TypeOK, Wrong
  <2> QED
    BY <1>3, <1>5, <2>1
<1>11. ASSUME NEW r \in Requests, AtFilter(r) PROVE Goal
  <2>1. Wrong' = Wrong /\ retryCount' = retryCount
    BY <1>11 DEF AtFilter, Moves, TypeOK, FilterStep, retryVars, Wrong
  <2> QED
    BY <1>3, <1>5, <2>1
<1>12. Rests => Goal
  BY <1>3, <1>5 DEF Rests, Wrong
<1> HIDE DEF Goal
<1> QED
  BY <1>6, <1>7, <1>8, <1>9, <1>10, <1>11, <1>12, LoginForms

\* The log-ins that account for a refusal.
Before(r) == {q \in Requests : /\ uses[q] = uses[r]
                               /\ \/ q \in saw[r] /\ pc[q] # "in"
                                  \/ Overlap(q, r)}

LEMMA RefusedStep ==
    ASSUME TypeOK, SawInv, UsesInv, CountInv, RefusedExplained, [Next]_vars
    PROVE  RefusedExplained'
<1> DEFINE Goal == \A r \in Requests : pc'[r] = "refused" => Cardinality(Before(r)') >= MaxRetry
<1> SUFFICES Goal
  BY DEF RefusedExplained, Before
<1>0. \A r \in Requests : pc[r] = "refused" => Cardinality(Before(r)) >= MaxRetry
  BY DEF RefusedExplained, Before
<1>1. Progress
  BY Progresses
<1>2. \A r \in Requests : IsFiniteSet(Before(r)) /\ IsFiniteSet(Before(r)')
  BY SessionsAssumption, FS_Subset DEF Before
<1>3. ASSUME NEW r \in Requests, pc[r] = "refused" PROVE Cardinality(Before(r)') >= MaxRetry
  <2>1. uses[r] # Null /\ pc[r] # "idle" /\ uses'[r] = uses[r]
    BY <1>1, <1>3, LoginUses, Fixed DEF Counting, Progress
  <2>2. ASSUME NEW q \in Before(r) PROVE q \in Before(r)'
    <3>1. q \in Requests /\ uses[q] # Null /\ uses'[q] = uses[r] /\ pc[q] # "idle"
      BY <1>1, <2>1 DEF Before, Progress, UsesInv, UsesOf
    <3>2. CASE q \in saw[r] /\ pc[q] # "in"
      BY <1>1, <2>1, <3>1, <3>2 DEF Before, Progress, SawInv
    <3>3. CASE Overlap(q, r)
      BY <1>1, <2>1, <3>1, <3>3, OverlapRemains DEF Before
    <3> QED
      BY <3>2, <3>3 DEF Before
  <2>3. Cardinality(Before(r)) <= Cardinality(Before(r)')
    BY <1>2, <2>2, FS_Subset
  <2>4. Cardinality(Before(r)) \in Nat /\ Cardinality(Before(r)') \in Nat
    BY <1>2, FS_CardinalityType
  <2> QED
    BY <1>0, <1>3, <2>3, <2>4, SessionsAssumption
<1>4. ASSUME NEW r \in Requests, NEW s \in SessionIds, Login(r, s) PROVE Goal
  BY <1>3, <1>4 DEF Login, Begin, Goto, TypeOK
<1>5. ASSUME NEW r \in Requests, FindCount(r) PROVE Goal
  BY <1>3, <1>5 DEF FindCount, Goto, TypeOK
<1>6. ASSUME NEW r \in Requests, PutCount(r) PROVE Goal
  BY <1>3, <1>6 DEF PutCount, Goto, TypeOK
<1>7. ASSUME NEW r \in Requests, Count(r) PROVE Goal
  <2>1. \A q \in Requests \ {r} : pc'[q] = pc[q]
    BY <1>7 DEF Count, Goto, TypeOK
  <2>2. ASSUME pc'[r] = "refused" PROVE Cardinality(Before(r)') >= MaxRetry
    <3>1. uses[r] \in Requests /\ uses' = uses /\ saw' = saw /\ pc[r] = "count"
      BY <1>7, LoginUses DEF Count, contextVars
    <3>2. retryCount[uses[r]] + 1 > MaxRetry
      BY <1>7, <2>2 DEF Count, Goto, TooMany, TypeOK
    <3>3. Cardinality(Counted(uses[r])) = retryCount[uses[r]] /\ retryCount[uses[r]] \in Nat
      BY <3>1 DEF CountInv, TypeOK
    <3>4. ASSUME NEW q \in Counted(uses[r]) PROVE q \in Before(r)'
      <4>1. q \in Requests /\ q # r /\ uses[q] = uses[r] /\ pc'[q] = pc[q]
        BY <2>1, <3>1 DEF Counted, Counting
      <4>2. r \notin saw[q]
        BY <3>1, <4>1 DEF SawInv, Ended
      <4>3. pc[q] = "in" => q \notin saw[r]
        BY <3>1, <4>1 DEF CountInv
      <4> QED
        BY <3>1, <4>1, <4>2, <4>3 DEF Before, Overlap
    <3>5. Cardinality(Counted(uses[r])) <= Cardinality(Before(r)')
      BY <1>2, <3>4, FS_Subset
    <3>6. Cardinality(Before(r)') \in Nat
      BY <1>2, FS_CardinalityType
    <3> QED
      BY <3>2, <3>3, <3>5, <3>6, SessionsAssumption
  <2> QED
    BY <1>3, <2>1, <2>2
<1>8. ASSUME NEW r \in Requests, Enter(r) PROVE Goal
  BY <1>3, <1>8 DEF Enter, Goto, TypeOK
<1>9. ASSUME NEW r \in Requests, AtFilter(r) PROVE Goal
  BY <1>3, <1>9 DEF AtFilter, Moves, TypeOK, FilterStep
<1>10. Rests => Goal
  BY <1>3 DEF Rests
<1> HIDE DEF Goal
<1> QED
  BY <1>4, <1>5, <1>6, <1>7, <1>8, <1>9, <1>10, LoginForms
-----------------------------------------------------------------------------
(* Why there can be a second counter *)

LEMMA ForgottenRemains == Progress /\ Forgotten => Forgotten'
  BY DEF Progress, Forgotten, Logins, Ended

LEMMA LoginMakers ==
    ASSUME TypeOK, UsesInv, [Next]_vars
    PROVE  \/ Makers(Logins)' = Makers(Logins)
           \/ \E r \in Requests : PutCount(r) /\ Makers(Logins)' = Makers(Logins) \cup {r}
<1> DEFINE Goal == \/ Makers(Logins)' = Makers(Logins)
                   \/ \E r \in Requests :
                         PutCount(r) /\ Makers(Logins)' = Makers(Logins) \cup {r}
<1> SUFFICES Goal
  OBVIOUS
<1>0. \A r \in Requests : UsesOf(r)
  BY DEF UsesInv
<1>1. ASSUME NEW r \in Requests, NEW s \in SessionIds, Login(r, s) PROVE Goal
  <2>1. uses[r] = Null /\ uses' = uses
    BY <1>0, <1>1 DEF Login, Begin, UsesOf
  <2>2. \A q \in Requests \ {r} : pc'[q] = pc[q]
    BY <1>1 DEF Login, Begin, Goto, TypeOK
  <2> QED
    BY <2>1, <2>2, Fixed DEF Makers, Logins
<1>2. ASSUME NEW r \in Requests, FindCount(r) PROVE Goal
  <2>1. uses[r] = Null /\ (uses' = uses \/ uses' = [uses EXCEPT ![r] = retryCache])
    BY <1>0, <1>2 DEF FindCount, UsesOf
  <2>2. retryCache # r
    BY <2>1, Fixed DEF UsesInv, Makers
  <2>3. uses'[r] # r /\ \A q \in Requests \ {r} : uses'[q] = uses[q]
    BY <2>1, <2>2, Fixed DEF TypeOK
  <2>4. \A q \in Requests \ {r} : pc'[q] = pc[q]
    BY <1>2 DEF FindCount, Goto, TypeOK
  <2> QED
    BY <2>1, <2>3, <2>4, Fixed DEF Makers, Logins
<1>3. ASSUME NEW r \in Requests, PutCount(r) PROVE Goal
  <2>1. r \in Logins' /\ uses'[r] = r
    BY <1>3 DEF PutCount, Goto, TypeOK, Logins, LoginStep
  <2>2. \A q \in Requests \ {r} : pc'[q] = pc[q] /\ uses'[q] = uses[q]
    BY <1>3 DEF PutCount, Goto, TypeOK
  <2>3. Makers(Logins)' = Makers(Logins) \cup {r}
    BY <2>1, <2>2 DEF Makers, Logins
  <2> QED
    BY <1>3, <2>3
<1>4. ASSUME NEW r \in Requests, Count(r) \/ Enter(r) PROVE Makers(Logins)' = Makers(Logins)
  <2>1. r \in Logins /\ r \in Logins' /\ uses' = uses
    BY <1>4 DEF Count, Enter, Goto, TypeOK, Logins, LoginStep
  <2>2. \A q \in Requests \ {r} : pc'[q] = pc[q]
    BY <1>4 DEF Count, Enter, Goto, TypeOK
  <2> QED
    BY <2>1, <2>2 DEF Makers, Logins
<1>5. ASSUME NEW r \in Requests, Count(r) PROVE Goal
  BY <1>4, <1>5
<1>6. ASSUME NEW r \in Requests, Enter(r) PROVE Goal
  BY <1>4, <1>6
<1>7. ASSUME NEW r \in Requests, AtFilter(r) PROVE Goal
  <2>1. r \notin Logins /\ r \notin Logins'
    BY <1>7 DEF AtFilter, Moves, TypeOK, Logins, FilterStep, LoginStep
  <2>2. \A q \in Requests \ {r} : pc'[q] = pc[q] /\ uses'[q] = uses[q]
    BY <1>7 DEF AtFilter, Moves, TypeOK
  <2> QED
    BY <2>1, <2>2 DEF Makers, Logins
<1>8. Rests => Goal
  BY DEF Rests, Makers, Logins
<1> HIDE DEF Goal
<1> QED
  BY <1>1, <1>2, <1>3, <1>5, <1>6, <1>7, <1>8, LoginForms

LEMMA CounterStep ==
    ASSUME TypeOK, SawInv, UsesInv, CounterInv, [Next]_vars
    PROVE  CounterInv'
<1>1. Progress
  BY Progresses
<1> SUFFICES ASSUME ~Forgotten' PROVE CounterInv'
  BY DEF CounterInv
<1>2. ~Forgotten
  BY <1>1, ForgottenRemains
<1>3. retryCache' = Null => retryCache = Null
  <2> DEFINE Goal == retryCache' = Null => retryCache = Null
  <2> SUFFICES Goal
    OBVIOUS
  <2>1. ASSUME NEW r \in Requests, NEW s \in SessionIds, Login(r, s) PROVE Goal
    BY <2>1 DEF Login, Begin, retryVars
  <2>2. ASSUME NEW r \in Requests, FindCount(r) PROVE Goal
    BY <2>2 DEF FindCount, retryVars
  <2>3. ASSUME NEW r \in Requests, PutCount(r) PROVE Goal
    BY <2>3, Fixed DEF PutCount
  <2>4. ASSUME NEW r \in Requests, Count(r) PROVE Goal
    BY <2>4 DEF Count
  <2>5. ASSUME NEW r \in Requests, Enter(r) PROVE Goal
    <3>1. pc'[r] = "in"
      BY <2>5 DEF Enter, Goto, TypeOK
    <3> QED
      BY <3>1 DEF Forgotten, Logins
  <2>6. ASSUME NEW r \in Requests, AtFilter(r) PROVE Goal
    BY <2>6 DEF AtFilter, retryVars
  <2>7. Rests => Goal
    BY DEF Rests, Forgotten, TypeOK
  <2> HIDE DEF Goal
  <2> QED
    BY <2>1, <2>2, <2>3, <2>4, <2>5, <2>6, <2>7, LoginForms
<1>4. \A q \in Makers(Logins) : q \in Requests /\ pc[q] # "idle"
  BY DEF Makers, Logins, LoginStep
<1>5. \A q, r \in Requests : Overlap(q, r) /\ pc[q] # "idle" /\ pc[r] # "idle" => Overlap(q, r)'
  BY <1>1, OverlapRemains
<1>6. \A q \in Makers(Logins), r \in Requests :
         q # r /\ (r \in Makers(Logins) \/ pc[r] = "newCount") => Overlap(q, r)'
  BY <1>2, <1>4, <1>5 DEF CounterInv
<1>7. \A r \in Requests : pc'[r] = "newCount" =>
         pc[r] = "newCount" \/ (FindCount(r) /\ retryCache = Null)
  <2> DEFINE Goal == \A r \in Requests : pc'[r] = "newCount" =>
                        pc[r] = "newCount" \/ (FindCount(r) /\ retryCache = Null)
  <2> SUFFICES Goal
    OBVIOUS
  <2>1. ASSUME NEW r \in Requests, NEW s \in SessionIds, Login(r, s) PROVE Goal
    BY <2>1 DEF Login, Begin, Goto, TypeOK
  <2>2. ASSUME NEW r \in Requests, FindCount(r) PROVE Goal
    <3>1. \A q \in Requests \ {r} : pc'[q] = pc[q]
      BY <2>2 DEF FindCount, Goto, TypeOK
    <3>2. pc'[r] = "newCount" => retryCache = Null
      BY <2>2 DEF FindCount, Goto, TypeOK
    <3> QED
      BY <2>2, <3>1, <3>2
  <2>3. ASSUME NEW r \in Requests, PutCount(r) PROVE Goal
    BY <2>3 DEF PutCount, Goto, TypeOK
  <2>4. ASSUME NEW r \in Requests, Count(r) PROVE Goal
    BY <2>4 DEF Count, Goto, TypeOK
  <2>5. ASSUME NEW r \in Requests, Enter(r) PROVE Goal
    BY <2>5 DEF Enter, Goto, TypeOK
  <2>6. ASSUME NEW r \in Requests, AtFilter(r) PROVE Goal
    BY <2>6 DEF AtFilter, Moves, TypeOK, FilterStep
  <2>7. Rests => Goal
    BY DEF Rests
  <2> HIDE DEF Goal
  <2> QED
    BY <2>1, <2>2, <2>3, <2>4, <2>5, <2>6, <2>7, LoginForms
<1>8. CASE Makers(Logins)' = Makers(Logins)
  <2>1. retryCache' = Null => Makers(Logins)' = {}
    BY <1>2, <1>3, <1>8 DEF CounterInv
  <2>2. ASSUME NEW q \in Makers(Logins)', NEW r \in Requests, q # r,
               r \in Makers(Logins)' \/ pc'[r] = "newCount"
        PROVE  Overlap(q, r)'
    BY <1>2, <1>6, <1>7, <1>8, <2>2 DEF CounterInv
  <2> QED
    BY <2>1, <2>2 DEF CounterInv
<1>9. ASSUME NEW p \in Requests, PutCount(p), Makers(Logins)' = Makers(Logins) \cup {p}
      PROVE  CounterInv'
  <2>1. retryCache' # Null /\ pc[p] = "newCount"
    BY <1>9, Fixed DEF PutCount
  <2>2. \A r \in Requests : pc'[r] = "newCount" => pc[r] = "newCount"
    BY <1>9 DEF PutCount, Goto, TypeOK
  <2>3. \A q, r \in Requests : Overlap(q, r)' => Overlap(r, q)'
    BY DEF Overlap
  <2>4. ASSUME NEW r \in Requests, r # p, pc[r] = "newCount" PROVE Overlap(p, r)'
    <3>1. Overlap(p, r)
      BY <2>1, <2>4 DEF SawInv, Ended, Overlap
    <3> QED
      BY <1>5, <2>1, <2>4, <3>1
  <2>5. ASSUME NEW q \in Makers(Logins)', NEW r \in Requests, q # r,
               r \in Makers(Logins)' \/ pc'[r] = "newCount"
        PROVE  Overlap(q, r)'
    <3>1. CASE q # p
      BY <1>6, <1>9, <2>1, <2>2, <2>5, <3>1
    <3>2. CASE q = p /\ r \in Makers(Logins)'
      BY <1>6, <1>9, <1>4, <2>1, <2>3, <2>5, <3>2
    <3>3. CASE q = p /\ pc'[r] = "newCount"
      BY <2>2, <2>4, <2>5, <3>3
    <3> QED
      BY <2>5, <3>1, <3>2, <3>3
  <2> QED
    BY <2>1, <2>5 DEF CounterInv
<1> QED
  BY <1>8, <1>9, LoginMakers

\* If every element of S has a number of 1..n, its own of an element of T, then S
\* has at most n times the elements of T.
LEMMA Numbered ==
    ASSUME NEW S, IsFiniteSet(S), NEW T, IsFiniteSet(T), NEW n \in Nat,
           NEW f \in [S -> T \X (1..n)],
           \A x, y \in S : f[x] = f[y] => x = y
    PROVE  Cardinality(S) <= n * Cardinality(T)
<1>1. IsFiniteSet(1..n) /\ Cardinality(1..n) = n
  BY FS_Interval
<1>2. IsFiniteSet(T \X (1..n)) /\ Cardinality(T \X (1..n)) = Cardinality(T) * n
  <2>1. /\ IsFiniteSet(T \X (1..n))
        /\ Cardinality(T \X (1..n)) = Cardinality(T) * Cardinality(1..n)
    BY <1>1, FS_Product, Zenon
  <2> QED
    BY <1>1, <2>1
<1>3. Cardinality(S) \in Nat /\ Cardinality(T) \in Nat
  BY FS_CardinalityType
<1>4. ~(Cardinality(T \X (1..n)) < Cardinality(S))
  BY <1>2, FS_PigeonHole
<1>5. Cardinality(T) * n = n * Cardinality(T) /\ n * Cardinality(T) \in Nat
  BY <1>3
<1> QED
  BY <1>2, <1>3, <1>4, <1>5

LEMMA RetryFollows ==
    ASSUME TypeOK, UsesInv, WrongInv, CounterInv
    PROVE  RetryExplained
<1>1. Cardinality(Wrong) <= MaxRetry * Cardinality(Makers(Logins))
  <2>1. PICK f : Numbers(f)
    BY DEF WrongInv
  <2>2. IsFiniteSet(Wrong) /\ IsFiniteSet(Makers(Logins))
    BY SessionsAssumption, FS_Subset DEF Wrong, Makers, Logins
  <2>3. \A r \in Wrong : f[r] \in Makers(Logins) \X (1..MaxRetry)
    BY <2>1, LoginUses DEF Numbers, Wrong, Counting
  <2>4. f \in [Wrong -> Makers(Logins) \X (1..MaxRetry)]
    BY <2>1, <2>3 DEF Numbers
  <2>5. \A q, r \in Wrong : f[q] = f[r] => q = r
    BY <2>1 DEF Numbers
  <2> QED
    BY <2>2, <2>4, <2>5, Numbered, SessionsAssumption
<1>2. \A q, r \in Makers(Logins) : q # r => Forgotten \/ Overlap(q, r)
  BY DEF CounterInv, Makers, Logins
<1> QED
  BY <1>1, <1>2 DEF RetryExplained, Wrong, Forgotten
-----------------------------------------------------------------------------
(* Why there can be a second queue *)

LEMMA FilterMakers ==
    ASSUME TypeOK, UsesInv, [Next]_vars
    PROVE  \/ Makers(Visits)' = Makers(Visits)
           \/ \E r \in Requests : Put(r) /\ Makers(Visits)' = Makers(Visits) \cup {r}
<1> DEFINE Goal == \/ Makers(Visits)' = Makers(Visits)
                   \/ \E r \in Requests : Put(r) /\ Makers(Visits)' = Makers(Visits) \cup {r}
<1> SUFFICES Goal
  OBVIOUS
<1>0. \A r \in Requests : UsesOf(r)
  BY DEF UsesInv
<1>1. ASSUME NEW r \in Requests, AtLogin(r) PROVE Goal
  <2>1. r \notin Visits /\ r \notin Visits'
    BY <1>1 DEF AtLogin, Moves, TypeOK, Visits, FilterStep, LoginStep
  <2>2. \A q \in Requests \ {r} : pc'[q] = pc[q] /\ uses'[q] = uses[q]
    BY <1>1 DEF AtLogin, Moves, TypeOK
  <2> QED
    BY <2>1, <2>2 DEF Makers, Visits
<1>2. ASSUME NEW r \in Requests, NEW s \in SessionIds, Visit(r, s) PROVE Goal
  <2>1. uses[r] = Null /\ uses' = uses
    BY <1>0, <1>2 DEF Visit, Begin, UsesOf
  <2>2. \A q \in Requests \ {r} : pc'[q] = pc[q]
    BY <1>2 DEF Visit, Begin, Goto, TypeOK
  <2> QED
    BY <2>1, <2>2, Fixed DEF Makers, Visits
<1>3. ASSUME NEW r \in Requests, FilterStepOf(r) PROVE Goal
  <2>1. AtFilter(r) /\ pc[r] # "idle"
    BY <1>3, FilterMoves DEF FilterStepOf, Get, Put, Look, Push, Size, Remove, RemoveNone, Mark,
       Wander, Answer
  <2>2. r \in Visits /\ r \in Visits'
    BY <2>1 DEF AtFilter, Moves, TypeOK, Visits
  <2>3. \A q \in Requests \ {r} : pc'[q] = pc[q] /\ uses'[q] = uses[q]
    BY <2>1 DEF AtFilter, Moves, TypeOK
  <2>4. CASE Put(r)
    <3>1. uses'[r] = r
      BY <2>4 DEF Put, TypeOK
    <3>2. Makers(Visits)' = Makers(Visits) \cup {r}
      BY <2>2, <2>3, <3>1 DEF Makers, Visits
    <3> QED
      BY <2>4, <3>2
  <2>5. CASE Get(r)
    <3>1. uses[r] = Null /\ (uses' = uses \/ uses' = [uses EXCEPT ![r] = cache])
      BY <1>0, <2>5 DEF Get, UsesOf
    <3>2. cache # r
      BY <3>1, Fixed DEF UsesInv, Makers
    <3>3. uses'[r] # r /\ uses[r] # r
      BY <3>1, <3>2, Fixed DEF TypeOK
    <3> QED
      BY <2>2, <2>3, <3>3 DEF Makers, Visits
  <2>6. CASE ~Put(r) /\ ~Get(r)
    <3>1. uses' = uses
      BY <1>3, <2>6 DEF FilterStepOf, Look, Push, Size, Remove, RemoveNone, Mark, Wander, Answer
    <3> QED
      BY <2>2, <2>3, <3>1 DEF Makers, Visits
  <2> QED
    BY <2>4, <2>5, <2>6
<1>4. Rests => Goal
  BY DEF Rests, Makers, Visits
<1> HIDE DEF Goal
<1> QED
  BY <1>1, <1>2, <1>3, <1>4, FilterForms

LEMMA QueueStep ==
    ASSUME TypeOK, SawInv, UsesInv, QueueInv, [Next]_vars
    PROVE  QueueInv'
<1>1. Progress /\ TypeOK'
  BY Progresses, TypeStep
<1> SUFFICES ASSUME drops' = 0 PROVE QueueInv'
  BY <1>1, SessionsAssumption DEF QueueInv, TypeOK
<1>2. drops = 0
  BY <1>1, SessionsAssumption DEF Progress, TypeOK
<1>3. cache' = Null => cache = Null
  <2> DEFINE Goal == cache' = Null => cache = Null
  <2> SUFFICES Goal
    OBVIOUS
  <2>1. ASSUME NEW r \in Requests, AtLogin(r) PROVE Goal
    BY <2>1 DEF AtLogin, queueVars
  <2>2. ASSUME NEW r \in Requests, NEW s \in SessionIds, Visit(r, s) PROVE Goal
    BY <2>2 DEF Visit, Begin, queueVars
  <2>3. ASSUME NEW r \in Requests, FilterStepOf(r) PROVE Goal
    <3>1. cache' = cache \/ cache' = r
      BY <2>3 DEF FilterStepOf, Get, Put, Look, Push, Size, Remove, RemoveNone, Mark, Wander,
         Answer, queueVars
    <3> QED
      BY <3>1, Fixed
  <2>4. Rests => Goal
    BY <1>2 DEF Rests
  <2> HIDE DEF Goal
  <2> QED
    BY <2>1, <2>2, <2>3, <2>4, FilterForms
<1>4. \A q \in Makers(Visits) : q \in Requests /\ pc[q] # "idle"
  BY DEF Makers, Visits, FilterStep
<1>5. \A q, r \in Requests : Overlap(q, r) /\ pc[q] # "idle" /\ pc[r] # "idle" => Overlap(q, r)'
  BY <1>1, OverlapRemains
<1>6. \A q \in Makers(Visits), r \in Requests :
         q # r /\ (r \in Makers(Visits) \/ pc[r] = "put") => Overlap(q, r)'
  BY <1>2, <1>4, <1>5 DEF QueueInv
<1>7. \A r \in Requests : pc'[r] = "put" => pc[r] = "put" \/ (Get(r) /\ cache = Null)
  <2> DEFINE Goal == \A r \in Requests : pc'[r] = "put" =>
                        pc[r] = "put" \/ (Get(r) /\ cache = Null)
  <2> SUFFICES Goal
    OBVIOUS
  <2>1. ASSUME NEW r \in Requests, AtLogin(r) PROVE Goal
    BY <2>1 DEF AtLogin, Moves, TypeOK, LoginStep
  <2>2. ASSUME NEW r \in Requests, NEW s \in SessionIds, Visit(r, s) PROVE Goal
    BY <2>2 DEF Visit, Begin, Goto, TypeOK
  <2>3. ASSUME NEW r \in Requests, FilterStepOf(r) PROVE Goal
    <3>1. \A q \in Requests \ {r} : pc'[q] = pc[q]
      BY <2>3, FilterMoves DEF AtFilter, Moves, TypeOK
    <3>2. pc'[r] = "put" => Get(r) /\ cache = Null
      BY <2>3 DEF FilterStepOf, Get, Put, Look, Push, Size, Remove, RemoveNone, Mark, Wander,
         Answer, Goto, TypeOK
    <3> QED
      BY <3>1, <3>2
  <2>4. Rests => Goal
    BY DEF Rests
  <2> HIDE DEF Goal
  <2> QED
    BY <2>1, <2>2, <2>3, <2>4, FilterForms
<1>8. CASE Makers(Visits)' = Makers(Visits)
  <2>1. cache' = Null => Makers(Visits)' = {}
    BY <1>2, <1>3, <1>8 DEF QueueInv
  <2>2. ASSUME NEW q \in Makers(Visits)', NEW r \in Requests, q # r,
               r \in Makers(Visits)' \/ pc'[r] = "put"
        PROVE  Overlap(q, r)'
    BY <1>2, <1>6, <1>7, <1>8, <2>2 DEF QueueInv
  <2> QED
    BY <2>1, <2>2 DEF QueueInv
<1>9. ASSUME NEW p \in Requests, Put(p), Makers(Visits)' = Makers(Visits) \cup {p}
      PROVE  QueueInv'
  <2>1. cache' # Null /\ pc[p] = "put"
    BY <1>9, Fixed DEF Put
  <2>2. \A r \in Requests : pc'[r] = "put" => pc[r] = "put"
    BY <1>9 DEF Put, Goto, TypeOK
  <2>3. \A q, r \in Requests : Overlap(q, r)' => Overlap(r, q)'
    BY DEF Overlap
  <2>4. ASSUME NEW r \in Requests, r # p, pc[r] = "put" PROVE Overlap(p, r)'
    <3>1. Overlap(p, r)
      BY <2>1, <2>4 DEF SawInv, Ended, Overlap
    <3> QED
      BY <1>5, <2>1, <2>4, <3>1
  <2>5. ASSUME NEW q \in Makers(Visits)', NEW r \in Requests, q # r,
               r \in Makers(Visits)' \/ pc'[r] = "put"
        PROVE  Overlap(q, r)'
    <3>1. CASE q # p
      BY <1>6, <1>9, <2>1, <2>2, <2>5, <3>1
    <3>2. CASE q = p /\ r \in Makers(Visits)'
      BY <1>6, <1>9, <1>4, <2>1, <2>3, <2>5, <3>2
    <3>3. CASE q = p /\ pc'[r] = "put"
      BY <2>2, <2>4, <2>5, <3>3
    <3> QED
      BY <2>5, <3>1, <3>2, <3>3
  <2> QED
    BY <2>1, <2>5 DEF QueueInv
<1> QED
  BY <1>8, <1>9, FilterMakers
-----------------------------------------------------------------------------
(* Steps at queues that are not torn *)

Deep == {"push", "size", "remove", "mark", "answer", "passed"}

\* Request r moves, not yet or no more at a queue.
Still(r) ==
    /\ pc[r] \notin Deep /\ pc'[r] \notin Deep
    /\ \A q \in Requests \ {r} : /\ pc'[q] = pc[q] /\ uses'[q] = uses[q]
                                 /\ session'[q] = session[q]
    /\ victim' = victim
    /\ \A s \in SessionIds : state[s] = "over" <=> state'[s] = "over"
    /\ UNCHANGED <<kickout, deque, torn, log>>

Pushes(r) ==
    /\ Push(r)
    /\ deque' = [deque EXCEPT ![uses[r]] = <<session[r]>> \o Queue(r)]
    /\ uses[r] \in Requests /\ session[r] \in SessionIds /\ Queue(r) \in Seq(SessionIds)

Removes(r) ==
    /\ Remove(r)
    /\ deque' = [deque EXCEPT ![uses[r]] = SubSeq(Queue(r), 1, Len(Queue(r)) - 1)]
    /\ uses[r] \in Requests /\ Queue(r) \in Seq(SessionIds)

LEMMA QueueForms ==
    ASSUME TypeOK, UsesInv, [Next]_vars, torn' = {},
           NEW P,
           ASSUME NEW r \in Requests, Still(r) PROVE P,
           ASSUME NEW r \in Requests, Look(r) PROVE P,
           ASSUME NEW r \in Requests, Pushes(r) PROVE P,
           ASSUME NEW r \in Requests, Size(r) PROVE P,
           ASSUME NEW r \in Requests, Removes(r) PROVE P,
           ASSUME NEW r \in Requests, RemoveNone(r) PROVE P,
           ASSUME NEW r \in Requests, Mark(r) PROVE P,
           ASSUME NEW r \in Requests, Answer(r) PROVE P,
           Rests => P
    PROVE  P
<1>0. torn = {}
  BY Remain DEF Remains
<1>1. ASSUME NEW r \in Requests, AtLogin(r) PROVE P
  <2>1. Still(r)
    BY <1>1 DEF AtLogin, Moves, Still, Deep, TypeOK, LoginStep, queueVars
  <2> QED
    BY <2>1
<1>2. ASSUME NEW r \in Requests, NEW s \in SessionIds, Visit(r, s) PROVE P
  <2>1. Still(r)
    BY <1>2 DEF Visit, Begin, Goto, Still, Deep, TypeOK, sessionVars, queueVars
  <2> QED
    BY <2>1
<1>3. ASSUME NEW r \in Requests, Get(r) \/ Put(r) PROVE P
  <2>1. pc[r] \notin Deep /\ pc'[r] \notin Deep
    BY <1>3 DEF Get, Put, Goto, Deep, TypeOK
  <2>2. \A q \in Requests \ {r} : /\ pc'[q] = pc[q] /\ uses'[q] = uses[q]
                                  /\ session'[q] = session[q]
    BY <1>3 DEF Get, Put, Goto, TypeOK, contextVars
  <2>3. UNCHANGED <<sessionVars, victim, deque, torn, log>>
    BY <1>3 DEF Get, Put, queueVars, contextVars
  <2>4. Still(r)
    BY <2>1, <2>2, <2>3 DEF Still, sessionVars
  <2> QED
    BY <2>4
<1>4. ASSUME NEW r \in Requests, pc[r] \in {"push", "remove"}
      PROVE  uses[r] \in Requests /\ session[r] \in SessionIds /\ Queue(r) \in Seq(SessionIds)
  BY <1>4 DEF UsesInv, UsesOf, Makers, Visits, FilterStep, Queue, TypeOK
<1>5. ASSUME NEW r \in Requests, Push(r) PROVE P
  <2>1. Pushes(r)
    BY <1>4, <1>5 DEF Push, Change, Pushes
  <2> QED
    BY <2>1
<1>6. ASSUME NEW r \in Requests, Remove(r) PROVE P
  <2>1. Removes(r)
    BY <1>4, <1>6 DEF Remove, Change, Removes, Queue
  <2> QED
    BY <2>1
<1>7. ASSUME NEW r \in Requests, Wander(r) PROVE P
  BY <1>0, <1>7 DEF Wander, Torn
<1>8. ASSUME NEW r \in Requests, FilterStepOf(r) PROVE P
  BY <1>3, <1>5, <1>6, <1>7, <1>8 DEF FilterStepOf
<1> QED
  BY <1>1, <1>2, <1>8, FilterForms

LEMMA LengthStep ==
    ASSUME TypeOK, UsesInv, LengthInv, [Next]_vars
    PROVE  LengthInv'
<1> SUFFICES ASSUME torn' = {}, NEW d \in Requests, Len(deque'[d]) > maxSession
             PROVE  \E r \in Requests : uses'[r] = d /\ pc'[r] \in {"size", "remove", "mark"}
  BY DEF LengthInv
<1> DEFINE Goal == \E r \in Requests : uses'[r] = d /\ pc'[r] \in {"size", "remove", "mark"}
<1> SUFFICES Goal
  OBVIOUS
<1>0. torn = {} /\ maxSession \in Nat
  BY Remain, SessionsAssumption DEF Remains
<1>1. Len(deque[d]) > maxSession =>
         \E r \in Requests : uses[r] = d /\ pc[r] \in {"size", "remove", "mark"}
  BY <1>0 DEF LengthInv
<1>2. ASSUME NEW r \in Requests, Still(r) PROVE Goal
  BY <1>1, <1>2 DEF Still, Deep
<1>3. ASSUME NEW r \in Requests, Look(r) PROVE Goal
  BY <1>1, <1>3 DEF Look, Goto, TypeOK, queueVars
<1>4. ASSUME NEW r \in Requests, Pushes(r) PROVE Goal
  <2>1. uses' = uses /\ pc'[r] = "size" /\ \A q \in Requests \ {r} : pc'[q] = pc[q]
    BY <1>4 DEF Pushes, Push, Goto, TypeOK
  <2>2. CASE d = uses[r]
    BY <2>1, <2>2
  <2>3. CASE d # uses[r]
    <3>1. deque'[d] = deque[d]
      BY <1>4, <2>3 DEF Pushes, TypeOK
    <3> QED
      BY <1>1, <1>4, <2>1, <3>1 DEF Pushes, Push
  <2> QED
    BY <2>2, <2>3
<1>5. ASSUME NEW r \in Requests, Size(r) PROVE Goal
  <2>1. uses' = uses /\ deque' = deque /\ \A q \in Requests \ {r} : pc'[q] = pc[q]
    BY <1>5 DEF Size, Goto, TypeOK, queueVars
  <2>2. uses[r] = d => pc'[r] = "remove"
    BY <1>5, <2>1 DEF Size, Goto, TypeOK, Full, Queue
  <2> QED
    BY <1>1, <2>1, <2>2
<1>6. ASSUME NEW r \in Requests, Removes(r) PROVE Goal
  <2>1. uses' = uses /\ pc'[r] = "mark" /\ \A q \in Requests \ {r} : pc'[q] = pc[q]
    BY <1>6 DEF Removes, Remove, Goto, TypeOK
  <2>2. CASE d = uses[r]
    BY <2>1, <2>2
  <2>3. CASE d # uses[r]
    <3>1. deque'[d] = deque[d]
      BY <1>6, <2>3 DEF Removes, TypeOK
    <3> QED
      BY <1>1, <2>1, <3>1
  <2> QED
    BY <2>2, <2>3
<1>7. ASSUME NEW r \in Requests, RemoveNone(r) PROVE Goal
  <2>1. uses' = uses /\ deque' = deque /\ \A q \in Requests \ {r} : pc'[q] = pc[q]
    BY <1>7 DEF RemoveNone, Goto, TypeOK, queueVars
  <2>2. uses[r] # d
    BY <1>0, <1>7, <2>1 DEF RemoveNone, Queue
  <2> QED
    BY <1>1, <2>1, <2>2
<1>8. ASSUME NEW r \in Requests, Mark(r) PROVE Goal
  <2>1. /\ uses' = uses /\ deque' = deque /\ pc'[r] = "size"
        /\ \A q \in Requests \ {r} : pc'[q] = pc[q]
    BY <1>8 DEF Mark, Goto, TypeOK, queueVars
  <2> QED
    BY <1>1, <2>1
<1>9. ASSUME NEW r \in Requests, Answer(r) PROVE Goal
  <2>1. uses' = uses /\ deque' = deque /\ \A q \in Requests \ {r} : pc'[q] = pc[q]
    BY <1>9 DEF Answer, Goto, TypeOK, queueVars
  <2>2. pc[r] = "answer"
    BY <1>9 DEF Answer
  <2> QED
    BY <1>1, <2>1, <2>2
<1>10. Rests => Goal
  BY <1>1 DEF Rests
<1> HIDE DEF Goal
<1> QED
  BY <1>2, <1>3, <1>4, <1>5, <1>6, <1>7, <1>8, <1>9, <1>10, QueueForms

\* What MemberInv says of a request.
Kept(r) ==
    pc[r] \in {"size", "remove", "mark", "answer", "passed"} =>
       \/ session[r] \in Members(deque[uses[r]])
       \/ session[r] \in kickout
       \/ state[session[r]] = "over"
       \/ \E q \in Requests : pc[q] = "mark" /\ victim[q] = session[r]

LEMMA MemberStep ==
    ASSUME TypeOK, UsesInv, MemberInv, [Next]_vars
    PROVE  MemberInv'
<1> SUFFICES ASSUME torn' = {} PROVE \A r \in Requests : Kept(r)'
  BY DEF MemberInv, Kept
<1> DEFINE Goal == \A r \in Requests : Kept(r)'
<1> SUFFICES Goal
  OBVIOUS
<1>0. torn = {}
  BY Remain DEF Remains
<1>1. \A r \in Requests : Kept(r)
  BY <1>0 DEF MemberInv, Kept
<1>2. \A r \in Requests : pc[r] # "idle" => session[r] \in SessionIds
  BY DEF UsesInv, UsesOf, TypeOK
<1>3. ASSUME NEW r \in Requests, Still(r) PROVE Goal
  <2>1. \A q \in Requests : pc[q] = "mark" <=> pc'[q] = "mark"
    BY <1>3 DEF Still, Deep
  <2> QED
    BY <1>1, <1>2, <1>3, <2>1 DEF Still, Deep, Kept
<1>4. ASSUME NEW r \in Requests, Look(r) PROVE Goal
  <2>1. UNCHANGED <<session, uses, victim, deque, kickout, state>>
    BY <1>4 DEF Look, sessionVars, queueVars, contextVars
  <2>2. \A q \in Requests \ {r} : pc'[q] = pc[q]
    BY <1>4 DEF Look, Goto, TypeOK
  <2>3. \A q \in Requests : pc[q] = "mark" => pc'[q] = "mark"
    BY <1>4, <2>2 DEF Look
  <2>4. Kept(r)'
    BY <1>4, <2>1 DEF Look, Goto, TypeOK, Kept, Queue
  <2> QED
    BY <1>1, <2>1, <2>2, <2>3, <2>4 DEF Kept
<1>5. ASSUME NEW r \in Requests, Pushes(r) PROVE Goal
  <2>1. UNCHANGED <<session, uses, victim, kickout, state>>
    BY <1>5 DEF Pushes, Push, sessionVars, contextVars
  <2>2. \A q \in Requests \ {r} : pc'[q] = pc[q]
    BY <1>5 DEF Pushes, Push, Goto, TypeOK
  <2>3. \A q \in Requests : pc[q] = "mark" => pc'[q] = "mark"
    BY <1>5, <2>2 DEF Pushes, Push
  <2>4. /\ session[r] \in Members(deque'[uses[r]])
        /\ Members(deque[uses[r]]) \subseteq Members(deque'[uses[r]])
    <3>1. deque'[uses[r]] = <<session[r]>> \o Queue(r)
      BY <1>5 DEF Pushes, TypeOK
    <3>2. Queue(r) = deque[uses[r]] /\ Queue(r) \in Seq(SessionIds) /\ session[r] \in SessionIds
      BY <1>5 DEF Pushes, Queue
    <3>3. PICK l \in Seq(SessionIds), m \in Seq(SessionIds) :
             l = deque[uses[r]] /\ m = deque'[uses[r]] /\ m = <<session[r]>> \o l
      BY <3>1, <3>2, ListTypes
    <3>4. Len(m) = Len(l) + 1 /\ m[1] = session[r] /\ \A i \in 1..Len(l) : m[i + 1] = l[i]
      BY <3>2, <3>3, ListTypes
    <3>5. DOMAIN m = 1..Len(m) /\ DOMAIN l = 1..Len(l) /\ Len(l) \in Nat
      OBVIOUS
    <3>6. session[r] \in Members(m)
      BY <3>4, <3>5 DEF Members
    <3>7. ASSUME NEW i \in DOMAIN l PROVE l[i] \in Members(m)
      <4>1. i + 1 \in DOMAIN m /\ m[i + 1] = l[i]
        BY <3>4, <3>5
      <4> QED
        BY <4>1 DEF Members
    <3>8. Members(l) \subseteq Members(m)
      BY <3>7 DEF Members
    <3> QED
      BY <3>3, <3>6, <3>8
  <2>5. \A d \in Requests : Members(deque[d]) \subseteq Members(deque'[d])
    <3>1. \A d \in Requests \ {uses[r]} : deque'[d] = deque[d]
      BY <1>5 DEF Pushes, TypeOK
    <3> QED
      BY <2>4, <3>1
  <2>6. Kept(r)'
    BY <2>1, <2>4 DEF Kept
  <2>7. ASSUME NEW q \in Requests \ {r} PROVE Kept(q)'
    <3>1. pc[q] \in {"size", "remove", "mark", "answer", "passed"} => uses[q] \in Requests
      BY DEF UsesInv, UsesOf, Makers, Visits, FilterStep
    <3> QED
      BY <1>1, <2>1, <2>2, <2>3, <2>5, <3>1 DEF Kept
  <2> QED
    BY <2>6, <2>7
<1>6. ASSUME NEW r \in Requests, Size(r) PROVE Goal
  <2>1. UNCHANGED <<session, uses, victim, deque, kickout, state>>
    BY <1>6 DEF Size, sessionVars, queueVars, contextVars
  <2>2. pc[r] = "size" /\ \A q \in Requests \ {r} : pc'[q] = pc[q]
    BY <1>6 DEF Size, Goto, TypeOK
  <2> QED
    BY <1>1, <2>1, <2>2 DEF Kept
<1>7. ASSUME NEW r \in Requests, Removes(r) PROVE Goal
  <2>1. UNCHANGED <<session, uses, kickout, state>>
    BY <1>7 DEF Removes, Remove, sessionVars
  <2>2. pc[r] = "remove" /\ pc'[r] = "mark" /\ \A q \in Requests \ {r} : pc'[q] = pc[q]
    BY <1>7 DEF Removes, Remove, Goto, TypeOK
  <2>3. /\ victim'[r] = Queue(r)[Len(Queue(r))]
        /\ \A q \in Requests \ {r} : victim'[q] = victim[q]
    BY <1>7 DEF Removes, Remove, TypeOK
  <2>4. ASSUME NEW s, s \in Members(deque[uses[r]])
        PROVE  s = victim'[r] \/ s \in Members(deque'[uses[r]])
    <3>1. PICK l \in Seq(SessionIds) : l = deque[uses[r]] /\ l = Queue(r) /\ l # <<>>
      BY <1>7 DEF Removes, Remove, Queue
    <3>2. deque'[uses[r]] = SubSeq(l, 1, Len(l) - 1)
      BY <1>7, <3>1 DEF Removes, TypeOK
    <3>3. PICK i \in 1..Len(l) : s = l[i]
      BY <2>4, <3>1 DEF Members
    <3>4. CASE i = Len(l)
      BY <2>3, <3>1, <3>3, <3>4
    <3>5. CASE i # Len(l)
      <4>1. i \in 1..(Len(l) - 1)
        BY <3>1, <3>3, <3>5
      <4>2. DOMAIN SubSeq(l, 1, Len(l) - 1) = 1..(Len(l) - 1) /\ SubSeq(l, 1, Len(l) - 1)[i] = l[i]
        BY <3>1, <4>1
      <4> QED
        BY <3>2, <3>3, <4>1, <4>2 DEF Members
    <3> QED
      BY <3>4, <3>5
  <2>5. \A d \in Requests \ {uses[r]} : deque'[d] = deque[d]
    BY <1>7 DEF Removes, TypeOK
  <2>6. ASSUME NEW q \in Requests PROVE Kept(q)'
    <3>1. SUFFICES ASSUME pc'[q] \in {"size", "remove", "mark", "answer", "passed"} PROVE Kept(q)'
      BY DEF Kept
    <3>2. pc[q] \in {"size", "remove", "mark", "answer", "passed"} /\ session'[q] = session[q]
      BY <2>1, <2>2, <3>1
    <3>3. uses[q] \in Requests
      BY <3>2 DEF UsesInv, UsesOf, Makers, Visits, FilterStep
    <3>4. CASE session[q] \in Members(deque[uses[q]])
      BY <2>1, <2>2, <2>4, <2>5, <3>3, <3>4 DEF Kept
    <3>5. CASE session[q] \in kickout \/ state[session[q]] = "over"
      BY <2>1, <3>5 DEF Kept
    <3>6. ASSUME NEW p \in Requests, pc[p] = "mark", victim[p] = session[q] PROVE Kept(q)'
      BY <2>1, <2>2, <2>3, <3>6 DEF Kept
    <3> QED
      BY <1>1, <3>2, <3>4, <3>5, <3>6 DEF Kept
  <2> QED
    BY <2>6
<1>8. ASSUME NEW r \in Requests, RemoveNone(r) PROVE Goal
  <2>1. UNCHANGED <<session, uses, victim, deque, kickout, state>>
    BY <1>8 DEF RemoveNone, sessionVars, queueVars, contextVars
  <2>2. pc[r] = "remove" /\ pc'[r] = "error" /\ \A q \in Requests \ {r} : pc'[q] = pc[q]
    BY <1>8 DEF RemoveNone, Goto, TypeOK
  <2> QED
    BY <1>1, <2>1, <2>2 DEF Kept
<1>9. ASSUME NEW r \in Requests, Mark(r) PROVE Goal
  <2>1. UNCHANGED <<session, uses, victim, deque, state>>
    BY <1>9 DEF Mark, queueVars, contextVars
  <2>2. pc[r] = "mark" /\ \A q \in Requests \ {r} : pc'[q] = pc[q]
    BY <1>9 DEF Mark, Goto, TypeOK
  <2>3. kickout \subseteq kickout' /\ (victim[r] \in kickout' \/ state[victim[r]] = "over")
    BY <1>9 DEF Mark, Marked
  <2>4. ASSUME NEW q \in Requests PROVE Kept(q)'
    BY <1>1, <2>1, <2>2, <2>3 DEF Kept
  <2> QED
    BY <2>4
<1>10. ASSUME NEW r \in Requests, Answer(r) PROVE Goal
  <2>1. UNCHANGED <<session, uses, victim, deque, kickout>>
    BY <1>10 DEF Answer, queueVars, contextVars
  <2>2. pc[r] = "answer" /\ \A q \in Requests \ {r} : pc'[q] = pc[q]
    BY <1>10 DEF Answer, Goto, TypeOK
  <2>3. \A s \in SessionIds : state[s] = "over" => state'[s] = "over"
    BY Remain DEF Remains
  <2>4. \A q \in Requests : pc[q] = "mark" => pc'[q] = "mark"
    BY <2>2
  <2>5. ASSUME NEW q \in Requests PROVE Kept(q)'
    <3>1. pc'[q] \in {"size", "remove", "mark", "answer", "passed"} =>
             pc[q] \in {"size", "remove", "mark", "answer", "passed"}
      BY <2>2
    <3>2. pc[q] # "idle" => session[q] \in SessionIds
      BY <1>2
    <3> QED
      BY <1>1, <2>1, <2>3, <2>4, <3>1, <3>2 DEF Kept
  <2> QED
    BY <2>5
<1>11. Rests => Goal
  BY <1>1, <1>2 DEF Rests, Kept
<1> HIDE DEF Goal
<1> QED
  BY <1>3, <1>4, <1>5, <1>6, <1>7, <1>8, <1>9, <1>10, <1>11, QueueForms

LEMMA LimitFollows ==
    ASSUME TypeOK, UsesInv, QueueInv, LengthInv, MemberInv
    PROVE  LimitExplained
<1>1. \A q, r \in Makers(Visits) : q # r => drops > 0 \/ Overlap(q, r)
  BY SessionsAssumption DEF QueueInv, Makers, Visits, TypeOK
<1>2. ASSUME \A r \in Requests : pc[r] \notin FilterStep, torn = {}
      PROVE  Cardinality(InUse) <= maxSession * Cardinality(Makers(Visits))
  <2>1. ASSUME NEW s \in InUse
        PROVE  \E d \in Makers(Visits), j \in 1..maxSession : j \in DOMAIN deque[d] /\ deque[d][j] = s
    <3>1. PICK r \in Visits : session[r] = s /\ pc[r] = "passed"
      BY DEF InUse
    <3>2. s \in Members(deque[uses[r]])
      BY <1>2, <3>1 DEF MemberInv, InUse, FilterStep, Visits
    <3>3. uses[r] \in Makers(Visits) /\ uses[r] \in Requests
      BY <3>1 DEF UsesInv, UsesOf, Visits, Makers
    <3>4. ~(Len(deque[uses[r]]) > maxSession)
      BY <1>2, <3>3 DEF LengthInv, FilterStep
    <3>5. deque[uses[r]] \in Seq(SessionIds)
      BY <3>3 DEF TypeOK
    <3>6. PICK j \in DOMAIN deque[uses[r]] : deque[uses[r]][j] = s
      BY <3>2 DEF Members
    <3>7. j \in 1..maxSession
      BY <3>4, <3>5, SessionsAssumption
    <3> QED
      BY <3>3, <3>6, <3>7
  <2> DEFINE place(s) == CHOOSE p \in Makers(Visits) \X (1..maxSession) : deque[p[1]][p[2]] = s
             f == [s \in InUse |-> place(s)]
  <2>2. ASSUME NEW s \in InUse
        PROVE  f[s] \in Makers(Visits) \X (1..maxSession) /\ deque[f[s][1]][f[s][2]] = s
    <3>1. \E p \in Makers(Visits) \X (1..maxSession) : deque[p[1]][p[2]] = s
      <4>1. PICK d \in Makers(Visits), j \in 1..maxSession : deque[d][j] = s
        BY <2>1
      <4>2. <<d, j>> \in Makers(Visits) \X (1..maxSession) /\ deque[<<d, j>>[1]][<<d, j>>[2]] = s
        BY <4>1
      <4> QED
        BY <4>2
    <3> QED
      BY <3>1
  <2> HIDE DEF place
  <2>3. f \in [InUse -> Makers(Visits) \X (1..maxSession)]
    BY <2>2
  <2>4. \A s, t \in InUse : f[s] = f[t] => s = t
    BY <2>2
  <2>5. IsFiniteSet(InUse) /\ IsFiniteSet(Makers(Visits)) /\ maxSession \in Nat
    BY SessionsAssumption, FS_Subset DEF InUse, Makers, Visits
  <2> HIDE DEF f
  <2> QED
    BY <2>3, <2>4, <2>5, Numbered
<1> QED
  BY <1>1, <1>2 DEF LimitExplained
-----------------------------------------------------------------------------
(* The log, and what a queue holds *)

Entrant(r) == r \in Visits /\ pc[r] \notin {"get", "put", "look", "push"}

LEMMA EntrantRemains ==
    ASSUME TypeOK, UsesInv, [Next]_vars, NEW r \in Requests, Entrant(r)
    PROVE  Entrant(r)'
<1>1. r \in Visits'
  BY Progresses DEF Progress, Entrant
<1>2. CASE pc'[r] = pc[r]
  BY <1>1, <1>2 DEF Entrant
<1>3. CASE pc'[r] # pc[r]
  <2> DEFINE Goal == pc'[r] = pc[r] \/ pc'[r] \notin {"get", "put", "look", "push"}
  <2>1. ASSUME NEW q \in Requests, AtLogin(q) PROVE Goal
    BY <2>1 DEF AtLogin, Moves, LoginStep, TypeOK
  <2>2. ASSUME NEW q \in Requests, NEW s \in SessionIds, Visit(q, s) PROVE Goal
    BY <2>2 DEF Entrant, Visits, FilterStep, Visit, Begin, Goto, TypeOK
  <2>3. ASSUME NEW q \in Requests, FilterStepOf(q) PROVE Goal
    <3>1. CASE q # r
      BY <2>3, <3>1, FilterMoves DEF AtFilter, Moves, TypeOK
    <3>2. CASE q = r
      BY <2>3, <3>2 DEF Entrant, FilterStepOf, Get, Put, Look, Push, Size, Remove, RemoveNone,
         Mark, Wander, Answer, Goto, TypeOK
    <3> QED
      BY <3>1, <3>2
  <2>4. Rests => Goal
    BY DEF Rests
  <2>5. Goal
    <3> HIDE DEF Goal
    <3> QED
      BY <2>1, <2>2, <2>3, <2>4, FilterForms
  <2> QED
    BY <1>1, <1>3, <2>5 DEF Entrant
<1> QED
  BY <1>2, <1>3

LEMMA LogForms ==
    ASSUME TypeOK, UsesInv, [Next]_vars
    PROVE  \/ log' = log
           \/ \E r \in Requests : /\ pc[r] = "push" /\ log' = Append(log, r)
                                  /\ Entrant(r)'
<1> DEFINE Goal == \/ log' = log
                   \/ \E r \in Requests : /\ pc[r] = "push" /\ log' = Append(log, r)
                                          /\ Entrant(r)'
<1> SUFFICES Goal
  OBVIOUS
<1>1. ASSUME NEW r \in Requests, AtLogin(r) PROVE Goal
  BY <1>1 DEF AtLogin, queueVars
<1>2. ASSUME NEW r \in Requests, NEW s \in SessionIds, Visit(r, s) PROVE Goal
  BY <1>2 DEF Visit, Begin, queueVars
<1>3. ASSUME NEW r \in Requests, FilterStepOf(r) PROVE Goal
  <2>1. CASE Push(r)
    <3>1. pc[r] = "push" /\ log' = Append(log, r) /\ pc'[r] = "size"
      BY <2>1 DEF Push, Goto, TypeOK
    <3>2. Entrant(r)'
      BY <3>1 DEF Entrant, Visits, FilterStep
    <3> QED
      BY <3>1, <3>2
  <2>2. CASE ~Push(r)
    BY <1>3, <2>2 DEF FilterStepOf, Get, Put, Look, Size, Remove, RemoveNone, Mark, Wander,
       Answer, queueVars
  <2> QED
    BY <2>1, <2>2
<1>4. Rests => Goal
  BY DEF Rests
<1> HIDE DEF Goal
<1> QED
  BY <1>1, <1>2, <1>3, <1>4, FilterForms

LEMMA LogStep ==
    ASSUME TypeOK, UsesInv, LogInv, [Next]_vars
    PROVE  LogInv'
<1>1. log \in Seq(Requests) /\ \A i \in DOMAIN log : log[i] \in Requests
  BY DEF TypeOK
<1>2. /\ \A i \in DOMAIN log : Entrant(log[i])
      /\ \A i, j \in DOMAIN log : log[i] = log[j] => i = j
  BY DEF LogInv, Entrant
<1>3. \A r \in Requests : r \in Members(log) => Entrant(r)'
  <2>1. ASSUME NEW r \in Requests, r \in Members(log) PROVE Entrant(r)
    BY <1>2, <2>1 DEF Members
  <2> QED
    BY <2>1, EntrantRemains
<1>4. CASE log' = log
  <2>1. ASSUME NEW i \in DOMAIN log, NEW r \in Requests, r = log[i]
        PROVE  r \in Visits' /\ pc'[r] \notin {"get", "put", "look", "push"}
    BY <1>3, <2>1 DEF Members, Entrant
  <2> QED
    BY <1>1, <1>2, <1>4, <2>1 DEF LogInv
<1>5. ASSUME NEW p \in Requests, pc[p] = "push", log' = Append(log, p), Entrant(p)'
      PROVE  LogInv'
  <2>1. /\ DOMAIN log' = 1..(Len(log) + 1) /\ DOMAIN log = 1..Len(log) /\ Len(log) \in Nat
        /\ log'[Len(log) + 1] = p
        /\ \A i \in DOMAIN log : log'[i] = log[i]
    BY <1>1, <1>5
  <2>2. \A i \in DOMAIN log : log[i] # p
    BY <1>2, <1>5 DEF Entrant
  <2>3. \A i \in DOMAIN log' : i \in DOMAIN log \/ i = Len(log) + 1
    BY <2>1
  <2>4. ASSUME NEW i \in DOMAIN log', NEW r \in Requests, r = log'[i]
        PROVE  r \in Visits' /\ pc'[r] \notin {"get", "put", "look", "push"}
    BY <1>3, <1>5, <2>1, <2>3, <2>4 DEF Members, Entrant
  <2>5. \A i \in DOMAIN log' : log'[i] \in Requests
    BY <1>1, <2>1, <2>3
  <2>6. \A i, j \in DOMAIN log' : log'[i] = log'[j] => i = j
    BY <1>2, <2>1, <2>2, <2>3
  <2> QED
    BY <2>4, <2>5, <2>6 DEF LogInv
<1> QED
  BY <1>4, <1>5, LogForms

\* Entries keep their session and queue.
LEMMA EntryRemains ==
    ASSUME TypeOK, UsesInv, LogInv, [Next]_vars, NEW i \in DOMAIN log
    PROVE  /\ i \in DOMAIN log' /\ log'[i] = log[i] /\ log[i] \in Requests
           /\ session'[log[i]] = session[log[i]] /\ session[log[i]] \in SessionIds
           /\ uses'[log[i]] = uses[log[i]]
<1>1. i \in DOMAIN log' /\ log'[i] = log[i] /\ log[i] \in Requests
  BY Remain, LogRemains DEF TypeOK
<1>2. Entrant(log[i]) /\ UsesOf(log[i])
  BY <1>1 DEF LogInv, Entrant, UsesInv
<1>3. session[log[i]] # Null /\ pc[log[i]] # "idle" /\ uses[log[i]] # Null
  BY <1>2, Fixed DEF Entrant, UsesOf, Visits, FilterStep, Makers
<1> QED
  BY <1>1, <1>3, Progresses DEF Progress, TypeOK

LEMMA PlaceStep ==
    ASSUME TypeOK, UsesInv, LogInv, PlaceInv, [Next]_vars
    PROVE  PlaceInv'
<1> SUFFICES ASSUME torn' = {}, NEW d \in Requests PROVE \E k : Places(d, k)'
  BY DEF PlaceInv
<1> DEFINE Goal == \E k : Places(d, k)'
<1> SUFFICES Goal
  OBVIOUS
<1>0. PICK k : Places(d, k)
  BY Remain DEF Remains, PlaceInv
<1>1. \A i \in DOMAIN log :
         /\ i \in DOMAIN log' /\ log'[i] = log[i]
         /\ session'[log[i]] = session[log[i]] /\ uses'[log[i]] = uses[log[i]]
  BY EntryRemains
<1>2. DOMAIN log = 1..Len(log) /\ Len(log) \in Nat /\ deque[d] \in Seq(SessionIds)
  BY DEF TypeOK
<1>3. deque'[d] = deque[d] => Goal
  <2> SUFFICES ASSUME deque'[d] = deque[d] PROVE Places(d, k)'
    OBVIOUS
  <2>1. k \in [1..Len(deque'[d]) -> DOMAIN log']
    BY <1>0, <1>1 DEF Places
  <2>2. ASSUME NEW j \in 1..Len(deque'[d]) PROVE Entered(k[j], deque[d][j], d)'
    BY <1>0, <1>1 DEF Places, Entered
  <2> QED
    BY <1>0, <2>1, <2>2 DEF Places
<1>4. ASSUME NEW r \in Requests, Pushes(r) PROVE Goal
  <2>1. CASE d # uses[r]
    <3>1. deque'[d] = deque[d]
      BY <1>4, <2>1 DEF Pushes, TypeOK
    <3> QED
      BY <1>3, <3>1
  <2>2. CASE d = uses[r]
    <3>1. PICK l \in Seq(SessionIds), m \in Seq(SessionIds), s \in SessionIds :
             /\ l = deque[d] /\ m = deque'[d] /\ s = session[r] /\ m = <<s>> \o l
      <4>1. deque'[d] = <<session[r]>> \o deque[d]
        BY <1>4, <2>2 DEF Pushes, TypeOK, Queue
      <4>2. session[r] \in SessionIds /\ deque[d] \in Seq(SessionIds)
        BY <1>2, <1>4 DEF Pushes
      <4> QED
        BY <4>1, <4>2, ListTypes
    <3>2. Len(m) = Len(l) + 1 /\ m[1] = s /\ Len(l) \in Nat
          /\ \A i \in 1..Len(l) : m[i + 1] = l[i]
      BY <3>1, ListTypes
    <3> PICK n \in Nat : n = Len(log) + 1
      BY <1>2
    <3>3. n \in DOMAIN log' /\ log'[n] = r /\ session' = session /\ uses' = uses
      BY <1>2, <1>4 DEF Pushes, Push, TypeOK, contextVars
    <3>4. k \in [1..Len(l) -> DOMAIN log] /\ \A i, j \in 1..Len(l) : i < j => k[j] < k[i]
      BY <1>0, <3>1 DEF Places
    <3>5. \A j \in 1..Len(l) : session[log[k[j]]] = l[j] /\ uses[log[k[j]]] = d
      BY <1>0, <3>1 DEF Places, Entered
    <3> DEFINE g == [j \in 1..Len(m) |-> IF j = 1 THEN n ELSE k[j - 1]]
    <3>6. ASSUME NEW j \in 1..Len(m), j # 1
          PROVE  j - 1 \in 1..Len(l) /\ g[j] = k[j - 1] /\ m[j] = l[j - 1] /\ k[j - 1] \in DOMAIN log
      <4>1. j - 1 \in 1..Len(l) /\ (j - 1) + 1 = j
        BY <3>2, <3>6
      <4> QED
        BY <3>2, <3>4, <3>6, <4>1
    <3>7. 1 \in 1..Len(m) /\ g[1] = n
      BY <3>2
    <3>8. g \in [1..Len(m) -> DOMAIN log']
      BY <1>1, <3>3, <3>6, <3>7
    <3> HIDE DEF g
    <3>9. ASSUME NEW j \in 1..Len(m)
          PROVE  session'[log'[g[j]]] = m[j] /\ uses'[log'[g[j]]] = d
      <4>1. CASE j = 1
        BY <2>2, <3>1, <3>2, <3>3, <3>7, <4>1
      <4>2. CASE j # 1
        <5>1. PICK i \in DOMAIN log : i = k[j - 1] /\ i = g[j]
          BY <3>6, <4>2
        <5>2. session[log[i]] = m[j] /\ uses[log[i]] = d
          BY <3>5, <3>6, <4>2, <5>1
        <5>3. log'[i] = log[i]
          BY <1>1
        <5> QED
          BY <3>3, <5>1, <5>2, <5>3
      <4> QED
        BY <4>1, <4>2
    <3>10. ASSUME NEW i \in 1..Len(m), NEW j \in 1..Len(m), i < j PROVE g[j] < g[i]
      <4>1. j # 1 /\ g[j] = k[j - 1] /\ k[j - 1] \in 1..Len(log) /\ j - 1 \in 1..Len(l)
        BY <1>2, <3>2, <3>6, <3>10
      <4>2. CASE i = 1
        BY <1>2, <3>7, <4>1, <4>2
      <4>3. CASE i # 1
        <5>1. i - 1 \in 1..Len(l) /\ g[i] = k[i - 1] /\ i - 1 < j - 1
          BY <3>2, <3>6, <3>10, <4>3
        <5> QED
          BY <3>4, <4>1, <5>1
      <4> QED
        BY <4>2, <4>3
    <3>11. \A i, j \in 1..Len(m) : i < j => g[j] < g[i]
      BY <3>10
    <3>12. \A j \in 1..Len(m) : session'[log'[g[j]]] = m[j] /\ uses'[log'[g[j]]] = d
      BY <3>9
    <3>13. Places(d, g)'
      BY <3>1, <3>8, <3>11, <3>12 DEF Places, Entered
    <3> QED
      BY <3>13
  <2> QED
    BY <2>1, <2>2
<1>5. ASSUME NEW r \in Requests, Removes(r) PROVE Goal
  <2>1. CASE d # uses[r]
    <3>1. deque'[d] = deque[d]
      BY <1>5, <2>1 DEF Removes, TypeOK
    <3> QED
      BY <1>3, <3>1
  <2>2. CASE d = uses[r]
    <3>1. PICK l \in Seq(SessionIds), m \in Seq(SessionIds) :
             /\ l = deque[d] /\ m = deque'[d] /\ l # <<>>
             /\ m = SubSeq(l, 1, Len(l) - 1)
      <4>1. deque'[d] = SubSeq(deque[d], 1, Len(deque[d]) - 1) /\ deque[d] # <<>>
        BY <1>5, <2>2 DEF Removes, Remove, TypeOK, Queue
      <4>2. \A l \in Seq(SessionIds) : l # <<>> => SubSeq(l, 1, Len(l) - 1) \in Seq(SessionIds)
        OBVIOUS
      <4> QED
        BY <1>2, <4>1, <4>2
    <3>2. /\ Len(l) \in Nat \ {0} /\ Len(m) = Len(l) - 1
          /\ \A i \in 1..(Len(l) - 1) : m[i] = l[i]
      BY <3>1, ListTypes
    <3>3. log' = log /\ session' = session /\ uses' = uses
      BY <1>5 DEF Removes, Remove
    <3>4. k \in [1..Len(l) -> DOMAIN log] /\ \A i, j \in 1..Len(l) : i < j => k[j] < k[i]
      BY <1>0, <3>1 DEF Places
    <3>5. \A j \in 1..Len(l) : session[log[k[j]]] = l[j] /\ uses[log[k[j]]] = d
      BY <1>0, <3>1 DEF Places, Entered
    <3> DEFINE g == [j \in 1..Len(m) |-> k[j]]
    <3>6. \A j \in 1..Len(m) : j \in 1..Len(l) /\ g[j] = k[j] /\ m[j] = l[j]
      BY <3>2
    <3>7. g \in [1..Len(m) -> DOMAIN log']
      BY <3>3, <3>4, <3>6
    <3> HIDE DEF g
    <3>8. \A j \in 1..Len(m) : session'[log'[g[j]]] = m[j] /\ uses'[log'[g[j]]] = d
      BY <3>3, <3>5, <3>6
    <3>9. \A i, j \in 1..Len(m) : i < j => g[j] < g[i]
      BY <3>4, <3>6
    <3>10. Places(d, g)'
      BY <3>1, <3>7, <3>8, <3>9 DEF Places, Entered
    <3> QED
      BY <3>10
  <2> QED
    BY <2>1, <2>2
<1>6. ASSUME NEW r \in Requests, Still(r) PROVE Goal
  BY <1>3, <1>6 DEF Still
<1>7. ASSUME NEW r \in Requests, Look(r) PROVE Goal
  BY <1>3, <1>7 DEF Look, queueVars
<1>8. ASSUME NEW r \in Requests, Size(r) PROVE Goal
  BY <1>3, <1>8 DEF Size, queueVars
<1>9. ASSUME NEW r \in Requests, RemoveNone(r) PROVE Goal
  BY <1>3, <1>9 DEF RemoveNone, queueVars
<1>10. ASSUME NEW r \in Requests, Mark(r) PROVE Goal
  BY <1>3, <1>10 DEF Mark, queueVars
<1>11. ASSUME NEW r \in Requests, Answer(r) PROVE Goal
  BY <1>3, <1>11 DEF Answer, queueVars
<1>12. Rests => Goal
  BY <1>3 DEF Rests
<1> HIDE DEF Goal
<1> QED
  BY <1>4, <1>5, <1>6, <1>7, <1>8, <1>9, <1>10, <1>11, <1>12, QueueForms
-----------------------------------------------------------------------------
(* Why a session can be in a queue twice, or be told to leave *)

LEMMA TwiceRemains ==
    ASSUME TypeOK, UsesInv, LogInv, [Next]_vars, Twice
    PROVE  Twice'
<1>1. PICK q, r \in Visits : /\ Overlap(q, r) /\ uses[q] = uses[r]
                             /\ q \in Members(log) /\ r \in Members(log)
                             /\ session[q] = session[r]
  BY DEF Twice
<1>2. \A p \in Members(log) : /\ p \in Members(log)'
                              /\ session'[p] = session[p] /\ uses'[p] = uses[p]
  BY EntryRemains DEF Members
<1>3. q \in Visits' /\ r \in Visits' /\ Overlap(q, r)'
  <2>1. q \in Requests /\ r \in Requests /\ pc[q] # "idle" /\ pc[r] # "idle"
    BY DEF Visits, FilterStep
  <2> QED
    BY <1>1, <2>1, Progresses, OverlapRemains DEF Progress
<1> QED
  BY <1>1, <1>2, <1>3 DEF Twice

\* Who is about to put in a session that is there already overlaps who put it in.
Again(r) ==
    pc[r] = "push" /\ session[r] \in Members(Queue(r)) =>
       \E q \in Members(log) : Overlap(q, r) /\ uses[q] = uses[r] /\ session[q] = session[r]

Distinct(d) == \A i, j \in DOMAIN deque[d] : deque[d][i] = deque[d][j] => i = j

LEMMA EntrantsRemain ==
    ASSUME TypeOK, UsesInv, LogInv, [Next]_vars, NEW q \in Members(log)
    PROVE  /\ q \in Requests /\ q \in Visits /\ q \in Members(log') /\ q \in Visits'
           /\ session'[q] = session[q] /\ uses'[q] = uses[q] /\ pc[q] # "idle"
<1>1. PICK i \in DOMAIN log : q = log[i]
  BY DEF Members
<1>2. q \in Requests /\ q \in Members(log') /\ session'[q] = session[q] /\ uses'[q] = uses[q]
  BY <1>1, EntryRemains DEF Members
<1>3. q \in Visits /\ pc[q] # "idle"
  BY <1>1, <1>2 DEF LogInv, Visits, FilterStep
<1> QED
  BY <1>2, <1>3, Progresses DEF Progress

LEMMA AgainRemains ==
    ASSUME TypeOK, UsesInv, LogInv, [Next]_vars, NEW r \in Requests,
           Again(r), pc[r] = "push",
           pc'[r] = "push" /\ session'[r] \in Members(Queue(r))' => session[r] \in Members(Queue(r))
    PROVE  Again(r)'
<1> SUFFICES ASSUME pc'[r] = "push", session'[r] \in Members(Queue(r))'
             PROVE  \E q \in Members(log') : /\ Overlap(q, r)' /\ uses'[q] = uses'[r]
                                             /\ session'[q] = session'[r]
  BY DEF Again
<1>1. PICK q \in Members(log) :
         Overlap(q, r) /\ uses[q] = uses[r] /\ session[q] = session[r]
  BY DEF Again
<1>2. q \in Requests /\ q \in Members(log') /\ pc[q] # "idle"
      /\ session'[q] = session[q] /\ uses'[q] = uses[q]
  BY EntrantsRemain
<1>3. Overlap(q, r)'
  BY <1>1, <1>2, Progresses, OverlapRemains
<1>4. session'[r] = session[r] /\ uses'[r] = uses[r]
  <2>1. uses[r] # Null
    BY Fixed DEF UsesInv, UsesOf, Makers, Visits, FilterStep
  <2> QED
    BY <2>1, Progresses DEF Progress
<1> QED
  BY <1>1, <1>2, <1>3, <1>4

LEMMA TwiceStep ==
    ASSUME TypeOK, UsesInv, SawInv, LogInv, TwiceInv, [Next]_vars
    PROVE  TwiceInv'
<1> SUFFICES ASSUME torn' = {}
             PROVE  (Twice' \/ \A d \in Requests : Distinct(d)') /\ \A r \in Requests : Again(r)'
  BY DEF TwiceInv, Distinct, Again
<1> DEFINE Once == Twice' \/ \A d \in Requests : Distinct(d)'
           Goal == Once /\ \A r \in Requests : Again(r)'
<1> SUFFICES Goal
  OBVIOUS
<1>0. torn = {} /\ (Twice \/ \A d \in Requests : Distinct(d)) /\ \A r \in Requests : Again(r)
  BY Remain DEF Remains, TwiceInv, Distinct, Again
<1>1. deque' = deque => Once
  BY <1>0, TwiceRemains DEF Distinct
\* Nobody comes to push, and no queue gains a member.
<1> DEFINE Shrinks ==
      \A r \in Requests : pc'[r] = "push" =>
         /\ pc[r] = "push"
         /\ session'[r] \in Members(Queue(r))' => session[r] \in Members(Queue(r))
<1>2. Shrinks => \A r \in Requests : Again(r)'
  <2> SUFFICES ASSUME Shrinks, NEW r \in Requests PROVE Again(r)'
    OBVIOUS
  <2>1. CASE pc'[r] = "push"
    BY <1>0, <2>1, AgainRemains
  <2>2. CASE pc'[r] # "push"
    BY <2>2 DEF Again
  <2> QED
    BY <2>1, <2>2
<1>3. ASSUME NEW r \in Requests, Still(r) PROVE Goal
  <2>1. Shrinks
    BY <1>3 DEF Still, Deep, Queue
  <2> QED
    BY <1>1, <1>2, <1>3, <2>1 DEF Still
<1>4. ASSUME NEW r \in Requests, Look(r) PROVE Goal
  <2>1. UNCHANGED <<deque, uses, session>> /\ \A q \in Requests \ {r} : pc'[q] = pc[q]
    BY <1>4 DEF Look, Goto, TypeOK, queueVars, contextVars
  <2>2. pc'[r] = "push" => session[r] \notin Members(Queue(r))
    BY <1>4 DEF Look, Goto, TypeOK
  <2>3. ASSUME NEW q \in Requests \ {r} PROVE Again(q)'
    <3>1. CASE pc[q] = "push"
      BY <1>0, <2>1, <3>1, AgainRemains DEF Queue
    <3>2. CASE pc[q] # "push"
      BY <2>1, <3>2 DEF Again
    <3> QED
      BY <3>1, <3>2
  <2>4. Again(r)'
    BY <2>1, <2>2 DEF Again, Queue
  <2> QED
    BY <1>1, <2>1, <2>3, <2>4
<1>5. ASSUME NEW r \in Requests, Pushes(r) PROVE Goal
  <2>1. /\ UNCHANGED <<uses, session, saw>> /\ pc[r] = "push" /\ pc'[r] = "size"
        /\ \A q \in Requests \ {r} : pc'[q] = pc[q]
        /\ log' = Append(log, r)
    BY <1>5 DEF Pushes, Push, Goto, TypeOK, contextVars
  <2>2. r \in Members(log') /\ r \in Visits'
    <3>1. Len(log) + 1 \in DOMAIN log' /\ log'[Len(log) + 1] = r
      BY <2>1 DEF TypeOK
    <3> QED
      BY <2>1, <3>1 DEF Members, Visits, FilterStep
  <2>3. PICK d \in Requests, l \in Seq(SessionIds), m \in Seq(SessionIds), s \in SessionIds :
           /\ d = uses[r] /\ l = deque[d] /\ m = deque'[d] /\ s = session[r] /\ m = <<s>> \o l
    <3>1. uses[r] \in Requests /\ session[r] \in SessionIds /\ deque[uses[r]] \in Seq(SessionIds)
      BY <1>5 DEF Pushes, Queue
    <3>2. deque'[uses[r]] = <<session[r]>> \o deque[uses[r]]
      BY <1>5 DEF Pushes, TypeOK, Queue
    <3>3. <<session[r]>> \o deque[uses[r]] \in Seq(SessionIds)
      BY <3>1, ListTypes
    <3> QED
      BY <3>1, <3>2, <3>3
  <2>4. Len(m) = Len(l) + 1 /\ m[1] = s /\ Len(l) \in Nat
        /\ \A i \in 1..Len(l) : m[i + 1] = l[i]
    BY <2>3, ListTypes
  <2>5. \A i \in DOMAIN m : i = 1 \/ (i - 1 \in DOMAIN l /\ m[i] = l[i - 1])
    <3>1. ASSUME NEW i \in DOMAIN m, i # 1 PROVE i - 1 \in 1..Len(l) /\ (i - 1) + 1 = i
      BY <2>4, <3>1
    <3> QED
      BY <2>4, <3>1
  <2>6. \A c \in Requests \ {d} : deque'[c] = deque[c]
    BY <1>5, <2>3 DEF Pushes, TypeOK
  <2>7. Once
    <3>1. CASE Twice
      BY <3>1, TwiceRemains
    <3>2. CASE s \in Members(l)
      <4>1. PICK q \in Members(log) :
               Overlap(q, r) /\ uses[q] = uses[r] /\ session[q] = session[r]
        BY <1>0, <2>1, <2>3, <3>2 DEF Again, Queue
      <4>2. q \in Visits' /\ q \in Members(log')
        BY EntrantsRemain
      <4>3. Overlap(q, r)'
        BY <2>1, <4>1 DEF Overlap
      <4> QED
        BY <2>1, <2>2, <4>1, <4>2, <4>3 DEF Twice
    <3>3. CASE (\A c \in Requests : Distinct(c)) /\ s \notin Members(l)
      <4>1. \A i \in DOMAIN l : l[i] # s
        BY <3>3 DEF Members
      <4>2. \A i, j \in DOMAIN l : l[i] = l[j] => i = j
        BY <2>3, <3>3 DEF Distinct
      <4>3. ASSUME NEW i \in DOMAIN m, NEW j \in DOMAIN m, m[i] = m[j] PROVE i = j
        <5>1. CASE i = 1
          BY <2>4, <2>5, <4>1, <4>3, <5>1
        <5>2. CASE j = 1
          BY <2>4, <2>5, <4>1, <4>3, <5>2
        <5>3. CASE i # 1 /\ j # 1
          <6>1. i - 1 = j - 1
            BY <2>5, <4>2, <4>3, <5>3
          <6> QED
            BY <6>1
        <5> QED
          BY <5>1, <5>2, <5>3
      <4>4. ASSUME NEW c \in Requests PROVE Distinct(c)'
        <5>1. m = deque'[d]
          BY <2>3
        <5>2. CASE c = d
          BY <4>3, <5>1, <5>2 DEF Distinct
        <5>3. CASE c # d
          BY <2>6, <3>3, <5>3 DEF Distinct
        <5> QED
          BY <5>2, <5>3
      <4> QED
        BY <4>4
    <3> QED
      BY <1>0, <3>1, <3>2, <3>3
  <2>8. ASSUME NEW q \in Requests PROVE Again(q)'
    <3>1. SUFFICES ASSUME pc'[q] = "push", session'[q] \in Members(Queue(q))' PROVE Again(q)'
      BY DEF Again
    <3>2. q # r /\ pc[q] = "push"
      BY <2>1, <3>1
    <3>3. CASE session[q] \in Members(Queue(q))
      BY <1>0, <3>2, <3>3, AgainRemains
    <3>4. CASE session[q] \notin Members(Queue(q))
      <4>1. uses[q] \in Requests
        BY <3>2 DEF UsesInv, UsesOf, Makers, Visits, FilterStep
      <4>2. uses[q] = d
        BY <2>1, <2>6, <3>1, <3>4, <4>1 DEF Queue
      <4>3. session[q] \in Members(m) /\ session[q] \notin Members(l)
        BY <2>1, <2>3, <3>1, <3>4, <4>2 DEF Queue
      <4>4. session[q] = session[r]
        BY <2>3, <2>4, <2>5, <4>3 DEF Members
      <4>5. Overlap(r, q)'
        BY <2>1, <3>2 DEF Overlap, SawInv, Ended
      <4> QED
        BY <2>1, <2>2, <2>3, <4>2, <4>4, <4>5 DEF Again
    <3> QED
      BY <3>3, <3>4
  <2> QED
    BY <2>7, <2>8
<1>6. ASSUME NEW r \in Requests, Size(r) PROVE Goal
  <2>1. UNCHANGED <<deque, uses, session>> /\ \A q \in Requests : pc'[q] = "push" => pc[q] = "push"
    BY <1>6 DEF Size, Goto, TypeOK, queueVars, contextVars
  <2>2. Shrinks
    BY <2>1 DEF Queue
  <2> QED
    BY <1>1, <1>2, <2>1, <2>2
<1>7. ASSUME NEW r \in Requests, Removes(r) PROVE Goal
  <2>1. /\ UNCHANGED <<uses, session>> /\ \A q \in Requests : pc'[q] = "push" => pc[q] = "push"
    BY <1>7 DEF Removes, Remove, Goto, TypeOK
  <2>2. PICK d \in Requests, l \in Seq(SessionIds), m \in Seq(SessionIds) :
           /\ d = uses[r] /\ l = deque[d] /\ m = deque'[d] /\ l # <<>>
           /\ m = SubSeq(l, 1, Len(l) - 1)
    <3>1. uses[r] \in Requests /\ deque[uses[r]] \in Seq(SessionIds) /\ deque[uses[r]] # <<>>
      BY <1>7 DEF Removes, Remove, Queue
    <3>2. deque'[uses[r]] = SubSeq(deque[uses[r]], 1, Len(deque[uses[r]]) - 1)
      BY <1>7 DEF Removes, TypeOK, Queue
    <3>3. \A l \in Seq(SessionIds) : l # <<>> => SubSeq(l, 1, Len(l) - 1) \in Seq(SessionIds)
      OBVIOUS
    <3> QED
      BY <3>1, <3>2, <3>3
  <2>3. /\ Len(l) \in Nat \ {0} /\ Len(m) = Len(l) - 1
        /\ \A i \in 1..(Len(l) - 1) : m[i] = l[i]
    BY <2>2, ListTypes
  <2>4. \A i \in DOMAIN m : i \in DOMAIN l /\ m[i] = l[i]
    BY <2>3
  <2>5. \A c \in Requests \ {d} : deque'[c] = deque[c]
    BY <1>7, <2>2 DEF Removes, TypeOK
  <2>6. Once
    <3>1. CASE Twice
      BY <3>1, TwiceRemains
    <3>2. ASSUME \A c \in Requests : Distinct(c), NEW c \in Requests PROVE Distinct(c)'
      <4>1. CASE c = d
        <5>1. \A i, j \in DOMAIN l : l[i] = l[j] => i = j
          BY <2>2, <3>2 DEF Distinct
        <5>2. \A i, j \in DOMAIN m : m[i] = m[j] => i = j
          BY <2>4, <5>1
        <5>3. m = deque'[c]
          BY <2>2, <4>1
        <5> QED
          BY <5>2, <5>3 DEF Distinct
      <4>2. CASE c # d
        BY <2>5, <3>2, <4>2 DEF Distinct
      <4> QED
        BY <4>1, <4>2
    <3> QED
      BY <1>0, <3>1, <3>2
  <2>7. Shrinks
    <3>1. ASSUME NEW q \in Requests, pc'[q] = "push", session'[q] \in Members(Queue(q))'
          PROVE  session[q] \in Members(Queue(q))
      <4>1. uses[q] \in Requests
        BY <2>1, <3>1 DEF UsesInv, UsesOf, Makers, Visits, FilterStep
      <4>2. Members(m) \subseteq Members(l)
        BY <2>4 DEF Members
      <4> QED
        BY <2>1, <2>2, <2>5, <3>1, <4>1, <4>2 DEF Queue
    <3> QED
      BY <2>1, <3>1
  <2> QED
    BY <1>2, <2>6, <2>7
<1>8. ASSUME NEW r \in Requests, RemoveNone(r) \/ Mark(r) \/ Answer(r) PROVE Goal
  <2>1. UNCHANGED <<deque, uses, session>> /\ \A q \in Requests : pc'[q] = "push" => pc[q] = "push"
    BY <1>8 DEF RemoveNone, Mark, Answer, Goto, TypeOK, queueVars, contextVars
  <2>2. Shrinks
    BY <2>1 DEF Queue
  <2> QED
    BY <1>1, <1>2, <2>1, <2>2
<1>9. Rests => Goal
  <2> SUFFICES ASSUME Rests PROVE Goal
    OBVIOUS
  <2>1. Shrinks /\ deque' = deque
    BY DEF Rests, Queue
  <2> QED
    BY <1>1, <1>2, <2>1
<1> HIDE DEF Goal
<1> QED
  BY <1>3, <1>4, <1>5, <1>6, <1>7, <1>8, <1>9, QueueForms

\* What was taken out of a queue, or is to be.
Excess(r) ==
    pc[r] = "remove" =>
       \/ torn # {}
       \/ Len(Queue(r)) > maxSession
       \/ \E q \in Visits : Overlap(q, r) /\ uses[q] = uses[r] /\ victim[q] # Null

LEMMA VictimRemains ==
    ASSUME TypeOK, UsesInv, [Next]_vars, NEW q \in Requests, victim[q] # Null
    PROVE  /\ q \in Visits /\ q \in Visits' /\ pc[q] # "idle"
           /\ uses'[q] = uses[q] /\ uses[q] # Null /\ victim'[q] # Null
<1>1. q \in Visits /\ uses[q] \in Requests
  BY DEF UsesInv, UsesOf, Makers, Visits
<1>2. pc[q] # "idle" /\ uses[q] # Null
  BY <1>1, Fixed DEF Visits, FilterStep
<1> QED
  BY <1>1, <1>2, Progresses, Remain DEF Progress, Remains

LEMMA KickedRemains ==
    ASSUME TypeOK, UsesInv, LogInv, [Next]_vars, NEW s \in SessionIds, Kicked(s)
    PROVE  Kicked(s)'
<1>1. ASSUME NEW i \in DOMAIN log, session[log[i]] = s, Cardinality(Later(i) \ {s}) >= maxSession
      PROVE  Kicked(s)'
  <2>1. i \in DOMAIN log' /\ session'[log'[i]] = s
    BY <1>1, EntryRemains
  <2>2. ASSUME NEW t \in Later(i) PROVE t \in Later(i)'
    <3>1. PICK j \in DOMAIN log : j > i /\ uses[log[j]] = uses[log[i]] /\ t = session[log[j]]
      BY DEF Later
    <3>2. j \in DOMAIN log' /\ uses'[log'[j]] = uses'[log'[i]] /\ t = session'[log'[j]]
      BY <3>1, EntryRemains
    <3> QED
      BY <3>1, <3>2 DEF Later
  <2>3. Later(i)' \subseteq SessionIds
    <3>1. TypeOK' /\ UsesInv' /\ LogInv'
      BY TypeStep, UsesStep, LogStep
    <3>2. ASSUME NEW j \in DOMAIN log' PROVE session'[log'[j]] \in SessionIds
      <4>1. PICK r \in Requests : r = log'[j]
        BY <3>1 DEF TypeOK
      <4>2. r \in Visits' /\ UsesOf(r)'
        BY <3>1, <4>1 DEF LogInv, UsesInv
      <4>3. pc'[r] # "idle" /\ session'[r] \in SessionIds \cup {Null}
        BY <3>1, <4>2 DEF Visits, FilterStep, TypeOK
      <4> QED
        BY <4>1, <4>2, <4>3 DEF UsesOf
    <3> QED
      BY <3>2 DEF Later
  <2>4. IsFiniteSet(Later(i)' \ {s}) /\ Later(i) \ {s} \subseteq Later(i)' \ {s}
    BY <2>2, <2>3, SessionsAssumption, FS_Subset
  <2>5. Cardinality(Later(i) \ {s}) <= Cardinality(Later(i)' \ {s})
    BY <2>4, FS_Subset
  <2>6. Cardinality(Later(i) \ {s}) \in Nat /\ Cardinality(Later(i)' \ {s}) \in Nat
    BY <2>4, FS_Subset, FS_CardinalityType
  <2>7. Cardinality(Later(i)' \ {s}) >= maxSession
    BY <1>1, <2>5, <2>6, SessionsAssumption
  <2> QED
    BY <2>1, <2>7 DEF Kicked
<1>2. CASE torn # {}
  BY <1>2, Remain DEF Remains, Kicked
<1>3. ASSUME NEW q \in Visits, NEW r \in Visits, Overlap(q, r), uses[q] = uses[r],
             \/ q \in Members(log) /\ r \in Members(log) /\ session[q] = session[r]
             \/ victim[q] # Null /\ victim[r] # Null
      PROVE  Kicked(s)'
  <2>1. q \in Requests /\ r \in Requests /\ pc[q] # "idle" /\ pc[r] # "idle"
    BY DEF Visits, FilterStep
  <2>2. Overlap(q, r)' /\ q \in Visits' /\ r \in Visits'
    BY <1>3, <2>1, Progresses, OverlapRemains DEF Progress
  <2>3. CASE q \in Members(log) /\ r \in Members(log) /\ session[q] = session[r]
    BY <1>3, <2>2, <2>3, EntrantsRemain DEF Kicked
  <2>4. CASE victim[q] # Null /\ victim[r] # Null
    BY <1>3, <2>1, <2>2, <2>4, VictimRemains DEF Kicked
  <2> QED
    BY <1>3, <2>3, <2>4
<1> QED
  BY <1>1, <1>2, <1>3 DEF Kicked

LEMMA ExcessRemains ==
    ASSUME TypeOK, UsesInv, [Next]_vars, NEW r \in Requests, Excess(r), pc[r] = "remove",
           Len(Queue(r)') >= Len(Queue(r)), Queue(r) \in Seq(SessionIds),
           Queue(r)' \in Seq(SessionIds)
    PROVE  Excess(r)'
<1>1. CASE torn # {}
  BY <1>1, Remain DEF Remains, Excess
<1>2. CASE Len(Queue(r)) > maxSession
  <2>1. Len(Queue(r)') > maxSession
    BY <1>2, SessionsAssumption
  <2> QED
    BY <2>1 DEF Excess
<1>3. ASSUME NEW q \in Visits, Overlap(q, r), uses[q] = uses[r], victim[q] # Null
      PROVE  Excess(r)'
  <2>1. q \in Requests
    BY DEF Visits
  <2>2. q \in Visits' /\ pc[q] # "idle" /\ uses'[q] = uses[q] /\ uses[q] # Null /\ victim'[q] # Null
    BY <1>3, <2>1, VictimRemains
  <2>3. Overlap(q, r)' /\ uses'[r] = uses[r]
    BY <1>3, <2>1, <2>2, Progresses, OverlapRemains DEF Progress
  <2> QED
    BY <1>3, <2>2, <2>3 DEF Excess
<1> QED
  BY <1>1, <1>2, <1>3 DEF Excess

\* The last of a queue that is too long was overtaken by maxSession others.
LEMMA RemovedKicked ==
    ASSUME TypeOK, UsesInv, SawInv, LogInv, PlaceInv, TwiceInv, KickInv, [Next]_vars,
           torn = {}, NEW r \in Requests, Removes(r), NEW s \in SessionIds,
           s = Queue(r)[Len(Queue(r))]
    PROVE  Kicked(s)'
<1>1. PICK d \in Requests, l \in Seq(SessionIds) :
         d = uses[r] /\ l = deque[d] /\ l = Queue(r) /\ l # <<>>
  BY DEF Removes, Remove, Queue
<1>2. Len(l) \in Nat \ {0} /\ s = l[Len(l)]
  BY <1>1
<1>3. pc[r] = "remove"
  BY DEF Removes, Remove
<1>4. CASE Len(l) > maxSession /\ Twice
  BY <1>4, KickedRemains DEF Twice, Kicked
<1>5. CASE Len(l) > maxSession /\ ~Twice
  <2>1. \A i, j \in DOMAIN l : l[i] = l[j] => i = j
    BY <1>1, <1>5 DEF TwiceInv
  <2>2. PICK k : Places(d, k)
    BY DEF PlaceInv
  <2>3. k \in [1..Len(l) -> DOMAIN log]
        /\ (\A j \in 1..Len(l) : session[log[k[j]]] = l[j] /\ uses[log[k[j]]] = d)
        /\ (\A i, j \in 1..Len(l) : i < j => k[j] < k[i])
    BY <1>1, <2>2 DEF Places, Entered
  <2>4. PICK i \in DOMAIN log : i = k[Len(l)]
    BY <1>2, <2>3
  <2>5. Len(l) \in 1..Len(l) /\ session[log[i]] = s /\ uses[log[i]] = d
    BY <1>2, <2>3, <2>4
  <2>6. DOMAIN log \subseteq Int
    BY DEF TypeOK
  <2>7. ASSUME NEW j \in 1..(Len(l) - 1) PROVE l[j] \in Later(i) \ {s}
    <3>1. j \in 1..Len(l) /\ j < Len(l) /\ Len(l) \in 1..Len(l)
      BY <1>2
    <3>2. k[j] \in DOMAIN log /\ i < k[j]
      BY <2>3, <2>4, <3>1
    <3>3. l[j] \in Later(i)
      BY <2>3, <2>5, <2>6, <3>1, <3>2 DEF Later
    <3>4. l[j] # s
      BY <1>2, <2>1, <3>1
    <3> QED
      BY <3>3, <3>4
  <2> DEFINE h == [j \in 1..(Len(l) - 1) |-> l[j]]
  <2>8. h \in [1..(Len(l) - 1) -> Later(i) \ {s}]
    BY <2>7
  <2>9. \A j, n \in 1..(Len(l) - 1) : h[j] = h[n] => j = n
    BY <1>2, <2>1
  <2> HIDE DEF h
  <2>10. IsFiniteSet(Later(i) \ {s})
    <3>1. ASSUME NEW j \in DOMAIN log PROVE session[log[j]] \in SessionIds
      BY EntryRemains
    <3>2. Later(i) \ {s} \subseteq SessionIds
      BY <3>1 DEF Later
    <3> QED
      BY <3>2, SessionsAssumption, FS_Subset
  <2>11. IsFiniteSet(1..(Len(l) - 1)) /\ Cardinality(1..(Len(l) - 1)) = Len(l) - 1
    <3>1. PICK n \in Nat : n = Len(l) - 1
      BY <1>2
    <3>2. IsFiniteSet(1..n) /\ Cardinality(1..n) = n
      BY FS_Interval
    <3> QED
      BY <3>1, <3>2
  <2>12. ~(Cardinality(Later(i) \ {s}) < Cardinality(1..(Len(l) - 1)))
    BY <2>8, <2>9, <2>10, <2>11, FS_PigeonHole
  <2>13. Cardinality(Later(i) \ {s}) \in Nat
    BY <2>10, FS_CardinalityType
  <2>14. Cardinality(Later(i) \ {s}) >= maxSession
    BY <1>2, <1>5, <2>11, <2>12, <2>13, SessionsAssumption
  <2>15. Kicked(s)
    BY <2>5, <2>14 DEF Kicked
  <2> QED
    BY <2>15, KickedRemains
<1>6. ASSUME NEW q \in Visits, Overlap(q, r), uses[q] = uses[r], victim[q] # Null
      PROVE  Kicked(s)'
  <2>1. q \in Requests
    BY DEF Visits
  <2>2. q \in Visits' /\ pc[q] # "idle" /\ uses'[q] = uses[q] /\ victim'[q] # Null
    BY <1>6, <2>1, VictimRemains
  <2>3. Overlap(q, r)' /\ uses' = uses /\ r \in Visits /\ r \in Visits'
    BY <1>3, <1>6, <2>1, <2>2, Progresses, OverlapRemains
       DEF Progress, Removes, Remove, Visits, FilterStep
  <2>4. victim'[r] # Null
    BY Fixed DEF Removes, Remove, TypeOK
  <2> QED
    BY <1>6, <2>2, <2>3, <2>4 DEF Kicked
<1>7. \/ Len(l) > maxSession
      \/ \E q \in Visits : Overlap(q, r) /\ uses[q] = uses[r] /\ victim[q] # Null
  BY <1>1, <1>3 DEF KickInv
<1> QED
  BY <1>4, <1>5, <1>6, <1>7

LEMMA KickStep ==
    ASSUME TypeOK, UsesInv, SawInv, LogInv, PlaceInv, TwiceInv, KickInv, [Next]_vars
    PROVE  KickInv'
<1>1. TypeOK' /\ UsesInv'
  BY TypeStep, UsesStep
<1> SUFFICES ASSUME torn' = {} PROVE KickInv'
  BY DEF KickInv, Kicked
<1> DEFINE Goal == /\ \A s \in kickout' : Kicked(s)'
                   /\ \A r \in Requests, s \in SessionIds :
                         pc'[r] = "mark" /\ s = victim'[r] => Kicked(s)'
                   /\ \A r \in Requests : Excess(r)'
<1>2. SUFFICES Goal
  <2> SUFFICES ASSUME Goal PROVE KickInv'
    OBVIOUS
  <2>1. ASSUME NEW r \in Requests, pc'[r] = "mark" PROVE victim'[r] \in SessionIds
    BY <1>1, <2>1 DEF TypeOK, UsesInv, UsesOf
  <2>2. ASSUME NEW r \in Requests, pc'[r] = "mark", NEW s \in SessionIds, s = victim'[r]
        PROVE  Kicked(victim[r])'
    BY <2>2 DEF Kicked
  <2>3. \A r \in Requests : pc'[r] = "mark" => Kicked(victim[r])'
    BY <2>1, <2>2
  <2>4. \A r \in Requests : pc'[r] = "remove" =>
           \/ torn' # {}
           \/ Len(Queue(r)') > maxSession
           \/ \E q \in Visits' : Overlap(q, r)' /\ uses'[q] = uses'[r] /\ victim'[q] # Null
    BY DEF Excess
  <2> QED
    BY <2>3, <2>4 DEF KickInv
<1>3. torn = {}
  BY Remain DEF Remains
<1>4. (\A s \in kickout : s \in SessionIds /\ Kicked(s)) /\ \A r \in Requests : Excess(r)
  BY DEF KickInv, Excess, TypeOK
<1>5. ASSUME NEW r \in Requests, NEW s \in SessionIds, pc[r] = "mark", s = victim[r]
      PROVE  Kicked(s)
  BY <1>5 DEF KickInv
<1>6. \A s \in SessionIds : Kicked(s) => Kicked(s)'
  BY KickedRemains
<1>7. kickout' = kickout => \A s \in kickout' : Kicked(s)'
  BY <1>4, <1>6
<1>8. ASSUME NEW r \in Requests, NEW s \in SessionIds, pc'[r] = "mark", s = victim'[r],
             pc[r] = "mark", victim'[r] = victim[r]
      PROVE  Kicked(s)'
  BY <1>5, <1>6, <1>8
<1>9. ASSUME NEW r \in Requests, pc[r] = "remove", Len(Queue(r)') = Len(Queue(r))
      PROVE  Excess(r)'
  <2>1. uses[r] \in Requests
    BY <1>9 DEF UsesInv, UsesOf, Makers, Visits, FilterStep
  <2>2. uses'[r] = uses[r]
    BY <2>1, Progresses, Fixed DEF Progress
  <2>3. Queue(r) \in Seq(SessionIds) /\ Queue(r)' \in Seq(SessionIds)
    BY <1>1, <2>1, <2>2 DEF Queue, TypeOK
  <2> QED
    BY <1>4, <1>9, <2>3, ExcessRemains
<1>10. \A r \in Requests : pc'[r] # "remove" => Excess(r)'
  BY DEF Excess
\* Nobody comes to remove or mark, and no queue changes.
<1> DEFINE Quiet == /\ kickout' = kickout
                    /\ \A r \in Requests : pc'[r] = "mark" => pc[r] = "mark" /\ victim'[r] = victim[r]
                    /\ \A r \in Requests : pc'[r] = "remove" =>
                          pc[r] = "remove" /\ Len(Queue(r)') = Len(Queue(r))
<1>11. Quiet => Goal
  <2> SUFFICES ASSUME Quiet PROVE Goal
    OBVIOUS
  <2>1. \A r \in Requests : Excess(r)'
    BY <1>9, <1>10
  <2> QED
    BY <1>7, <1>8, <2>1
<1>12. ASSUME NEW r \in Requests, Still(r) PROVE Goal
  <2>1. Quiet
    BY <1>12 DEF Still, Deep, Queue
  <2> QED
    BY <1>11, <2>1
<1>13. ASSUME NEW r \in Requests, Look(r) PROVE Goal
  <2>1. UNCHANGED <<kickout, deque, uses, victim>>
    BY <1>13 DEF Look, sessionVars, queueVars, contextVars
  <2>2. \A q \in Requests : pc'[q] \in {"mark", "remove"} => pc'[q] = pc[q]
    BY <1>13 DEF Look, Goto, TypeOK
  <2>3. Quiet
    BY <2>1, <2>2 DEF Queue
  <2> QED
    BY <1>11, <2>3
<1>14. ASSUME NEW r \in Requests, Pushes(r) PROVE Goal
  <2>1. UNCHANGED <<kickout, uses, victim>>
    BY <1>14 DEF Pushes, Push, sessionVars, contextVars
  <2>2. \A q \in Requests : pc'[q] \in {"mark", "remove"} => pc'[q] = pc[q]
    BY <1>14 DEF Pushes, Push, Goto, TypeOK
  <2>3. ASSUME NEW q \in Requests, pc'[q] = "remove" PROVE Excess(q)'
    <3>1. pc[q] = "remove" /\ uses[q] \in Requests
      BY <2>2, <2>3 DEF UsesInv, UsesOf, Makers, Visits, FilterStep
    <3>2. CASE uses[q] # uses[r]
      <4>1. deque'[uses[q]] = deque[uses[q]]
        BY <1>14, <3>1, <3>2 DEF Pushes, TypeOK
      <4> QED
        BY <1>9, <2>1, <3>1, <4>1 DEF Queue
    <3>3. CASE uses[q] = uses[r]
      <4>1. PICK l \in Seq(SessionIds), s \in SessionIds :
               l = Queue(q) /\ s = session[r] /\ Queue(q)' = <<s>> \o l
        BY <1>14, <2>1, <3>3 DEF Pushes, Queue, TypeOK
      <4>2. <<s>> \o l \in Seq(SessionIds) /\ Len(<<s>> \o l) >= Len(l)
        BY ListTypes
      <4> QED
        BY <1>4, <3>1, <4>1, <4>2, ExcessRemains
    <3> QED
      BY <3>2, <3>3
  <2> QED
    BY <1>7, <1>8, <1>10, <2>1, <2>2, <2>3
<1>15. ASSUME NEW r \in Requests, Size(r) PROVE Goal
  <2>1. UNCHANGED <<kickout, deque, uses, victim>>
    BY <1>15 DEF Size, sessionVars, queueVars, contextVars
  <2>2. pc'[r] \in {"remove", "answer"} /\ \A q \in Requests \ {r} : pc'[q] = pc[q]
    BY <1>15 DEF Size, Goto, TypeOK
  <2>3. Excess(r)'
    BY <1>15, <2>1 DEF Size, Goto, TypeOK, Full, Excess, Queue
  <2>4. ASSUME NEW q \in Requests \ {r} PROVE Excess(q)'
    BY <1>9, <1>10, <2>1, <2>2 DEF Queue
  <2>5. \A q \in Requests : pc'[q] = "mark" => pc[q] = "mark"
    BY <2>2
  <2> QED
    BY <1>7, <1>8, <2>1, <2>3, <2>4, <2>5
<1>16. ASSUME NEW r \in Requests, Removes(r) PROVE Goal
  <2>1. UNCHANGED <<kickout, uses, session, saw>> /\ pc[r] = "remove" /\ pc'[r] = "mark"
        /\ \A q \in Requests \ {r} : pc'[q] = pc[q] /\ victim'[q] = victim[q]
    BY <1>16 DEF Removes, Remove, Goto, TypeOK, sessionVars
  <2>2. ASSUME NEW s \in SessionIds, s = victim'[r] PROVE Kicked(s)'
    <3>1. s = Queue(r)[Len(Queue(r))]
      BY <1>16, <2>2 DEF Removes, Remove, TypeOK
    <3> QED
      BY <1>3, <1>16, <3>1, RemovedKicked
  <2>3. ASSUME NEW q \in Requests, pc'[q] = "remove" PROVE Excess(q)'
    <3>1. q # r /\ pc[q] = "remove" /\ uses[q] \in Requests
      BY <2>1, <2>3 DEF UsesInv, UsesOf, Makers, Visits, FilterStep
    <3>2. CASE uses[q] # uses[r]
      <4>1. deque'[uses[q]] = deque[uses[q]]
        BY <1>16, <3>1, <3>2 DEF Removes, TypeOK
      <4> QED
        BY <1>9, <2>1, <3>1, <4>1 DEF Queue
    <3>3. CASE uses[q] = uses[r]
      <4>1. r \in Visits' /\ victim'[r] # Null
        <5>1. victim'[r] # Null
          BY <1>1, <2>1 DEF UsesInv, UsesOf
        <5> QED
          BY <2>1, <5>1 DEF Visits, FilterStep
      <4>2. Overlap(r, q)'
        BY <2>1, <3>1 DEF Overlap, SawInv, Ended
      <4> QED
        BY <2>1, <3>3, <4>1, <4>2 DEF Excess
    <3> QED
      BY <3>2, <3>3
  <2> QED
    BY <1>7, <1>8, <1>10, <2>1, <2>2, <2>3
<1>17. ASSUME NEW r \in Requests, RemoveNone(r) \/ Answer(r) PROVE Goal
  <2>1. UNCHANGED <<kickout, deque, uses, victim>>
    BY <1>17 DEF RemoveNone, Answer, sessionVars, queueVars, contextVars
  <2>2. \A q \in Requests : pc'[q] \in {"mark", "remove"} => pc'[q] = pc[q]
    BY <1>17 DEF RemoveNone, Answer, Goto, TypeOK
  <2>3. Quiet
    BY <2>1, <2>2 DEF Queue
  <2> QED
    BY <1>11, <2>3
<1>18. ASSUME NEW r \in Requests, Mark(r) PROVE Goal
  <2>1. UNCHANGED <<deque, uses, victim>> /\ pc[r] = "mark"
    BY <1>18 DEF Mark, queueVars, contextVars
  <2>2. \A q \in Requests : pc'[q] \in {"mark", "remove"} => pc'[q] = pc[q]
    BY <1>18 DEF Mark, Goto, TypeOK
  <2>3. victim[r] \in SessionIds
    BY <2>1 DEF UsesInv, UsesOf, TypeOK
  <2>4. \A s \in kickout' : s \in kickout \/ s = victim[r]
    BY <1>18 DEF Mark, Marked
  <2>5. \A s \in kickout' : Kicked(s)'
    BY <1>4, <1>5, <1>6, <2>1, <2>3, <2>4
  <2>6. \A q \in Requests : Excess(q)'
    BY <1>9, <1>10, <2>1, <2>2 DEF Queue
  <2> QED
    BY <1>8, <2>1, <2>2, <2>5, <2>6
<1>19. Rests => Goal
  <2> SUFFICES ASSUME Rests PROVE Goal
    OBVIOUS
  <2>1. Quiet
    BY DEF Rests, Queue
  <2> QED
    BY <1>11, <2>1
<1> HIDE DEF Goal
<1> QED
  BY <1>12, <1>13, <1>14, <1>15, <1>16, <1>17, <1>18, <1>19, QueueForms
-----------------------------------------------------------------------------
(* The theorems *)

LEMMA InvInit == Init => IInv
<1> SUFFICES ASSUME Init PROVE IInv
  OBVIOUS
<1>1. TypeOK
  BY TypeInit
<1>2. /\ \A r \in Requests : /\ pc[r] = "idle" /\ session[r] = Null /\ uses[r] = Null
                             /\ victim[r] = Null /\ saw[r] = {} /\ deque[r] = <<>>
                             /\ retryCount[r] = 0
      /\ log = <<>> /\ kickout = {} /\ torn = {} /\ cache = Null /\ retryCache = Null
  BY DEF Init
<1>3. Logins = {} /\ Visits = {} /\ Makers(Logins) = {} /\ Makers(Visits) = {}
  BY <1>2 DEF Logins, Visits, LoginStep, FilterStep, Makers
<1>4. SawInv /\ UsesInv
  BY <1>2, <1>3 DEF SawInv, UsesInv, UsesOf, Counting
<1>5. CountInv
  <2>1. \A c \in Requests : Counted(c) = {}
    BY <1>2 DEF Counted, Counting
  <2> QED
    BY <1>2, <2>1, FS_EmptySet DEF CountInv
<1>6. WrongInv
  <2>1. Wrong = {}
    BY <1>2 DEF Wrong
  <2>2. Numbers([r \in Wrong |-> r])
    BY <2>1 DEF Numbers
  <2> QED
    BY <2>2 DEF WrongInv
<1>7. RefusedExplained /\ CounterInv /\ QueueInv
  BY <1>2, <1>3 DEF RefusedExplained, CounterInv, QueueInv
<1>8. LengthInv /\ MemberInv /\ LogInv
  BY <1>2, SessionsAssumption DEF LengthInv, MemberInv, LogInv
<1>9. PlaceInv
  <2>1. ASSUME NEW d \in Requests PROVE Places(d, <<>>)
    BY <1>2 DEF Places
  <2> QED
    BY <2>1 DEF PlaceInv
<1>10. TwiceInv /\ KickInv
  BY <1>2 DEF TwiceInv, KickInv
<1> QED
  BY <1>1, <1>4, <1>5, <1>6, <1>7, <1>8, <1>9, <1>10 DEF IInv

LEMMA InvStep == IInv /\ [Next]_vars => IInv'
  BY TypeStep, SawStep, UsesStep, CountStep, WrongStep, RefusedStep, CounterStep, QueueStep,
     LengthStep, MemberStep, LogStep, PlaceStep, TwiceStep, KickStep
     DEF IInv

\* The inductive invariant of sessions: what the counters count, how the queues fill
\* and why they are as long as they are.
THEOREM Inductive == Spec => []IInv
  BY InvInit, InvStep, PTL DEF Spec

LEMMA InvImplies ==
    IInv => TypeOK /\ LimitExplained /\ KickExplained /\ RetryExplained /\ RefusedExplained
<1> SUFFICES ASSUME IInv
             PROVE  LimitExplained /\ KickExplained /\ RetryExplained /\ RefusedExplained
  BY DEF IInv
<1>1. KickExplained
  BY DEF IInv, KickInv, KickExplained, Kicked
<1> QED
  BY <1>1, LimitFollows, RetryFollows DEF IInv

\* Every variable keeps its type.
THEOREM TypeCorrect == Spec => []TypeOK
  BY Inductive, InvImplies, PTL

\* Without requests in the filter, no queue of KickoutSessionControlFilter keeps more
\* than maxSession sessions in use, whatever the order of the requests, unless the list
\* was torn; a second queue comes from a dropped one or from two that made it at once.
THEOREM LimitKept == Spec => []LimitExplained
  BY Inductive, InvImplies, PTL

\* A session that is marked to leave was overtaken by maxSession others, or the list
\* was torn, or requests that overlapped put it in twice or took out one each.
THEOREM KicksJustified == Spec => []KickExplained
  BY Inductive, InvImplies, PTL

\* RetryLimitHashedCredentialsMatcher compares MaxRetry wrong passwords at most for
\* every counter, and counters multiply only by a drop, a log-in or an overlap.
THEOREM WrongPasswordsBounded == Spec => []RetryExplained
  BY Inductive, InvImplies, PTL

\* Who is refused had MaxRetry log-ins of the same counter before or beside it that
\* did not just succeed.
THEOREM RefusalsJustified == Spec => []RefusedExplained
  BY Inductive, InvImplies, PTL
=============================================================================
