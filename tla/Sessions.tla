------------------------------ MODULE Sessions ------------------------------
(***************************************************************************)
(* Log-ins and sessions of one account.  A log-in is counted by            *)
(* RetryLimitHashedCredentialsMatcher; a page request passes               *)
(* KickoutSessionControlFilter, which keeps the sessions of the account in *)
(* a queue and marks the oldest ones to be logged out.  Counter and queue  *)
(* are objects kept in a cache: whoever finds none puts a new one there,   *)
(* nobody holds a lock, and the cache may drop them.                       *)
(***************************************************************************)
EXTENDS Integers, Sequences, FiniteSets

CONSTANTS
    Requests,     \* log-ins and page requests
    SessionIds,   \* sessions of browsers
    Starters,     \* sessions that are logged in at first
    maxSession,   \* sessions an account may have
    MaxRetry,     \* log-ins that may fail before one is refused
    MaxDrops,     \* how often the cache drops the counter or the queue (a bound)
    MaxOver,      \* a session ends by itself only while fewer are over (a bound)
    Null

ASSUME SessionsAssumption ==
    /\ IsFiniteSet(Requests)
    /\ IsFiniteSet(SessionIds)
    /\ Starters \subseteq SessionIds
    /\ maxSession \in Nat \ {0}
    /\ MaxRetry \in Nat
    /\ MaxDrops \in Nat
    /\ MaxOver \in Nat
    /\ Null \notin Requests \cup SessionIds

VARIABLES
    state,      \* of the sessions
    kickout,    \* sessions with the attribute kickout
    cache,      \* the queue in the cache, named by the request that made it
    deque,      \* the queues that were made
    torn,       \* queues two requests changed at the same time
    retryCache, \* the counter in the cache, named likewise
    retryCount, \* the counters
    drops,      \* how often the cache has dropped one of them
    pc,         \* where every request is
    session,    \* the session a request belongs to
    uses,       \* the queue or counter it works with
    victim,     \* the last session it took out of a queue
    saw,        \* the requests that had ended when it began
    log         \* the requests that put their session into a queue, in order

vars == <<state, kickout, cache, deque, torn, retryCache, retryCount, drops,
          pc, session, uses, victim, saw, log>>

sessionVars == <<state, kickout>>
queueVars == <<cache, deque, torn, log>>
retryVars == <<retryCache, retryCount>>
contextVars == <<session, victim, saw>>
-----------------------------------------------------------------------------
Ended == {"wrong", "in", "refused", "passed", "out", "error"}

LoginStep == {"retry", "newCount", "count", "clear"}

FilterStep == {"get", "put", "look", "push", "size", "remove", "mark", "answer"}

TypeOK ==
    /\ state \in [SessionIds -> {"new", "live", "over"}]
    /\ kickout \subseteq SessionIds
    /\ cache \in Requests \cup {Null}
    /\ deque \in [Requests -> Seq(SessionIds)]
    /\ torn \subseteq Requests
    /\ retryCache \in Requests \cup {Null}
    /\ retryCount \in [Requests -> Nat]
    /\ drops \in 0..MaxDrops
    /\ pc \in [Requests -> {"idle"} \cup LoginStep \cup FilterStep \cup Ended]
    /\ session \in [Requests -> SessionIds \cup {Null}]
    /\ uses \in [Requests -> Requests \cup {Null}]
    /\ victim \in [Requests -> SessionIds \cup {Null}]
    /\ saw \in [Requests -> SUBSET Requests]
    /\ log \in Seq(Requests)

Init ==
    /\ state = [s \in SessionIds |-> IF s \in Starters THEN "live" ELSE "new"]
    /\ kickout = {}
    /\ cache = Null
    /\ deque = [r \in Requests |-> <<>>]
    /\ torn = {}
    /\ retryCache = Null
    /\ retryCount = [r \in Requests |-> 0]
    /\ drops = 0
    /\ pc = [r \in Requests |-> "idle"]
    /\ session = [r \in Requests |-> Null]
    /\ uses = [r \in Requests |-> Null]
    /\ victim = [r \in Requests |-> Null]
    /\ saw = [r \in Requests |-> {}]
    /\ log = <<>>

Goto(r, step) == pc' = [pc EXCEPT ![r] = step]

Begin(r, s, step) ==
    /\ pc[r] = "idle"
    /\ Goto(r, step)
    /\ session' = [session EXCEPT ![r] = s]
    /\ saw' = [saw EXCEPT ![r] = {q \in Requests : pc[q] \in Ended}]
    /\ UNCHANGED <<sessionVars, queueVars, retryVars, drops, uses, victim>>
-----------------------------------------------------------------------------
(* Log-in *)

Login(r, s) == state[s] # "over" /\ Begin(r, s, "retry")

FindCount(r) ==
    /\ pc[r] = "retry"
    /\ IF retryCache # Null
       THEN Goto(r, "count") /\ uses' = [uses EXCEPT ![r] = retryCache]
       ELSE Goto(r, "newCount") /\ UNCHANGED uses
    /\ UNCHANGED <<sessionVars, queueVars, retryVars, drops, contextVars>>

PutCount(r) ==
    /\ pc[r] = "newCount"
    /\ retryCache' = r
    /\ uses' = [uses EXCEPT ![r] = r]
    /\ Goto(r, "count")
    /\ UNCHANGED <<sessionVars, queueVars, retryCount, drops, contextVars>>

\* Variant: one failure more is allowed.
TooManyByOne(n) == n > MaxRetry + 1

TooMany(n) == n > MaxRetry

\* incrementAndGet; the password that is compared then is the right one or not.
Count(r) ==
    LET n == retryCount[uses[r]] + 1
    IN  /\ pc[r] = "count"
        /\ retryCount' = [retryCount EXCEPT ![uses[r]] = n]
        /\ \E step \in IF TooMany(n) THEN {"refused"} ELSE {"clear", "wrong"} : Goto(r, step)
        /\ UNCHANGED <<sessionVars, queueVars, retryCache, drops, uses, contextVars>>

LoggedIn(r) == state' = [state EXCEPT ![session[r]] = IF @ = "new" THEN "live" ELSE @]

\* Variant: a log-in leaves the counter as it is.
EnterCounted(r) ==
    /\ pc[r] = "clear"
    /\ LoggedIn(r)
    /\ Goto(r, "in")
    /\ UNCHANGED <<kickout, queueVars, retryVars, drops, uses, contextVars>>

\* The cache forgets the counter, and the session is logged in.
Enter(r) ==
    /\ pc[r] = "clear"
    /\ retryCache' = Null
    /\ LoggedIn(r)
    /\ Goto(r, "in")
    /\ UNCHANGED <<kickout, queueVars, retryCount, drops, uses, contextVars>>
-----------------------------------------------------------------------------
(* The filter of the page requests *)

Visit(r, s) == state[s] = "live" /\ Begin(r, s, "get")

Get(r) ==
    /\ pc[r] = "get"
    /\ IF cache # Null
       THEN Goto(r, "look") /\ uses' = [uses EXCEPT ![r] = cache]
       ELSE Goto(r, "put") /\ UNCHANGED uses
    /\ UNCHANGED <<sessionVars, queueVars, retryVars, drops, contextVars>>

Put(r) ==
    /\ pc[r] = "put"
    /\ cache' = r
    /\ uses' = [uses EXCEPT ![r] = r]
    /\ Goto(r, "look")
    /\ UNCHANGED <<sessionVars, deque, torn, log, retryVars, drops, contextVars>>

Queue(r) == deque[uses[r]]

Torn(r) == uses[r] \in torn

Members(q) == {q[i] : i \in DOMAIN q}

\* The attribute of a session that is over cannot be read: an exception.
Look(r) ==
    LET s == session[r]
    IN  /\ pc[r] = "look"
        /\ ~Torn(r)
        /\ \/ s \in Members(Queue(r)) /\ Goto(r, "size")
           \/ s \notin Members(Queue(r)) /\ state[s] = "over" /\ Goto(r, "error")
           \/ s \notin Members(Queue(r)) /\ state[s] # "over" /\ s \in kickout /\ Goto(r, "size")
           \/ s \notin Members(Queue(r)) /\ state[s] # "over" /\ s \notin kickout /\ Goto(r, "push")
        /\ UNCHANGED <<sessionVars, queueVars, retryVars, drops, uses, contextVars>>

\* Two requests are about to change the same LinkedList.
Races(r) ==
    \E q \in Requests \ {r} : pc[q] \in {"push", "remove"} /\ uses[q] = uses[r]

\* One comes after the other, or they do it at the same time and the list is torn:
\* what it holds cannot be told any more.
Change(r, list) ==
    /\ ~Torn(r)
    /\ \/ deque' = [deque EXCEPT ![uses[r]] = list] /\ UNCHANGED torn
       \/ /\ Races(r)
          /\ deque' = [deque EXCEPT ![uses[r]] = <<>>]
          /\ torn' = torn \cup {uses[r]}

Push(r) ==
    /\ pc[r] = "push"
    /\ Change(r, <<session[r]>> \o Queue(r))
    /\ log' = Append(log, r)
    /\ Goto(r, "size")
    /\ UNCHANGED <<sessionVars, cache, retryVars, drops, uses, contextVars>>

\* Variants: one session too many stays; one too few.
FullByOneMore(n) == n > maxSession + 1
FullByOneLess(n) == n >= maxSession

Full(n) == n > maxSession

Size(r) ==
    /\ pc[r] = "size"
    /\ ~Torn(r)
    /\ Goto(r, IF Full(Len(Queue(r))) THEN "remove" ELSE "answer")
    /\ UNCHANGED <<sessionVars, queueVars, retryVars, drops, uses, contextVars>>

\* removeLast
Remove(r) ==
    LET q == Queue(r)
    IN  /\ pc[r] = "remove"
        /\ q # <<>>
        /\ victim' = [victim EXCEPT ![r] = q[Len(q)]]
        /\ Change(r, SubSeq(q, 1, Len(q) - 1))
        /\ Goto(r, "mark")
        /\ UNCHANGED <<sessionVars, cache, log, retryVars, drops, uses, session, saw>>

\* NoSuchElementException
RemoveNone(r) ==
    /\ pc[r] = "remove"
    /\ ~Torn(r)
    /\ Queue(r) = <<>>
    /\ Goto(r, "error")
    /\ UNCHANGED <<sessionVars, queueVars, retryVars, drops, uses, contextVars>>

Marked(s) == IF state[s] = "over" THEN kickout ELSE kickout \cup {s}

\* A session that is over is not found, and nothing is marked.
Mark(r) ==
    /\ pc[r] = "mark"
    /\ kickout' = Marked(victim[r])
    /\ Goto(r, "size")
    /\ UNCHANGED <<state, queueVars, retryVars, drops, uses, contextVars>>

\* With a torn list r may do anything the filter does: mark sessions that use the
\* list, come to its answer, end in an exception.
Wander(r) ==
    /\ pc[r] \in {"look", "push", "size", "remove"}
    /\ Torn(r)
    /\ \/ \E q \in Requests : /\ uses[q] = uses[r]
                              /\ kickout' = Marked(session[q])
                              /\ Goto(r, "size")
       \/ \E step \in {"answer", "error"} : Goto(r, step) /\ UNCHANGED kickout
    /\ UNCHANGED <<state, queueVars, retryVars, drops, uses, contextVars>>

Answer(r) ==
    LET s == session[r]
    IN  /\ pc[r] = "answer"
        /\ \/ state[s] = "over" /\ Goto(r, "error") /\ UNCHANGED state
           \/ state[s] # "over" /\ s \notin kickout /\ Goto(r, "passed") /\ UNCHANGED state
           \/ /\ state[s] # "over" /\ s \in kickout /\ Goto(r, "out")
              /\ state' = [state EXCEPT ![s] = "over"]
        /\ UNCHANGED <<kickout, queueVars, retryVars, drops, uses, contextVars>>
-----------------------------------------------------------------------------
\* A log-out, or half an hour without a request; the queue keeps the session.
End(s) ==
    /\ state[s] = "live"
    /\ Cardinality({t \in SessionIds : state[t] = "over"}) < MaxOver
    /\ state' = [state EXCEPT ![s] = "over"]
    /\ UNCHANGED <<kickout, queueVars, retryVars, drops, pc, uses, contextVars>>

\* ehcache: idle for too long, or too many accounts in the cache.
DropCount ==
    /\ retryCache # Null
    /\ drops < MaxDrops
    /\ retryCache' = Null
    /\ drops' = drops + 1
    /\ UNCHANGED <<sessionVars, queueVars, retryCount, pc, uses, contextVars>>

DropQueue ==
    /\ cache # Null
    /\ drops < MaxDrops
    /\ cache' = Null
    /\ drops' = drops + 1
    /\ UNCHANGED <<sessionVars, deque, torn, log, retryVars, pc, uses, contextVars>>

LoginStepOf(r) ==
    FindCount(r) \/ PutCount(r) \/ Count(r) \/ Enter(r)

FilterStepOf(r) ==
    \/ Get(r) \/ Put(r) \/ Look(r) \/ Push(r) \/ Size(r)
    \/ Remove(r) \/ RemoveNone(r) \/ Mark(r) \/ Wander(r) \/ Answer(r)

Next ==
    \/ \E r \in Requests, s \in SessionIds : Login(r, s) \/ Visit(r, s)
    \/ \E r \in Requests : LoginStepOf(r) \/ FilterStepOf(r)
    \/ \E s \in SessionIds : End(s)
    \/ DropCount \/ DropQueue

Spec == Init /\ [][Next]_vars
-----------------------------------------------------------------------------
(* Properties *)

Overlap(q, r) == q # r /\ q \notin saw[r] /\ r \notin saw[q]

Logins == {r \in Requests : pc[r] \in LoginStep \cup {"wrong", "in", "refused"}}

Visits == {r \in Requests : pc[r] \in FilterStep \cup {"passed", "out", "error"}}

\* Requests that made a queue, or a counter.
Makers(requests) == {r \in requests : uses[r] = r}

Overlapping(requests) == \E q, r \in requests : Overlap(q, r)

InUse == {s \in SessionIds : /\ state[s] = "live"
                             /\ s \notin kickout
                             /\ \E r \in Visits : session[r] = s /\ pc[r] = "passed"}

\* When no request is in the filter, every queue keeps at most maxSession sessions
\* in use, unless it was torn.  There is more than one queue only if the cache
\* dropped one or their makers overlapped.
LimitExplained ==
    /\ (\A r \in Requests : pc[r] \notin FilterStep) =>
          \/ torn # {}
          \/ Cardinality(InUse) <= maxSession * Cardinality(Makers(Visits))
    /\ \A q, r \in Makers(Visits) : q # r => drops > 0 \/ Overlap(q, r)

\* Entry i of the log put session s into queue d.
Entered(i, s, d) == session[log[i]] = s /\ uses[log[i]] = d

\* The sessions that came into a queue after entry i did.
Later(i) == {session[log[j]] : j \in {k \in DOMAIN log : k > i /\ uses[log[k]] = uses[log[i]]}}

\* A session is told to leave because maxSession others came after it, though not
\* all of them need still be there; or a queue was torn; or two requests that
\* overlapped put one session in twice, or each took out a session.
KickExplained ==
    \A s \in kickout :
        \/ \E i \in DOMAIN log :
              session[log[i]] = s /\ Cardinality(Later(i) \ {s}) >= maxSession
        \/ torn # {}
        \/ \E q, r \in Visits :
              /\ Overlap(q, r)
              /\ uses[q] = uses[r]
              /\ \/ q \in Members(log) /\ r \in Members(log) /\ session[q] = session[r]
                 \/ victim[q] # Null /\ victim[r] # Null

\* Of the log-ins with a wrong password, MaxRetry at most were compared for every
\* counter.  There is more than one counter only if the cache dropped one, a log-in
\* succeeded, or their makers overlapped.
RetryExplained ==
    LET wrong == {r \in Requests : pc[r] = "wrong"}
    IN  /\ Cardinality(wrong) <= MaxRetry * Cardinality(Makers(Logins))
        /\ \A q, r \in Makers(Logins) : q # r =>
              \/ drops > 0
              \/ \E p \in Logins : pc[p] = "in"
              \/ Overlap(q, r)

\* A log-in is refused only after MaxRetry others of the same counter, each of which
\* failed before it began or overlapped it, perhaps with the right password.
RefusedExplained ==
    \A r \in Requests : pc[r] = "refused" =>
        Cardinality({q \in Requests : /\ uses[q] = uses[r]
                                      /\ \/ q \in saw[r] /\ pc[q] # "in"
                                         \/ Overlap(q, r)}) >= MaxRetry
=============================================================================
