--------------------------- MODULE TransferLedger ---------------------------
(***************************************************************************)
(* What every money path of the CRM promises.  A request may order the MT4 *)
(* server to move money once, and writes its decision into the database    *)
(* only after the server confirmed that movement.  The two stores are      *)
(* never updated together, so a request can also end with money moved and  *)
(* nothing written; what it can never do is write first, write without a   *)
(* confirmed movement, move twice, or act again after it has answered.     *)
(***************************************************************************)
EXTENDS TLAPS

CONSTANT Requests   \* the requests that can order a movement of money

VARIABLES moved,    \* requests whose order the MT4 server has applied
          booked,   \* requests whose movement the database records
          closed    \* requests that have answered

vars == <<moved, booked, closed>>

TypeOK ==
    /\ moved \subseteq Requests
    /\ booked \subseteq Requests
    /\ closed \subseteq Requests

Init ==
    /\ moved = {}
    /\ booked = {}
    /\ closed = {}

\* The server applies the order of r and its confirmation arrives.
Move(r) ==
    /\ r \notin moved \cup closed
    /\ moved' = moved \cup {r}
    /\ UNCHANGED <<booked, closed>>

\* The server applies the order of r, but r ends without learning of it.
MoveUnseen(r) ==
    /\ r \notin moved \cup closed
    /\ moved' = moved \cup {r}
    /\ closed' = closed \cup {r}
    /\ UNCHANGED booked

\* r commits the record of the movement it had confirmed.
Book(r) ==
    /\ r \in moved \ closed
    /\ booked' = booked \cup {r}
    /\ closed' = closed \cup {r}
    /\ UNCHANGED moved

\* r ends without recording a movement: a refusal, an early return, a rollback.
Close(r) ==
    /\ r \notin closed
    /\ closed' = closed \cup {r}
    /\ UNCHANGED <<moved, booked>>

Next == \E r \in Requests : Move(r) \/ MoveUnseen(r) \/ Book(r) \/ Close(r)

Spec == Init /\ [][Next]_vars
-----------------------------------------------------------------------------
\* The database never records money that MT4 did not move, nor before the request
\* that moved it has answered.
Covered == booked \subseteq moved \cap closed

\* What was moved, recorded and answered stays so; a request that has answered moves
\* nothing more and records nothing more; and no step is of two requests.
Settles ==
    /\ moved \subseteq moved' /\ booked \subseteq booked' /\ closed \subseteq closed'
    /\ \E r \in Requests \ closed :
          moved' \subseteq moved \cup {r} /\ booked' \subseteq booked \cup {r}
                                       /\ closed' \subseteq closed \cup {r}

\* A recorded movement was made, and by a request that has answered.
THEOREM RecordsAreCovered == Spec => []Covered
<1>1. Init => Covered
  BY DEF Init, Covered
<1>2. Covered /\ [Next]_vars => Covered'
  BY DEF Covered, Next, Move, MoveUnseen, Book, Close, vars
<1> QED
  BY <1>1, <1>2, PTL DEF Spec

\* Movements, records and answers are final, and each request makes its own.
THEOREM RequestsSettle == Spec => [][Settles]_vars
<1>1. Next => Settles
  BY DEF Next, Settles, Move, MoveUnseen, Book, Close
<1>2. [Next]_vars => [Settles]_vars
  BY <1>1
<1> QED
  BY <1>2, PTL DEF Spec
=============================================================================
