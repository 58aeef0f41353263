--------------------------- MODULE MCRegistration ---------------------------
(***************************************************************************)
(* Small instances of Registration.                                        *)
(***************************************************************************)
EXTENDS Registration, TLC

CONSTANTS root, m1, m2, aw, ax, ay, az

\* The broker and two agents, one below the other.
Chain ==
    root :> Columns(ax, "PASS", "agent", 0, Null, Null) @@
    m1   :> Columns(ay, "PASS", "agent", 1, root, Null) @@
    m2   :> Columns(az, "PASS", "agent", 3, m1, Null)

\* A registered manager that waits for its review.
Waiting ==
    m1 :> Columns(ay, "UNAUDITED", "common", Null, Null, Null)

Zero == [b \in Books |-> 0]

CONSTANTS r1, r2, r3

ReviewsAndRewrites == [h \in Requests |-> {"review", "rewrite"}]

\* One request reviews or edits; one joins, edits or saves a row as it read it; one
\* moves a manager or saves the row of a session.
OneOfEach ==
    r1 :> {"review", "edit"} @@
    r2 :> {"join", "edit", "rewrite"} @@
    r3 :> {"move", "upload"}

RequestSymmetry == Permutations(Requests)
=============================================================================
