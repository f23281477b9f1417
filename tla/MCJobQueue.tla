---------------------------- MODULE MCJobQueue ----------------------------
(***************************************************************************)
(* Small instances of JobQueue. A job "Xn" is described by one record so   *)
(* that a configuration only has to name the jobs it wants.                *)
(***************************************************************************)
EXTENDS JobQueueProofs, TLC

CONSTANTS c1, c2, c3, c4, c5

\* Job catalogue: two requests for one media fetch, a delivery without a key,
\* two requests for one poll update, a scheduled status, an account purge.
MCKindOf == [m1 |-> "media", m2 |-> "media", d1 |-> "delivery", u1 |-> "poll",
             u2 |-> "poll", s1 |-> "scheduled", a1 |-> "purge"]
MCKeyOf == [m1 |-> "m", m2 |-> "m", d1 |-> "none", u1 |-> "u",
            u2 |-> "u", s1 |-> "s", a1 |-> "a"]

\* The pool of p1 runs an older binary that cannot decode poll updates.
MCProcOf == [w1 |-> "p1", w2 |-> "p2", w3 |-> "p2", h1 |-> "p1"]
MCKnows == [p1 |-> {"media", "delivery", "scheduled", "purge"},
            p2 |-> {"media", "delivery", "scheduled", "purge", "poll"}]

ClaimSymmetry == Permutations(Claims)
=============================================================================
