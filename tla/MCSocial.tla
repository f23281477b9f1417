------------------------------ MODULE MCSocial ------------------------------
(***************************************************************************)
(* Who may reach an account: notification requests and the policy behind   *)
(* them, and the relationships with remote actors.                         *)
(* The requests are checked against every decision, so they and the policy *)
(* need not move together: a behaviour edits the policy, works with        *)
(* requests under the default one, or is about relationships.              *)
(***************************************************************************)
EXTENDS NotificationRequests, NotificationPolicy, Relationships

CONSTANTS r1, r2, f1, f2, b1    \* two remote actors, follows and a block of theirs

VARIABLES part, scope

\* Two senders: alice sends two mentions and a favourite, bob a mention and a
\* favourite.
MCSenderOf == [m1 |-> "alice", m2 |-> "alice", f1 |-> "alice", m3 |-> "bob", f2 |-> "bob"]
MCRequestSender == [r1 |-> "alice", r2 |-> "alice", r3 |-> "bob"]

Stranger == [permitted |-> FALSE, follows |-> FALSE, follower |-> "no", new_account |-> FALSE,
             mention |-> FALSE, direct |-> FALSE, recipient_started |-> FALSE, limited |-> FALSE]
Default == policy = Defaults /\ sender = Stranger

\* The facts behind an answer that is given without them are not varied: those of
\* a permitted sender, and the thread of what is no mention.
Distinct(f) ==
    /\ f.permitted => f = [Stranger EXCEPT !.permitted = TRUE]
    /\ ~ f.mention => ~ f.direct /\ ~ f.recipient_started

MCPeerFollow == [r \in Actor |-> IF r = r1 THEN {f1, f2} ELSE {}]
MCPeerBlock == [r \in Actor |-> {b1}]
MCNoPeerBlock == [r \in Actor |-> {}]
MCMoves == {<<r1, r2>>}
MCMoveAndReturn == {<<r1, r2>>, <<r2, r1>>}

Alone == /\ moved = {} /\ following[r2] = NoFollow
         /\ blocking[r2] = 0 /\ blockedBy[r2] = 0
Unfollowed == \A m \in processed : m.type \notin {"Follow", "Undo"}

\* Relationships are explored in three scopes: a peer that follows the account, a
\* peer the account follows (both may block), or an account it follows that moves.
InScope ==
    \/ scope = "incoming" /\ Alone /\ following[r1] = NoFollow /\ activities <= 2
    \/ scope = "outgoing" /\ Alone /\ Unfollowed
    \/ scope = "moves" /\ Unfollowed

\* Two requests of the account that need an activity are enough around a move.
FewRequests == scope = "moves" => activities' \in {activities, 1, 2} \/ open' # open

\* Requests are explored with all events, none of them dropped, blocked or deleted,
\* and with all that may happen to one event less while no handler fails.
RequestsInScope ==
    \/ scope = "incoming" /\ RequestsNext /\ \A n \in Notes : note'[n].st # "dropped"
    \/ scope = "outgoing" /\ Next /\ faults' = 0 /\ \A n \in Notes : n = "m2" => UNCHANGED note[n]

SocialInit ==
    /\ part \in {"requests", "policy", "relationships"}
    /\ Init /\ PolicyInit /\ (part # "policy" => Default) /\ Distinct(sender)
    /\ RelationshipsInit /\ scope \in {"incoming", "outgoing", "moves"}
    /\ part = "policy" => scope = "incoming"
    /\ part = "requests" => scope \in {"incoming", "outgoing"}

SocialNext ==
    /\ UNCHANGED <<part, scope>>
    /\ \/ part = "requests" /\ RequestsInScope /\ UNCHANGED <<policy_vars, relationship_vars>>
       \/ part = "policy" /\ PolicyNext /\ UNCHANGED <<vars, relationship_vars>>
       \/ part = "relationships" /\ RelationshipsNext /\ InScope' /\ FewRequests /\ UNCHANGED <<vars, policy_vars>>

\* No job and no transaction is under way where a part stands still, so the
\* fairness of the others does not bear on it.
SocialSpec ==
    /\ SocialInit /\ [][SocialNext]_<<part, vars, policy_vars, relationship_vars, scope>>
    /\ \A k \in JobKinds : WF_vars(JobStep(k))
    /\ Fairness

\* One part alone.
RequestsAlone == SocialSpec /\ part = "requests"
RelationshipsAlone == SocialSpec /\ part = "relationships"
=============================================================================
