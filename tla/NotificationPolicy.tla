------------------------- MODULE NotificationPolicy -------------------------
(***************************************************************************)
(* Which notifications a recipient's policy accepts, holds or drops. The   *)
(* code decides it twice, for local and for remote senders. The recipient  *)
(* edits one field at a time; `sender' is all the code reads of a sender.   *)
(***************************************************************************)
EXTENDS Naturals

Fields == {"not_following", "not_followers", "new_accounts", "private_mentions",
           "limited_accounts"}
Actions == {"accept", "filter", "drop"}

VARIABLES
    policy,     \* the stored policy of the recipient
    sender      \* the facts of the sender at hand

policy_vars == <<policy, sender>>

\* What the code reads of recipient, sender and status.
Facts == [permitted : BOOLEAN, follows : BOOLEAN, follower : {"no", "recent", "trusted"},
          new_account : BOOLEAN, mention : BOOLEAN, direct : BOOLEAN,
          recipient_started : BOOLEAN, limited : BOOLEAN]

Defaults == [f \in Fields |-> IF f \in {"private_mentions", "limited_accounts"}
                              THEN "filter" ELSE "accept"]
PolicyInit == policy = Defaults /\ sender \in Facts
update_notification_policy(field, action) ==
    /\ policy[field] # action
    /\ policy' = [policy EXCEPT ![field] = action]
    /\ UNCHANGED sender
PolicyNext == \E field \in Fields, action \in Actions : update_notification_policy(field, action)
PolicySpec == PolicyInit /\ [][PolicyNext]_policy_vars
-----------------------------------------------------------------------------
Rank(action) == CASE action = "accept" -> 0 [] action = "filter" -> 1 [] action = "drop" -> 2

\* max_by_key over the collected actions, Accept when there is none.
strongest(actions) ==
    IF actions = {} THEN "accept"
    ELSE CHOOSE a \in actions : \A b \in actions : Rank(b) <= Rank(a)

Applied(fields) == strongest({policy[f] : f \in fields})

UnlessFollowing(f) ==
    {field \in {"new_accounts", "private_mentions", "limited_accounts"} :
        /\ ~f.follows
        /\ field = "new_accounts" => f.new_account
        /\ field = "private_mentions" => f.mention /\ f.direct /\ ~f.recipient_started
        /\ field = "limited_accounts" => f.limited}

\* Mutant: the three-day rule is forgotten for local followers.
local_notification_policy_action_AnyFollower(f) ==
    IF f.permitted THEN "accept"
    ELSE Applied((IF f.follows THEN {} ELSE {"not_following"})
                 \cup (IF f.follower = "no" THEN {"not_followers"} ELSE {})
                 \cup UnlessFollowing(f))

local_notification_policy_action(f) ==
    IF f.permitted THEN "accept"
    ELSE Applied((IF f.follows THEN {} ELSE {"not_following"})
                 \cup (IF f.follower = "no" THEN {"not_followers"} ELSE {})
                 \cup UnlessFollowing(f)
                 \cup (IF f.follower = "recent" THEN {"not_followers"} ELSE {}))

remote_notification_policy_action(f) ==
    IF f.permitted THEN "accept"
    ELSE Applied((IF f.follows THEN {} ELSE {"not_following"})
                 \cup (IF f.follower \in {"no", "recent"} THEN {"not_followers"} ELSE {})
                 \cup UnlessFollowing(f))
-----------------------------------------------------------------------------
\* The two implementations agree: a sender is treated the same whether its
\* account is local or remote.
LocalAndRemoteAgree ==
    local_notification_policy_action(sender) = remote_notification_policy_action(sender)

\* A policy edited to be stricter lets no more through, of any sender.
StricterIsStricter ==
    (\A field \in Fields : Rank(policy[field]) <= Rank(policy'[field])) =>
        Rank(remote_notification_policy_action(sender))
          <= Rank(remote_notification_policy_action(sender)')

\* The policy is one policy: the same for local and remote senders before and
\* after every edit, and monotone in every edit.
PolicyIsOne == [][LocalAndRemoteAgree /\ LocalAndRemoteAgree' /\ StricterIsStricter]_policy_vars
=============================================================================
