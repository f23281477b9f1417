---------------------------- MODULE SocialGraph ----------------------------
(***************************************************************************)
(* What one local account Me has to do with the others: follows, blocks,    *)
(* mutes and a private list, what an administrator does to the others, and  *)
(* remote accounts that move or are deleted.  A follow, an addition to a    *)
(* list and the migration of a follow check rows they do not lock, so that  *)
(* each is two steps.  The protocol of a remote follow is Relationships.    *)
(***************************************************************************)
EXTENDS Naturals, FiniteSets

CONSTANTS Me, LocalPeers, RemotePeers

Peers == LocalPeers \cup RemotePeers

ASSUME SocialGraphAssumption == Me \notin Peers /\ LocalPeers \cap RemotePeers = {}

LocalPairs == ({Me} \X LocalPeers) \cup (LocalPeers \X {Me})
Pairs == ({Me} \X Peers) \cup (Peers \X {Me})
Policies == {"none", "list", "followed"}

VARIABLES
    follow,    \* local_follow and the accepted rows of remote_following
    block,     \* local_account_block and both remote block tables
    mute,      \* the accounts that Me mutes, not yet expired
    pending,   \* remote accounts that Me asked and that have not answered
    quiet,     \* follows with show_reblogs = false
    member,    \* the accounts on the list of Me
    mylist,    \* local_list: [there, exclusive, policy]
    checked,   \* checks that passed and whose insert is outstanding
    late,      \* pairs that ended under such a check or under a list membership
    suspended, \* accounts with suspended_at
    limited,   \* accounts with limited_at
    erased     \* remote accounts whose cached statuses were deleted

graph_vars == <<follow, block, mute, pending, quiet, member, mylist, checked, late,
                suspended, limited, erased>>

SocialGraphInit ==
    /\ follow = {} /\ block = {} /\ mute = {} /\ pending = {} /\ quiet = {} /\ member = {}
    /\ mylist = [there |-> FALSE, exclusive |-> FALSE, policy |-> "list"]
    /\ checked = {} /\ late = {} /\ suspended = {} /\ limited = {} /\ erased = {}

SocialGraphTypeOK ==
    /\ follow \subseteq Pairs /\ block \subseteq Pairs /\ late \subseteq Pairs
    /\ mute \subseteq Peers /\ member \subseteq Peers /\ erased \cup pending \subseteq RemotePeers
    /\ checked \subseteq {"follow", "member", "move"} \X Pairs
    /\ member # {} => mylist.there
-----------------------------------------------------------------------------
\* local_accounts_are_blocked and local_remote_accounts_are_blocked
AreBlocked(a, b) == <<a, b>> \in block \/ <<b, a>> \in block

\* show_reblogs of a follow is written with it.
Quieted(b, reblogs) == IF reblogs THEN quiet \ {b} ELSE quiet \cup {b}

\* follow_local_account: the blocks are read without a lock ...
CheckFollow(a, b) ==
    /\ <<a, b>> \in LocalPairs /\ a \notin suspended
    /\ ~ AreBlocked(a, b)
    /\ checked' = checked \cup {<<"follow", <<a, b>>>>}
    /\ UNCHANGED <<follow, block, mute, quiet, member, mylist, late, suspended, limited, erased, pending>>

\* ... before the row is inserted, or its options are changed.
InsertFollow(a, b, reblogs) ==
    /\ <<"follow", <<a, b>>>> \in checked
    /\ checked' = checked \ {<<"follow", <<a, b>>>>}
    /\ follow' = follow \cup {<<a, b>>}
    /\ quiet' = Quieted(b, reblogs)
    /\ UNCHANGED <<block, mute, member, mylist, late, suspended, limited, erased, pending>>

\* follow of a remote account, under the lock of its pair: a new row is Pending.
FollowRemote(x, reblogs) ==
    /\ x \in RemotePeers \ suspended /\ ~ AreBlocked(Me, x)
    /\ pending' = IF <<Me, x>> \in follow THEN pending ELSE pending \cup {x}
    /\ quiet' = Quieted(x, reblogs)
    /\ UNCHANGED <<follow, block, mute, member, mylist, checked, late, suspended, limited, erased>>

\* accept_remote_following looks at the row only.
AcceptRemote(x) ==
    /\ x \in pending \ suspended
    /\ pending' = pending \ {x} /\ follow' = follow \cup {<<Me, x>>}
    /\ UNCHANGED <<block, mute, quiet, member, mylist, checked, late, suspended, limited, erased>>

\* What was checked for one of the pairs is out of date from now on.
Relied(pairs) == {p \in pairs : \E c \in checked : c[2] = p}
Overtakes(pairs) == late' = late \cup Relied(pairs)

\* The follow of x ends and the lists are left alone.
Strands(x) ==
    late' = late \cup Relied({<<Me, x>>}) \cup (IF x \in member THEN {<<Me, x>>} ELSE {})

\* No follow, answered or not, is left between Me and b.
Unasked(a, b) == pending \ (IF a = Me THEN {b} ELSE {})

\* remove_local_account_from_owned_lists and the one for remote accounts: only
\* Me has a list here.
OffTheLists(owner, b) == IF owner = Me THEN member \ {b} ELSE member

\* unfollow_local_account, delete_remote_following_with_job
Unfollow(a, b) ==
    /\ <<a, b>> \in follow \/ (a = Me /\ b \in pending)
    /\ follow' = follow \ {<<a, b>>} /\ pending' = Unasked(a, b)
    /\ member' = OffTheLists(a, b)
    /\ Overtakes({<<a, b>>})
    /\ UNCHANGED <<block, mute, quiet, mylist, checked, suspended, limited, erased>>

\* Mutant: only the follow of the account that blocks is deleted.
SeverFollows_OneWay(a, b) == follow \ {<<a, b>>}

SeverFollows(a, b) == follow \ {<<a, b>>, <<b, a>>}

\* block_local_account, block_remote_account and the Block of a remote actor.
Block(a, b) ==
    /\ <<a, b>> \in Pairs \ block /\ a \notin suspended
    /\ b \in RemotePeers => b \notin suspended
    /\ block' = block \cup {<<a, b>>}
    /\ follow' = SeverFollows(a, b)
    /\ pending' = Unasked(a, b) \cap Unasked(b, a)
    /\ member' = OffTheLists(a, b) \cap OffTheLists(b, a)
    /\ Overtakes({<<a, b>>, <<b, a>>})
    /\ UNCHANGED <<mute, quiet, mylist, checked, suspended, limited, erased>>

Unblock(a, b) ==
    /\ <<a, b>> \in block
    /\ block' = block \ {<<a, b>>}
    /\ UNCHANGED <<follow, mute, quiet, member, mylist, checked, late, suspended, limited, erased, pending>>

Mute(b) ==
    /\ b \in RemotePeers => b \notin suspended
    /\ mute' = mute \cup {b}
    /\ UNCHANGED <<follow, block, quiet, member, mylist, checked, late, suspended, limited, erased, pending>>

\* unmute, or the end of the mute's duration.
Unmute(b) ==
    /\ mute' = mute \ {b}
    /\ UNCHANGED <<follow, block, quiet, member, mylist, checked, late, suspended, limited, erased, pending>>

\* A Reject deletes the follow and leaves the lists alone.
RejectRemote(x) ==
    /\ <<Me, x>> \in follow \/ x \in pending
    /\ x \in RemotePeers \ suspended
    /\ follow' = follow \ {<<Me, x>>} /\ pending' = pending \ {x}
    /\ Strands(x)
    /\ UNCHANGED <<block, mute, quiet, member, mylist, checked, suspended, limited, erased>>

\* process_remote_actor_delete: the cached statuses and both directions of the
\* follow go, the lists are left alone.
DeleteActor(x) ==
    /\ x \in RemotePeers \ suspended
    /\ follow' = SeverFollows(Me, x) /\ pending' = pending \ {x}
    /\ Strands(x)
    /\ erased' = erased \cup {x}
    /\ UNCHANGED <<block, mute, quiet, member, mylist, checked, suspended, limited>>

\* A status of such an account that arrives afterwards.
Receive(x) ==
    /\ x \in erased \ suspended
    /\ erased' = erased \ {x}
    /\ UNCHANGED <<follow, block, mute, quiet, member, mylist, checked, late, suspended, limited, pending>>

\* migrate_remote_actor_relationships, after x has moved to y: blocks and
\* suspension of y are read before the locks of the pairs ...
CheckMove(y) ==
    /\ y \in RemotePeers \ suspended /\ ~ AreBlocked(Me, y)
    /\ checked' = checked \cup {<<"move", <<Me, y>>>>}
    /\ UNCHANGED <<follow, block, mute, quiet, member, mylist, late, suspended, limited, erased, pending>>

\* ... and the follow moves with the membership, before y has answered.
CarryFollow(x, y) ==
    /\ <<"move", <<Me, y>>>> \in checked
    /\ checked' = checked \ {<<"move", <<Me, y>>>>}
    /\ member' = IF x \in member THEN (member \cup {y}) \ {x} ELSE member
    /\ IF <<Me, y>> \in follow \/ y \in pending
       THEN UNCHANGED <<pending, quiet>>
       ELSE pending' = pending \cup {y} /\ quiet' = Quieted(y, x \notin quiet)

\* y is not one that Me may follow.
DropFollow(x, y) ==
    /\ y \in suspended \/ AreBlocked(Me, y)
    /\ member' = member \ {x}
    /\ UNCHANGED <<checked, pending, quiet>>

\* migrate_remote_following_for_actor_move
MoveFollow(x, y) ==
    /\ x \in RemotePeers \ {y} /\ y \in RemotePeers /\ <<Me, x>> \in follow
    /\ CarryFollow(x, y) \/ DropFollow(x, y)
    /\ follow' = follow \ {<<Me, x>>}
    /\ Overtakes({<<Me, x>>})
    /\ UNCHANGED <<block, mute, mylist, suspended, limited, erased>>
-----------------------------------------------------------------------------
WriteList(exclusive, policy) ==
    /\ mylist' = [there |-> TRUE, exclusive |-> exclusive, policy |-> policy]
    /\ UNCHANGED <<follow, block, mute, quiet, member, checked, late, suspended, limited, erased, pending>>

CreateList(exclusive, policy) == ~ mylist.there /\ WriteList(exclusive, policy)
UpdateList(exclusive, policy) == mylist.there /\ WriteList(exclusive, policy)

\* The memberships and a check under way go with the list.
DeleteList ==
    /\ mylist.there
    /\ mylist' = [mylist EXCEPT !.there = FALSE] /\ member' = {}
    /\ checked' = {c \in checked : c[1] # "member"}
    /\ UNCHANGED <<follow, block, mute, quiet, late, suspended, limited, erased, pending>>

\* add_local_list_accounts serializes the additions to one list, and reads the
\* follows ...
CheckMember(b) ==
    /\ mylist.there /\ \A c \in checked : c[1] # "member"
    /\ <<Me, b>> \in follow /\ b \notin member
    /\ checked' = checked \cup {<<"member", <<Me, b>>>>}
    /\ UNCHANGED <<follow, block, mute, quiet, member, mylist, late, suspended, limited, erased, pending>>

\* ... which may be gone when the row is inserted.
InsertMember(b) ==
    /\ <<"member", <<Me, b>>>> \in checked
    /\ checked' = checked \ {<<"member", <<Me, b>>>>}
    /\ member' = member \cup {b}
    /\ UNCHANGED <<follow, block, mute, quiet, mylist, late, suspended, limited, erased, pending>>

RemoveMember(b) ==
    /\ b \in member
    /\ member' = member \ {b}
    /\ UNCHANGED <<follow, block, mute, quiet, mylist, checked, late, suspended, limited, erased, pending>>
-----------------------------------------------------------------------------
\* sever_local_account_relationships and purge_remote_actor_cache: nothing that
\* names the account is left.
Forget(b) ==
    /\ follow' = {p \in follow : b \notin {p[1], p[2]}}
    /\ block' = {p \in block : b \notin {p[1], p[2]}}
    /\ mute' = mute \ {b}
    /\ pending' = pending \ {b}
    /\ member' = member \ {b}
    /\ Overtakes({<<Me, b>>, <<b, Me>>})

\* set_account_suspended_by_id: the cached statuses of a remote account are
\* deleted for good, those of a local one are kept for thirty days.
Suspend(b) ==
    /\ b \notin suspended
    /\ suspended' = suspended \cup {b}
    /\ Forget(b)
    /\ erased' = erased \cup ({b} \cap RemotePeers)
    /\ UNCHANGED <<quiet, mylist, checked, limited>>

Unsuspend(b) ==
    /\ b \in suspended
    /\ suspended' = suspended \ {b}
    /\ UNCHANGED <<follow, block, mute, quiet, member, mylist, checked, late, limited, erased, pending>>

Limit(b) ==
    /\ b \notin limited
    /\ limited' = limited \cup {b}
    /\ UNCHANGED <<follow, block, mute, quiet, member, mylist, checked, late, suspended, erased, pending>>
-----------------------------------------------------------------------------
SocialGraphNext ==
    \/ \E a, b \in Peers \cup {Me} :
          \/ CheckFollow(a, b) \/ Unfollow(a, b) \/ Block(a, b) \/ Unblock(a, b)
          \/ MoveFollow(a, b)
          \/ \E reblogs \in BOOLEAN : InsertFollow(a, b, reblogs)
    \/ \E b \in Peers :
          \/ AcceptRemote(b) \/ RejectRemote(b) \/ Mute(b) \/ Unmute(b)
          \/ DeleteActor(b) \/ Receive(b) \/ CheckMove(b)
          \/ CheckMember(b) \/ InsertMember(b) \/ RemoveMember(b)
          \/ Suspend(b) \/ Unsuspend(b) \/ Limit(b)
          \/ \E reblogs \in BOOLEAN : FollowRemote(b, reblogs)
    \/ \E exclusive \in BOOLEAN, policy \in Policies :
          CreateList(exclusive, policy) \/ UpdateList(exclusive, policy)
    \/ DeleteList

SocialGraphSpec == SocialGraphInit /\ [][SocialGraphNext]_graph_vars
-----------------------------------------------------------------------------
\* A follow ends with a block and a list membership ends with its follow, in
\* whatever order the requests, the remote servers and the administrator act:
\* what is left over needs an insert whose check was overtaken, a member that
\* rejected the follow or was deleted, or a move that is not answered yet.
SeveredStaysSevered ==
    /\ \A p \in follow : AreBlocked(p[1], p[2]) => p \in late
    /\ \A x \in pending : AreBlocked(Me, x) => <<Me, x>> \in late
    /\ \A b \in member : <<Me, b>> \notin follow => <<Me, b>> \in late \/ b \in pending
=============================================================================
