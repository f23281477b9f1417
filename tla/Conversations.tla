--------------------------- MODULE Conversations ---------------------------
(***************************************************************************)
(* Direct messages and the conversations that show them.  Every local       *)
(* participant has a view of the conversation, with the latest message this *)
(* account may read; messages have recipients of their own, so two views of *)
(* a conversation may show different messages.                              *)
(*                                                                          *)
(* A transaction is a step that reads and a step that commits.  Writing to  *)
(* local_conversation locks the conversation: a new message does so before  *)
(* it reads the views, an edit only when it repairs them at its end.        *)
(***************************************************************************)
EXTENDS Naturals, FiniteSets

CONSTANTS
    People,     \* local accounts
    Peer,       \* the remote actor who sends direct messages
    Messages,   \* positions in the order of created_at and published_at
    RemoteMessages,
    Threads,    \* conversations, taken in order
    Writers     \* transactions at a time

ASSUME ConversationsAssumption ==
    /\ Messages \subseteq Nat \ {0} /\ RemoteMessages \subseteq Messages
    /\ Threads \subseteq Nat \ {0} /\ Peer \notin People
    /\ IsFiniteSet(Messages)

VARIABLES
    message,   \* local_status and remote_status with their recipients
    view,      \* local_conversation_account of each conversation and account
    opened,    \* the conversations that were inserted
    writer,    \* the transactions under way
    hides,     \* accounts that muted or blocked the peer
    lost       \* views an edit had read that were gone when it committed (history)

conversation_vars == <<message, view, opened, writer, hides, lost>>

NoMessage == 0
NoThread == 0
Unwritten == [state |-> "absent", by |-> Peer, to |-> {}, thread |-> NoThread, parent |-> NoMessage,
              edited |-> FALSE]
NoView == [last |-> NoMessage, unread |-> FALSE, hidden |-> TRUE]
NoWriter == [kind |-> "idle", msg |-> NoMessage, row |-> Unwritten, seen |-> {}]

ConversationsInit ==
    /\ message = [m \in Messages |-> Unwritten]
    /\ view = [t \in Threads |-> [a \in {} |-> NoView]]
    /\ opened = {} /\ writer = [w \in Writers |-> NoWriter]
    /\ hides \in SUBSET People /\ lost = {}

ConversationsTypeOK ==
    /\ \A m \in Messages : /\ message[m].state \in {"absent", "live", "open", "gone", "purged"}
                           /\ message[m].to \subseteq People
                           /\ message[m].thread \in opened \cup {NoThread}
    /\ \A t \in Threads : /\ DOMAIN view[t] \subseteq People
                          /\ \A a \in DOMAIN view[t] : view[t][a].last \in Messages
    /\ opened \subseteq Threads /\ lost \subseteq opened \X People
-----------------------------------------------------------------------------
(* Locks *)

\* A new message holds its conversation from its first step; an edit takes it
\* when it ends.
RowLocked(t) == \E w \in Writers : writer[w].kind \in {"attach", "arrive"} /\ writer[w].row.thread = t
RowFree(m) == \A w \in Writers : writer[w].msg # m

\* The conversation of the parent, deleted or not, or a new one.
ThreadOf(parent) ==
    IF parent # NoMessage /\ message[parent].thread # NoThread THEN message[parent].thread
    ELSE Cardinality(opened) + 1

Participants(row) == ({row.by} \cap People) \cup row.to
-----------------------------------------------------------------------------
(* repair_direct_conversation_after_delete, on the state the transaction    *)
(* leaves: msgs and views                                                   *)

VisibleTo(msgs, t, a) ==
    {m \in Messages : msgs[m].state = "live" /\ msgs[m].thread = t /\ a \in Participants(msgs[m])}

Newest(S) == CHOOSE m \in S : \A n \in S : n <= m

\* Mutant: only recipients count, not the author of a message.
StillShown_Recipients(msgs, t, vs) ==
    {a \in DOMAIN vs : \E m \in VisibleTo(msgs, t, a) : a \in msgs[m].to}

\* local_conversation_account rows without a visible status are deleted.
StillShown(msgs, t, vs) == {a \in DOMAIN vs : VisibleTo(msgs, t, a) # {}}

Repaired(msgs, t, vs) ==
    [a \in StillShown(msgs, t, vs) |-> [vs[a] EXCEPT !.last = Newest(VisibleTo(msgs, t, a))]]

\* The views a message is put on: those it has are overwritten.
WithViews(vs, who, new) == [a \in DOMAIN vs \cup DOMAIN new |-> IF a \in who THEN new[a] ELSE vs[a]]

\* A view that is inserted is no longer lost.
LostAfter(t, gone) == (lost \cup ({t} \X gone)) \ ({t} \X DOMAIN view'[t])
-----------------------------------------------------------------------------
(* Local messages *)

\* attach_direct_status_to_conversation: the conversation is updated, and so
\* locked, before its views are read.
MayAttach(t) == t \in Threads /\ ~ RowLocked(t)

BeginAttach(w, m, a, to, parent) ==
    LET t == ThreadOf(parent) IN
    /\ writer[w] = NoWriter /\ m \notin RemoteMessages /\ RowFree(m) /\ message[m] = Unwritten
    /\ parent # NoMessage => message[parent].state = "live" /\ a \in Participants(message[parent])
    /\ MayAttach(t)
    /\ opened' = opened \cup {t}
    /\ writer' = [writer EXCEPT ![w] = [kind |-> "attach", msg |-> m, seen |-> DOMAIN view[t],
          row |-> [state |-> "live", by |-> a, to |-> to, thread |-> t, parent |-> parent, edited |-> FALSE]]]
    /\ UNCHANGED <<message, view, hides, lost>>

FinishAttach(w) ==
    LET x == writer[w]
        who == Participants(x.row)
        new == [a \in who |-> [last |-> x.msg, unread |-> a # x.row.by, hidden |-> FALSE]] IN
    /\ x.kind = "attach"
    /\ who \cap DOMAIN view[x.row.thread] = who \cap x.seen   \* else an update or an insert fails
    /\ message' = [message EXCEPT ![x.msg] = x.row]
    /\ view' = [view EXCEPT ![x.row.thread] = WithViews(@, who, new)] /\ lost' = LostAfter(x.row.thread, {})
    /\ writer' = [writer EXCEPT ![w] = NoWriter]
    /\ UNCHANGED <<opened, hides>>

\* sync_edited_direct_status_conversation reads the views without a lock ...
BeginMessageEdit(w, m, to) ==
    /\ writer[w] = NoWriter /\ m \notin RemoteMessages /\ RowFree(m) /\ message[m].state = "live"
    /\ writer' = [writer EXCEPT ![w] = [kind |-> "edit", msg |-> m, seen |-> DOMAIN view[message[m].thread],
          row |-> [message[m] EXCEPT !.to = to, !.edited = TRUE]]]
    /\ UNCHANGED <<message, view, opened, hides, lost>>

\* ... and inserts the views that were missing; the repair gives them their
\* message. A view it had read may have been removed meanwhile: nothing inserts
\* it again.
FinishEdit(w) ==
    LET x == writer[w]
        t == x.row.thread
        added == Participants(x.row) \ x.seen
        msgs == [message EXCEPT ![x.msg] = x.row]
        fresh == [a \in added |-> [last |-> NoMessage, unread |-> a # x.row.by, hidden |-> FALSE]] IN
    /\ x.kind = "edit" /\ ~ RowLocked(t)
    /\ added \cap DOMAIN view[t] = {}
    /\ message' = msgs
    /\ view' = [view EXCEPT ![t] = Repaired(msgs, t, WithViews(@, added, fresh))]
    /\ lost' = LostAfter(t, (Participants(x.row) \cap x.seen) \ DOMAIN view[t])
    /\ writer' = [writer EXCEPT ![w] = NoWriter]
    /\ UNCHANGED <<opened, hides>>

\* delete_status, delete_reported_status and the inbox Delete
Delete(m) ==
    LET t == message[m].thread
        msgs == [message EXCEPT ![m].state = "gone"] IN
    /\ message[m].state = "live" /\ RowFree(m) /\ ~ RowLocked(t)
    /\ message' = msgs
    /\ view' = [view EXCEPT ![t] = Repaired(msgs, t, @)]
    /\ UNCHANGED <<opened, writer, hides, lost>>
-----------------------------------------------------------------------------
(* Remote messages: attach_remote_direct_status_to_conversation *)

\* A Create marks the conversation, and so locks it.
BeginArrive(w, m, to, parent) ==
    LET t == ThreadOf(parent) IN
    /\ writer[w] = NoWriter /\ m \in RemoteMessages /\ RowFree(m) /\ message[m] = Unwritten
    /\ to # {} /\ MayAttach(t)
    /\ opened' = opened \cup {t}
    /\ writer' = [writer EXCEPT ![w] = [kind |-> "arrive", msg |-> m, seen |-> DOMAIN view[t],
          row |-> [state |-> "live", by |-> Peer, to |-> to, thread |-> t, parent |-> parent, edited |-> FALSE]]]
    /\ UNCHANGED <<message, view, hides, lost>>

FinishArrive(w) ==
    LET x == writer[w]
        t == x.row.thread
        msgs == [message EXCEPT ![x.msg] = x.row]
        new == [a \in x.row.to |-> [last |-> x.msg, unread |-> TRUE, hidden |-> FALSE]] IN
    /\ x.kind = "arrive"
    /\ x.row.to \cap DOMAIN view[t] = x.row.to \cap x.seen
    /\ message' = msgs
    /\ view' = [view EXCEPT ![t] = Repaired(msgs, t, WithViews(@, x.row.to, new))] /\ lost' = LostAfter(t, {})
    /\ writer' = [writer EXCEPT ![w] = NoWriter]
    /\ UNCHANGED <<opened, hides>>

\* An Update looks for the conversation again, through the parent: a message
\* without one gets a new conversation.
BeginRevise(w, m, to) ==
    LET t == ThreadOf(message[m].parent) IN
    /\ writer[w] = NoWriter /\ m \in RemoteMessages /\ RowFree(m) /\ message[m].state = "live"
    /\ to # {} /\ t \in Threads
    /\ opened' = opened \cup {t}
    /\ writer' = [writer EXCEPT ![w] = [kind |-> "revise", msg |-> m, seen |-> DOMAIN view[t],
          row |-> [message[m] EXCEPT !.to = to, !.thread = t, !.edited = TRUE]]]
    /\ UNCHANGED <<message, view, hides, lost>>

FinishRevise(w) ==
    LET x == writer[w]
        t == x.row.thread
        msgs == [message EXCEPT ![x.msg] = x.row]
        fresh == [a \in x.row.to \ x.seen |-> [last |-> x.msg, unread |-> FALSE, hidden |-> FALSE]] IN
    /\ x.kind = "revise" /\ ~ RowLocked(t)
    /\ x.row.to \cap DOMAIN view[t] = x.row.to \cap x.seen
    /\ message' = msgs
    /\ view' = [view EXCEPT ![t] = Repaired(msgs, t, WithViews(@, DOMAIN fresh, fresh))] /\ lost' = LostAfter(t, {})
    /\ writer' = [writer EXCEPT ![w] = NoWriter]
    /\ UNCHANGED <<opened, hides>>

\* An Update that makes the message public: its recipients are replaced and
\* the conversation it stays in is repaired.
Widen(m) ==
    LET t == message[m].thread
        msgs == [message EXCEPT ![m].state = "open", ![m].edited = TRUE] IN
    /\ m \in RemoteMessages /\ message[m].state = "live" /\ RowFree(m) /\ ~ RowLocked(t)
    /\ message' = msgs
    /\ view' = [view EXCEPT ![t] = Repaired(msgs, t, @)]
    /\ UNCHANGED <<opened, writer, hides, lost>>

\* purge_remote_actor_cache marks the messages of a suspended actor as deleted,
\* purge_suspended_local_account deletes the rows of a local one; neither
\* repairs a conversation.
PurgeAuthor(a) ==
    LET theirs == {m \in Messages : message[m].by = a /\ message[m].state # "absent"} IN
    /\ theirs # {} /\ \A m \in theirs : RowFree(m)
    /\ message' = [m \in Messages |-> IF m \notin theirs THEN message[m]
                      ELSE [message[m] EXCEPT !.state = "purged", !.thread = IF a = Peer THEN @ ELSE NoThread]]
    /\ UNCHANGED <<view, opened, writer, hides, lost>>

\* A failed statement, a deadlock or a lost connection: nothing is written.
Rollback(w) ==
    /\ writer[w] # NoWriter
    /\ writer' = [writer EXCEPT ![w] = NoWriter]
    /\ UNCHANGED <<message, view, opened, hides, lost>>
-----------------------------------------------------------------------------
(* The account's own requests *)

\* find_local_conversation_account_model
Found(a, t) == a \in DOMAIN view[t] /\ ~ view[t][a].hidden

MarkRead(a, t) ==
    /\ Found(a, t)
    /\ view' = [view EXCEPT ![t][a].unread = FALSE]
    /\ UNCHANGED <<message, opened, writer, hides, lost>>

Hide(a, t) ==
    /\ Found(a, t)
    /\ view' = [view EXCEPT ![t][a].hidden = TRUE]
    /\ UNCHANGED <<message, opened, writer, hides, lost>>

ConversationsNext ==
    \/ \E w \in Writers, m \in Messages, to \in SUBSET People :
          \/ \E a \in People, p \in Messages \cup {NoMessage} : BeginAttach(w, m, a, to, p)
          \/ \E p \in Messages \cup {NoMessage} : BeginArrive(w, m, to, p)
          \/ BeginMessageEdit(w, m, to) \/ BeginRevise(w, m, to)
    \/ \E w \in Writers : FinishAttach(w) \/ FinishEdit(w) \/ FinishArrive(w) \/ FinishRevise(w) \/ Rollback(w)
    \/ \E m \in Messages : Delete(m) \/ Widen(m)
    \/ \E a \in People \cup {Peer} : PurgeAuthor(a)
    \/ \E a \in People, t \in Threads : MarkRead(a, t) \/ Hide(a, t)

ConversationsSpec == ConversationsInit /\ [][ConversationsNext]_conversation_vars
-----------------------------------------------------------------------------
(* What GET /api/v1/conversations shows *)

\* A message that was deleted is not found.
Shown(a, t) == LET m == view[t][a].last IN IF message[m].state \in {"live", "open"} THEN m ELSE NoMessage

\* conversation_is_hidden: the latest message is one of somebody the account
\* muted or blocked.
ConversationIsHidden(a, t) == Shown(a, t) \in RemoteMessages /\ a \in hides

Listed(a) == {t \in Threads : Found(a, t) /\ ~ ConversationIsHidden(a, t)}

\* conversation_status checks who may read a local message,
\* remote_conversation_status does not.
LastStatus(a, t) ==
    LET m == Shown(a, t) IN
    IF m \in RemoteMessages \/ (m # NoMessage /\ a \in Participants(message[m])) THEN m ELSE NoMessage

\* direct_status_participants_for_view: the audience of the message shown.
Audience(a, t) == LET row == message[view[t][a].last] IN {row.by} \cup row.to

\* Without the account itself and the peer it hides.
ConversationAccounts(a, t) == Audience(a, t) \ ({a} \cup (IF a \in hides THEN {Peer} ELSE {}))

\* ListedIsReadable: the conversations that are listed show a message that exists, that belongs
\* to the conversation and that was addressed to the account or written by it,
\* whatever was deleted or edited meanwhile; the exceptions are the messages
\* whose edit moved them to a conversation of their own, and conversations
\* listed without a message because its author was purged.
ListedIsReadable ==
    \A a \in People : \A t \in Listed(a) :
        LET m == view[t][a].last IN
        \/ m \in RemoteMessages /\ message[m].edited /\ message[m].thread # t
        \/ message[m].state = "purged" /\ LastStatus(a, t) = NoMessage
        \/ /\ LastStatus(a, t) = m /\ message[m].thread = t
           /\ a \in Participants(message[m])
           /\ Participants(message[m]) \ {a} \subseteq ConversationAccounts(a, t)

\* AddressedHaveView: every participant of a direct message, edited or not, has a view of its
\* conversation, hidden or not, even if another message of the conversation was
\* deleted while this one was written; but for the views that
\* sync_edited_direct_status_conversation had read, and so did not insert, and
\* that such a deletion removed before the edit was committed.
AddressedHaveView ==
    \A m \in Messages : message[m].state = "live" =>
        Participants(message[m]) \subseteq DOMAIN view[message[m].thread] \cup {a \in People : <<message[m].thread, a>> \in lost}

\* What the conversations show is true after every transaction of several
\* writers.
ConversationsSafe == ConversationsTypeOK /\ ListedIsReadable /\ AddressedHaveView
=============================================================================
