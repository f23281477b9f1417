----------------------------- MODULE MCFederation -----------------------------
(***************************************************************************)
(* What crosses the border of the server: actors and their keys, signatures*)
(* and deliveries, remote statuses and media, and the rules about accounts,*)
(* domains and access.  They share no variable of the models, so a         *)
(* behaviour is about one part, chosen at the start, and the sizes of the  *)
(* parts add up.                                                           *)
(***************************************************************************)
EXTENDS Authentication, RemoteStatuses, ActorKeys, Delivery, Moderation, Access, MediaCache

CONSTANTS thread, reply,    \* a Note and its answer
    back                    \* a Note whose last version says what its first one said

VARIABLES part, scope

MCKeyController == [k1 |-> "a", k2 |-> "b"]
\* The key that a's document refers to and that b embeds; b's key, referred to or
\* embedded by a.
MCKeyLists == {{}, {<<"k1", Absent>>}, {<<"k1", "b">>}, {<<"k2", "a">>}, {<<"k2", Absent>>, <<"k1", "a">>}}
MCReplyTo == [n \in Notes |-> IF n = reply THEN thread ELSE NoNote]
MCTextOf == [n \in Notes |-> [v \in 1..MaxVersion |-> IF n = back /\ v = MaxVersion THEN 1 ELSE v]]

\* The two actors and their keys can be exchanged: the sender is the first one.
ActorsInScope ==
    /\ \A q \in Deliveries : delivery[q].actor # "b"
    /\ document["a"].keys # {<<"k1", "b">>}
    /\ document["b"].keys \in {{}, {<<"k1", "b">>}}

\* Three versions of one Note, or two of a thread whose deletion may come back.
RemoteStatusesInScope ==
    /\ scope \in {"edits", "reverts"} => origin[reply].version = 0
    /\ IF scope = "reverts" THEN origin[thread].version = 0 /\ ~ left ELSE origin[back].version = 0
    /\ scope \notin {"edits", "reverts"} => ~ left /\ origin[thread].version < 3 /\ origin[reply].version < 3 /\ ~ origin[reply].gone
    /\ scope = "threads" => origin[thread].version < 2
    /\ scope = "returns" => origin[reply].version < 2

\* Actors that are barred or move, or edits that overlap.
DeliveryInScope ==
    /\ Cardinality(groups) <= 2
    /\ IF scope = "status" THEN Cardinality(barred \cup movedInbox) <= 1 /\ Cardinality(reads) <= 1
       ELSE barred \cup movedInbox = {}

ModerationInScope ==
    /\ scope = "suspension" => \A x \in ModeratedAccounts : ~ acct[x].limited
    /\ scope = "reports" => report.on # "a" /\ ~ acct["r"].limited

\* An execution outlives its claim where the pool alone fetches attachments.
MediaInScope ==
    /\ overruns > 0 => scope = "attachment" /\ \A v \in Visitors : visitor[v].stage = "idle"
    /\ \A i \in IF scope = "image" THEN Attachments ELSE Images : mediaRow[i].state = "unused"

Scopes == [actors |-> {"all"}, remoteStatuses |-> {"edits", "reverts", "threads", "returns"},
           signatures |-> {"all"}, keys |-> {"all"}, delivery |-> {"status", "overlap", "single"},
           moderation |-> {"suspension", "domain", "reports"},
           access |-> {"registration", "oauth", "push"}, media |-> {"image", "attachment"}]

MCInit ==
    /\ part \in DOMAIN Scopes /\ scope \in Scopes[part]
    /\ RemoteActorsInit /\ (part # "actors" => finger["n"] = "a")
    /\ RemoteStatusesInit /\ SignaturesInit /\ ActorKeysInit
    /\ DeliveryInit /\ (part # "delivery" => fans = {} /\ ~ status.direct)
    /\ ModerationInit /\ AccessInit /\ MediaInit

MCNext ==
    /\ UNCHANGED <<part, scope>>
    /\ \/ /\ part = "actors" /\ RemoteActorsNext /\ ActorsInScope'
          /\ UNCHANGED <<remote_vars, signature_vars, key_vars, delivery_vars, moderation_vars, access_vars, media_vars>>
       \/ /\ part = "remoteStatuses" /\ RemoteStatusesNext /\ RemoteStatusesInScope'
          /\ UNCHANGED <<actor_vars, signature_vars, key_vars, delivery_vars, moderation_vars, access_vars, media_vars>>
       \/ /\ part = "signatures" /\ SignaturesNext
          /\ UNCHANGED <<actor_vars, remote_vars, key_vars, delivery_vars, moderation_vars, access_vars, media_vars>>
       \/ /\ part = "keys" /\ ActorKeysNext
          /\ UNCHANGED <<actor_vars, remote_vars, signature_vars, delivery_vars, moderation_vars, access_vars, media_vars>>
       \/ /\ scope \in {"status", "overlap"} /\ StatusDeliveryNext /\ DeliveryInScope'
          /\ UNCHANGED <<actor_vars, remote_vars, signature_vars, key_vars, moderation_vars, access_vars, media_vars>>
       \/ /\ scope = "single" /\ SingleDeliveryNext
          /\ Cardinality(singles') + Cardinality(arrived') <= 2
          /\ UNCHANGED <<actor_vars, remote_vars, signature_vars, key_vars, moderation_vars, access_vars, media_vars>>
       \/ /\ part = "moderation"
          /\ \/ scope = "suspension" /\ SuspensionNext
             \/ scope = "domain" /\ DomainNext
             \/ scope = "reports" /\ ReportNext
          /\ ModerationInScope'
          /\ UNCHANGED <<actor_vars, remote_vars, signature_vars, key_vars, delivery_vars, access_vars, media_vars>>
       \/ /\ part = "access"
          /\ \/ scope = "registration" /\ RegistrationNext
             \/ scope = "oauth" /\ OAuthNext
             \/ scope = "push" /\ PushNext
          /\ UNCHANGED <<actor_vars, remote_vars, signature_vars, key_vars, delivery_vars, moderation_vars, media_vars>>
       \/ /\ part = "media" /\ MediaNext /\ MediaInScope'
          /\ UNCHANGED <<actor_vars, remote_vars, signature_vars, key_vars, delivery_vars, moderation_vars, access_vars>>

MCSpec == MCInit /\ [][MCNext]_<<part, scope, actor_vars, remote_vars, signature_vars, key_vars,
                                 delivery_vars, moderation_vars, access_vars, media_vars>>
=============================================================================
