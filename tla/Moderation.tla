----------------------------- MODULE Moderation -----------------------------
(***************************************************************************)
(* Moderation: limits and suspensions of accounts, the purge that follows a *)
(* suspension, the rules about other domains, the reports and the rules of  *)
(* the instance.                                                            *)
(*                                                                          *)
(* A request first reads the account without a lock and decides, then takes *)
(* the lock of the row and changes it: the two are steps of their own.  The *)
(* audit log, which every change of an administrator adds to, is left out.       *)
(***************************************************************************)
EXTENDS Naturals, Sequences, FiniteSets

CONSTANTS
    Admins,         \* local accounts with is_admin
    Members,        \* other local accounts
    CachedActors,         \* remote actors, of one domain
    Moderators,     \* requests under way
    Rules,          \* instance_rule rows
    MaxPurgeJobs,
    MaxPosition,    \* bound on the positions of rules, which gaps let grow
    NoRule          \* position of a rule that is not there

LocalAccounts == Admins \cup Members
ModeratedAccounts == LocalAccounts \cup CachedActors

ASSUME ModerationAssumption ==
    /\ Admins \cap Members = {} /\ LocalAccounts \cap CachedActors = {}
    /\ MaxPurgeJobs \in Nat /\ MaxPosition \in Nat /\ NoRule \notin Nat

VARIABLES
    acct,       \* [suspended, limited, purged] of an account; reopened (history): its
                \* suspension ended although its data had been purged
    ties,       \* accounts that have follows, list memberships, tokens, notifications
    posts,      \* accounts that have statuses
    farewells,       \* local accounts whose Delete activity was queued
    purgeJob,   \* AccountPurge jobs: [of, row, due, worker]
    moderator,  \* [by, act, on, report, new]
    rule,       \* severity of the rule of the domain, "none" without one
    reconcile,  \* the DomainModerationReconcile job: [row, read]
    report,     \* the report: [state, on, from, by, assigned, category, cites, evidence]
    alerted,    \* administrators with a notification of it
    position    \* the position of every rule of the instance

moderation_vars == <<acct, ties, posts, farewells, purgeJob, moderator, rule, reconcile, report, alerted, position>>

NoModerator == [by |-> "", act |-> "idle", on |-> "", report |-> FALSE, new |-> FALSE]
NoReport == [state |-> "none", on |-> "", from |-> "", by |-> "", category |-> "other", assigned |-> "", cites |-> {}, evidence |-> FALSE]
Severities == {"none", "noop", "silence", "suspend"}
Acts == {"suspend", "unsuspend", "limit", "unlimit", "purge", "none"}

ModerationInit ==
    /\ acct = [x \in ModeratedAccounts |-> [suspended |-> FALSE, limited |-> FALSE, purged |-> FALSE, reopened |-> FALSE]]
    /\ ties = ModeratedAccounts /\ posts = ModeratedAccounts /\ farewells = {}
    /\ purgeJob = << >> /\ moderator = [m \in Moderators |-> NoModerator]
    /\ rule = "none" /\ reconcile = [row |-> "none", read |-> "unread"]
    /\ report = NoReport /\ alerted = {} /\ position = [r \in Rules |-> NoRule]

\* Every value is of its type.
ModerationTypeOK ==
    /\ acct \in [ModeratedAccounts -> [suspended : BOOLEAN, limited : BOOLEAN, purged : BOOLEAN, reopened : BOOLEAN]]
    /\ ties \subseteq ModeratedAccounts /\ posts \subseteq ModeratedAccounts /\ farewells \subseteq LocalAccounts
    /\ rule \in Severities /\ reconcile.row \in {"none", "queued", "running"}
    /\ \A i \in DOMAIN purgeJob : purgeJob[i].row \in {"queued", "running", "done"}
    /\ \A m \in Moderators : moderator[m].act \in Acts \cup {"idle"}
    /\ report.cites \subseteq Rules /\ alerted \subseteq Admins
-----------------------------------------------------------------------------
(* Decisions about an account *)

\* count_active_admin_accounts
ActiveAdmins == {x \in Admins : ~ acct[x].suspended}

\* require_admin: tokens of a suspended account are revoked.
MayAdminister(by) == by \in ActiveAdmins

\* The refusals of set_account_suspended_in_transaction and
\* delete_suspended_account, decided on what was read without a lock.
Permitted(by, act, x) ==
    /\ act = "suspend" => by # x
    /\ act = "suspend" /\ x \in Admins => Cardinality(ActiveAdmins) > 1
    /\ act = "unsuspend" /\ x \in LocalAccounts => ~ acct[x].purged
    /\ act = "purge" => acct[x].suspended

\* account_action_for_report: the report must be about the account.
ForReport(x, act) == report.state # "none" /\ report.on = x /\ act \in {"limit", "suspend", "none"}

\* A request of an administrator up to its first lock.
Decide(m, by, act, x, forReport) ==
    /\ moderator[m] = NoModerator /\ MayAdminister(by)
    /\ forReport => ForReport(x, act)
    /\ Permitted(by, act, x)
    /\ moderator' = [moderator EXCEPT ![m] =
          [by |-> by, act |-> act, on |-> x, report |-> forReport, new |-> act = "suspend" /\ ~ acct[x].suspended]]
    /\ UNCHANGED <<acct, ties, posts, farewells, purgeJob, rule, reconcile, report, alerted, position>>

\* set_moderation_report_resolved
Resolved(by) == [report EXCEPT !.state = "resolved", !.by = by]

\* What every request does in the end: the report it acts on is resolved in
\* the same transaction.
EndDecision(m) ==
    /\ moderator' = [moderator EXCEPT ![m] = NoModerator]
    /\ report' = IF moderator[m].report THEN Resolved(moderator[m].by) ELSE report
    /\ UNCHANGED <<rule, reconcile, alerted, position>>

\* enqueue_job_on_connection with the key account-purge:id
ActivePurges(x) == {i \in DOMAIN purgeJob : purgeJob[i].of = x /\ purgeJob[i].row # "done"}
EnqueuePurge(x) ==
    IF ActivePurges(x) # {} THEN purgeJob
    ELSE Append(purgeJob, [of |-> x, row |-> "queued", due |-> FALSE, worker |-> "none"])

\* cancel_account_purge: running jobs too.
\* Mutant: the purge is left in the queue, to find the account unsuspended.
CancelPurge_Kept(x) == purgeJob

CancelPurge(x) == [i \in DOMAIN purgeJob |-> IF purgeJob[i].of = x THEN [purgeJob[i] EXCEPT !.row = "done"] ELSE purgeJob[i]]

\* sever_local_account_relationships
Sever(x) == ties \ {x}

\* set_account_suspended_by_id for a local account: the row is locked and
\* read again, so one suspension severs and queues the purge.
SuspendLocal(m) ==
    LET x == moderator[m].on IN
    /\ moderator[m].act = "suspend" /\ x \in LocalAccounts
    /\ acct' = [acct EXCEPT ![x].suspended = TRUE]
    /\ farewells' = IF moderator[m].new THEN farewells \cup {x} ELSE farewells
    /\ IF acct[x].suspended THEN UNCHANGED <<ties, purgeJob>>
       ELSE Len(purgeJob) < MaxPurgeJobs /\ ties' = Sever(x) /\ purgeJob' = EnqueuePurge(x)
    /\ EndDecision(m) /\ UNCHANGED posts

\* purge_remote_actor_cache
PurgeCache(actors) == ties' = ties \ actors /\ posts' = posts \ actors

\* set_account_suspended_by_id for a remote actor: at once.
SuspendRemote(m) ==
    LET x == moderator[m].on IN
    /\ moderator[m].act = "suspend" /\ x \in CachedActors
    /\ acct' = [acct EXCEPT ![x].suspended = TRUE, ![x].purged = TRUE]
    /\ PurgeCache({x}) /\ EndDecision(m) /\ UNCHANGED <<farewells, purgeJob>>

Unsuspend(m) ==
    LET x == moderator[m].on IN
    /\ moderator[m].act = "unsuspend"
    /\ acct' = [acct EXCEPT ![x].suspended = FALSE, ![x].reopened = @ \/ acct[x].purged]
    /\ purgeJob' = IF x \in LocalAccounts THEN CancelPurge(x) ELSE purgeJob
    /\ EndDecision(m) /\ UNCHANGED <<ties, posts, farewells>>

\* set_local_account_limited_by_id, set_remote_actor_limited_by_id
Limit(m) ==
    /\ moderator[m].act \in {"limit", "unlimit"}
    /\ acct' = [acct EXCEPT ![moderator[m].on].limited = moderator[m].act = "limit"]
    /\ EndDecision(m) /\ UNCHANGED <<ties, posts, farewells, purgeJob>>

\* purge_suspended_local_account: nothing unless the locked row is suspended
\* and not purged yet.
PurgeAccount(x) ==
    IF acct[x].suspended /\ ~ acct[x].purged
    THEN acct' = [acct EXCEPT ![x].purged = TRUE] /\ posts' = posts \ {x}
    ELSE UNCHANGED <<acct, posts>>

\* delete_suspended_account: a remote actor was purged when it was suspended.
PurgeNow(m) ==
    LET x == moderator[m].on IN
    /\ moderator[m].act = "purge"
    /\ IF x \in LocalAccounts THEN PurgeAccount(x) ELSE UNCHANGED <<acct, posts>>
    /\ EndDecision(m) /\ UNCHANGED <<ties, farewells, purgeJob>>

\* The action "none" only resolves its report.
NoAction(m) == moderator[m].act = "none" /\ EndDecision(m) /\ UNCHANGED <<acct, ties, posts, farewells, purgeJob>>
-----------------------------------------------------------------------------
(* The purge thirty days after a suspension *)

PurgeFallsDue(i) ==
    /\ purgeJob[i].row = "queued" /\ ~ purgeJob[i].due
    /\ purgeJob' = [purgeJob EXCEPT ![i].due = TRUE]
    /\ UNCHANGED <<acct, ties, posts, farewells, moderator, rule, reconcile, report, alerted, position>>

ClaimPurge(i) ==
    /\ purgeJob[i].row = "queued" /\ purgeJob[i].due
    /\ purgeJob' = [purgeJob EXCEPT ![i].row = "running", ![i].worker = "claimed"]
    /\ UNCHANGED <<acct, ties, posts, farewells, moderator, rule, reconcile, report, alerted, position>>

\* The AccountPurge handler: a job that was cancelled meanwhile still runs.
RunPurge(i) ==
    /\ purgeJob[i].worker = "claimed" /\ PurgeAccount(purgeJob[i].of)
    /\ purgeJob' = [purgeJob EXCEPT ![i].worker = "ran"]
    /\ UNCHANGED <<ties, farewells, moderator, rule, reconcile, report, alerted, position>>

FinishPurge(i) ==
    /\ purgeJob[i].worker = "ran"
    /\ purgeJob' = [purgeJob EXCEPT ![i].worker = "none", ![i].row = "done"]
    /\ UNCHANGED <<acct, ties, posts, farewells, moderator, rule, reconcile, report, alerted, position>>

\* The worker dies: the lease runs out and the job is queued again.
PurgerDies(i) ==
    /\ purgeJob[i].worker # "none"
    /\ purgeJob' = [purgeJob EXCEPT ![i].worker = "none", ![i].row = IF @ = "running" THEN "queued" ELSE @]
    /\ UNCHANGED <<acct, ties, posts, farewells, moderator, rule, reconcile, report, alerted, position>>

\* People keep following and posting; the inbox holds neither a suspension nor
\* a rule against an actor whose cached document is fresh.
Lives(x) ==
    /\ x \in LocalAccounts => ~ acct[x].suspended
    /\ ties' = ties \cup {x} /\ posts' = posts \cup {x}
    /\ UNCHANGED <<acct, farewells, purgeJob, moderator, rule, reconcile, report, alerted, position>>
-----------------------------------------------------------------------------
(* Rules about a domain *)

\* enqueue_domain_reconciliation: a running job takes the request along.
EnqueueReconcile == IF reconcile.row = "none" THEN [row |-> "queued", read |-> "unread"] ELSE reconcile

CreateDomainBlock(severity) ==
    /\ rule = "none" /\ severity # "none" /\ rule' = severity /\ reconcile' = EnqueueReconcile
    /\ UNCHANGED <<acct, ties, posts, farewells, purgeJob, moderator, report, alerted, position>>

UpdateDomainBlock(severity) ==
    /\ rule # "none" /\ severity # "none" /\ rule' = severity /\ reconcile' = EnqueueReconcile
    /\ UNCHANGED <<acct, ties, posts, farewells, purgeJob, moderator, report, alerted, position>>

DeleteDomainBlock ==
    /\ rule # "none" /\ rule' = "none"
    /\ UNCHANGED <<acct, ties, posts, farewells, purgeJob, moderator, reconcile, report, alerted, position>>

\* reconcile_federation_domain_block: the rule is read, then its actors purged.
ReadDomainBlock ==
    /\ reconcile.row = "queued" /\ reconcile' = [row |-> "running", read |-> rule]
    /\ UNCHANGED <<acct, ties, posts, farewells, purgeJob, moderator, rule, report, alerted, position>>

Reconcile ==
    /\ reconcile.row = "running" /\ reconcile.read # "done"
    /\ IF reconcile.read = "suspend" THEN PurgeCache(CachedActors) ELSE UNCHANGED <<ties, posts>>
    /\ reconcile' = [reconcile EXCEPT !.read = "done"]
    /\ UNCHANGED <<acct, farewells, purgeJob, moderator, rule, report, alerted, position>>

FinishReconcile ==
    /\ reconcile.read = "done" /\ reconcile' = [row |-> "none", read |-> "unread"]
    /\ UNCHANGED <<acct, ties, posts, farewells, purgeJob, moderator, rule, report, alerted, position>>

\* reconcile_suspended_remote_domains: the configured domains, at the start
\* of a process; statuses are kept.
ReconcileConfigured(actors) ==
    /\ ties' = ties \ actors
    /\ UNCHANGED <<acct, posts, farewells, purgeJob, moderator, rule, reconcile, report, alerted, position>>
-----------------------------------------------------------------------------
(* Rules of the instance and reports *)

ActiveRules == {r \in Rules : position[r] # NoRule}
LastPosition == IF ActiveRules = {} THEN 0
                ELSE 1 + CHOOSE n \in {position[r] : r \in ActiveRules} : \A r \in ActiveRules : position[r] <= n

\* create_instance_rule, discard_instance_rule, reorder_instance_rules: the
\* table is locked.
CreateRule(r) ==
    /\ position[r] = NoRule /\ LastPosition <= MaxPosition /\ position' = [position EXCEPT ![r] = LastPosition]
    /\ UNCHANGED <<acct, ties, posts, farewells, purgeJob, moderator, rule, reconcile, report, alerted>>

DiscardRule(r) ==
    /\ r \in ActiveRules /\ position' = [position EXCEPT ![r] = NoRule]
    /\ UNCHANGED <<acct, ties, posts, farewells, purgeJob, moderator, rule, reconcile, report, alerted>>

ReorderRules(order) ==
    /\ order \in [1..Cardinality(ActiveRules) -> ActiveRules] /\ \A r \in ActiveRules : \E i \in DOMAIN order : order[i] = r
    /\ position' = [r \in Rules |-> IF r \in ActiveRules THEN (CHOOSE i \in DOMAIN order : order[i] = r) - 1 ELSE NoRule]
    /\ UNCHANGED <<acct, ties, posts, farewells, purgeJob, moderator, rule, reconcile, report, alerted>>

\* active_rule_snapshots and the check of create_moderation_report and
\* update_moderation_report
MayCite(category, cites) == cites \subseteq ActiveRules /\ (category = "violation" => cites # {})

\* report_category: a report that cites rules is one of a violation.
ReportCategory(named, cites) == IF cites # {} THEN "violation" ELSE IF named # "" THEN named ELSE "other"

\* create_moderation_report
NewReport(from, x, category, cites, evidence) ==
    [NoReport EXCEPT !.state = "open", !.on = x, !.from = from, !.category = category, !.cites = cites, !.evidence = evidence]

\* notify_administrators_of_report
AlertAdmins == ActiveAdmins

\* create_report; validate_report_statuses: evidence is of the account.
FileReport(by, x, named, cites, evidence) ==
    /\ report.state = "none" /\ ~ acct[by].suspended /\ by # x
    /\ evidence => x \in posts
    /\ MayCite(ReportCategory(named, cites), cites)
    /\ report' = NewReport(by, x, ReportCategory(named, cites), cites, evidence) /\ alerted' = AlertAdmins
    /\ UNCHANGED <<acct, ties, posts, farewells, purgeJob, moderator, rule, reconcile, position>>

\* The inbox's Flag: no step from a domain whose rule rejects reports, nor
\* for a second delivery.
ReceiveFlag(from, x, evidence) ==
    /\ report.state = "none" /\ rule # "suspend" /\ (evidence => x \in posts)
    /\ report' = NewReport(from, x, "other", {}, evidence) /\ alerted' = AlertAdmins
    /\ UNCHANGED <<acct, ties, posts, farewells, purgeJob, moderator, rule, reconcile, position>>

\* update_moderation_report: the snapshots of the rules are replaced.
Recategorised(category, cites) == [report EXCEPT !.category = category, !.cites = cites]

UpdateReport(by, named, cites) ==
    /\ report.state # "none" /\ MayAdminister(by) /\ MayCite(ReportCategory(named, cites), cites)
    /\ report' = Recategorised(ReportCategory(named, cites), cites)
    /\ UNCHANGED <<acct, ties, posts, farewells, purgeJob, moderator, rule, reconcile, alerted, position>>

\* mutate_assignment
AssignReport(by, to) ==
    /\ report.state # "none" /\ MayAdminister(by) /\ to \in {by, ""}
    /\ report' = [report EXCEPT !.assigned = to]
    /\ UNCHANGED <<acct, ties, posts, farewells, purgeJob, moderator, rule, reconcile, alerted, position>>

\* mutate_resolution
ResolveReport(by, resolve) ==
    /\ report.state # "none" /\ MayAdminister(by)
    /\ report' = IF resolve THEN Resolved(by) ELSE [report EXCEPT !.state = "open", !.by = ""]
    /\ UNCHANGED <<acct, ties, posts, farewells, purgeJob, moderator, rule, reconcile, alerted, position>>

\* delete_report_status
DeleteEvidence(by) ==
    /\ MayAdminister(by) /\ report.evidence /\ report.on \in posts
    /\ posts' = posts \ {report.on} /\ report' = [report EXCEPT !.evidence = FALSE]
    /\ UNCHANGED <<acct, ties, farewells, purgeJob, moderator, rule, reconcile, alerted, position>>

ModeratorStep(m) == SuspendLocal(m) \/ SuspendRemote(m) \/ Unsuspend(m) \/ Limit(m) \/ PurgeNow(m) \/ NoAction(m)
PurgeStep(i) == PurgeFallsDue(i) \/ ClaimPurge(i) \/ RunPurge(i) \/ FinishPurge(i) \/ PurgerDies(i)
SuspensionNext ==
    \/ \E m \in Moderators, by \in Admins, act \in Acts \ {"none"}, x \in ModeratedAccounts : Decide(m, by, act, x, FALSE)
    \/ \E m \in Moderators : ModeratorStep(m)
    \/ \E i \in DOMAIN purgeJob : PurgeStep(i)
    \/ \E x \in ModeratedAccounts : Lives(x)
DomainNext ==
    \/ \E severity \in Severities : CreateDomainBlock(severity) \/ UpdateDomainBlock(severity)
    \/ DeleteDomainBlock \/ ReadDomainBlock \/ Reconcile \/ FinishReconcile \/ ReconcileConfigured(CachedActors)
    \/ \E x \in ModeratedAccounts : Lives(x)
ReportNext ==
    \/ \E r \in Rules : CreateRule(r) \/ DiscardRule(r)
    \/ \E order \in [1..Cardinality(ActiveRules) -> ActiveRules] : ReorderRules(order)
    \/ \E named \in {"", "spam", "violation"}, cites \in SUBSET Rules, by \in LocalAccounts :
          \/ \E x \in ModeratedAccounts, evidence \in BOOLEAN : FileReport(by, x, named, cites, evidence)
          \/ UpdateReport(by, named, cites)
    \/ \E from \in CachedActors, x \in LocalAccounts, evidence \in BOOLEAN : ReceiveFlag(from, x, evidence)
    \/ \E by \in Admins : DeleteEvidence(by) \/ \E to \in {by, ""}, resolve \in BOOLEAN : AssignReport(by, to) \/ ResolveReport(by, resolve)
    \/ \E m \in Moderators, by \in Admins, act \in {"limit", "suspend", "none"}, x \in ModeratedAccounts : Decide(m, by, act, x, TRUE)
    \/ \E m \in Moderators : ModeratorStep(m)
ModerationNext == SuspensionNext \/ DomainNext \/ ReportNext

ModerationSpec == ModerationInit /\ [][ModerationNext]_moderation_vars
-----------------------------------------------------------------------------
\* The profile goes with the statuses.
HasData(x) == x \in posts \/ ~ acct[x].purged

\* A suspended account that has data is waiting for its purge: there is a job
\* that has not done its work yet, however suspensions, their ends and purges
\* that run late follow each other.  Only an account that was reopened keeps what
\* it writes from then on: an unsuspension that had looked at it before a purge
\* leaves the mark of that purge, and later ones find nothing to do.
SuspendedIsPurged ==
    \A x \in LocalAccounts : acct[x].suspended /\ HasData(x) /\ ~ acct[x].reopened =>
        \E i \in ActivePurges(x) : purgeJob[i].worker # "ran"

\* A report of a violation cites a rule, after every change of the report and
\* when the rule itself is gone.
ViolationCitesRule == report.category = "violation" => report.cites # {}

\* Decisions of moderators are carried out, whatever happens between a
\* decision and its job.
ModerationSafe == ModerationTypeOK /\ SuspendedIsPurged /\ ViolationCitesRule
=============================================================================
