------------------------ MODULE AdministrationProofs ------------------------
(***************************************************************************)
(* Proofs about moderation, access and the cache of remote media.           *)
(***************************************************************************)
EXTENDS Moderation, Access, MediaCache, FiniteSetTheorems, WellFoundedInduction, TLAPS

-----------------------------------------------------------------------------
(* Moderation *)

PurgeRow == [of : LocalAccounts, row : {"queued", "running", "done"}, due : BOOLEAN, worker : {"none", "claimed", "ran"}]
AcctRow == [suspended : BOOLEAN, limited : BOOLEAN, purged : BOOLEAN, reopened : BOOLEAN]
Decision == [by : Admins \cup {""}, act : Acts \cup {"idle"}, on : ModeratedAccounts \cup {""}, report : BOOLEAN, new : BOOLEAN]
ReportRow == [state : {"none", "open", "resolved"}, on : ModeratedAccounts \cup {""}, from : ModeratedAccounts \cup {""},
              by : Admins \cup {""}, category : {"other", "spam", "violation"}, assigned : Admins \cup {""},
              cites : SUBSET Rules, evidence : BOOLEAN]

AccountsTyped ==
    /\ acct \in [ModeratedAccounts -> AcctRow]
    /\ ties \subseteq ModeratedAccounts /\ posts \subseteq ModeratedAccounts /\ farewells \subseteq LocalAccounts
    /\ moderator \in [Moderators -> Decision]
    /\ \A m \in Moderators : moderator[m].act # "idle" => moderator[m].on \in ModeratedAccounts

RulesTyped == rule \in Severities /\ reconcile.row \in {"none", "queued", "running"} /\ alerted \subseteq Admins

ReportSound == report \in ReportRow /\ ViolationCitesRule

\* Every purge that is not over is of a suspended account, and has its work
\* before it or done; every suspended account with data has one.
PurgesFit ==
    /\ purgeJob \in Seq(PurgeRow)
    /\ \A i \in DOMAIN purgeJob : purgeJob[i].row # "done" =>
         /\ acct[purgeJob[i].of].suspended
         /\ purgeJob[i].worker = "ran" => acct[purgeJob[i].of].purged
    /\ \A x \in LocalAccounts : acct[x].suspended /\ ~ acct[x].purged => ActivePurges(x) # {}

ModerationInv == AccountsTyped /\ RulesTyped /\ ReportSound /\ PurgesFit

\* What was purged stays empty as long as the suspension lasts.
PurgedIsEmpty ==
    \A x \in LocalAccounts : acct[x].purged /\ ~ acct[x].reopened => acct[x].suspended /\ x \notin posts

LEMMA LocalIsModerated == LocalAccounts \subseteq ModeratedAccounts /\ Admins \subseteq LocalAccounts /\ CachedActors \subseteq ModeratedAccounts
                          /\ \A x \in LocalAccounts : x \notin CachedActors
BY ModerationAssumption DEF LocalAccounts, ModeratedAccounts

\* Accounts change and the purges stay: nothing is suspended, and no suspension
\* that has a purge ends.
LEMMA SamePurges ==
    ASSUME PurgesFit, UNCHANGED purgeJob,
           \A x \in LocalAccounts : (acct'[x].suspended <=> acct[x].suspended) /\ (acct[x].purged => acct'[x].purged)
    PROVE  PurgesFit'
<1>1. \A i \in DOMAIN purgeJob : purgeJob[i] \in PurgeRow
  BY DEF PurgesFit
<1>2. \A i \in DOMAIN purgeJob : purgeJob[i].of \in LocalAccounts
  BY <1>1 DEF PurgeRow
<1>3. \A x : ActivePurges(x)' = ActivePurges(x)
  BY DEF ActivePurges
<1> QED BY <1>2, <1>3 DEF PurgesFit

\* set_moderation_report_resolved keeps what the report cites.
LEMMA EndKeepsReport ==
    ASSUME ModerationInv, NEW m \in Moderators, EndDecision(m)
    PROVE  ReportSound' /\ RulesTyped' /\ moderator' \in [Moderators -> Decision]
           /\ \A k \in Moderators : moderator'[k].act # "idle" => moderator'[k].on \in ModeratedAccounts
<1>1. report \in ReportRow /\ ViolationCitesRule /\ moderator[m] \in Decision /\ moderator \in [Moderators -> Decision]
  BY DEF ModerationInv, ReportSound, AccountsTyped
<1>2. moderator[m].by \in Admins \cup {""}
  BY <1>1 DEF Decision
<1>3. ReportSound'
  <2>1. CASE moderator[m].report
    <3>1. report' = [report EXCEPT !.state = "resolved", !.by = moderator[m].by]
      BY <2>1 DEF EndDecision, Resolved
    <3>2. report' \in ReportRow /\ report'.category = report.category /\ report'.cites = report.cites
      BY <1>1, <1>2, <3>1 DEF ReportRow
    <3> QED BY <1>1, <3>2 DEF ReportSound, ViolationCitesRule
  <2>2. CASE ~ moderator[m].report
    BY <1>1, <2>2 DEF EndDecision, ReportSound, ViolationCitesRule
  <2> QED BY <2>1, <2>2
<1>4. RulesTyped'
  BY DEF EndDecision, ModerationInv, RulesTyped
<1>5. NoModerator \in Decision /\ NoModerator.act = "idle"
  BY DEF NoModerator, Decision
<1>6. moderator' = [moderator EXCEPT ![m] = NoModerator]
  BY DEF EndDecision
<1>7. moderator' \in [Moderators -> Decision]
  BY <1>1, <1>5, <1>6
<1>8. \A k \in Moderators : moderator'[k] = IF k = m THEN NoModerator ELSE moderator[k]
  BY <1>1, <1>6
<1>9. \A k \in Moderators : moderator'[k].act # "idle" => moderator'[k].on \in ModeratedAccounts
  BY <1>5, <1>8 DEF ModerationInv, AccountsTyped
<1> QED BY <1>3, <1>4, <1>7, <1>9

LEMMA SuspendLocalPreserves ==
    ASSUME ModerationInv, NEW m \in Moderators, SuspendLocal(m)
    PROVE  ModerationInv'
<1> DEFINE x == moderator[m].on
<1>1. /\ x \in LocalAccounts /\ acct' = [acct EXCEPT ![x].suspended = TRUE] /\ EndDecision(m) /\ UNCHANGED posts
      /\ farewells' = IF moderator[m].new THEN farewells \cup {x} ELSE farewells
      /\ IF acct[x].suspended THEN UNCHANGED <<ties, purgeJob>> ELSE ties' = ties \ {x} /\ purgeJob' = EnqueuePurge(x)
  BY DEF SuspendLocal, Sever
<1> HIDE DEF x
<1>2. acct \in [ModeratedAccounts -> AcctRow] /\ x \in ModeratedAccounts /\ PurgesFit
  BY <1>1, LocalIsModerated DEF ModerationInv, AccountsTyped
<1>3. /\ acct' \in [ModeratedAccounts -> AcctRow] /\ acct'[x].suspended /\ acct'[x].purged = acct[x].purged
      /\ \A y \in ModeratedAccounts \ {x} : acct'[y] = acct[y]
  BY <1>1, <1>2 DEF AcctRow
<1>4. AccountsTyped'
  BY <1>1, <1>3, EndKeepsReport DEF ModerationInv, AccountsTyped
<1>5. CASE acct[x].suspended
  <2>1. \A y \in LocalAccounts : (acct'[y].suspended <=> acct[y].suspended) /\ (acct[y].purged => acct'[y].purged)
    BY <1>3, <1>5, LocalIsModerated
  <2>2. PurgesFit'
    BY <1>1, <1>2, <1>5, <2>1, SamePurges
  <2> QED BY <1>1, <1>4, <2>2, EndKeepsReport DEF ModerationInv
<1>6. CASE ~ acct[x].suspended
  <2> DEFINE job == [of |-> x, row |-> "queued", due |-> FALSE, worker |-> "none"]
  <2>1. ActivePurges(x) = {}
    BY <1>2, <1>6 DEF PurgesFit, ActivePurges
  <2>2. purgeJob' = Append(purgeJob, job)
    BY <1>1, <1>6, <2>1 DEF EnqueuePurge
  <2>3. job \in PurgeRow /\ job.of = x /\ job.row = "queued" /\ job.worker = "none"
    BY <1>1 DEF PurgeRow
  <2> HIDE DEF job
  <2>4. /\ purgeJob \in Seq(PurgeRow) /\ purgeJob' \in Seq(PurgeRow)
        /\ DOMAIN purgeJob' = DOMAIN purgeJob \cup {Len(purgeJob) + 1} /\ purgeJob'[Len(purgeJob) + 1] = job
        /\ \A i \in DOMAIN purgeJob : purgeJob'[i] = purgeJob[i]
    BY <1>2, <2>2, <2>3 DEF PurgesFit
  <2>5. \A i \in DOMAIN purgeJob : purgeJob[i].of \in LocalAccounts
    <3>1. \A i \in DOMAIN purgeJob : purgeJob[i] \in PurgeRow
      BY <2>4
    <3> QED BY <3>1 DEF PurgeRow
  <2>6. \A i \in DOMAIN purgeJob' : purgeJob'[i].row # "done" =>
           /\ acct'[purgeJob'[i].of].suspended
           /\ purgeJob'[i].worker = "ran" => acct'[purgeJob'[i].of].purged
    BY <1>2, <1>3, <1>6, <2>3, <2>4, <2>5, LocalIsModerated DEF PurgesFit
  <2>7. \A y \in LocalAccounts : acct'[y].suspended /\ ~ acct'[y].purged => ActivePurges(y)' # {}
    <3> SUFFICES ASSUME NEW y \in LocalAccounts, acct'[y].suspended, ~ acct'[y].purged
                 PROVE  \E i \in DOMAIN purgeJob' : purgeJob'[i].of = y /\ purgeJob'[i].row # "done"
      BY DEF ActivePurges
    <3>1. CASE y = x
      BY <2>3, <2>4, <3>1
    <3>2. CASE y # x
      <4>1. ActivePurges(y) # {}
        BY <1>2, <1>3, <3>2, LocalIsModerated DEF PurgesFit
      <4> QED BY <2>4, <4>1 DEF ActivePurges
    <3> QED BY <3>1, <3>2
  <2>8. PurgesFit'
    BY <2>4, <2>6, <2>7 DEF PurgesFit
  <2> QED BY <1>1, <1>4, <2>8, EndKeepsReport DEF ModerationInv
<1> QED BY <1>5, <1>6

LEMMA UnsuspendPreserves ==
    ASSUME ModerationInv, NEW m \in Moderators, Unsuspend(m)
    PROVE  ModerationInv'
<1> DEFINE x == moderator[m].on
<1>1. /\ x \in ModeratedAccounts /\ acct' = [acct EXCEPT ![x].suspended = FALSE, ![x].reopened = @ \/ acct[x].purged]
      /\ EndDecision(m) /\ UNCHANGED <<ties, posts, farewells>>
      /\ purgeJob' = IF x \in LocalAccounts THEN CancelPurge(x) ELSE purgeJob
  BY DEF Unsuspend, ModerationInv, AccountsTyped
<1> HIDE DEF x
<1>2. acct \in [ModeratedAccounts -> AcctRow] /\ PurgesFit /\ purgeJob \in Seq(PurgeRow)
  BY DEF ModerationInv, AccountsTyped, PurgesFit
<1>3. /\ acct' \in [ModeratedAccounts -> AcctRow] /\ ~ acct'[x].suspended /\ acct'[x].purged = acct[x].purged
      /\ \A y \in ModeratedAccounts \ {x} : acct'[y] = acct[y]
  BY <1>1, <1>2 DEF AcctRow
<1>4. AccountsTyped'
  BY <1>1, <1>3, EndKeepsReport DEF ModerationInv, AccountsTyped
<1>5. CASE x \notin LocalAccounts
  <2>1. \A y \in LocalAccounts : acct'[y] = acct[y]
    BY <1>3, <1>5, LocalIsModerated
  <2>2. PurgesFit'
    BY <1>1, <1>2, <1>5, <2>1, SamePurges
  <2> QED BY <1>1, <1>4, <2>2, EndKeepsReport DEF ModerationInv
<1>6. CASE x \in LocalAccounts
  <2>1. purgeJob' = [i \in DOMAIN purgeJob |-> IF purgeJob[i].of = x THEN [purgeJob[i] EXCEPT !.row = "done"] ELSE purgeJob[i]]
    BY <1>1, <1>6 DEF CancelPurge
  <2>2. ASSUME NEW i \in DOMAIN purgeJob
        PROVE  /\ purgeJob'[i] \in PurgeRow /\ purgeJob'[i].of = purgeJob[i].of /\ purgeJob'[i].worker = purgeJob[i].worker
               /\ purgeJob'[i].row = (IF purgeJob[i].of = x THEN "done" ELSE purgeJob[i].row) /\ purgeJob[i].of \in LocalAccounts
    <3>1. purgeJob[i] \in PurgeRow
      BY <1>2
    <3>2. purgeJob'[i] = IF purgeJob[i].of = x THEN [purgeJob[i] EXCEPT !.row = "done"] ELSE purgeJob[i]
      BY <2>1
    <3> QED BY <3>1, <3>2 DEF PurgeRow
  <2>3. purgeJob' \in Seq(PurgeRow) /\ DOMAIN purgeJob' = DOMAIN purgeJob
    <3>1. purgeJob' \in [1..Len(purgeJob) -> PurgeRow] /\ Len(purgeJob) \in Nat /\ DOMAIN purgeJob = 1..Len(purgeJob)
      BY <1>2, <2>1, <2>2
    <3> QED BY <2>1, <3>1
  <2>4. \A i \in DOMAIN purgeJob' : purgeJob'[i].row # "done" =>
           /\ acct'[purgeJob'[i].of].suspended
           /\ purgeJob'[i].worker = "ran" => acct'[purgeJob'[i].of].purged
    BY <1>2, <1>3, <2>2, <2>3, LocalIsModerated DEF PurgesFit
  <2>5. \A y \in LocalAccounts : acct'[y].suspended /\ ~ acct'[y].purged => ActivePurges(y)' # {}
    <3> SUFFICES ASSUME NEW y \in LocalAccounts, acct'[y].suspended, ~ acct'[y].purged
                 PROVE  \E i \in DOMAIN purgeJob' : purgeJob'[i].of = y /\ purgeJob'[i].row # "done"
      BY DEF ActivePurges
    <3>1. y # x /\ ActivePurges(y) # {}
      BY <1>2, <1>3, LocalIsModerated DEF PurgesFit
    <3> QED BY <2>2, <2>3, <3>1 DEF ActivePurges
  <2>6. PurgesFit'
    BY <2>3, <2>4, <2>5 DEF PurgesFit
  <2> QED BY <1>1, <1>4, <2>6, EndKeepsReport DEF ModerationInv
<1> QED BY <1>5, <1>6

LEMMA SuspendRemotePreserves ==
    ASSUME ModerationInv, NEW m \in Moderators, SuspendRemote(m)
    PROVE  ModerationInv'
<1> DEFINE x == moderator[m].on
<1>1. /\ x \in CachedActors /\ acct' = [acct EXCEPT ![x].suspended = TRUE, ![x].purged = TRUE] /\ EndDecision(m)
      /\ UNCHANGED <<farewells, purgeJob>> /\ ties' \subseteq ties /\ posts' \subseteq posts
  BY DEF SuspendRemote, PurgeCache
<1> HIDE DEF x
<1>2. acct \in [ModeratedAccounts -> AcctRow] /\ x \in ModeratedAccounts
  BY <1>1, LocalIsModerated DEF ModerationInv, AccountsTyped
<1>3. acct' \in [ModeratedAccounts -> AcctRow] /\ \A y \in ModeratedAccounts \ {x} : acct'[y] = acct[y]
  BY <1>1, <1>2 DEF AcctRow
<1>4. \A y \in LocalAccounts : acct'[y] = acct[y]
  BY <1>1, <1>3, LocalIsModerated
<1>5. PurgesFit'
  BY <1>1, <1>4, SamePurges DEF ModerationInv
<1>6. AccountsTyped'
  BY <1>1, <1>3, EndKeepsReport DEF ModerationInv, AccountsTyped
<1> QED BY <1>1, <1>5, <1>6, EndKeepsReport DEF ModerationInv

LEMMA LimitPreserves ==
    ASSUME ModerationInv, NEW m \in Moderators, Limit(m)
    PROVE  ModerationInv'
<1> DEFINE x == moderator[m].on
           limited == moderator[m].act = "limit"
<1>1. /\ x \in ModeratedAccounts /\ acct' = [acct EXCEPT ![x].limited = limited] /\ limited \in BOOLEAN
      /\ EndDecision(m) /\ UNCHANGED <<ties, posts, farewells, purgeJob>>
  BY DEF Limit, ModerationInv, AccountsTyped
<1> HIDE DEF x, limited
<1>2. acct \in [ModeratedAccounts -> AcctRow]
  BY DEF ModerationInv, AccountsTyped
<1>3. /\ acct' \in [ModeratedAccounts -> AcctRow]
      /\ \A y \in ModeratedAccounts : acct'[y].suspended = acct[y].suspended /\ acct'[y].purged = acct[y].purged
  BY <1>1, <1>2 DEF AcctRow
<1>4. PurgesFit'
  BY <1>1, <1>3, SamePurges, LocalIsModerated DEF ModerationInv
<1>5. AccountsTyped'
  BY <1>1, <1>3, EndKeepsReport DEF ModerationInv, AccountsTyped
<1> QED BY <1>1, <1>4, <1>5, EndKeepsReport DEF ModerationInv

\* purge_suspended_local_account purges what is suspended, and only adds to
\* what is purged.
LEMMA PurgeKeepsAccounts ==
    ASSUME AccountsTyped, NEW x \in LocalAccounts, PurgeAccount(x)
    PROVE  /\ acct' \in [ModeratedAccounts -> AcctRow] /\ posts' \subseteq posts
           /\ acct[x].suspended => acct'[x].purged
           /\ \A y \in LocalAccounts : (acct'[y].suspended <=> acct[y].suspended) /\ (acct[y].purged => acct'[y].purged)
<1>1. acct \in [ModeratedAccounts -> AcctRow] /\ x \in ModeratedAccounts
  BY LocalIsModerated DEF AccountsTyped
<1>2. CASE acct[x].suspended /\ ~ acct[x].purged
  <2>1. acct' = [acct EXCEPT ![x].purged = TRUE] /\ posts' = posts \ {x}
    BY <1>2 DEF PurgeAccount
  <2>2. /\ acct' \in [ModeratedAccounts -> AcctRow] /\ acct'[x].purged /\ acct'[x].suspended = acct[x].suspended
        /\ \A y \in ModeratedAccounts \ {x} : acct'[y] = acct[y]
    BY <1>1, <2>1 DEF AcctRow
  <2> QED BY <2>1, <2>2, LocalIsModerated
<1>3. CASE ~ (acct[x].suspended /\ ~ acct[x].purged)
  BY <1>1, <1>3 DEF PurgeAccount
<1> QED BY <1>2, <1>3

LEMMA PurgeNowPreserves ==
    ASSUME ModerationInv, NEW m \in Moderators, PurgeNow(m)
    PROVE  ModerationInv'
<1> DEFINE x == moderator[m].on
<1>1. EndDecision(m) /\ UNCHANGED <<ties, farewells, purgeJob>> /\ AccountsTyped
  BY DEF PurgeNow, ModerationInv
<1>2. /\ acct' \in [ModeratedAccounts -> AcctRow] /\ posts' \subseteq posts
      /\ \A y \in LocalAccounts : (acct'[y].suspended <=> acct[y].suspended) /\ (acct[y].purged => acct'[y].purged)
  <2>1. CASE x \in LocalAccounts
    <3>1. PurgeAccount(x)
      BY <2>1 DEF PurgeNow
    <3> HIDE DEF x
    <3> QED BY <1>1, <2>1, <3>1, PurgeKeepsAccounts
  <2>2. CASE x \notin LocalAccounts
    BY <1>1, <2>2 DEF PurgeNow, AccountsTyped
  <2> QED BY <2>1, <2>2
<1>3. PurgesFit'
  BY <1>1, <1>2, SamePurges DEF ModerationInv
<1>4. AccountsTyped'
  BY <1>1, <1>2, EndKeepsReport DEF ModerationInv, AccountsTyped
<1> QED BY <1>1, <1>3, <1>4, EndKeepsReport DEF ModerationInv

\* One purge changes: it stays a purge of its account, is not taken up again
\* once it is over, and is over only when nothing is left to purge.
LEMMA PurgeChanges ==
    ASSUME PurgesFit, NEW i \in DOMAIN purgeJob, NEW new \in PurgeRow, purgeJob' = [purgeJob EXCEPT ![i] = new],
           new.of = purgeJob[i].of,
           new.row # "done" => purgeJob[i].row # "done",
           new.row # "done" /\ new.worker = "ran" => acct'[new.of].purged,
           purgeJob[i].row # "done" /\ new.row = "done" => acct'[new.of].purged,
           \A x \in LocalAccounts : (acct'[x].suspended <=> acct[x].suspended) /\ (acct[x].purged => acct'[x].purged)
    PROVE  PurgesFit'
<1>1. purgeJob \in Seq(PurgeRow) /\ \A k \in DOMAIN purgeJob : purgeJob[k] \in PurgeRow
  BY DEF PurgesFit
<1>2. \A k \in DOMAIN purgeJob : purgeJob[k].of \in LocalAccounts
  BY <1>1 DEF PurgeRow
<1>3. /\ purgeJob' \in Seq(PurgeRow) /\ DOMAIN purgeJob' = DOMAIN purgeJob /\ purgeJob'[i] = new
      /\ \A k \in DOMAIN purgeJob \ {i} : purgeJob'[k] = purgeJob[k]
  BY <1>1
<1>4. \A k \in DOMAIN purgeJob' : purgeJob'[k].row # "done" =>
         /\ acct'[purgeJob'[k].of].suspended
         /\ purgeJob'[k].worker = "ran" => acct'[purgeJob'[k].of].purged
  <2> SUFFICES ASSUME NEW k \in DOMAIN purgeJob, purgeJob'[k].row # "done"
               PROVE  /\ acct'[purgeJob'[k].of].suspended
                      /\ purgeJob'[k].worker = "ran" => acct'[purgeJob'[k].of].purged
    BY <1>3
  <2>1. CASE k = i
    BY <1>2, <1>3, <2>1 DEF PurgesFit
  <2>2. CASE k # i
    BY <1>2, <1>3, <2>2 DEF PurgesFit
  <2> QED BY <2>1, <2>2
<1>5. \A x \in LocalAccounts : acct'[x].suspended /\ ~ acct'[x].purged => ActivePurges(x)' # {}
  <2> SUFFICES ASSUME NEW x \in LocalAccounts, acct'[x].suspended, ~ acct'[x].purged
               PROVE  \E k \in DOMAIN purgeJob' : purgeJob'[k].of = x /\ purgeJob'[k].row # "done"
    BY DEF ActivePurges
  <2>1. PICK k \in DOMAIN purgeJob : purgeJob[k].of = x /\ purgeJob[k].row # "done"
    BY DEF PurgesFit, ActivePurges
  <2> QED BY <1>3, <2>1
<1> QED BY <1>3, <1>4, <1>5 DEF PurgesFit

\* What a purge leaves alone.
LEMMA PurgeLeavesRest ==
    ASSUME ModerationInv, UNCHANGED <<ties, farewells, moderator, rule, reconcile, report, alerted, position>>,
           acct' \in [ModeratedAccounts -> AcctRow], posts' \subseteq posts, PurgesFit'
    PROVE  ModerationInv'
BY DEF ModerationInv, AccountsTyped, RulesTyped, ReportSound, ViolationCitesRule

LEMMA PurgeStepPreserves ==
    ASSUME ModerationInv, NEW i \in DOMAIN purgeJob, PurgeStep(i)
    PROVE  ModerationInv'
<1> DEFINE old == purgeJob[i]
<1>1. old \in PurgeRow /\ AccountsTyped /\ acct \in [ModeratedAccounts -> AcctRow] /\ PurgesFit
  <2>1. purgeJob \in Seq(PurgeRow)
    BY DEF ModerationInv, PurgesFit
  <2> QED BY <2>1 DEF ModerationInv, AccountsTyped
<1>2. old.of \in LocalAccounts
  BY <1>1 DEF PurgeRow
<1>3. old.row # "done" => acct[old.of].suspended /\ (old.worker = "ran" => acct[old.of].purged)
  BY <1>1 DEF PurgesFit
<1>4. CASE PurgeFallsDue(i)
  <2> DEFINE new == [old EXCEPT !.due = TRUE]
  <2>1. new \in PurgeRow /\ new.of = old.of /\ new.row = old.row /\ new.worker = old.worker
    BY <1>1 DEF PurgeRow
  <2>2. purgeJob' = [purgeJob EXCEPT ![i] = new] /\ UNCHANGED <<acct, ties, posts, farewells, moderator, rule, reconcile, report, alerted, position>>
    BY <1>4 DEF PurgeFallsDue
  <2> HIDE DEF new
  <2>3. PurgesFit'
    BY <1>1, <1>3, <2>1, <2>2, PurgeChanges
  <2> QED BY <1>1, <2>2, <2>3, PurgeLeavesRest
<1>5. CASE ClaimPurge(i)
  <2> DEFINE new == [old EXCEPT !.row = "running", !.worker = "claimed"]
  <2>1. new \in PurgeRow /\ new.of = old.of /\ new.row = "running" /\ new.worker = "claimed"
    BY <1>1 DEF PurgeRow
  <2>2. /\ purgeJob' = [purgeJob EXCEPT ![i] = new] /\ old.row = "queued"
        /\ UNCHANGED <<acct, ties, posts, farewells, moderator, rule, reconcile, report, alerted, position>>
    BY <1>5 DEF ClaimPurge
  <2> HIDE DEF new
  <2>3. PurgesFit'
    BY <1>1, <2>1, <2>2, PurgeChanges
  <2> QED BY <1>1, <2>2, <2>3, PurgeLeavesRest
<1>6. CASE RunPurge(i)
  <2> DEFINE new == [old EXCEPT !.worker = "ran"]
  <2>1. new \in PurgeRow /\ new.of = old.of /\ new.row = old.row /\ new.worker = "ran"
    BY <1>1 DEF PurgeRow
  <2>2. /\ purgeJob' = [purgeJob EXCEPT ![i] = new] /\ PurgeAccount(old.of)
        /\ UNCHANGED <<ties, farewells, moderator, rule, reconcile, report, alerted, position>>
    BY <1>6 DEF RunPurge
  <2> HIDE DEF new, old
  <2>3. /\ acct' \in [ModeratedAccounts -> AcctRow] /\ posts' \subseteq posts
        /\ acct[old.of].suspended => acct'[old.of].purged
        /\ \A y \in LocalAccounts : (acct'[y].suspended <=> acct[y].suspended) /\ (acct[y].purged => acct'[y].purged)
    BY <1>1, <1>2, <2>2, PurgeKeepsAccounts
  <2>4. PurgesFit'
    BY <1>1, <1>3, <2>1, <2>2, <2>3, PurgeChanges DEF old
  <2> QED BY <2>2, <2>3, <2>4, PurgeLeavesRest
<1>7. CASE FinishPurge(i)
  <2> DEFINE new == [old EXCEPT !.worker = "none", !.row = "done"]
  <2>1. new \in PurgeRow /\ new.of = old.of /\ new.row = "done" /\ new.worker = "none"
    BY <1>1 DEF PurgeRow
  <2>2. /\ purgeJob' = [purgeJob EXCEPT ![i] = new] /\ old.worker = "ran"
        /\ UNCHANGED <<acct, ties, posts, farewells, moderator, rule, reconcile, report, alerted, position>>
    BY <1>7 DEF FinishPurge
  <2> HIDE DEF new
  <2>3. PurgesFit'
    BY <1>1, <1>3, <2>1, <2>2, PurgeChanges
  <2> QED BY <1>1, <2>2, <2>3, PurgeLeavesRest
<1>8. CASE PurgerDies(i)
  <2> DEFINE new == [old EXCEPT !.worker = "none", !.row = IF @ = "running" THEN "queued" ELSE @]
  <2>1. new \in PurgeRow /\ new.of = old.of /\ (new.row = "done" <=> old.row = "done") /\ new.worker = "none"
    BY <1>1 DEF PurgeRow
  <2>2. /\ purgeJob' = [purgeJob EXCEPT ![i] = new]
        /\ UNCHANGED <<acct, ties, posts, farewells, moderator, rule, reconcile, report, alerted, position>>
    BY <1>8 DEF PurgerDies
  <2> HIDE DEF new
  <2>3. PurgesFit'
    BY <1>1, <2>1, <2>2, PurgeChanges
  <2> QED BY <1>1, <2>2, <2>3, PurgeLeavesRest
<1> QED BY <1>4, <1>5, <1>6, <1>7, <1>8 DEF PurgeStep

LEMMA ModeratorStepPreserves ==
    ASSUME ModerationInv, NEW m \in Moderators, ModeratorStep(m)
    PROVE  ModerationInv'
<1>1. CASE NoAction(m)
  <2>1. EndDecision(m) /\ UNCHANGED <<acct, ties, posts, farewells, purgeJob>>
    BY <1>1 DEF NoAction
  <2>2. PurgesFit'
    BY <2>1, SamePurges DEF ModerationInv
  <2> QED BY <2>1, <2>2, EndKeepsReport DEF ModerationInv, AccountsTyped
<1> QED BY <1>1, SuspendLocalPreserves, SuspendRemotePreserves, UnsuspendPreserves, LimitPreserves, PurgeNowPreserves DEF ModeratorStep

LEMMA DecidePreserves ==
    ASSUME ModerationInv, NEW m \in Moderators, NEW by \in Admins, NEW act \in Acts, NEW x \in ModeratedAccounts,
           NEW forReport \in BOOLEAN, Decide(m, by, act, x, forReport)
    PROVE  ModerationInv'
<1> DEFINE new == act = "suspend" /\ ~ acct[x].suspended
           decision == [by |-> by, act |-> act, on |-> x, report |-> forReport, new |-> new]
<1>1. moderator' = [moderator EXCEPT ![m] = decision] /\ UNCHANGED <<acct, ties, posts, farewells, purgeJob, rule, reconcile, report, alerted, position>>
  BY DEF Decide
<1>2. new \in BOOLEAN
  OBVIOUS
<1> HIDE DEF new
<1>3. decision \in Decision /\ decision.on = x
  BY <1>2 DEF Decision
<1> HIDE DEF decision
<1>4. AccountsTyped'
  BY <1>1, <1>3 DEF ModerationInv, AccountsTyped
<1>5. PurgesFit'
  BY <1>1, SamePurges DEF ModerationInv
<1> QED BY <1>1, <1>4, <1>5 DEF ModerationInv, RulesTyped, ReportSound, ViolationCitesRule

\* Nothing but posts and follows changes about the accounts.
LEMMA SameAccounts ==
    ASSUME ModerationInv, UNCHANGED <<acct, farewells, purgeJob, moderator>>, ties' \subseteq ModeratedAccounts, posts' \subseteq ModeratedAccounts
    PROVE  AccountsTyped' /\ PurgesFit'
<1>1. PurgesFit'
  BY SamePurges DEF ModerationInv
<1> QED BY <1>1 DEF ModerationInv, AccountsTyped

LEMMA DomainStepPreserves ==
    ASSUME ModerationInv, DomainNext
    PROVE  ModerationInv'
<1>1. ties \subseteq ModeratedAccounts /\ posts \subseteq ModeratedAccounts /\ rule \in Severities /\ reconcile.row \in {"none", "queued", "running"}
  BY DEF ModerationInv, AccountsTyped, RulesTyped
<1>2. UNCHANGED <<acct, farewells, purgeJob, moderator, report, alerted, position>> /\ ties' \subseteq ModeratedAccounts /\ posts' \subseteq ModeratedAccounts
  BY <1>1 DEF DomainNext, CreateDomainBlock, UpdateDomainBlock, DeleteDomainBlock, ReadDomainBlock, Reconcile, FinishReconcile,
       ReconcileConfigured, Lives, PurgeCache
<1>3. rule' \in Severities
  BY <1>1 DEF DomainNext, CreateDomainBlock, UpdateDomainBlock, DeleteDomainBlock, ReadDomainBlock, Reconcile, FinishReconcile,
       ReconcileConfigured, Lives, Severities
<1>4. reconcile'.row \in {"none", "queued", "running"}
  <2>1. CASE Reconcile
    BY <2>1 DEF Reconcile
  <2>2. CASE ~ Reconcile
    BY <1>1, <2>2 DEF DomainNext, CreateDomainBlock, UpdateDomainBlock, DeleteDomainBlock, ReadDomainBlock, FinishReconcile,
       ReconcileConfigured, Lives, EnqueueReconcile
  <2> QED BY <2>1, <2>2
<1> QED BY <1>2, <1>3, <1>4, SameAccounts DEF ModerationInv, RulesTyped, ReportSound, ViolationCitesRule

LEMMA RuleStepPreserves ==
    ASSUME ModerationInv, UNCHANGED <<acct, ties, posts, farewells, purgeJob, moderator, rule, reconcile, report, alerted>>
    PROVE  ModerationInv'
BY SameAccounts DEF ModerationInv, AccountsTyped, RulesTyped, ReportSound, ViolationCitesRule

\* A report is made or changed: what it cites has been checked.
LEMMA ReportChanges ==
    ASSUME ModerationInv, UNCHANGED <<acct, ties, farewells, purgeJob, moderator, rule, reconcile, position>>, posts' \subseteq posts,
           alerted' \subseteq Admins, report' \in ReportRow, report'.category = "violation" => report'.cites # {}
    PROVE  ModerationInv'
<1>1. ties \subseteq ModeratedAccounts /\ posts' \subseteq ModeratedAccounts
  BY DEF ModerationInv, AccountsTyped
<1>2. AccountsTyped' /\ PurgesFit'
  BY <1>1, SameAccounts
<1> QED BY <1>2 DEF ModerationInv, RulesTyped, ReportSound, ViolationCitesRule

LEMMA CategoryIsOne ==
    ASSUME NEW named \in {"", "spam", "violation"}, NEW cites
    PROVE  ReportCategory(named, cites) \in {"other", "spam", "violation"}
BY DEF ReportCategory

LEMMA NewReportFields ==
    ASSUME NEW from \in ModeratedAccounts, NEW x \in ModeratedAccounts, NEW category \in {"other", "spam", "violation"},
           NEW cites \in SUBSET Rules, NEW evidence \in BOOLEAN
    PROVE  /\ NewReport(from, x, category, cites, evidence) \in ReportRow
           /\ NewReport(from, x, category, cites, evidence).category = category
           /\ NewReport(from, x, category, cites, evidence).cites = cites
BY DEF NewReport, NoReport, ReportRow

LEMMA FileReportPreserves ==
    ASSUME ModerationInv, NEW by \in LocalAccounts, NEW x \in ModeratedAccounts, NEW named \in {"", "spam", "violation"},
           NEW cites \in SUBSET Rules, NEW evidence \in BOOLEAN, FileReport(by, x, named, cites, evidence)
    PROVE  ModerationInv'
<1> DEFINE category == ReportCategory(named, cites)
<1>1. category \in {"other", "spam", "violation"} /\ by \in ModeratedAccounts
  BY CategoryIsOne, LocalIsModerated
<1>2. /\ report' = NewReport(by, x, category, cites, evidence) /\ alerted' \subseteq Admins /\ (category = "violation" => cites # {})
      /\ UNCHANGED <<acct, ties, posts, farewells, purgeJob, moderator, rule, reconcile, position>>
  BY DEF FileReport, MayCite, AlertAdmins, ActiveAdmins
<1> HIDE DEF category
<1> DEFINE made == NewReport(by, x, category, cites, evidence)
<1>3. made \in ReportRow /\ made.category = category /\ made.cites = cites
  BY <1>1 DEF NewReport, NoReport, ReportRow
<1> HIDE DEF made
<1> QED BY <1>2, <1>3, ReportChanges DEF made

LEMMA FlagPreserves ==
    ASSUME ModerationInv, NEW from \in CachedActors, NEW x \in LocalAccounts, NEW evidence \in BOOLEAN, ReceiveFlag(from, x, evidence)
    PROVE  ModerationInv'
<1>1. from \in ModeratedAccounts /\ x \in ModeratedAccounts
  BY LocalIsModerated
<1>2. /\ report' = NewReport(from, x, "other", {}, evidence) /\ alerted' \subseteq Admins
      /\ UNCHANGED <<acct, ties, posts, farewells, purgeJob, moderator, rule, reconcile, position>>
  BY DEF ReceiveFlag, AlertAdmins, ActiveAdmins
<1>3. report' \in ReportRow /\ report'.category = "other"
  BY <1>1, <1>2, NewReportFields
<1> QED BY <1>2, <1>3, ReportChanges

LEMMA ReportEditPreserves ==
    ASSUME ModerationInv, NEW by \in LocalAccounts,
           \/ \E named \in {"", "spam", "violation"}, cites \in SUBSET Rules : UpdateReport(by, named, cites)
           \/ \E to \in {by, ""} : AssignReport(by, to)
           \/ \E resolve \in BOOLEAN : ResolveReport(by, resolve)
           \/ DeleteEvidence(by)
    PROVE  ModerationInv'
<1>1. report \in ReportRow /\ (report.category = "violation" => report.cites # {}) /\ alerted \subseteq Admins
  BY DEF ModerationInv, ReportSound, ViolationCitesRule, RulesTyped
<1>2. ASSUME NEW named \in {"", "spam", "violation"}, NEW cites \in SUBSET Rules, UpdateReport(by, named, cites) PROVE ModerationInv'
  <2> DEFINE category == ReportCategory(named, cites)
  <2>1. /\ report' = [report EXCEPT !.category = category, !.cites = cites] /\ (category = "violation" => cites # {})
        /\ UNCHANGED <<acct, ties, posts, farewells, purgeJob, moderator, rule, reconcile, alerted, position>>
    BY <1>2 DEF UpdateReport, MayCite, Recategorised
  <2>2. category \in {"other", "spam", "violation"}
    BY CategoryIsOne
  <2> HIDE DEF category
  <2>3. report' \in ReportRow /\ report'.category = category /\ report'.cites = cites
    BY <1>1, <2>1, <2>2 DEF ReportRow
  <2> QED BY <1>1, <2>1, <2>3, ReportChanges
<1>3. ASSUME NEW to \in {by, ""}, AssignReport(by, to) PROVE ModerationInv'
  <2>1. /\ report' = [report EXCEPT !.assigned = to] /\ to \in Admins \cup {""}
        /\ UNCHANGED <<acct, ties, posts, farewells, purgeJob, moderator, rule, reconcile, alerted, position>>
    BY <1>3 DEF AssignReport, MayAdminister, ActiveAdmins
  <2>2. report' \in ReportRow /\ report'.category = report.category /\ report'.cites = report.cites
    BY <1>1, <2>1 DEF ReportRow
  <2> QED BY <1>1, <2>1, <2>2, ReportChanges
<1>4. ASSUME NEW resolve \in BOOLEAN, ResolveReport(by, resolve) PROVE ModerationInv'
  <2>1. /\ report' = IF resolve THEN [report EXCEPT !.state = "resolved", !.by = by] ELSE [report EXCEPT !.state = "open", !.by = ""]
        /\ by \in Admins /\ UNCHANGED <<acct, ties, posts, farewells, purgeJob, moderator, rule, reconcile, alerted, position>>
    BY <1>4 DEF ResolveReport, Resolved, MayAdminister, ActiveAdmins
  <2>2. report' \in ReportRow /\ report'.category = report.category /\ report'.cites = report.cites
    BY <1>1, <2>1 DEF ReportRow
  <2> QED BY <1>1, <2>1, <2>2, ReportChanges
<1>5. CASE DeleteEvidence(by)
  <2>1. /\ report' = [report EXCEPT !.evidence = FALSE] /\ posts' \subseteq posts
        /\ UNCHANGED <<acct, ties, farewells, purgeJob, moderator, rule, reconcile, alerted, position>>
    BY <1>5 DEF DeleteEvidence
  <2>2. report' \in ReportRow /\ report'.category = report.category /\ report'.cites = report.cites
    BY <1>1, <2>1 DEF ReportRow
  <2> QED BY <1>1, <2>1, <2>2, ReportChanges
<1> QED BY <1>2, <1>3, <1>4, <1>5

LEMMA ModerationStepPreserves ==
    ASSUME ModerationInv, ModerationNext
    PROVE  ModerationInv'
<1>1. CASE SuspensionNext
  <2>1. ASSUME NEW x \in ModeratedAccounts, Lives(x) PROVE ModerationInv'
    <3>1. DomainNext
      BY <2>1 DEF DomainNext
    <3> QED BY <3>1, DomainStepPreserves
  <2> QED BY <1>1, <2>1, DecidePreserves, ModeratorStepPreserves, PurgeStepPreserves DEF SuspensionNext
<1>2. CASE ReportNext
  <2>1. ASSUME NEW r \in Rules, CreateRule(r) \/ DiscardRule(r) PROVE ModerationInv'
    BY <2>1, RuleStepPreserves DEF CreateRule, DiscardRule
  <2>2. ASSUME NEW order, ReorderRules(order) PROVE ModerationInv'
    BY <2>2, RuleStepPreserves DEF ReorderRules
  <2>3. \A by \in Admins : by \in LocalAccounts
    BY LocalIsModerated
  <2>4. ASSUME NEW m \in Moderators, NEW by \in Admins, NEW act \in {"limit", "suspend", "none"}, NEW x \in ModeratedAccounts,
               Decide(m, by, act, x, TRUE)
        PROVE  ModerationInv'
    <3>1. act \in Acts
      BY DEF Acts
    <3> QED BY <2>4, <3>1, DecidePreserves
  <2>5. ASSUME NEW named \in {"", "spam", "violation"}, NEW cites \in SUBSET Rules, NEW by \in LocalAccounts,
               \/ \E x \in ModeratedAccounts, evidence \in BOOLEAN : FileReport(by, x, named, cites, evidence)
               \/ UpdateReport(by, named, cites)
        PROVE  ModerationInv'
    BY <2>5, FileReportPreserves, ReportEditPreserves
  <2>6. ASSUME NEW by \in Admins, DeleteEvidence(by) \/ \E to \in {by, ""}, resolve \in BOOLEAN : AssignReport(by, to) \/ ResolveReport(by, resolve)
        PROVE  ModerationInv'
    BY <2>3, <2>6, ReportEditPreserves
  <2> QED BY <1>2, <2>1, <2>2, <2>4, <2>5, <2>6, FlagPreserves, ModeratorStepPreserves DEF ReportNext
<1> QED BY <1>1, <1>2, DomainStepPreserves DEF ModerationNext

\* What makes an account live or writes is for accounts that are not suspended,
\* and a suspension that ends after a purge reopens the account.
LEMMA EmptyPreserves ==
    ASSUME ModerationInv, PurgedIsEmpty, ModerationNext
    PROVE  PurgedIsEmpty'
<1>1. acct \in [ModeratedAccounts -> AcctRow] /\ posts \subseteq ModeratedAccounts /\ LocalAccounts \subseteq ModeratedAccounts
  BY LocalIsModerated DEF ModerationInv, AccountsTyped
<1>2. ASSUME UNCHANGED acct, posts' \subseteq posts PROVE PurgedIsEmpty'
  BY <1>2 DEF PurgedIsEmpty
<1>3. ASSUME NEW x \in ModeratedAccounts, Lives(x) PROVE PurgedIsEmpty'
  BY <1>1, <1>3 DEF Lives, PurgedIsEmpty
<1>4. ASSUME NEW x \in LocalAccounts, PurgeAccount(x) PROVE PurgedIsEmpty'
  <2>1. CASE acct[x].suspended /\ ~ acct[x].purged
    <3>1. acct' = [acct EXCEPT ![x].purged = TRUE] /\ posts' = posts \ {x}
      BY <1>4, <2>1 DEF PurgeAccount
    <3>2. acct'[x].suspended = acct[x].suspended /\ \A y \in LocalAccounts \ {x} : acct'[y] = acct[y]
      BY <1>1, <3>1 DEF AcctRow
    <3> QED BY <2>1, <3>1, <3>2 DEF PurgedIsEmpty
  <2>2. CASE ~ (acct[x].suspended /\ ~ acct[x].purged)
    BY <1>2, <1>4, <2>2 DEF PurgeAccount
  <2> QED BY <2>1, <2>2
<1>5. ASSUME NEW m \in Moderators, ModeratorStep(m) PROVE PurgedIsEmpty'
  <2> DEFINE x == moderator[m].on
  <2>0. moderator[m].act # "idle" => x \in ModeratedAccounts
    BY DEF ModerationInv, AccountsTyped
  <2>1. CASE SuspendLocal(m)
    <3>1. x \in LocalAccounts /\ acct' = [acct EXCEPT ![x].suspended = TRUE] /\ UNCHANGED posts
      BY <2>1 DEF SuspendLocal
    <3> HIDE DEF x
    <3>2. /\ acct'[x].purged = acct[x].purged /\ acct'[x].reopened = acct[x].reopened /\ acct'[x].suspended
          /\ \A y \in LocalAccounts \ {x} : acct'[y] = acct[y]
      BY <1>1, <3>1 DEF AcctRow
    <3> QED BY <3>1, <3>2 DEF PurgedIsEmpty
  <2>2. CASE SuspendRemote(m)
    <3>1. x \in CachedActors /\ acct' = [acct EXCEPT ![x].suspended = TRUE, ![x].purged = TRUE] /\ posts' \subseteq posts
      BY <2>2 DEF SuspendRemote, PurgeCache
    <3> HIDE DEF x
    <3>2. \A y \in LocalAccounts : acct'[y] = acct[y]
      BY <1>1, <3>1, LocalIsModerated
    <3> QED BY <3>1, <3>2 DEF PurgedIsEmpty
  <2>3. CASE Unsuspend(m)
    <3>1. acct' = [acct EXCEPT ![x].suspended = FALSE, ![x].reopened = @ \/ acct[x].purged] /\ UNCHANGED posts
      BY <2>3 DEF Unsuspend
    <3>2. x \in ModeratedAccounts
      BY <2>0, <2>3 DEF Unsuspend
    <3> HIDE DEF x
    <3>3. /\ acct'[x].purged = acct[x].purged /\ (acct[x].purged => acct'[x].reopened)
          /\ \A y \in LocalAccounts \ {x} : acct'[y] = acct[y]
      BY <1>1, <3>1, <3>2 DEF AcctRow
    <3> QED BY <3>1, <3>3 DEF PurgedIsEmpty
  <2>4. CASE Limit(m)
    <3> DEFINE limited == moderator[m].act = "limit"
    <3>1. acct' = [acct EXCEPT ![x].limited = limited] /\ UNCHANGED posts
      BY <2>4 DEF Limit
    <3>2. x \in ModeratedAccounts
      BY <2>0, <2>4 DEF Limit
    <3> HIDE DEF x, limited
    <3>3. \A y \in LocalAccounts : /\ acct'[y].purged = acct[y].purged /\ acct'[y].reopened = acct[y].reopened
                                   /\ acct'[y].suspended = acct[y].suspended
      BY <1>1, <3>1, <3>2 DEF AcctRow
    <3> QED BY <3>1, <3>3 DEF PurgedIsEmpty
  <2>5. CASE PurgeNow(m)
    <3>1. CASE x \in LocalAccounts
      <4>1. PurgeAccount(x)
        BY <2>5, <3>1 DEF PurgeNow
      <4> HIDE DEF x
      <4> QED BY <1>4, <3>1, <4>1
    <3>2. CASE x \notin LocalAccounts
      BY <1>2, <2>5, <3>2 DEF PurgeNow
    <3> QED BY <3>1, <3>2
  <2>6. CASE NoAction(m)
    BY <1>2, <2>6 DEF NoAction
  <2> QED BY <1>5, <2>1, <2>2, <2>3, <2>4, <2>5, <2>6 DEF ModeratorStep
<1>6. ASSUME NEW i \in DOMAIN purgeJob, PurgeStep(i) PROVE PurgedIsEmpty'
  <2>1. CASE RunPurge(i)
    <3>1. PurgeAccount(purgeJob[i].of)
      BY <2>1 DEF RunPurge
    <3>2. purgeJob \in Seq(PurgeRow)
      BY DEF ModerationInv, PurgesFit
    <3>3. purgeJob[i] \in PurgeRow
      BY <3>2
    <3>4. purgeJob[i].of \in LocalAccounts
      BY <3>3 DEF PurgeRow
    <3> QED BY <1>4, <3>1, <3>4
  <2>2. CASE ~ RunPurge(i)
    BY <1>2, <1>6, <2>2 DEF PurgeStep, PurgeFallsDue, ClaimPurge, FinishPurge, PurgerDies
  <2> QED BY <2>1, <2>2
<1>7. CASE SuspensionNext
  <2>1. ASSUME NEW m, NEW by, NEW act, NEW x, Decide(m, by, act, x, FALSE) PROVE PurgedIsEmpty'
    BY <1>2, <2>1 DEF Decide
  <2> QED BY <1>3, <1>5, <1>6, <1>7, <2>1 DEF SuspensionNext
<1>8. CASE DomainNext
  <2>1. CASE \E x \in ModeratedAccounts : Lives(x)
    BY <1>3, <2>1
  <2>2. CASE ~ \E x \in ModeratedAccounts : Lives(x)
    BY <1>2, <1>8, <2>2 DEF DomainNext, CreateDomainBlock, UpdateDomainBlock, DeleteDomainBlock, ReadDomainBlock, Reconcile,
         FinishReconcile, ReconcileConfigured, PurgeCache
  <2> QED BY <2>1, <2>2
<1>9. CASE ReportNext
  <2>1. ASSUME NEW m \in Moderators, ModeratorStep(m) PROVE PurgedIsEmpty'
    BY <1>5, <2>1
  <2>2. CASE ~ \E m \in Moderators : ModeratorStep(m)
    <3>1. CASE \E by \in Admins : DeleteEvidence(by)
      BY <1>2, <3>1 DEF DeleteEvidence
    <3>2. CASE ~ \E by \in Admins : DeleteEvidence(by)
      <4>1. UNCHANGED <<acct, posts>>
        BY <1>9, <2>2, <3>2 DEF ReportNext, CreateRule, DiscardRule, ReorderRules, FileReport, UpdateReport, ReceiveFlag,
             AssignReport, ResolveReport, Decide
      <4> QED BY <1>2, <4>1
    <3> QED BY <3>1, <3>2
  <2> QED BY <2>1, <2>2
<1> QED BY <1>7, <1>8, <1>9 DEF ModerationNext

\* Decisions of moderators are carried out: however suspensions, their ends,
\* purges that run late and workers that die follow each other, a suspended
\* account with data has a purge that has its work before it, unless it was
\* reopened after an earlier purge, and a report of
\* a violation cites a rule (set_account_suspended_by_id, cancel_account_purge,
\* purge_suspended_local_account, update_moderation_report).
THEOREM DecisionsAreCarriedOut == ModerationSpec => []ModerationSafe
<1>1. ModerationInit => ModerationInv /\ PurgedIsEmpty
  <2> SUFFICES ASSUME ModerationInit PROVE ModerationInv /\ PurgedIsEmpty
    OBVIOUS
  <2>1. AccountsTyped
    BY DEF ModerationInit, AccountsTyped, AcctRow, NoModerator, Decision
  <2>2. RulesTyped
    BY DEF ModerationInit, RulesTyped, Severities
  <2>3. ReportSound
    BY DEF ModerationInit, ReportSound, ViolationCitesRule, NoReport, ReportRow
  <2>4. PurgesFit
    <3>1. purgeJob \in Seq(PurgeRow) /\ DOMAIN purgeJob = {} /\ \A x \in LocalAccounts : ~ acct[x].suspended
      BY LocalIsModerated DEF ModerationInit
    <3> QED BY <3>1 DEF PurgesFit
  <2>5. PurgedIsEmpty
    BY LocalIsModerated DEF ModerationInit, PurgedIsEmpty
  <2> QED BY <2>1, <2>2, <2>3, <2>4, <2>5 DEF ModerationInv
<1>2. ModerationInv /\ PurgedIsEmpty /\ [ModerationNext]_moderation_vars => (ModerationInv /\ PurgedIsEmpty)'
  <2> SUFFICES ASSUME ModerationInv, PurgedIsEmpty, [ModerationNext]_moderation_vars PROVE ModerationInv' /\ PurgedIsEmpty'
    OBVIOUS
  <2>1. CASE UNCHANGED moderation_vars
    BY <2>1, RuleStepPreserves DEF moderation_vars, PurgedIsEmpty
  <2> QED BY <2>1, ModerationStepPreserves, EmptyPreserves
<1>3. ModerationInv /\ PurgedIsEmpty => ModerationSafe
  <2> SUFFICES ASSUME ModerationInv, PurgedIsEmpty PROVE ModerationSafe
    OBVIOUS
  <2>1. \A i \in DOMAIN purgeJob : purgeJob[i] \in PurgeRow
    BY DEF ModerationInv, PurgesFit
  <2>2. ModerationTypeOK
    <3>1. \A i \in DOMAIN purgeJob : purgeJob[i].row \in {"queued", "running", "done"}
      BY <2>1 DEF PurgeRow
    <3>2. \A m \in Moderators : moderator[m].act \in Acts \cup {"idle"}
      BY DEF ModerationInv, AccountsTyped, Decision
    <3>3. report.cites \subseteq Rules
      BY DEF ModerationInv, ReportSound, ReportRow
    <3>4. acct \in [ModeratedAccounts -> [suspended : BOOLEAN, limited : BOOLEAN, purged : BOOLEAN, reopened : BOOLEAN]]
      BY DEF ModerationInv, AccountsTyped, AcctRow
    <3> QED BY <3>1, <3>2, <3>3, <3>4 DEF ModerationTypeOK, ModerationInv, AccountsTyped, RulesTyped
  <2>3. SuspendedIsPurged
    <3> SUFFICES ASSUME NEW x \in LocalAccounts, acct[x].suspended, HasData(x), ~ acct[x].reopened
                 PROVE  \E i \in ActivePurges(x) : purgeJob[i].worker # "ran"
      BY DEF SuspendedIsPurged
    <3>1. ~ acct[x].purged
      BY DEF PurgedIsEmpty, HasData
    <3> QED BY <3>1 DEF ModerationInv, PurgesFit, ActivePurges
  <2> QED BY <2>2, <2>3 DEF ModerationSafe, ModerationInv, ReportSound
<1> QED BY <1>1, <1>2, <1>3, PTL DEF ModerationSpec
-----------------------------------------------------------------------------
(* Registration *)

RegistrarRow == [stage : {"new", "timed", "counted", "limited", "admitted", "done"}, now : 0..LastTick, allowed : BOOLEAN]
AttemptRow == [by : Registrations, at : 0..LastTick]
LetThrough(q) == registrar[q].stage \in {"admitted", "done"}

RegistrationTyped ==
    /\ tick \in 0..LastTick /\ attempts \subseteq AttemptRow /\ IsFiniteSet(attempts)
    /\ registrar \in [Registrations -> RegistrarRow]

\* The time a request took is not ahead of the clock, nor far behind while it
\* waits for the lock or holds it.
TimesFit ==
    \A q \in Registrations :
        /\ registrar[q].now <= tick
        /\ registrar[q].stage \in {"timed", "counted"} => tick <= registrar[q].now + MaxLag

OneCounts == \A p, q \in Registrations : registrar[p].stage = "counted" /\ registrar[q].stage = "counted" => p = q

\* Every request that was let through has its row, until a day has gone by.
AttemptsKept ==
    \A q \in Registrations : LetThrough(q) =>
        [by |-> q, at |-> registrar[q].now] \in attempts \/ registrar[q].now + DailyWindow <= tick

\* What was counted under the lock still holds.
CountedBy(q) == Recent(registrar[q].now, BurstWindow)
CountHolds ==
    \A q \in Registrations : registrar[q].stage = "counted" /\ registrar[q].allowed => Cardinality(CountedBy(q)) < BurstLimit

Burst(start) == {q \in Registrations : LetThrough(q) /\ registrar[q].now \in start .. start + BurstWindow - 1}
BurstsHold == \A start \in 0..LastTick : IsFiniteSet(Burst(start)) /\ Cardinality(Burst(start)) <= BurstLimit

RegistrationInv == RegistrationTyped /\ TimesFit /\ OneCounts /\ AttemptsKept /\ CountHolds /\ BurstsHold

LEMMA LimitsAreNumbers ==
    /\ BurstLimit \in Nat /\ BurstWindow \in Nat /\ DailyWindow \in Nat /\ MaxLag \in Nat /\ LastTick \in Nat /\ MaxEndpoints \in Nat
    /\ BurstWindow + MaxLag < DailyWindow
BY AccessAssumption

\* A request moves on without being let through or counted.
LEMMA RegistrarMoves ==
    ASSUME RegistrationInv, UNCHANGED attempts, tick' = tick, NEW q \in Registrations, NEW row \in RegistrarRow,
           registrar' = [registrar EXCEPT ![q] = row], row.now <= tick, row.stage # "counted",
           row.stage = "timed" => tick <= row.now + MaxLag,
           row.stage \in {"admitted", "done"} => registrar[q].stage \in {"admitted", "done"} /\ row.now = registrar[q].now
    PROVE  RegistrationInv'
<1>1. /\ registrar \in [Registrations -> RegistrarRow] /\ registrar' \in [Registrations -> RegistrarRow]
      /\ registrar'[q] = row /\ \A p \in Registrations \ {q} : registrar'[p] = registrar[p]
  BY DEF RegistrationInv, RegistrationTyped
<1>2. RegistrationTyped'
  BY <1>1 DEF RegistrationInv, RegistrationTyped
<1>3. TimesFit'
  BY <1>1 DEF RegistrationInv, TimesFit
<1>4. OneCounts'
  BY <1>1 DEF RegistrationInv, OneCounts
<1>5. AttemptsKept'
  BY <1>1 DEF RegistrationInv, AttemptsKept, LetThrough
<1>6. CountHolds'
  BY <1>1 DEF RegistrationInv, CountHolds, CountedBy, Recent
<1>7. BurstsHold'
  <2> SUFFICES ASSUME NEW start \in 0..LastTick PROVE IsFiniteSet(Burst(start)') /\ Cardinality(Burst(start)') <= BurstLimit
    BY DEF BurstsHold
  <2>1. Burst(start)' \in SUBSET Burst(start)
    BY <1>1 DEF Burst, LetThrough
  <2>2. IsFiniteSet(Burst(start)) /\ Cardinality(Burst(start)) <= BurstLimit
    BY DEF RegistrationInv, BurstsHold
  <2>3. IsFiniteSet(Burst(start)') /\ Cardinality(Burst(start)') <= Cardinality(Burst(start))
    BY <2>1, <2>2, FS_Subset
  <2> QED BY <2>2, <2>3, FS_CardinalityType, LimitsAreNumbers
<1> QED BY <1>2, <1>3, <1>4, <1>5, <1>6, <1>7 DEF RegistrationInv

LEMMA TickKeeps ==
    ASSUME RegistrationInv, Tick
    PROVE  RegistrationInv'
<1>1. /\ tick \in 0..LastTick /\ tick < LastTick /\ tick' = tick + 1 /\ UNCHANGED <<attempts, registrar>>
      /\ \A q \in Registrations : registrar[q] \in RegistrarRow
  BY DEF Tick, RegistrationInv, RegistrationTyped
<1>2. \A q \in Registrations : registrar[q].now \in Nat
  BY <1>1, LimitsAreNumbers DEF RegistrarRow
<1>3. RegistrationTyped'
  BY <1>1, LimitsAreNumbers DEF RegistrationInv, RegistrationTyped
<1>4. TimesFit'
  BY <1>1, <1>2, LimitsAreNumbers DEF RegistrationInv, TimesFit, Tick
<1>5. OneCounts' /\ CountHolds'
  BY <1>1 DEF RegistrationInv, OneCounts, CountHolds, CountedBy, Recent
<1>6. AttemptsKept'
  BY <1>1, <1>2, LimitsAreNumbers DEF RegistrationInv, AttemptsKept, LetThrough
<1>7. \A start : Burst(start)' = Burst(start)
  BY <1>1 DEF Burst, LetThrough
<1>8. BurstsHold'
  BY <1>7 DEF RegistrationInv, BurstsHold
<1> QED BY <1>3, <1>4, <1>5, <1>6, <1>8 DEF RegistrationInv

LEMMA CountKeeps ==
    ASSUME RegistrationInv, NEW q \in Registrations, CountAttempts(q)
    PROVE  RegistrationInv'
<1> DEFINE now == registrar[q].now
           kept == Recent(now, DailyWindow)
           allowed == Cardinality(Recent(now, BurstWindow)) < BurstLimit /\ Cardinality(kept) < DailyLimit
<1>1. /\ registrar[q].stage = "timed" /\ LimitLockFree /\ attempts' = kept /\ UNCHANGED tick /\ allowed \in BOOLEAN
      /\ registrar' = [registrar EXCEPT ![q].stage = "counted", ![q].allowed = allowed]
      /\ allowed => Cardinality(Recent(now, BurstWindow)) < BurstLimit
  BY DEF CountAttempts
<1>2. kept = {a \in attempts : a.at + DailyWindow > now}
  BY DEF Recent
<1> HIDE DEF kept, allowed
<1>3. /\ registrar \in [Registrations -> RegistrarRow] /\ registrar' \in [Registrations -> RegistrarRow]
      /\ registrar'[q].stage = "counted" /\ registrar'[q].now = now /\ (registrar'[q].allowed <=> allowed)
      /\ \A p \in Registrations \ {q} : registrar'[p] = registrar[p]
  BY <1>1 DEF RegistrationInv, RegistrationTyped, RegistrarRow
<1> HIDE DEF now
<1>4. now \in 0..LastTick /\ now <= tick /\ tick <= now + MaxLag /\ tick \in 0..LastTick
  <2>1. now \in 0..LastTick
    BY <1>3 DEF RegistrarRow, now
  <2> QED BY <1>1, <2>1 DEF RegistrationInv, TimesFit, RegistrationTyped, now
<1>5. RegistrationTyped'
  <2>1. kept \in SUBSET attempts /\ IsFiniteSet(attempts) /\ attempts \subseteq AttemptRow
    BY <1>2 DEF RegistrationInv, RegistrationTyped
  <2>2. IsFiniteSet(kept)
    BY <2>1, FS_Subset
  <2> QED BY <1>1, <1>3, <2>1, <2>2, <1>4 DEF RegistrationTyped
<1>6. TimesFit'
  BY <1>1, <1>3, <1>4 DEF RegistrationInv, TimesFit
<1>7. OneCounts'
  BY <1>1, <1>3 DEF LimitLockFree, OneCounts
<1>8. AttemptsKept'
  <2> SUFFICES ASSUME NEW p \in Registrations, LetThrough(p)'
               PROVE  [by |-> p, at |-> registrar'[p].now] \in attempts' \/ registrar'[p].now + DailyWindow <= tick'
    BY DEF AttemptsKept
  <2>1. p # q /\ registrar'[p] = registrar[p] /\ LetThrough(p)
    BY <1>3 DEF LetThrough
  <2> DEFINE then == registrar[p].now
             attempt == [by |-> p, at |-> then]
  <2>2. attempt \in attempts \/ then + DailyWindow <= tick
    BY <2>1 DEF RegistrationInv, AttemptsKept
  <2>3. attempt.at = then
    OBVIOUS
  <2>4. then \in Nat
    BY <1>3, LimitsAreNumbers DEF RegistrarRow
  <2> HIDE DEF then, attempt
  <2>5. attempt \in kept \/ then + DailyWindow <= tick
    BY <1>2, <1>4, <2>2, <2>3, <2>4, LimitsAreNumbers
  <2> QED BY <1>1, <2>1, <2>5 DEF then, attempt
<1>9. CountHolds'
  <2> SUFFICES ASSUME NEW p \in Registrations, registrar'[p].stage = "counted", registrar'[p].allowed
               PROVE  Cardinality(CountedBy(p)') < BurstLimit
    BY DEF CountHolds
  <2>1. p = q /\ registrar'[p].now = now
    BY <1>1, <1>3 DEF LimitLockFree
  <2> DEFINE later == {a \in attempts' : a.at + BurstWindow > now}
  <2>2. CountedBy(p)' = later
    BY <2>1 DEF CountedBy, Recent
  <2>3. later \in SUBSET Recent(now, BurstWindow)
    BY <1>1, <1>2 DEF Recent
  <2>4. Recent(now, BurstWindow) \in SUBSET attempts /\ IsFiniteSet(attempts)
    BY DEF Recent, RegistrationInv, RegistrationTyped
  <2>5. IsFiniteSet(Recent(now, BurstWindow))
    BY <2>4, FS_Subset
  <2> HIDE DEF later
  <2>6. Cardinality(later) <= Cardinality(Recent(now, BurstWindow)) /\ IsFiniteSet(later)
    BY <2>3, <2>5, FS_Subset
  <2>7. Cardinality(Recent(now, BurstWindow)) < BurstLimit
    BY <1>1, <1>3, <2>1
  <2>8. Cardinality(later) \in Nat /\ Cardinality(Recent(now, BurstWindow)) \in Nat
    BY <2>5, <2>6, FS_CardinalityType
  <2> QED BY <2>2, <2>6, <2>7, <2>8, LimitsAreNumbers
<1>10. \A start : Burst(start)' = Burst(start)
  BY <1>1, <1>3 DEF Burst, LetThrough
<1>11. BurstsHold'
  BY <1>10 DEF RegistrationInv, BurstsHold
<1> QED BY <1>5, <1>6, <1>7, <1>8, <1>9, <1>11 DEF RegistrationInv

\* The request that is let through now is one of at most BurstLimit: each of
\* the others in a window with it has a row that was counted.
LEMMA RecordKeeps ==
    ASSUME RegistrationInv, NEW q \in Registrations, RecordAttempt(q), registrar[q].allowed
    PROVE  RegistrationInv'
<1> DEFINE now == registrar[q].now
           mine == [by |-> q, at |-> now]
<1>1. /\ registrar[q].stage = "counted" /\ attempts' = attempts \cup {mine} /\ UNCHANGED tick
      /\ registrar' = [registrar EXCEPT ![q].stage = "admitted"]
  BY DEF RecordAttempt
<1>2. /\ registrar \in [Registrations -> RegistrarRow] /\ registrar' \in [Registrations -> RegistrarRow]
      /\ registrar'[q].stage = "admitted" /\ registrar'[q].now = now
      /\ \A p \in Registrations \ {q} : registrar'[p] = registrar[p]
  BY <1>1 DEF RegistrationInv, RegistrationTyped, RegistrarRow
<1>3. now \in 0..LastTick /\ now <= tick /\ tick <= now + MaxLag /\ tick \in 0..LastTick
  <2>1. now \in 0..LastTick
    BY <1>2 DEF RegistrarRow
  <2> QED BY <1>1, <2>1 DEF RegistrationInv, TimesFit, RegistrationTyped
<1>4. mine \in AttemptRow
  BY <1>3 DEF AttemptRow
<1> HIDE DEF now, mine
<1>5. RegistrationTyped'
  <2>1. attempts \subseteq AttemptRow /\ IsFiniteSet(attempts)
    BY DEF RegistrationInv, RegistrationTyped
  <2>2. IsFiniteSet(attempts')
    BY <1>1, <2>1, FS_AddElement
  <2> QED BY <1>1, <1>2, <1>3, <1>4, <2>1, <2>2 DEF RegistrationTyped
<1>6. TimesFit' /\ OneCounts'
  BY <1>1, <1>2, <1>3 DEF RegistrationInv, TimesFit, OneCounts
<1>7. AttemptsKept'
  <2> SUFFICES ASSUME NEW p \in Registrations, LetThrough(p)'
               PROVE  [by |-> p, at |-> registrar'[p].now] \in attempts' \/ registrar'[p].now + DailyWindow <= tick'
    BY DEF AttemptsKept
  <2>1. CASE p = q
    BY <1>1, <1>2, <2>1 DEF mine
  <2>2. CASE p # q
    BY <1>1, <1>2, <2>2 DEF RegistrationInv, AttemptsKept, LetThrough
  <2> QED BY <2>1, <2>2
<1>8. CountHolds'
  <2>1. \A p \in Registrations : registrar'[p].stage # "counted"
    BY <1>1, <1>2 DEF RegistrationInv, OneCounts
  <2> QED BY <2>1 DEF CountHolds
<1>9. BurstsHold'
  <2> SUFFICES ASSUME NEW start \in 0..LastTick PROVE IsFiniteSet(Burst(start)') /\ Cardinality(Burst(start)') <= BurstLimit
    BY DEF BurstsHold
  <2>1. CASE now \notin start .. start + BurstWindow - 1
    <3>1. Burst(start)' = Burst(start)
      BY <1>1, <1>2, <2>1 DEF Burst, LetThrough
    <3> QED BY <3>1 DEF RegistrationInv, BurstsHold
  <2>2. CASE now \in start .. start + BurstWindow - 1
    <3> DEFINE others == Burst(start)
               counted == Recent(now, BurstWindow)
               row == [p \in others |-> [by |-> p, at |-> registrar[p].now]]
    <3>1. Burst(start)' = others \cup {q} /\ q \notin others
      BY <1>1, <1>2, <2>2 DEF Burst, LetThrough
    <3>2. ASSUME NEW p \in others PROVE [by |-> p, at |-> registrar[p].now] \in counted
      <4> DEFINE then == registrar[p].now
                 attempt == [by |-> p, at |-> then]
      <4>1. p \in Registrations /\ LetThrough(p) /\ then \in start .. start + BurstWindow - 1
        BY DEF Burst
      <4>2. attempt \in attempts \/ then + DailyWindow <= tick
        BY <4>1 DEF RegistrationInv, AttemptsKept
      <4>3. attempt.at = then
        OBVIOUS
      <4> HIDE DEF then, attempt
      <4>4. then + BurstWindow > now /\ then + DailyWindow > now + MaxLag
        BY <1>3, <2>2, <4>1, LimitsAreNumbers
      <4>5. attempt \in attempts
        BY <1>3, <2>2, <4>1, <4>2, <4>4, LimitsAreNumbers
      <4>6. attempt \in counted
        BY <4>3, <4>4, <4>5 DEF Recent
      <4> QED BY <4>6 DEF attempt, then
    <3>3. row \in Injection(others, counted)
      <4>1. row \in [others -> counted]
        BY <3>2
      <4>2. ASSUME NEW a \in others, NEW b \in others, row[a] = row[b] PROVE a = b
        <5>1. row[a] = [by |-> a, at |-> registrar[a].now] /\ row[b] = [by |-> b, at |-> registrar[b].now]
          OBVIOUS
        <5>2. row[a].by = a /\ row[b].by = b
          BY <5>1
        <5> QED BY <4>2, <5>2
      <4> HIDE DEF row, others, counted
      <4> QED BY <4>1, <4>2 DEF Injection, IsInjective
    <3> HIDE DEF row
    <3>4. IsFiniteSet(counted) /\ Cardinality(counted) < BurstLimit
      <4>1. counted \in SUBSET attempts /\ IsFiniteSet(attempts)
        BY DEF Recent, RegistrationInv, RegistrationTyped
      <4>2. Cardinality(counted) < BurstLimit
        BY <1>1 DEF RegistrationInv, CountHolds, CountedBy, now
      <4> HIDE DEF counted
      <4> QED BY <4>1, <4>2, FS_Subset
    <3> HIDE DEF counted, others
    <3>5. IsFiniteSet(others) /\ Cardinality(others) <= Cardinality(counted)
      BY <3>3, <3>4, FS_Injection
    <3>6. IsFiniteSet(others \cup {q}) /\ Cardinality(others \cup {q}) = Cardinality(others) + 1
      BY <3>1, <3>5, FS_AddElement
    <3>7. Cardinality(others) \in Nat /\ Cardinality(counted) \in Nat
      BY <3>4, <3>5, FS_CardinalityType
    <3> QED BY <3>1, <3>4, <3>5, <3>6, <3>7, LimitsAreNumbers
  <2> QED BY <2>1, <2>2
<1> QED BY <1>5, <1>6, <1>7, <1>8, <1>9 DEF RegistrationInv

LEMMA RegistrationStepKeeps ==
    ASSUME RegistrationInv, RegistrationNext
    PROVE  RegistrationInv' /\ UNCHANGED <<oauth_vars, push_vars>>
<1>1. ASSUME NEW q \in Registrations, BeginRegistration(q) PROVE RegistrationInv'
  <2> DEFINE row == [registrar[q] EXCEPT !.stage = "timed", !.now = tick]
  <2>1. registrar' = [registrar EXCEPT ![q] = row] /\ UNCHANGED <<tick, attempts>> /\ registrar[q] \in RegistrarRow /\ tick \in 0..LastTick
    BY <1>1 DEF BeginRegistration, RegistrationInv, RegistrationTyped
  <2>2. row \in RegistrarRow /\ row.stage = "timed" /\ row.now = tick
    BY <2>1 DEF RegistrarRow
  <2> HIDE DEF row
  <2>3. tick <= tick /\ tick <= tick + MaxLag
    BY <2>1, LimitsAreNumbers
  <2> QED BY <2>1, <2>2, <2>3, RegistrarMoves
<1>2. ASSUME NEW q \in Registrations, RecordAttempt(q), ~ registrar[q].allowed PROVE RegistrationInv'
  <2> DEFINE row == [registrar[q] EXCEPT !.stage = "limited"]
  <2>1. registrar' = [registrar EXCEPT ![q] = row] /\ UNCHANGED <<tick, attempts>> /\ registrar[q] \in RegistrarRow
    BY <1>2 DEF RecordAttempt, RegistrationInv, RegistrationTyped
  <2>2. row \in RegistrarRow /\ row.stage = "limited" /\ row.now = registrar[q].now
    BY <2>1 DEF RegistrarRow
  <2>3. registrar[q].now <= tick
    BY DEF RegistrationInv, TimesFit
  <2> HIDE DEF row
  <2> QED BY <2>1, <2>2, <2>3, RegistrarMoves
<1>3. ASSUME NEW q \in Registrations, CreateAccount(q) PROVE RegistrationInv'
  <2> DEFINE row == [registrar[q] EXCEPT !.stage = "done"]
  <2>1. /\ registrar' = [registrar EXCEPT ![q] = row] /\ UNCHANGED <<tick, attempts>> /\ registrar[q] \in RegistrarRow
        /\ registrar[q].stage = "admitted"
    BY <1>3 DEF CreateAccount, RegistrationInv, RegistrationTyped
  <2>2. row \in RegistrarRow /\ row.stage = "done" /\ row.now = registrar[q].now
    BY <2>1 DEF RegistrarRow
  <2>3. registrar[q].now <= tick
    BY DEF RegistrationInv, TimesFit
  <2> HIDE DEF row
  <2> QED BY <2>1, <2>2, <2>3, RegistrarMoves
<1>4. RegistrationInv'
  BY <1>1, <1>2, <1>3, TickKeeps, CountKeeps, RecordKeeps DEF RegistrationNext
<1>5. UNCHANGED <<oauth_vars, push_vars>>
  BY DEF RegistrationNext, Tick, BeginRegistration, CountAttempts, RecordAttempt, CreateAccount
<1> QED BY <1>4, <1>5
-----------------------------------------------------------------------------
(* Authorization codes and tokens *)

CodeRow == [of : People \cup {Nobody}, state : {"none", "issued", "expired", "consumed"}]
ExchangeRow == [code : Codes \cup {Nobody}, stage : {"idle", "found", "done"}]
TokenRow == [from : Exchanges \cup {0}, of : People \cup {Nobody}, revoked : BOOLEAN]

OAuthTyped ==
    /\ session \subseteq People /\ barredAccounts \subseteq People
    /\ code \in [Codes -> CodeRow] /\ exchange \in [Exchanges -> ExchangeRow] /\ tokens \subseteq TokenRow

\* A request that has found a code has found one that was issued.
FoundIsIssued == \A e \in Exchanges : exchange[e].stage = "found" => exchange[e].code \in Codes /\ code[exchange[e].code].state # "none"

OAuthInv == OAuthTyped /\ FoundIsIssued

LEMMA FindCodeKeeps ==
    ASSUME OAuthInv, NEW e \in Exchanges, NEW c \in Codes, FindCode(e, c)
    PROVE  OAuthInv'
<1> DEFINE row == [code |-> c, stage |-> "found"]
<1>1. /\ exchange[e].stage = "idle" /\ code[c].state = "issued" /\ exchange' = [exchange EXCEPT ![e] = row]
      /\ UNCHANGED <<session, barredAccounts, code, tokens>>
  BY DEF FindCode
<1>2. row \in ExchangeRow /\ row.code = c /\ row.stage = "found"
  BY DEF ExchangeRow
<1> HIDE DEF row
<1>3. /\ exchange' \in [Exchanges -> ExchangeRow] /\ exchange'[e] = row /\ \A k \in Exchanges \ {e} : exchange'[k] = exchange[k]
  BY <1>1, <1>2 DEF OAuthInv, OAuthTyped
<1>4. OAuthTyped'
  BY <1>1, <1>3 DEF OAuthInv, OAuthTyped
<1>5. FoundIsIssued'
  BY <1>1, <1>2, <1>3 DEF OAuthInv, FoundIsIssued
<1> QED BY <1>4, <1>5 DEF OAuthInv

LEMMA ExchangeKeeps ==
    ASSUME OAuthInv, NEW e \in Exchanges, NEW verified \in BOOLEAN, ExchangeCode(e, verified)
    PROVE  OAuthInv'
<1> DEFINE c == exchange[e].code
           token == NewToken(e, code[c].of)
<1>1. /\ exchange[e].stage = "found" /\ code' = [code EXCEPT ![c].state = "consumed"]
      /\ tokens' = (IF verified THEN tokens \cup {token} ELSE tokens) /\ exchange' = [exchange EXCEPT ![e].stage = "done"]
      /\ UNCHANGED <<session, barredAccounts>>
  BY DEF ExchangeCode
<1>2. c \in Codes /\ code \in [Codes -> CodeRow] /\ exchange \in [Exchanges -> ExchangeRow] /\ exchange[e].code = c
  BY <1>1 DEF OAuthInv, OAuthTyped, FoundIsIssued
<1>3. code[c].of \in People \cup {Nobody}
  BY <1>2 DEF CodeRow
<1>4. token \in TokenRow /\ token.from = e /\ token.of = code[c].of
  BY <1>3 DEF NewToken, TokenRow
<1> HIDE DEF c, token
<1>5. /\ code' \in [Codes -> CodeRow] /\ code'[c].state = "consumed" /\ code'[c].of = code[c].of
      /\ \A k \in Codes \ {c} : code'[k] = code[k]
  BY <1>1, <1>2 DEF CodeRow
<1>6. /\ exchange' \in [Exchanges -> ExchangeRow] /\ exchange'[e].stage = "done" /\ exchange'[e].code = c
      /\ \A k \in Exchanges \ {e} : exchange'[k] = exchange[k]
  BY <1>1, <1>2 DEF ExchangeRow
<1>7. OAuthTyped'
  BY <1>1, <1>4, <1>5, <1>6 DEF OAuthInv, OAuthTyped
<1>8. FoundIsIssued'
  <2> SUFFICES ASSUME NEW k \in Exchanges, exchange'[k].stage = "found" PROVE exchange'[k].code \in Codes /\ code'[exchange'[k].code].state # "none"
    BY DEF FoundIsIssued
  <2>1. exchange'[k] = exchange[k] /\ exchange[k].code \in Codes /\ code[exchange[k].code].state # "none"
    BY <1>6 DEF OAuthInv, FoundIsIssued
  <2> QED BY <1>5, <2>1
<1> QED BY <1>7, <1>8 DEF OAuthInv

LEMMA CredentialsKeep ==
    ASSUME OAuthInv, NEW e \in Exchanges, ClientCredentials(e)
    PROVE  OAuthInv'
<1> DEFINE token == NewToken(e, Nobody)
<1>1. /\ exchange[e].stage = "idle" /\ tokens' = tokens \cup {token} /\ exchange' = [exchange EXCEPT ![e].stage = "done"]
      /\ UNCHANGED <<session, barredAccounts, code>>
  BY DEF ClientCredentials
<1>2. token \in TokenRow /\ token.from = e /\ token.of = Nobody
  BY DEF NewToken, TokenRow
<1> HIDE DEF token
<1>3. /\ exchange' \in [Exchanges -> ExchangeRow] /\ exchange'[e].stage = "done"
      /\ \A k \in Exchanges \ {e} : exchange'[k] = exchange[k]
  BY <1>1 DEF OAuthInv, OAuthTyped, ExchangeRow
<1>4. OAuthTyped' /\ FoundIsIssued'
  BY <1>1, <1>2, <1>3 DEF OAuthInv, OAuthTyped, FoundIsIssued
<1> QED BY <1>4 DEF OAuthInv

LEMMA CodeMoves ==
    ASSUME OAuthInv, NEW c \in Codes, NEW row \in CodeRow, code' = [code EXCEPT ![c] = row], code[c].state \in {"none", "issued"},
           row.state # "none", UNCHANGED <<session, barredAccounts, exchange, tokens>>
    PROVE  OAuthInv'
<1>1. code' \in [Codes -> CodeRow] /\ code'[c] = row /\ \A k \in Codes \ {c} : code'[k] = code[k]
  BY DEF OAuthInv, OAuthTyped
<1>2. OAuthTyped' /\ FoundIsIssued'
  BY <1>1 DEF OAuthInv, OAuthTyped, FoundIsIssued
<1> QED BY <1>2 DEF OAuthInv

\* Tokens are revoked and none is added.
LEMMA Revoked ==
    ASSUME OAuthInv, UNCHANGED <<code, exchange>>, session' \subseteq People, barredAccounts' \subseteq People,
           tokens' \subseteq TokenRow
    PROVE  OAuthInv'
BY DEF OAuthInv, OAuthTyped, FoundIsIssued

LEMMA OAuthStepKeeps ==
    ASSUME OAuthInv, OAuthNext
    PROVE  OAuthInv' /\ UNCHANGED register_vars /\ UNCHANGED <<rejected, subscriber, pushJob, removed>> /\ endpoint' \in {0, endpoint}
<1> USE DEF push_vars
<1>1. tokens \subseteq TokenRow /\ session \subseteq People /\ barredAccounts \subseteq People /\ code \in [Codes -> CodeRow]
  BY DEF OAuthInv, OAuthTyped
<1>2. ASSUME UNCHANGED <<code, exchange, tokens>>, session' \subseteq People, barredAccounts' \subseteq People PROVE OAuthInv'
  BY <1>1, <1>2, Revoked
<1>3. ASSUME NEW x \in People, Login(x) \/ Logout(x) \/ VerifyPassword(x) \/ ResetPassword(x) \/ UnbarAccount(x) \/ ChangePassword PROVE OAuthInv'
  BY <1>1, <1>2, <1>3 DEF Login, Logout, VerifyPassword, ResetPassword, UnbarAccount, ChangePassword
<1>4. ASSUME ChangePassword PROVE OAuthInv'
  BY <1>1, <1>2, <1>4 DEF ChangePassword
<1>5. ASSUME NEW x \in People, BarAccount(x) PROVE OAuthInv'
  <2>1. /\ tokens' = {[t EXCEPT !.revoked = t.revoked \/ t.of = x] : t \in tokens} /\ UNCHANGED <<session, code, exchange>>
        /\ barredAccounts' \subseteq People
    BY <1>1, <1>5 DEF BarAccount
  <2>2. ASSUME NEW t \in tokens' PROVE t \in TokenRow
    <3>1. PICK old \in tokens : t = [old EXCEPT !.revoked = old.revoked \/ old.of = x]
      BY <2>1
    <3> DEFINE gone == old.revoked \/ old.of = x
    <3>2. old \in TokenRow /\ gone \in BOOLEAN
      BY <1>1
    <3> HIDE DEF gone
    <3>3. t = [old EXCEPT !.revoked = gone]
      BY <3>1 DEF gone
    <3> QED BY <3>2, <3>3 DEF TokenRow
  <2> QED BY <1>1, <2>1, <2>2, Revoked
<1>6. ASSUME NEW t \in tokens, RevokeToken(t) PROVE OAuthInv'
  <2> DEFINE gone == [t EXCEPT !.revoked = TRUE]
  <2>1. tokens' = (tokens \ {t}) \cup {gone} /\ UNCHANGED <<session, barredAccounts, code, exchange>>
    BY <1>6 DEF RevokeToken
  <2>2. gone \in TokenRow
    BY <1>1 DEF TokenRow
  <2> HIDE DEF gone
  <2> QED BY <1>1, <2>1, <2>2, Revoked
<1>7. ASSUME NEW x \in People, NEW c \in Codes, Authorize(x, c) PROVE OAuthInv'
  <2> DEFINE row == [of |-> x, state |-> "issued"]
  <2>1. code' = [code EXCEPT ![c] = row] /\ code[c].state = "none" /\ UNCHANGED <<session, barredAccounts, exchange, tokens>>
    BY <1>7 DEF Authorize
  <2>2. row \in CodeRow /\ row.state # "none"
    BY DEF CodeRow
  <2> HIDE DEF row
  <2> QED BY <2>1, <2>2, CodeMoves
<1>8. ASSUME NEW c \in Codes, CodeExpires(c) PROVE OAuthInv'
  <2> DEFINE row == [code[c] EXCEPT !.state = "expired"]
  <2>1. code' = [code EXCEPT ![c] = row] /\ code[c].state = "issued" /\ UNCHANGED <<session, barredAccounts, exchange, tokens>>
    BY <1>8 DEF CodeExpires
  <2>2. row \in CodeRow /\ row.state # "none"
    BY <1>1 DEF CodeRow
  <2> HIDE DEF row
  <2> QED BY <2>1, <2>2, CodeMoves
<1>9. OAuthInv'
  BY <1>3, <1>4, <1>5, <1>6, <1>7, <1>8, FindCodeKeeps, ExchangeKeeps, CredentialsKeep DEF OAuthNext
<1>10. UNCHANGED register_vars /\ UNCHANGED <<rejected, subscriber, pushJob, removed>> /\ endpoint' \in {0, endpoint}
  BY DEF OAuthNext, Login, Logout, VerifyPassword, ResetPassword, BarAccount, UnbarAccount, ChangePassword, Authorize, CodeExpires,
       FindCode, ExchangeCode, ClientCredentials, RevokeToken
<1> QED BY <1>9, <1>10
-----------------------------------------------------------------------------
(* Push *)

PushRow == [state : {"none", "queued", "sending", "done"}, to : 0..MaxEndpoints]

PushInv ==
    /\ endpoint \in 0..MaxEndpoints /\ removed \subseteq 1..MaxEndpoints /\ rejected \subseteq 1..MaxEndpoints
    /\ pushJob \in [Pushes -> PushRow]

\* A set of numbers has a least one.
LEMMA LeastIsThere ==
    ASSUME NEW T \in SUBSET Nat, T # {}
    PROVE  \E x \in T : \A y \in T : x <= y
<1>1. \E R : IsWellFoundedOn(R, Nat) /\ \A x, y \in Nat : x < y => <<x, y>> \in R
  <2>1. \A x, y \in Nat : x < y => <<x, y>> \in OpToRel(<, Nat)
    BY DEF OpToRel
  <2> WITNESS OpToRel(<, Nat)
  <2> QED BY <2>1, NatLessThanWellFounded
<1>2. PICK R : IsWellFoundedOn(R, Nat) /\ \A x, y \in Nat : x < y => <<x, y>> \in R
  BY <1>1
<1>3. \E x \in T : \A y \in T : ~ (<<y, x>> \in R)
  <2>1. T \subseteq Nat /\ IsWellFoundedOn(R, Nat)
    BY <1>2
  <2> QED BY <2>1, WFMin, Zenon
<1>4. PICK x \in T : \A y \in T : ~ (<<y, x>> \in R)
  BY <1>3
<1>5. x \in Nat /\ \A y \in T : y \in Nat /\ ~ (y < x)
  BY <1>2, <1>4
<1>6. \A y \in T : x <= y
  BY <1>5
<1> QED BY <1>4, <1>6

\* A set of numbers up to a bound has a greatest one.
LEMMA GreatestIsThere ==
    ASSUME NEW N \in Nat, NEW S \in SUBSET (0..N), S # {}
    PROVE  \E n \in S : \A m \in S : m <= n
<1> DEFINE T == {N - m : m \in S}
<1>1. T \in SUBSET Nat /\ T # {}
  OBVIOUS
<1> HIDE DEF T
<1>2. PICK x \in T : \A y \in T : x <= y
  BY <1>1, LeastIsThere
<1>3. PICK n \in S : x = N - n
  BY <1>2 DEF T
<1>4. ASSUME NEW m \in S PROVE m <= n
  <2>1. N - m \in T
    BY DEF T
  <2>2. x <= N - m /\ m \in 0..N /\ n \in 0..N
    BY <1>2, <2>1
  <2> QED BY <1>3, <2>2
<1> QED BY <1>4

LEMMA LastEndpointIsOne ==
    ASSUME PushInv
    PROVE  LastEndpoint \in 0..MaxEndpoints
<1> DEFINE S == {0} \cup rejected \cup removed \cup {pushJob[p].to : p \in Pushes}
<1>1. CASE endpoint > 0
  BY <1>1 DEF LastEndpoint, PushInv
<1>2. CASE ~ (endpoint > 0)
  <2>1. LastEndpoint = CHOOSE n \in 0..MaxEndpoints : n \in S /\ \A m \in S : m <= n
    BY <1>2 DEF LastEndpoint
  <2>2. \A p \in Pushes : pushJob[p].to \in 0..MaxEndpoints
    BY DEF PushInv, PushRow
  <2>3. S \in SUBSET (0..MaxEndpoints) /\ S # {}
    <3>1. 0 \in S
      OBVIOUS
    <3>2. \A s \in S : s = 0 \/ s \in rejected \/ s \in removed \/ \E p \in Pushes : s = pushJob[p].to
      OBVIOUS
    <3>3. \A n \in 1..MaxEndpoints : n \in 0..MaxEndpoints
      BY LimitsAreNumbers
    <3>4. 0 \in 0..MaxEndpoints /\ rejected \subseteq 1..MaxEndpoints /\ removed \subseteq 1..MaxEndpoints
      BY LimitsAreNumbers DEF PushInv
    <3> HIDE DEF S
    <3> QED BY <2>2, <3>1, <3>2, <3>3, <3>4, Zenon
  <2> HIDE DEF S
  <2>4. \E n \in 0..MaxEndpoints : n \in S /\ \A m \in S : m <= n
    BY <2>3, LimitsAreNumbers, GreatestIsThere
  <2> QED BY <2>1, <2>4
<1> QED BY <1>1, <1>2

LEMMA PushStepKeeps ==
    ASSUME PushInv, PushNext
    PROVE  PushInv' /\ UNCHANGED <<register_vars, oauth_vars>>
<1>1. endpoint \in 0..MaxEndpoints /\ removed \subseteq 1..MaxEndpoints /\ rejected \subseteq 1..MaxEndpoints /\ pushJob \in [Pushes -> PushRow]
  BY DEF PushInv
<1>2. CASE BeginSubscribe
  BY <1>2 DEF BeginSubscribe, PushInv
<1>3. CASE Subscribe
  BY <1>1, <1>3, LastEndpointIsOne, LimitsAreNumbers DEF Subscribe, PushInv
<1>4. CASE Unsubscribe
  BY <1>1, <1>4, LimitsAreNumbers DEF Unsubscribe, PushInv
<1>5. ASSUME NEW n \in 1..MaxEndpoints, EndpointGone(n) PROVE PushInv'
  BY <1>1, <1>5 DEF EndpointGone, PushInv
<1>6. ASSUME NEW p \in Pushes, QueuePush(p) PROVE PushInv'
  <2> DEFINE state == IF endpoint > 0 THEN "queued" ELSE "done"
  <2>1. pushJob' = [pushJob EXCEPT ![p].state = state] /\ UNCHANGED <<endpoint, rejected, removed>> /\ state \in {"queued", "done"}
    BY <1>6 DEF QueuePush
  <2> HIDE DEF state
  <2>2. pushJob' \in [Pushes -> PushRow]
    BY <1>1, <2>1 DEF PushRow
  <2> QED BY <1>1, <2>1, <2>2 DEF PushInv
<1>7. ASSUME NEW p \in Pushes, NEW wanted \in BOOLEAN, LoadPush(p, wanted) PROVE PushInv'
  <2> DEFINE row == IF endpoint > 0 /\ wanted THEN [state |-> "sending", to |-> endpoint] ELSE [state |-> "done", to |-> 0]
  <2>1. pushJob' = [pushJob EXCEPT ![p] = row] /\ UNCHANGED <<endpoint, rejected, removed>>
    BY <1>7 DEF LoadPush
  <2>2. row \in PushRow
    BY <1>1, LimitsAreNumbers DEF PushRow
  <2> HIDE DEF row
  <2>3. pushJob' \in [Pushes -> PushRow]
    BY <1>1, <2>1, <2>2
  <2> QED BY <1>1, <2>1, <2>3 DEF PushInv
<1>8. ASSUME NEW p \in Pushes, NEW retry \in BOOLEAN, PushAnswered(p, retry) PROVE PushInv'
  <2>1. CASE pushJob[p].to \in rejected
    <3>1. /\ pushJob' = [pushJob EXCEPT ![p].state = "done"] /\ endpoint' = 0 /\ UNCHANGED rejected
          /\ removed' = IF endpoint > 0 THEN removed \cup {endpoint} ELSE removed
      BY <1>8, <2>1 DEF PushAnswered
    <3>2. pushJob' \in [Pushes -> PushRow]
      BY <1>1, <3>1 DEF PushRow
    <3> QED BY <1>1, <3>1, <3>2, LimitsAreNumbers DEF PushInv
  <2>2. CASE pushJob[p].to \notin rejected
    <3> DEFINE row == [state |-> IF retry THEN "queued" ELSE "done", to |-> 0]
    <3>1. pushJob' = [pushJob EXCEPT ![p] = row] /\ UNCHANGED <<endpoint, rejected, removed>>
      BY <1>8, <2>2 DEF PushAnswered
    <3>2. row \in PushRow
      BY LimitsAreNumbers DEF PushRow
    <3> HIDE DEF row
    <3>3. pushJob' \in [Pushes -> PushRow]
      BY <1>1, <3>1, <3>2
    <3> QED BY <1>1, <3>1, <3>3 DEF PushInv
  <2> QED BY <2>1, <2>2
<1>9. PushInv'
  BY <1>2, <1>3, <1>4, <1>5, <1>6, <1>7, <1>8 DEF PushNext
<1>10. UNCHANGED <<register_vars, oauth_vars>>
  BY DEF PushNext, BeginSubscribe, Subscribe, Unsubscribe, EndpointGone, QueuePush, LoadPush, PushAnswered
<1> QED BY <1>9, <1>10

AccessInv == RegistrationInv /\ OAuthInv /\ PushInv

LEMMA SameRegistration ==
    ASSUME RegistrationInv, UNCHANGED register_vars
    PROVE  RegistrationInv'
<1>1. \A start : Burst(start)' = Burst(start)
  BY DEF Burst, LetThrough, register_vars
<1>2. BurstsHold'
  BY <1>1 DEF RegistrationInv, BurstsHold
<1> QED BY <1>2 DEF RegistrationInv, RegistrationTyped, TimesFit, OneCounts, AttemptsKept, LetThrough, CountHolds, CountedBy, Recent, register_vars

LEMMA SameOAuth ==
    ASSUME OAuthInv, UNCHANGED oauth_vars
    PROVE  OAuthInv'
BY DEF oauth_vars, OAuthInv, OAuthTyped, FoundIsIssued

\* The limit of registrations holds between processes that share nothing but
\* the database: no more are let through in any window of the burst limit than
\* it says, however long a request waits for the lock with the time it took
\* before (check_registration_rate_limit).
THEOREM LimitsHold == AccessSpec => []AccessSafe
<1>1. AccessInit => AccessInv
  <2> SUFFICES ASSUME AccessInit PROVE AccessInv
    OBVIOUS
  <2>1. RegistrationInv
    <3>1. registrar = [q \in Registrations |-> NewRegistration] /\ NewRegistration \in RegistrarRow /\ NewRegistration.stage = "new"
          /\ NewRegistration.now = 0
      BY LimitsAreNumbers DEF AccessInit, NewRegistration, RegistrarRow
    <3>2. RegistrationTyped
      BY <3>1, FS_EmptySet, LimitsAreNumbers DEF AccessInit, RegistrationTyped
    <3>3. TimesFit /\ OneCounts /\ AttemptsKept /\ CountHolds
      BY <3>1 DEF AccessInit, TimesFit, OneCounts, AttemptsKept, CountHolds, LetThrough
    <3>4. \A start : Burst(start) = {}
      BY <3>1 DEF Burst, LetThrough
    <3>5. BurstsHold
      BY <3>4, FS_EmptySet, LimitsAreNumbers DEF BurstsHold
    <3> QED BY <3>2, <3>3, <3>5 DEF RegistrationInv
  <2>2. OAuthInv
    <3>1. \A t \in tokens : t \in TokenRow
      <4> SUFFICES ASSUME NEW t \in tokens PROVE t \in TokenRow
        OBVIOUS
      <4>1. PICK x \in People \cup {Nobody} : t = [from |-> 0, of |-> x, revoked |-> FALSE]
        BY DEF AccessInit, NewToken
      <4> QED BY <4>1 DEF TokenRow
    <3>2. OAuthTyped
      BY <3>1 DEF AccessInit, OAuthTyped, CodeRow, ExchangeRow
    <3>3. FoundIsIssued
      BY DEF AccessInit, FoundIsIssued
    <3> QED BY <3>2, <3>3 DEF OAuthInv
  <2>3. PushInv
    BY LimitsAreNumbers DEF AccessInit, PushInv, PushRow
  <2> QED BY <2>1, <2>2, <2>3 DEF AccessInv
<1>2. AccessInv /\ [AccessNext]_access_vars => AccessInv'
  <2> SUFFICES ASSUME AccessInv, [AccessNext]_access_vars PROVE AccessInv'
    OBVIOUS
  <2>1. RegistrationInv /\ OAuthInv /\ PushInv
    BY DEF AccessInv
  <2>2. CASE RegistrationNext
    BY <2>1, <2>2, RegistrationStepKeeps, SameOAuth DEF AccessInv, PushInv, push_vars
  <2>3. CASE OAuthNext
    <3>1. OAuthInv' /\ UNCHANGED register_vars /\ UNCHANGED <<rejected, subscriber, pushJob, removed>> /\ endpoint' \in {0, endpoint}
      BY <2>1, <2>3, OAuthStepKeeps
    <3>2. PushInv'
      BY <2>1, <3>1, LimitsAreNumbers DEF PushInv
    <3> QED BY <2>1, <3>1, <3>2, SameRegistration DEF AccessInv
  <2>4. CASE PushNext
    BY <2>1, <2>4, PushStepKeeps, SameRegistration, SameOAuth DEF AccessInv
  <2>5. CASE UNCHANGED access_vars
    BY <2>1, <2>5, SameRegistration, SameOAuth DEF AccessInv, PushInv, access_vars, register_vars, oauth_vars
  <2> QED BY <2>2, <2>3, <2>4, <2>5 DEF AccessNext
<1>3. AccessInv => AccessSafe
  <2> SUFFICES ASSUME AccessInv PROVE AccessSafe
    OBVIOUS
  <2>1. AccessTypeOK
    <3>1. \A a \in attempts : a.by \in Registrations /\ a.at \in 0..LastTick
      BY DEF AccessInv, RegistrationInv, RegistrationTyped, AttemptRow
    <3>2. \A q \in Registrations : registrar[q].stage \in {"new", "timed", "counted", "limited", "admitted", "done"}
      BY DEF AccessInv, RegistrationInv, RegistrationTyped, RegistrarRow
    <3>3. \A t \in tokens : t.of \in People \cup {Nobody} /\ t.revoked \in BOOLEAN
      BY DEF AccessInv, OAuthInv, OAuthTyped, TokenRow
    <3> QED BY <3>1, <3>2, <3>3 DEF AccessTypeOK, AccessInv, RegistrationInv, RegistrationTyped, OAuthInv, OAuthTyped, PushInv
  <2>2. BurstHolds
    <3>1. \A start : Burst(start) = {q \in Registrations : /\ registrar[q].stage \in {"admitted", "done"}
                                                           /\ registrar[q].now \in start .. start + BurstWindow - 1}
      BY DEF Burst, LetThrough
    <3> QED BY <3>1 DEF BurstHolds, AccessInv, RegistrationInv, BurstsHold
  <2> QED BY <2>1, <2>2 DEF AccessSafe
<1> QED BY <1>1, <1>2, <1>3, PTL DEF AccessSpec
-----------------------------------------------------------------------------
(* The cache of remote media *)

JobStates == {"none", "queued", "running"}
DownloadRow == [id : MediaIds \cup {0}, url : 0..MaxUrl, held : BOOLEAN,
                stage : {"idle", "waiting", "selected", "fetched", "written", "error", "changed", "done"}]
VisitorRow == [id : MediaIds \cup {0},
               stage : {"idle", "asked", "queued", "waiting", "served", "missing", "bad_gateway", "unavailable"}]
Busy(f) == download[f].stage # "idle"
Fetching(f) == download[f].stage \in {"selected", "fetched", "written"}

DownloadsTyped == download \in [MediaFetchers -> DownloadRow] /\ \A f \in MediaFetchers : Busy(f) => download[f].id \in MediaIds
VisitorsTyped == visitor \in [Visitors -> VisitorRow] /\ \A v \in Visitors : visitor[v].stage # "idle" => visitor[v].id \in MediaIds
RowsTyped ==
    /\ mediaRow \in [MediaIds -> MediaRow] /\ disk \in [MediaIds -> 0..MaxUrl] /\ mediaJob \in [MediaIds -> JobStates]
    /\ overruns \in Nat

\* A job has one execution that holds its claim, and no other as long as none
\* has outlived it.
ClaimsHold ==
    /\ \A f \in MediaFetchers : Busy(f) /\ overruns = 0 => download[f].held
    /\ \A f \in MediaFetchers : Busy(f) /\ download[f].held => mediaJob[download[f].id] = "running"
    /\ \A f, g \in MediaFetchers : Busy(f) /\ Busy(g) /\ download[f].held /\ download[g].held /\ download[f].id = download[g].id => f = g

\* A row whose file counts: an image that may be served, or an attachment.
Counts(i) == Live(i) /\ (i \in Images => overruns = 0 /\ mediaRow[i].file)

\* The file of such a row, and what is being fetched for it, are of its
\* address; the file of an image is the one that was written last.
FilesFit ==
    /\ \A f \in MediaFetchers : Fetching(f) => mediaRow[download[f].id].state # "unused"
    /\ \A i \in MediaIds : mediaRow[i].state = "unused" => disk[i] = 0
    /\ \A i \in MediaIds : Counts(i) /\ disk[i] # 0 => disk[i] = mediaRow[i].url
    /\ \A f \in MediaFetchers : Fetching(f) /\ Counts(download[f].id) => download[f].url = mediaRow[download[f].id].url
    /\ \A f \in MediaFetchers : download[f].stage = "written" /\ download[f].id \in Images /\ overruns = 0 => disk[download[f].id] = download[f].url

MediaInv == DownloadsTyped /\ VisitorsTyped /\ RowsTyped /\ ClaimsHold /\ FilesFit

\* A row keeps its address as long as its file counts; the first address of a
\* row finds no file and no fetch.
RowFollows(i) ==
    /\ mediaRow'[i].state = "unused" => mediaRow[i].state = "unused"
    /\ Counts(i)' => \/ mediaRow[i].state = "unused"
                     \/ Counts(i) /\ mediaRow'[i].url = mediaRow[i].url

\* A fetch keeps its row and its address.
DownloadFollows(f) ==
    /\ Fetching(f)' => Fetching(f) /\ download'[f].id = download[f].id /\ download'[f].url = download[f].url
    /\ download'[f].stage = "written" => download[f].stage = "written"

LEMMA FilesStay ==
    ASSUME MediaInv, UNCHANGED disk, overruns' = 0 => overruns = 0,
           \A i \in MediaIds : RowFollows(i), \A f \in MediaFetchers : DownloadFollows(f)
    PROVE  FilesFit'
<1>1. \A f \in MediaFetchers : Fetching(f) => download[f].id \in MediaIds
  BY DEF MediaInv, DownloadsTyped, Busy, Fetching
<1>2. \A f \in MediaFetchers : Fetching(f)' => Fetching(f) /\ download'[f].id = download[f].id /\ download'[f].url = download[f].url /\ download'[f].id \in MediaIds
  BY <1>1 DEF DownloadFollows
<1>3. \A f \in MediaFetchers : Fetching(f)' => mediaRow'[download'[f].id].state # "unused"
  BY <1>2 DEF MediaInv, FilesFit, RowFollows
<1>4. \A i \in MediaIds : mediaRow'[i].state = "unused" => disk'[i] = 0
  BY DEF MediaInv, FilesFit, RowFollows
<1>5. \A i \in MediaIds : Counts(i)' /\ disk'[i] # 0 => disk'[i] = mediaRow'[i].url
  BY DEF MediaInv, FilesFit, RowFollows
<1>6. ASSUME NEW f \in MediaFetchers, NEW i \in MediaIds, i = download'[f].id, Fetching(f)', Counts(i)' PROVE download'[f].url = mediaRow'[i].url
  <2>1. Fetching(f) /\ i = download[f].id /\ download'[f].url = download[f].url
    BY <1>2, <1>6
  <2>2. mediaRow[i].state # "unused"
    BY <2>1 DEF MediaInv, FilesFit
  <2>3. Counts(i) /\ mediaRow'[i].url = mediaRow[i].url
    BY <1>6, <2>2 DEF RowFollows
  <2> QED BY <2>1, <2>3 DEF MediaInv, FilesFit
<1>7. \A f \in MediaFetchers : download'[f].stage = "written" /\ download'[f].id \in Images /\ overruns' = 0 => disk'[download'[f].id] = download'[f].url
  <2>1. \A f \in MediaFetchers : download'[f].stage = "written" => Fetching(f)' /\ download[f].stage = "written"
    BY DEF DownloadFollows, Fetching
  <2> QED BY <1>2, <2>1 DEF MediaInv, FilesFit
<1>8. \A f \in MediaFetchers : Fetching(f)' /\ Counts(download[f].id)' => download'[f].url = mediaRow'[download'[f].id].url
  BY <1>2, <1>6 DEF Counts, Live
<1> QED BY <1>3, <1>4, <1>5, <1>7, <1>8 DEF FilesFit

\* Executions go on; a job that runs goes on running.
LEMMA ClaimsStay ==
    ASSUME MediaInv, UNCHANGED overruns, \A i \in MediaIds : mediaJob[i] = "running" => mediaJob'[i] = "running",
           \A f \in MediaFetchers : Busy(f)' => Busy(f) /\ download'[f].id = download[f].id /\ (download'[f].held <=> download[f].held)
    PROVE  ClaimsHold'
BY DEF MediaInv, ClaimsHold, DownloadsTyped

\* Rows, jobs and requests change and no execution moves.
LEMMA RowStep ==
    ASSUME MediaInv, UNCHANGED <<disk, download, overruns>>, mediaRow' \in [MediaIds -> MediaRow], \A i \in MediaIds : RowFollows(i),
           mediaJob' \in [MediaIds -> JobStates], \A i \in MediaIds : mediaJob[i] = "running" => mediaJob'[i] = "running", VisitorsTyped'
    PROVE  MediaInv'
<1>1. \A f \in MediaFetchers : DownloadFollows(f)
  BY DEF DownloadFollows, Fetching
<1>2. FilesFit'
  BY <1>1, FilesStay
<1>3. \A f \in MediaFetchers : Busy(f)' => Busy(f) /\ download'[f].id = download[f].id /\ (download'[f].held <=> download[f].held)
  BY DEF Busy
<1>4. ClaimsHold'
  BY <1>3, ClaimsStay
<1> QED BY <1>2, <1>4 DEF MediaInv, DownloadsTyped, Busy, RowsTyped

LEMMA SameRows ==
    ASSUME UNCHANGED <<mediaRow, overruns>>
    PROVE  \A i \in MediaIds : RowFollows(i)
BY DEF RowFollows, Counts, Live

LEMMA CoalescedFits ==
    ASSUME NEW i \in MediaIds, mediaJob \in [MediaIds -> JobStates], mediaJob' = Coalesced(i, mediaJob)
    PROVE  mediaJob' \in [MediaIds -> JobStates] /\ \A j \in MediaIds : mediaJob[j] = "running" => mediaJob'[j] = "running"
BY DEF Coalesced, JobStates

\* queue_remote_media_fetch of a row that is there
LEMMA QueueFetchFits ==
    ASSUME MediaInv, NEW i \in MediaIds, Live(i), QueueFetch(i), UNCHANGED overruns
    PROVE  /\ mediaRow' \in [MediaIds -> MediaRow] /\ \A j \in MediaIds : RowFollows(j)
           /\ mediaJob' \in [MediaIds -> JobStates] /\ \A j \in MediaIds : mediaJob[j] = "running" => mediaJob'[j] = "running"
<1>1. mediaRow' = [mediaRow EXCEPT ![i].state = "pending"] /\ mediaJob' = Coalesced(i, mediaJob)
  BY DEF QueueFetch
<1>2. /\ mediaRow' \in [MediaIds -> MediaRow] /\ mediaRow'[i].state = "pending" /\ mediaRow'[i].url = mediaRow[i].url /\ mediaRow'[i].file = mediaRow[i].file
      /\ \A j \in MediaIds \ {i} : mediaRow'[j] = mediaRow[j]
  BY <1>1 DEF MediaInv, RowsTyped, MediaRow
<1>3. \A j \in MediaIds : RowFollows(j)
  BY <1>2 DEF RowFollows, Counts, Live
<1> QED BY <1>1, <1>2, <1>3, CoalescedFits DEF MediaInv, RowsTyped

LEMMA NewRows ==
    /\ \A u \in 0..MaxUrl : Discovered(u) \in MediaRow /\ Discovered(u).state = "pending" /\ Discovered(u).url = u /\ Discovered(u).file = FALSE
    /\ [UnusedRow EXCEPT !.state = "deleted"] \in MediaRow /\ [UnusedRow EXCEPT !.state = "deleted"].state = "deleted"
    /\ UnusedRow \in MediaRow /\ UnusedRow.state = "unused"
    /\ Images \subseteq MediaIds /\ Attachments \subseteq MediaIds /\ \A i \in Attachments : i \notin Images
<1>1. 0 \in 0..MaxUrl
  BY MediaAssumption
<1>2. \A u \in 0..MaxUrl : Discovered(u) \in MediaRow /\ Discovered(u).state = "pending" /\ Discovered(u).url = u /\ Discovered(u).file = FALSE
  BY DEF Discovered, UnusedRow, MediaRow
<1>3. [UnusedRow EXCEPT !.state = "deleted"] \in MediaRow /\ [UnusedRow EXCEPT !.state = "deleted"].state = "deleted"
  BY <1>1 DEF UnusedRow, MediaRow
<1>4. UnusedRow \in MediaRow /\ UnusedRow.state = "unused"
  BY <1>1 DEF UnusedRow, MediaRow
<1> QED BY <1>2, <1>3, <1>4, MediaAssumption DEF MediaIds

LEMMA ReplaceImageKeeps ==
    ASSUME MediaInv, NEW u \in 0..MaxUrl, ReplaceProfileMedia(u)
    PROVE  MediaInv'
<1>1. PICK i \in Images, row \in MediaRow :
         mediaRow' = [mediaRow EXCEPT ![i] = row] /\ row.state \in {"pending", "deleted"} /\ (row.state = "pending" => ~ row.file)
  BY NewRows DEF ReplaceProfileMedia, NextOf
<1>2. /\ mediaRow' \in [MediaIds -> MediaRow] /\ mediaRow'[i] = row /\ \A j \in MediaIds \ {i} : mediaRow'[j] = mediaRow[j]
  BY <1>1, NewRows DEF MediaInv, RowsTyped
<1>3. UNCHANGED <<disk, mediaJob, download, rejectMedia, visitor, overruns>>
  BY DEF ReplaceProfileMedia
<1>4. \A j \in MediaIds : RowFollows(j)
  BY <1>1, <1>2, <1>3, NewRows DEF RowFollows, Counts, Live
<1> QED BY <1>2, <1>3, <1>4, RowStep DEF MediaInv, RowsTyped, VisitorsTyped

LEMMA ReplaceAttachmentsKeeps ==
    ASSUME MediaInv, NEW u \in 0..MaxUrl, ReplaceAttachments(u)
    PROVE  MediaInv'
<1> DEFINE gone == [UnusedRow EXCEPT !.state = "deleted"]
<1>1. PICK i \in Attachments :
         /\ mediaRow[i].state = "unused" /\ mediaJob' = Coalesced(i, mediaJob) /\ UNCHANGED <<disk, download, rejectMedia, visitor, overruns>>
         /\ mediaRow' = [j \in MediaIds |-> IF j = i THEN Discovered(u) ELSE IF j \in Attachments /\ Live(j) THEN gone ELSE mediaRow[j]]
  BY DEF ReplaceAttachments, NextOf
<1>2. gone \in MediaRow /\ gone.state = "deleted" /\ Discovered(u) \in MediaRow /\ Discovered(u).state = "pending" /\ i \in MediaIds /\ i \notin Images
  BY NewRows
<1> HIDE DEF gone
<1>3. mediaRow \in [MediaIds -> MediaRow] /\ mediaJob \in [MediaIds -> JobStates] /\ VisitorsTyped
  BY DEF MediaInv, RowsTyped
<1>4. mediaRow' \in [MediaIds -> MediaRow]
  BY <1>1, <1>2, <1>3
<1>5. ASSUME NEW j \in MediaIds PROVE RowFollows(j)
  <2>1. CASE j = i
    <3>1. mediaRow'[j] = Discovered(u)
      BY <1>1, <2>1
    <3> QED BY <1>1, <1>2, <2>1, <3>1 DEF RowFollows
  <2>2. CASE j # i /\ j \in Attachments /\ Live(j)
    <3>1. mediaRow'[j] = gone
      BY <1>1, <2>2
    <3> QED BY <1>2, <3>1 DEF RowFollows, Counts, Live
  <2>3. CASE j # i /\ ~ (j \in Attachments /\ Live(j))
    <3>1. mediaRow'[j] = mediaRow[j]
      BY <1>1, <2>3
    <3> QED BY <1>1, <3>1 DEF RowFollows, Counts, Live
  <2> QED BY <2>1, <2>2, <2>3
<1>6. mediaJob' \in [MediaIds -> JobStates] /\ \A j \in MediaIds : mediaJob[j] = "running" => mediaJob'[j] = "running"
  BY <1>1, <1>2, <1>3, CoalescedFits
<1> QED BY <1>1, <1>3, <1>4, <1>5, <1>6, RowStep DEF VisitorsTyped

LEMMA ExpiryKeeps ==
    ASSUME MediaInv, NEW i \in MediaIds, CacheExpires(i)
    PROVE  MediaInv'
<1>1. mediaRow' = [mediaRow EXCEPT ![i].stale = TRUE] /\ UNCHANGED <<disk, mediaJob, download, rejectMedia, visitor, overruns>>
  BY DEF CacheExpires
<1>2. /\ mediaRow' \in [MediaIds -> MediaRow] /\ mediaRow'[i].state = mediaRow[i].state /\ mediaRow'[i].url = mediaRow[i].url
      /\ mediaRow'[i].file = mediaRow[i].file /\ \A j \in MediaIds \ {i} : mediaRow'[j] = mediaRow[j]
  BY <1>1 DEF MediaInv, RowsTyped, MediaRow
<1>3. \A j \in MediaIds : RowFollows(j)
  BY <1>1, <1>2 DEF RowFollows, Counts, Live
<1> QED BY <1>1, <1>2, <1>3, RowStep DEF MediaInv, RowsTyped, VisitorsTyped

\* A request moves on.
LEMMA VisitorFits ==
    ASSUME VisitorsTyped, NEW v \in Visitors, NEW row \in VisitorRow, row.id \in MediaIds, visitor' = [visitor EXCEPT ![v] = row]
    PROVE  VisitorsTyped'
<1>1. visitor' \in [Visitors -> VisitorRow] /\ visitor'[v] = row /\ \A w \in Visitors \ {v} : visitor'[w] = visitor[w]
  BY DEF VisitorsTyped
<1> QED BY <1>1 DEF VisitorsTyped

LEMMA AnswerFits ==
    ASSUME VisitorsTyped, NEW v \in Visitors, visitor[v].stage # "idle",
           NEW stage \in {"queued", "waiting", "served", "missing", "bad_gateway", "unavailable"}, Answer(v, stage)
    PROVE  VisitorsTyped'
<1> DEFINE row == [visitor[v] EXCEPT !.stage = stage]
<1>1. visitor[v] \in VisitorRow /\ visitor[v].id \in MediaIds
  BY DEF VisitorsTyped
<1>2. row \in VisitorRow /\ row.id = visitor[v].id
  BY <1>1 DEF VisitorRow
<1>3. visitor' = [visitor EXCEPT ![v] = row]
  BY DEF Answer
<1> HIDE DEF row
<1> QED BY <1>1, <1>2, <1>3, VisitorFits

LEMMA VisitKeeps ==
    ASSUME MediaInv, NEW v \in Visitors, NEW i \in MediaIds, Visit(v, i)
    PROVE  MediaInv'
<1> DEFINE stage == IF ~ Live(i) THEN "missing" ELSE IF Readable(i) THEN "served"
                    ELSE IF mediaRow[i].state = "failed" THEN "bad_gateway" ELSE "asked"
           row == [id |-> i, stage |-> stage]
           refresh == Live(i) /\ Readable(i) /\ mediaRow[i].stale
<1>1. visitor' = [visitor EXCEPT ![v] = row] /\ UNCHANGED <<disk, download, rejectMedia, overruns>>
  BY DEF Visit
<1>2. IF refresh THEN QueueFetch(i) ELSE UNCHANGED <<mediaRow, mediaJob>>
  BY DEF Visit
<1>3. row \in VisitorRow /\ row.id = i
  BY DEF VisitorRow
<1>4. refresh => Live(i)
  OBVIOUS
<1> HIDE DEF row, stage, refresh
<1>5. VisitorsTyped'
  BY <1>1, <1>3, VisitorFits DEF MediaInv
<1>6. CASE refresh
  <2>1. Live(i) /\ QueueFetch(i)
    BY <1>2, <1>4, <1>6
  <2> QED BY <1>1, <1>5, <2>1, QueueFetchFits, RowStep
<1>7. CASE ~ refresh
  <2>1. UNCHANGED <<mediaRow, mediaJob>>
    BY <1>2, <1>7
  <2> QED BY <1>1, <1>5, <2>1, SameRows, RowStep DEF MediaInv, RowsTyped
<1> QED BY <1>6, <1>7

LEMMA VisitQueuesKeeps ==
    ASSUME MediaInv, NEW v \in Visitors, VisitQueues(v)
    PROVE  MediaInv'
<1> DEFINE i == visitor[v].id
<1>1. visitor[v].stage = "asked" /\ UNCHANGED <<disk, download, rejectMedia, overruns>>
      /\ IF Live(i) THEN QueueFetch(i) /\ Answer(v, "queued") ELSE Answer(v, "missing") /\ UNCHANGED <<mediaRow, mediaJob>>
  BY DEF VisitQueues
<1>2. VisitorsTyped' /\ i \in MediaIds
  BY <1>1, AnswerFits DEF MediaInv, VisitorsTyped
<1>3. CASE Live(i)
  <2> HIDE DEF i
  <2> QED BY <1>1, <1>2, <1>3, QueueFetchFits, RowStep
<1>4. CASE ~ Live(i)
  <2> HIDE DEF i
  <2> QED BY <1>1, <1>2, <1>4, SameRows, RowStep DEF MediaInv, RowsTyped
<1> QED BY <1>3, <1>4

LEMMA WaitKeeps ==
    ASSUME MediaInv, NEW v \in Visitors, Wait(v)
    PROVE  MediaInv'
<1> DEFINE i == visitor[v].id
           stage == IF ~ Live(i) THEN "missing" ELSE IF Readable(i) THEN "served"
                    ELSE IF mediaRow[i].state = "failed" THEN "bad_gateway" ELSE "unavailable"
<1>1. visitor[v].stage = "waiting" /\ Answer(v, stage) /\ UNCHANGED <<mediaRow, disk, mediaJob, download, rejectMedia, overruns>>
  BY DEF Wait
<1>2. stage \in {"queued", "waiting", "served", "missing", "bad_gateway", "unavailable"}
  OBVIOUS
<1>3. VisitorsTyped'
  BY <1>1, <1>2, AnswerFits DEF MediaInv, Answer
<1> QED BY <1>1, <1>3, SameRows, RowStep DEF MediaInv, RowsTyped

\* The execution f moves, and keeps its job and its claim.
LEMMA ExecutionMoves ==
    ASSUME MediaInv, NEW f \in MediaFetchers, NEW row \in DownloadRow, download' = [download EXCEPT ![f] = row], Busy(f),
           row.id = download[f].id, row.held <=> download[f].held, UNCHANGED <<mediaJob, visitor, overruns>>
    PROVE  /\ DownloadsTyped' /\ VisitorsTyped' /\ ClaimsHold'
           /\ download'[f] = row /\ \A g \in MediaFetchers \ {f} : download'[g] = download[g]
<1>1. download' \in [MediaFetchers -> DownloadRow] /\ download'[f] = row /\ \A g \in MediaFetchers \ {f} : download'[g] = download[g]
  BY DEF MediaInv, DownloadsTyped
<1>2. DownloadsTyped' /\ VisitorsTyped'
  BY <1>1 DEF MediaInv, DownloadsTyped, VisitorsTyped, Busy
<1>3. \A g \in MediaFetchers : Busy(g)' => Busy(g) /\ download'[g].id = download[g].id /\ (download'[g].held <=> download[g].held)
  BY <1>1 DEF Busy
<1>4. ClaimsHold'
  BY <1>3, ClaimsStay
<1> QED BY <1>1, <1>2, <1>4

\* A step of one execution that only ends its stage.
LEMMA StageFits ==
    ASSUME MediaInv, NEW f \in MediaFetchers, Busy(f),
           NEW stage \in {"selected", "fetched", "written", "error", "changed", "done"}, Stage(f, stage), UNCHANGED <<mediaJob, visitor, overruns>>
    PROVE  /\ DownloadsTyped' /\ VisitorsTyped' /\ ClaimsHold'
           /\ download'[f].stage = stage /\ download'[f].id = download[f].id /\ download'[f].url = download[f].url
           /\ \A g \in MediaFetchers \ {f} : download'[g] = download[g]
<1> DEFINE row == [download[f] EXCEPT !.stage = stage]
<1>1. download[f] \in DownloadRow
  BY DEF MediaInv, DownloadsTyped
<1>2. row \in DownloadRow /\ row.id = download[f].id /\ (row.held <=> download[f].held) /\ row.stage = stage /\ row.url = download[f].url
  BY <1>1 DEF DownloadRow
<1>3. download' = [download EXCEPT ![f] = row]
  BY DEF Stage
<1> HIDE DEF row
<1>4. /\ DownloadsTyped' /\ VisitorsTyped' /\ ClaimsHold'
      /\ download'[f] = row /\ \A g \in MediaFetchers \ {f} : download'[g] = download[g]
  BY <1>2, <1>3, ExecutionMoves
<1> QED BY <1>2, <1>4

LEMMA StartKeeps ==
    ASSUME MediaInv, NEW f \in MediaFetchers, NEW i \in MediaIds, IdleFetcher(f), mediaJob[i] = "queued", StartFetch(f, i),
           mediaJob' = [mediaJob EXCEPT ![i] = "running"], UNCHANGED <<mediaRow, disk, rejectMedia, overruns>>, VisitorsTyped'
    PROVE  MediaInv'
<1> DEFINE row == [id |-> i, url |-> 0, stage |-> "waiting", held |-> TRUE]
<1>1. 0 \in 0..MaxUrl
  BY MediaAssumption
<1>2. row \in DownloadRow /\ row.id = i /\ row.stage = "waiting" /\ row.held
  BY <1>1 DEF DownloadRow
<1>3. download' = [download EXCEPT ![f] = row] /\ ~ Busy(f)
  BY DEF StartFetch, IdleFetcher, Busy
<1> HIDE DEF row
<1>4. download' \in [MediaFetchers -> DownloadRow] /\ download'[f] = row /\ \A g \in MediaFetchers \ {f} : download'[g] = download[g]
  BY <1>2, <1>3 DEF MediaInv, DownloadsTyped
<1>5. mediaJob' \in [MediaIds -> JobStates] /\ mediaJob'[i] = "running" /\ \A j \in MediaIds \ {i} : mediaJob'[j] = mediaJob[j]
  BY DEF MediaInv, RowsTyped, JobStates
<1>6. DownloadsTyped'
  BY <1>2, <1>4 DEF MediaInv, DownloadsTyped, Busy
<1>7. \A g \in MediaFetchers \ {f} : Busy(g)' => Busy(g) /\ (download[g].held => download[g].id # i) /\ download[g].id \in MediaIds
  BY <1>4 DEF MediaInv, ClaimsHold, DownloadsTyped, Busy
<1>8. ClaimsHold'
  BY <1>2, <1>4, <1>5, <1>7 DEF MediaInv, ClaimsHold
<1>9. \A g \in MediaFetchers : DownloadFollows(g)
  BY <1>2, <1>4 DEF DownloadFollows, Fetching
<1>10. FilesFit'
  BY <1>9, SameRows, FilesStay
<1> QED BY <1>5, <1>6, <1>8, <1>10 DEF MediaInv, RowsTyped

LEMMA VisitClaimsKeeps ==
    ASSUME MediaInv, NEW v \in Visitors, VisitClaims(v)
    PROVE  MediaInv'
<1> DEFINE i == visitor[v].id
<1>1. /\ visitor[v].stage = "queued" /\ Answer(v, "waiting") /\ UNCHANGED <<mediaRow, disk, rejectMedia, overruns>>
      /\ IF mediaJob[i] = "queued"
         THEN \E f \in MediaFetchers : IdleFetcher(f) /\ StartFetch(f, i) /\ mediaJob' = [mediaJob EXCEPT ![i] = "running"]
         ELSE UNCHANGED <<download, mediaJob>>
  BY DEF VisitClaims
<1>2. VisitorsTyped' /\ i \in MediaIds
  BY <1>1, AnswerFits DEF MediaInv, VisitorsTyped
<1> HIDE DEF i
<1>3. CASE mediaJob[i] = "queued"
  BY <1>1, <1>2, <1>3, StartKeeps
<1>4. CASE mediaJob[i] # "queued"
  BY <1>1, <1>2, <1>4, SameRows, RowStep DEF MediaInv, RowsTyped
<1> QED BY <1>3, <1>4

LEMMA SelectKeeps ==
    ASSUME MediaInv, NEW f \in MediaFetchers, SelectMedia(f)
    PROVE  MediaInv'
<1> DEFINE i == download[f].id
           stage == IF Live(i) /\ ~ rejectMedia THEN "selected" ELSE "error"
           row == [download[f] EXCEPT !.url = mediaRow[i].url, !.stage = stage]
<1>1. /\ download[f].stage = "waiting" /\ download' = [download EXCEPT ![f] = row]
      /\ UNCHANGED <<mediaRow, disk, mediaJob, rejectMedia, visitor, overruns>>
  BY DEF SelectMedia
<1>2. download[f] \in DownloadRow /\ i \in MediaIds /\ Busy(f) /\ mediaRow[i] \in MediaRow
  BY <1>1 DEF MediaInv, DownloadsTyped, RowsTyped, Busy
<1>3. mediaRow[i].url \in 0..MaxUrl /\ stage \in {"selected", "error"} /\ (stage = "selected" => Live(i))
  BY <1>2 DEF MediaRow
<1> HIDE DEF stage
<1>4. row \in DownloadRow /\ row.id = i /\ (row.held <=> download[f].held) /\ row.url = mediaRow[i].url /\ row.stage = stage
  BY <1>2, <1>3 DEF DownloadRow
<1> HIDE DEF row
<1>5. /\ DownloadsTyped' /\ VisitorsTyped' /\ ClaimsHold'
      /\ download'[f] = row /\ \A g \in MediaFetchers \ {f} : download'[g] = download[g]
  BY <1>1, <1>2, <1>4, ExecutionMoves
<1> HIDE DEF i
<1>6. \A j \in MediaIds : Counts(j)' <=> Counts(j)
  BY <1>1 DEF Counts, Live
<1>7. \A g \in MediaFetchers : Fetching(g)' => (g = f /\ stage = "selected") \/ (g # f /\ Fetching(g) /\ download'[g] = download[g] /\ download[g].id \in MediaIds)
  BY <1>3, <1>4, <1>5 DEF Fetching, MediaInv, DownloadsTyped, Busy
<1>8. \A g \in MediaFetchers : Fetching(g)' => mediaRow'[download'[g].id].state # "unused"
  BY <1>1, <1>3, <1>4, <1>5, <1>7 DEF MediaInv, FilesFit, Live
<1>9. ASSUME NEW g \in MediaFetchers, Fetching(g)', Counts(download[g].id)' PROVE download'[g].url = mediaRow'[download'[g].id].url
  <2>1. CASE g = f
    BY <1>1, <1>4, <1>5, <2>1
  <2>2. CASE g # f
    <3>1. Fetching(g) /\ download'[g] = download[g] /\ Counts(download[g].id)
      BY <1>1, <1>7, <1>9, <2>2 DEF Counts, Live
    <3> QED BY <1>1, <3>1 DEF MediaInv, FilesFit
  <2> QED BY <2>1, <2>2
<1>10. \A g \in MediaFetchers : download'[g].stage = "written" => g # f /\ download'[g] = download[g]
  BY <1>3, <1>4, <1>5
<1>11. FilesFit'
  BY <1>1, <1>6, <1>8, <1>9, <1>10 DEF MediaInv, FilesFit
<1> QED BY <1>1, <1>5, <1>11 DEF MediaInv, RowsTyped

\* Two executions of one job are out of the question while no claim was outlived.
LEMMA AloneOnRow ==
    ASSUME MediaInv, overruns = 0, NEW f \in MediaFetchers, NEW g \in MediaFetchers, Busy(f), Busy(g), download[f].id = download[g].id
    PROVE  f = g
BY DEF MediaInv, ClaimsHold

LEMMA WriteKeeps ==
    ASSUME MediaInv, NEW f \in MediaFetchers, WriteFile(f)
    PROVE  MediaInv'
<1> DEFINE i == download[f].id
           u == download[f].url
<1>1. /\ download[f].stage = "fetched" /\ Stage(f, "written") /\ disk' = [disk EXCEPT ![i] = u]
      /\ UNCHANGED <<mediaRow, mediaJob, rejectMedia, visitor, overruns>>
  BY DEF WriteFile
<1>2. Busy(f) /\ Fetching(f) /\ i \in MediaIds /\ u \in 0..MaxUrl
  BY <1>1 DEF MediaInv, DownloadsTyped, DownloadRow, Busy, Fetching
<1>3. /\ DownloadsTyped' /\ VisitorsTyped' /\ ClaimsHold'
      /\ download'[f].stage = "written" /\ download'[f].id = i /\ download'[f].url = u
      /\ \A g \in MediaFetchers \ {f} : download'[g] = download[g]
  BY <1>1, <1>2, StageFits
<1> HIDE DEF i, u
<1>4. disk' \in [MediaIds -> 0..MaxUrl] /\ disk'[i] = u /\ \A j \in MediaIds \ {i} : disk'[j] = disk[j]
  BY <1>1, <1>2 DEF MediaInv, RowsTyped
<1>5. mediaRow[i].state # "unused" /\ (Counts(i) => u = mediaRow[i].url)
  BY <1>2 DEF MediaInv, FilesFit, i, u
<1>6. \A j \in MediaIds : Counts(j)' <=> Counts(j)
  BY <1>1 DEF Counts, Live
<1>7. \A g \in MediaFetchers : Fetching(g)' => Fetching(g) /\ download'[g].id = download[g].id /\ download'[g].url = download[g].url
  BY <1>2, <1>3 DEF Fetching, i, u
<1>8. ASSUME NEW g \in MediaFetchers, Fetching(g)', Counts(download[g].id)' PROVE download'[g].url = mediaRow'[download'[g].id].url
  <2>1. Fetching(g) /\ download'[g].id = download[g].id /\ download'[g].url = download[g].url /\ Counts(download[g].id)
    BY <1>1, <1>7, <1>8 DEF Counts, Live
  <2> QED BY <1>1, <2>1 DEF MediaInv, FilesFit
<1>9. ASSUME NEW g \in MediaFetchers, download'[g].stage = "written", download'[g].id \in Images, overruns' = 0
      PROVE  disk'[download'[g].id] = download'[g].url
  <2>1. CASE g = f
    BY <1>3, <1>4, <2>1
  <2>2. CASE g # f
    <3>1. download'[g] = download[g] /\ download[g].stage = "written" /\ Busy(g) /\ download[g].id \in MediaIds /\ overruns = 0
      BY <1>1, <1>3, <1>9, <2>2 DEF MediaInv, DownloadsTyped, Busy
    <3>2. download[g].id # i
      BY <1>2, <2>2, <3>1, AloneOnRow DEF i
    <3> QED BY <1>4, <1>9, <3>1, <3>2 DEF MediaInv, FilesFit
  <2> QED BY <2>1, <2>2
<1>10. \A j \in MediaIds : mediaRow'[j].state = "unused" => disk'[j] = 0
  BY <1>1, <1>4, <1>5 DEF MediaInv, FilesFit
<1>11. \A j \in MediaIds : Counts(j)' /\ disk'[j] # 0 => disk'[j] = mediaRow'[j].url
  BY <1>1, <1>4, <1>5, <1>6 DEF MediaInv, FilesFit
<1>12. \A g \in MediaFetchers : Fetching(g)' => mediaRow'[download'[g].id].state # "unused"
  BY <1>1, <1>7 DEF MediaInv, FilesFit
<1>13. FilesFit'
  BY <1>8, <1>9, <1>10, <1>11, <1>12 DEF FilesFit
<1> QED BY <1>1, <1>3, <1>4, <1>13 DEF MediaInv, RowsTyped

\* An execution ends a stage, and fetches and files stay as they are.
LEMMA EndStageKeeps ==
    ASSUME MediaInv, NEW f \in MediaFetchers, Busy(f), NEW stage \in {"fetched", "error", "changed", "done"}, Stage(f, stage),
           stage = "fetched" => Fetching(f),
           UNCHANGED <<disk, mediaJob, visitor, overruns>>, mediaRow' \in [MediaIds -> MediaRow], \A i \in MediaIds : RowFollows(i)
    PROVE  MediaInv'
<1>1. /\ DownloadsTyped' /\ VisitorsTyped' /\ ClaimsHold'
      /\ download'[f].stage = stage /\ download'[f].id = download[f].id /\ download'[f].url = download[f].url
      /\ \A g \in MediaFetchers \ {f} : download'[g] = download[g]
  BY StageFits
<1>2. \A g \in MediaFetchers : DownloadFollows(g)
  BY <1>1 DEF DownloadFollows, Fetching
<1>3. FilesFit'
  BY <1>2, FilesStay
<1> QED BY <1>1, <1>3 DEF MediaInv, RowsTyped

LEMMA CachedRow ==
    ASSUME MediaInv, NEW i \in MediaIds, mediaRow' = Cached(i)
    PROVE  /\ mediaRow' \in [MediaIds -> MediaRow] /\ mediaRow'[i].state = "ready" /\ mediaRow'[i].url = mediaRow[i].url
           /\ \A j \in MediaIds \ {i} : mediaRow'[j] = mediaRow[j]
BY DEF MediaInv, RowsTyped, MediaRow, Cached

LEMMA PublishAttachmentKeeps ==
    ASSUME MediaInv, NEW f \in MediaFetchers, PublishAttachment(f)
    PROVE  MediaInv'
<1> DEFINE i == download[f].id
<1>1. /\ download[f].stage = "written" /\ i \in Attachments /\ Stage(f, "done") /\ mediaRow' = (IF Live(i) THEN Cached(i) ELSE mediaRow)
      /\ UNCHANGED <<disk, mediaJob, rejectMedia, visitor, overruns>>
  BY DEF PublishAttachment
<1>2. Busy(f) /\ i \in MediaIds /\ i \notin Images
  BY <1>1, NewRows DEF Busy
<1> HIDE DEF i
<1>3. mediaRow' \in [MediaIds -> MediaRow] /\ \A j \in MediaIds : RowFollows(j)
  <2>1. CASE Live(i)
    <3>1. /\ mediaRow' \in [MediaIds -> MediaRow] /\ mediaRow'[i].state = "ready" /\ mediaRow'[i].url = mediaRow[i].url
          /\ \A j \in MediaIds \ {i} : mediaRow'[j] = mediaRow[j]
      BY <1>1, <1>2, <2>1, CachedRow
    <3> QED BY <1>1, <1>2, <2>1, <3>1 DEF RowFollows, Counts, Live
  <2>2. CASE ~ Live(i)
    BY <1>1, <2>2, SameRows DEF MediaInv, RowsTyped
  <2> QED BY <2>1, <2>2
<1> QED BY <1>1, <1>2, <1>3, EndStageKeeps

\* mark_remote_profile_media_ready: the row still has the address of the file.
LEMMA PublishImageKeeps ==
    ASSUME MediaInv, NEW f \in MediaFetchers, PublishImage(f)
    PROVE  MediaInv'
<1> DEFINE i == download[f].id
           published == Published(i, download[f].url)
<1>1. /\ download[f].stage = "written" /\ i \in Images /\ mediaRow' = (IF published THEN Cached(i) ELSE mediaRow)
      /\ Stage(f, IF published THEN "done" ELSE "changed") /\ UNCHANGED <<disk, mediaJob, rejectMedia, visitor, overruns>>
  BY DEF PublishImage
<1>2. Busy(f) /\ i \in MediaIds
  BY <1>1, NewRows DEF Busy
<1>3. CASE ~ published
  <2>1. mediaRow' = mediaRow /\ Stage(f, "changed")
    BY <1>1, <1>3
  <2> HIDE DEF i, published
  <2> QED BY <1>1, <1>2, <2>1, SameRows, EndStageKeeps DEF MediaInv, RowsTyped
<1>4. CASE published
  <2>1. mediaRow' = Cached(i) /\ Stage(f, "done") /\ Live(i) /\ mediaRow[i].url = download[f].url
    BY <1>1, <1>4 DEF Published
  <2> HIDE DEF published, i
  <2>2. /\ mediaRow' \in [MediaIds -> MediaRow] /\ mediaRow'[i].state = "ready" /\ mediaRow'[i].url = mediaRow[i].url
        /\ \A j \in MediaIds \ {i} : mediaRow'[j] = mediaRow[j]
    BY <1>2, <2>1, CachedRow
  <2>3. /\ DownloadsTyped' /\ VisitorsTyped' /\ ClaimsHold' /\ download'[f].stage = "done"
        /\ \A g \in MediaFetchers \ {f} : download'[g] = download[g]
    BY <1>1, <1>2, <2>1, StageFits
  <2>4. overruns = 0 => disk[i] = mediaRow[i].url
    BY <1>1, <2>1 DEF MediaInv, FilesFit, i
  <2>5. \A j \in MediaIds \ {i} : Counts(j)' <=> Counts(j)
    BY <1>1, <2>2 DEF Counts, Live
  <2>6. \A g \in MediaFetchers : Fetching(g)' => g # f /\ Fetching(g) /\ Busy(g) /\ download'[g] = download[g] /\ download[g].id \in MediaIds
    BY <2>3 DEF Fetching, MediaInv, DownloadsTyped, Busy
  <2>7. \A g \in MediaFetchers : Fetching(g)' => mediaRow'[download'[g].id].state # "unused"
    BY <2>2, <2>6 DEF MediaInv, FilesFit
  <2>8. \A j \in MediaIds : mediaRow'[j].state = "unused" => disk'[j] = 0
    BY <1>1, <2>2 DEF MediaInv, FilesFit
  <2>9. ASSUME NEW j \in MediaIds, Counts(j)', disk'[j] # 0 PROVE disk'[j] = mediaRow'[j].url
    <3>1. CASE j = i
      BY <1>1, <2>2, <2>4, <2>9, <3>1 DEF Counts
    <3>2. CASE j # i
      BY <1>1, <2>2, <2>5, <2>9, <3>2 DEF MediaInv, FilesFit
    <3> QED BY <3>1, <3>2
  <2>10. ASSUME NEW g \in MediaFetchers, Fetching(g)', Counts(download[g].id)' PROVE download'[g].url = mediaRow'[download'[g].id].url
    <3> DEFINE j == download[g].id
    <3>1. g # f /\ Fetching(g) /\ Busy(g) /\ download'[g] = download[g] /\ j \in MediaIds
      BY <2>6, <2>10
    <3>2. j # i
      <4> SUFFICES ASSUME j = i PROVE FALSE
        OBVIOUS
      <4>1. overruns = 0
        BY <1>1, <2>10, <3>1 DEF Counts
      <4> QED BY <1>2, <3>1, <4>1, AloneOnRow DEF i
    <3>3. Counts(j)
      BY <1>1, <2>2, <2>10, <3>1, <3>2 DEF Counts, Live
    <3> QED BY <2>2, <3>1, <3>2, <3>3 DEF MediaInv, FilesFit
  <2>11. \A g \in MediaFetchers : download'[g].stage = "written" => Fetching(g)'
    BY DEF Fetching
  <2>12. \A g \in MediaFetchers : download'[g].stage = "written" /\ download'[g].id \in Images /\ overruns' = 0 => disk'[download'[g].id] = download'[g].url
    BY <1>1, <2>6, <2>11 DEF MediaInv, FilesFit
  <2>13. FilesFit'
    BY <2>7, <2>8, <2>9, <2>10, <2>12 DEF FilesFit
  <2> QED BY <1>1, <2>2, <2>3, <2>13 DEF MediaInv, RowsTyped
<1> QED BY <1>3, <1>4

LEMMA FetchAndFailKeep ==
    ASSUME MediaInv, NEW f \in MediaFetchers, MarkMediaFailed(f) \/ \E fetched \in BOOLEAN : Fetch(f, fetched)
    PROVE  MediaInv'
<1>1. CASE MarkMediaFailed(f)
  <2> DEFINE i == download[f].id
  <2>1. /\ download[f].stage = "error" /\ Stage(f, "changed") /\ mediaRow' = (IF Live(i) THEN [mediaRow EXCEPT ![i].state = "failed"] ELSE mediaRow)
        /\ UNCHANGED <<disk, mediaJob, rejectMedia, visitor, overruns>>
    BY <1>1 DEF MarkMediaFailed, Failed
  <2>2. Busy(f) /\ i \in MediaIds
    BY <2>1 DEF MediaInv, DownloadsTyped, Busy
  <2> HIDE DEF i
  <2>3. mediaRow' \in [MediaIds -> MediaRow] /\ \A j \in MediaIds : RowFollows(j)
    <3>1. CASE Live(i)
      <4>1. /\ mediaRow' \in [MediaIds -> MediaRow] /\ mediaRow'[i].state = "failed" /\ mediaRow'[i].url = mediaRow[i].url /\ mediaRow'[i].file = mediaRow[i].file
            /\ \A j \in MediaIds \ {i} : mediaRow'[j] = mediaRow[j]
        BY <2>1, <2>2, <3>1 DEF MediaInv, RowsTyped, MediaRow
      <4> QED BY <2>1, <2>2, <3>1, <4>1 DEF RowFollows, Counts, Live
    <3>2. CASE ~ Live(i)
      BY <2>1, <3>2, SameRows DEF MediaInv, RowsTyped
    <3> QED BY <3>1, <3>2
  <2> QED BY <2>1, <2>2, <2>3, EndStageKeeps
<1>2. ASSUME NEW fetched \in BOOLEAN, Fetch(f, fetched) PROVE MediaInv'
  <2>1. /\ download[f].stage = "selected" /\ (Stage(f, "fetched") \/ Stage(f, "error"))
        /\ UNCHANGED <<mediaRow, disk, mediaJob, rejectMedia, visitor, overruns>>
    BY <1>2 DEF Fetch
  <2>2. Busy(f) /\ Fetching(f)
    BY <2>1 DEF Busy, Fetching
  <2> QED BY <2>1, <2>2, SameRows, EndStageKeeps DEF MediaInv, RowsTyped
<1> QED BY <1>1, <1>2

LEMMA FinishFetchKeeps ==
    ASSUME MediaInv, NEW f \in MediaFetchers, NEW permanent \in BOOLEAN, FinishFetch(f, permanent)
    PROVE  MediaInv'
<1> DEFINE i == download[f].id
           state == IF download[f].stage = "done" \/ permanent THEN "none" ELSE "queued"
<1>1. /\ download[f].stage \in {"done", "changed"} /\ download' = [download EXCEPT ![f] = IdleDownload]
      /\ mediaJob' = (IF ~ download[f].held THEN mediaJob ELSE [mediaJob EXCEPT ![i] = state])
      /\ UNCHANGED <<mediaRow, disk, rejectMedia, visitor, overruns>>
  BY DEF FinishFetch
<1>2. Busy(f) /\ i \in MediaIds /\ state \in JobStates
  BY <1>1 DEF MediaInv, DownloadsTyped, Busy, JobStates
<1> HIDE DEF state
<1>3. 0 \in 0..MaxUrl
  BY MediaAssumption
<1>4. IdleDownload \in DownloadRow /\ IdleDownload.stage = "idle"
  BY <1>3 DEF IdleDownload, DownloadRow
<1>5. download' \in [MediaFetchers -> DownloadRow] /\ download'[f] = IdleDownload /\ \A g \in MediaFetchers \ {f} : download'[g] = download[g]
  BY <1>1, <1>4 DEF MediaInv, DownloadsTyped
<1>6. mediaJob' \in [MediaIds -> JobStates] /\ \A j \in MediaIds : (download[f].held => j # i) => mediaJob'[j] = mediaJob[j]
  BY <1>1, <1>2 DEF MediaInv, RowsTyped
<1>7. \A g \in MediaFetchers : Busy(g)' => g # f /\ Busy(g) /\ download'[g] = download[g] /\ download[g].id \in MediaIds
  BY <1>4, <1>5 DEF Busy, MediaInv, DownloadsTyped
<1>8. DownloadsTyped'
  BY <1>5, <1>7 DEF DownloadsTyped
<1>9. ASSUME NEW g \in MediaFetchers, Busy(g)', download'[g].held PROVE mediaJob'[download'[g].id] = "running"
  <2>1. mediaJob[download[g].id] = "running" /\ (download[f].held => download[g].id # i)
    BY <1>2, <1>7, <1>9 DEF MediaInv, ClaimsHold
  <2> QED BY <1>6, <1>7, <1>9, <2>1
<1>10. ClaimsHold'
  BY <1>1, <1>7, <1>9 DEF MediaInv, ClaimsHold
<1>11. \A g \in MediaFetchers : DownloadFollows(g)
  BY <1>4, <1>5 DEF DownloadFollows, Fetching
<1>12. FilesFit'
  BY <1>1, <1>11, SameRows, FilesStay
<1> QED BY <1>1, <1>6, <1>8, <1>10, <1>12 DEF MediaInv, RowsTyped, VisitorsTyped

LEMMA OutliveKeeps ==
    ASSUME MediaInv, NEW f \in MediaFetchers, OutliveClaim(f)
    PROVE  MediaInv'
<1> DEFINE i == download[f].id
<1>1. /\ download[f].held /\ Busy(f) /\ overruns' = overruns + 1 /\ download' = [download EXCEPT ![f].held = FALSE]
      /\ mediaJob' = [mediaJob EXCEPT ![i] = "queued"] /\ UNCHANGED <<mediaRow, disk, rejectMedia, visitor>>
  BY DEF OutliveClaim, Busy
<1>2. overruns \in Nat /\ overruns' \in Nat /\ overruns' # 0
  BY <1>1 DEF MediaInv, RowsTyped
<1>3. /\ download' \in [MediaFetchers -> DownloadRow] /\ download'[f].held = FALSE /\ download'[f].id = i
      /\ download'[f].url = download[f].url /\ download'[f].stage = download[f].stage
      /\ \A g \in MediaFetchers \ {f} : download'[g] = download[g]
  BY <1>1 DEF MediaInv, DownloadsTyped, DownloadRow
<1>4. i \in MediaIds /\ \A g \in MediaFetchers : Busy(g) => download[g].id \in MediaIds
  BY <1>1 DEF MediaInv, DownloadsTyped
<1>5. mediaJob' \in [MediaIds -> JobStates] /\ \A j \in MediaIds \ {i} : mediaJob'[j] = mediaJob[j]
  BY <1>1, <1>4 DEF MediaInv, RowsTyped, JobStates
<1>6. DownloadsTyped'
  BY <1>3, <1>4 DEF DownloadsTyped, Busy
<1>7. \A g \in MediaFetchers : Busy(g)' /\ download'[g].held => g # f /\ Busy(g) /\ download'[g] = download[g] /\ download[g].held
  BY <1>3 DEF Busy
<1>8. ASSUME NEW g \in MediaFetchers, Busy(g)', download'[g].held PROVE mediaJob'[download'[g].id] = "running"
  <2>1. mediaJob[download[g].id] = "running" /\ download[g].id # i /\ download[g].id \in MediaIds
    BY <1>1, <1>4, <1>7, <1>8 DEF MediaInv, ClaimsHold
  <2> QED BY <1>5, <1>7, <1>8, <2>1
<1>9. ClaimsHold'
  BY <1>2, <1>7, <1>8 DEF MediaInv, ClaimsHold
<1>10. \A g \in MediaFetchers : DownloadFollows(g)
  BY <1>3 DEF DownloadFollows, Fetching
<1>11. \A j \in MediaIds : RowFollows(j)
  BY <1>1, <1>2 DEF RowFollows, Counts, Live
<1>12. FilesFit'
  BY <1>1, <1>2, <1>10, <1>11, FilesStay
<1> QED BY <1>1, <1>2, <1>5, <1>6, <1>9, <1>12 DEF MediaInv, RowsTyped, VisitorsTyped

LEMMA MediaStepKeeps ==
    ASSUME MediaInv, MediaNext
    PROVE  MediaInv'
<1>1. CASE QueueProfileFetches
  <2>1. PICK i \in Images : Live(i) /\ QueueFetch(i) /\ UNCHANGED <<disk, download, rejectMedia, visitor, overruns>>
    BY <1>1 DEF QueueProfileFetches
  <2>2. i \in MediaIds /\ VisitorsTyped'
    BY <2>1, NewRows DEF MediaInv, VisitorsTyped
  <2> QED BY <2>1, <2>2, QueueFetchFits, RowStep
<1>2. CASE SetRejectMedia
  BY <1>2, SameRows, RowStep DEF SetRejectMedia, MediaInv, RowsTyped, VisitorsTyped
<1>3. ASSUME NEW v \in Visitors, NEW i \in MediaIds, VisitImage(v, i) \/ VisitAttachment(v, i) PROVE MediaInv'
  BY <1>3, VisitKeeps DEF VisitImage, VisitAttachment
<1>4. ASSUME NEW v \in Visitors, WaitForImage(v) \/ WaitForAttachment(v) PROVE MediaInv'
  BY <1>4, WaitKeeps DEF WaitForImage, WaitForAttachment
<1>5. ASSUME NEW f \in MediaFetchers, NEW i \in MediaIds, ClaimFetch(f, i) PROVE MediaInv'
  BY <1>5, StartKeeps DEF ClaimFetch, MediaInv, VisitorsTyped
<1> QED BY <1>1, <1>2, <1>3, <1>4, <1>5, ReplaceImageKeeps, ReplaceAttachmentsKeeps, ExpiryKeeps, VisitQueuesKeeps, VisitClaimsKeeps,
            SelectKeeps, WriteKeeps, PublishImageKeeps, PublishAttachmentKeeps, FetchAndFailKeep, FinishFetchKeeps, OutliveKeeps DEF MediaNext

\* What is served is what the row advertises: whatever address an actor gets
\* while its image is fetched, no file of another address is let through, as
\* long as no execution outlives its claim; and an attachment is right even then
\* (replace_remote_profile_media, mark_remote_profile_media_ready).
THEOREM ServedMediaIsAdvertised == MediaSpec => []MediaSafe
<1>1. MediaInit => MediaInv
  <2> SUFFICES ASSUME MediaInit PROVE MediaInv
    OBVIOUS
  <2>1. 0 \in 0..MaxUrl
    BY MediaAssumption
  <2>2. \A f \in MediaFetchers : download[f] = IdleDownload /\ IdleDownload \in DownloadRow /\ IdleDownload.stage = "idle"
    BY <2>1 DEF MediaInit, IdleDownload, DownloadRow
  <2>3. DownloadsTyped
    BY <2>2 DEF MediaInit, DownloadsTyped, Busy
  <2>4. VisitorsTyped
    BY DEF MediaInit, VisitorsTyped, VisitorRow
  <2>5. RowsTyped
    BY <2>1, NewRows DEF MediaInit, RowsTyped, JobStates
  <2>6. ClaimsHold
    BY <2>2 DEF ClaimsHold, Busy
  <2>7. FilesFit
    BY <2>2 DEF MediaInit, FilesFit, Fetching
  <2> QED BY <2>3, <2>4, <2>5, <2>6, <2>7 DEF MediaInv
<1>2. MediaInv /\ [MediaNext]_media_vars => MediaInv'
  <2> SUFFICES ASSUME MediaInv, [MediaNext]_media_vars PROVE MediaInv'
    OBVIOUS
  <2>1. CASE UNCHANGED media_vars
    BY <2>1, SameRows, RowStep DEF media_vars, MediaInv, RowsTyped, VisitorsTyped
  <2> QED BY <2>1, MediaStepKeeps
<1>3. MediaInv => MediaSafe
  <2> SUFFICES ASSUME MediaInv PROVE MediaSafe
    OBVIOUS
  <2>1. \A f \in MediaFetchers : download[f].stage \in {"idle", "waiting", "selected", "fetched", "written", "error", "changed", "done"}
    BY DEF MediaInv, DownloadsTyped, DownloadRow
  <2>2. \A v \in Visitors : visitor[v].stage \in {"idle", "asked", "queued", "waiting", "served", "missing", "bad_gateway", "unavailable"}
    BY DEF MediaInv, VisitorsTyped, VisitorRow
  <2>3. ServedIsAdvertised
    BY DEF MediaInv, FilesFit, ServedIsAdvertised, Counts, Readable, ReadableImage, ReadableAttachment
  <2> QED BY <2>1, <2>2, <2>3 DEF MediaSafe, MediaTypeOK, MediaInv, RowsTyped, JobStates
<1> QED BY <1>1, <1>2, <1>3, PTL DEF MediaSpec
=============================================================================
