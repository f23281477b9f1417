------------------------------- MODULE Polls -------------------------------
(***************************************************************************)
(* One poll, written here or cached from another server: votes by local     *)
(* accounts and by remote actors, edits that may reset them, the job that   *)
(* closes the poll at its deadline and the job that sends its tally out.    *)
(*                                                                          *)
(* Votes, edits and the expiry lock the row of the poll and are single      *)
(* steps.  A remote vote names its option; the position of that option is   *)
(* read before the lock.                                                    *)
(***************************************************************************)
EXTENDS Naturals, Sequences, FiniteSets

CONSTANTS
    Voters,     \* local accounts
    RemoteVoters,
    Author,     \* the local author of a local poll
    Ballots,    \* sequences of option titles a poll may have
    MaxClock    \* bound on the time

ASSUME PollsAssumption == /\ MaxClock \in Nat \ {0} /\ Voters \cap RemoteVoters = {}
                          /\ \A b \in Ballots : b \in Seq({b[i] : i \in DOMAIN b}) /\ b # <<>>

VARIABLES
    home,      \* where the poll was written: "local" or "remote"
    poll,      \* status_poll with its options
    vote,      \* status_poll_vote: [by, at]
    clock,
    expiry,    \* PollExpiration jobs that are not complete, by their run_after
    update,    \* the PollUpdate job: "none", "queued" or "running"
    sentTally,      \* the tally of the last Update that was sent
    arriving,  \* a remote vote between its two reads: [by, at], or none
    told       \* history: notifications of each account for this deadline

poll_vars == <<home, poll, vote, clock, expiry, update, sentTally, arriving, told>>

Never == 0
NoPoll == [live |-> FALSE, ballot |-> <<>>, multiple |-> FALSE, hide |-> FALSE, ends |-> Never, closed |-> Never,
           notified |-> FALSE, tally |-> <<>>, voters |-> 0]
Nobody == [by |-> Author, at |-> 0]
Fresh == [v \in Voters \cup {Author} |-> 0]

PollsInit ==
    /\ home \in {"local", "remote"}
    /\ poll = NoPoll /\ vote = {} /\ clock = 1
    /\ expiry = {} /\ update = "none" /\ sentTally = NoPoll /\ arriving = Nobody
    /\ told = Fresh

PollsTypeOK ==
    /\ poll.live => poll.ballot \in Ballots /\ DOMAIN poll.tally = DOMAIN poll.ballot
    /\ vote \subseteq [by : Voters \cup RemoteVoters, at : 1..Len(poll.ballot)]
    /\ expiry \subseteq 1..MaxClock + 2 /\ clock \in 1..MaxClock
    /\ update \in {"none", "queued", "running"}
-----------------------------------------------------------------------------
\* enqueue_poll_expiration: a job of its own for every deadline.
WithExpiry(at) == expiry \cup {at}

\* enqueue_poll_update: coalesced with the job that is there, running or not.
WithUpdate == IF update = "none" THEN "queued" ELSE update

ZeroTally(ballot) == [i \in DOMAIN ballot |-> 0]
Deadlines == clock + 1..MaxClock

\* create_local_poll, after validate_poll
CreatePoll(ballot, multiple, hide, ends) ==
    /\ home = "local" /\ ~ poll.live
    /\ poll' = [live |-> TRUE, ballot |-> ballot, multiple |-> multiple, hide |-> hide, ends |-> ends,
                closed |-> Never, notified |-> FALSE, tally |-> ZeroTally(ballot), voters |-> 0]
    /\ expiry' = WithExpiry(ends)
    /\ vote' = {} /\ told' = Fresh
    /\ UNCHANGED <<home, clock, update, sentTally, arriving>>

DropPoll ==
    /\ home = "local" /\ poll.live
    /\ poll' = NoPoll /\ vote' = {}
    /\ UNCHANGED <<home, clock, expiry, update, sentTally, arriving, told>>

\* Votes are kept if the options and the kind of the poll stay the same.
\* Mutant: a change of kind alone keeps them.
Changed_Options(ballot, multiple) == ballot # poll.ballot

Changed(ballot, multiple) == ballot # poll.ballot \/ multiple # poll.multiple

\* replace_local_poll
EditPoll(ballot, multiple, hide, ends) ==
    LET changed == Changed(ballot, multiple) IN
    /\ home = "local" /\ poll.live
    /\ poll' = [poll EXCEPT !.ballot = ballot, !.multiple = multiple, !.hide = hide, !.ends = ends,
                            !.closed = Never, !.notified = FALSE,
                            !.tally = IF changed THEN ZeroTally(ballot) ELSE @,
                            !.voters = IF changed THEN 0 ELSE @]
    /\ vote' = IF changed THEN {} ELSE vote
    /\ expiry' = WithExpiry(ends) /\ told' = Fresh
    /\ UNCHANGED <<home, clock, update, sentTally, arriving>>

\* upsert_remote_poll: the other server's tally and deadline replace ours,
\* the notification is not repeated.
GraceTime == 1
UpsertPoll(ballot, multiple, ends, closed) ==
    LET changed == poll.live /\ Changed(ballot, multiple)
        due == IF closed # Never THEN closed ELSE ends IN
    /\ home = "remote"
    /\ poll' = [live |-> TRUE, ballot |-> ballot, multiple |-> multiple, hide |-> FALSE,
                ends |-> ends, closed |-> closed, notified |-> poll.notified, tally |-> ZeroTally(ballot), voters |-> 0]
    /\ vote' = IF changed THEN {} ELSE vote
    /\ expiry' = IF due = Never THEN expiry ELSE WithExpiry(due + GraceTime)
    /\ UNCHANGED <<home, clock, update, sentTally, arriving, told>>
-----------------------------------------------------------------------------
Due == IF poll.closed # Never THEN poll.closed ELSE poll.ends
Open == poll.live /\ poll.closed = Never /\ (poll.ends # Never => poll.ends > clock)
VotesOf(v) == {x \in vote : x.by = v}

\* vote: the checks under the lock.
MayVote(v, choices) ==
    /\ Open /\ choices # {} /\ (~ poll.multiple => Cardinality(choices) = 1)
    /\ VotesOf(v) # {} => v \in RemoteVoters /\ poll.multiple
    /\ \A c \in choices : c \in DOMAIN poll.ballot /\ [by |-> v, at |-> c] \notin vote

Cast(v, choices) ==
    /\ vote' = vote \cup [by : {v}, at : choices]
    /\ poll' = [poll EXCEPT !.tally = [i \in DOMAIN @ |-> IF i \in choices THEN @[i] + 1 ELSE @[i]],
                            !.voters = IF VotesOf(v) = {} THEN @ + 1 ELSE @]

\* vote_poll: a local poll that shows its tally has it sent out, a
\* remote one its vote.
VotePoll(v, choices) ==
    /\ MayVote(v, choices) /\ Cast(v, choices)
    /\ update' = IF home = "local" /\ ~ poll.hide THEN WithUpdate ELSE update
    /\ UNCHANGED <<home, clock, expiry, sentTally, arriving, told>>

\* process_inbound_poll_vote finds the position of the option that is named ...
ReceiveVote(m, i) ==
    /\ home = "local" /\ poll.live /\ arriving = Nobody /\ i \in DOMAIN poll.ballot
    /\ arriving' = [by |-> m, at |-> i]
    /\ UNCHANGED <<home, poll, vote, clock, expiry, update, sentTally, told>>

\* ... and record_remote_poll_vote takes it, or refuses.
RecordVote ==
    /\ arriving # Nobody
    /\ MayVote(arriving.by, {arriving.at})
    /\ Cast(arriving.by, {arriving.at})
    /\ update' = (IF poll.hide THEN update ELSE WithUpdate) /\ arriving' = Nobody
    /\ UNCHANGED <<home, clock, expiry, sentTally, told>>

RefuseVote ==
    /\ arriving # Nobody /\ ~ MayVote(arriving.by, {arriving.at})
    /\ arriving' = Nobody
    /\ UNCHANGED <<home, poll, vote, clock, expiry, update, sentTally, told>>
-----------------------------------------------------------------------------
Tick == clock < MaxClock /\ clock' = clock + 1
        /\ UNCHANGED <<home, poll, vote, expiry, update, sentTally, arriving, told>>

\* expire_poll: the local voters, and the author of a local poll.
Recipients == {v \in Voters : VotesOf(v) # {}} \cup (IF home = "local" THEN {Author} ELSE {})

ExpirePoll(at) ==
    /\ at \in expiry /\ at <= clock
    /\ poll.live /\ Due <= clock /\ ~ poll.notified
    /\ poll' = [poll EXCEPT !.closed = IF Due # Never THEN Due ELSE clock, !.notified = TRUE]
    /\ told' = [v \in DOMAIN told |-> IF v \in Recipients THEN told[v] + 1 ELSE told[v]]
    /\ expiry' = expiry \ {at}
    /\ update' = IF home = "local" THEN WithUpdate ELSE update
    /\ UNCHANGED <<home, vote, clock, sentTally, arriving>>

\* The poll is gone, or its deadline was moved, or it is done.
ExpireNothing(at) ==
    /\ at \in expiry /\ at <= clock
    /\ ~ (poll.live /\ Due <= clock /\ ~ poll.notified)
    /\ expiry' = expiry \ {at}
    /\ UNCHANGED <<home, poll, vote, clock, update, sentTally, arriving, told>>

\* publish_poll_update_job reads the tally and enqueues the deliveries; the
\* worker completes the job afterwards.
SendUpdate ==
    /\ update = "queued"
    /\ update' = "running"
    /\ sentTally' = IF poll.live THEN poll ELSE sentTally
    /\ UNCHANGED <<home, poll, vote, clock, expiry, arriving, told>>

CompleteUpdate ==
    /\ update = "running" /\ update' = "none"
    /\ UNCHANGED <<home, poll, vote, clock, expiry, sentTally, arriving, told>>

PollsNext ==
    \/ \E b \in Ballots, m, h \in BOOLEAN, e \in Deadlines : CreatePoll(b, m, h, e) \/ EditPoll(b, m, h, e)
    \/ \E b \in Ballots, m \in BOOLEAN, e \in Deadlines \cup {Never}, c \in {Never, clock} : UpsertPoll(b, m, e, c)
    \/ \E v \in Voters, choices \in SUBSET DOMAIN poll.ballot : VotePoll(v, choices)
    \/ \E m \in RemoteVoters, i \in DOMAIN poll.ballot : ReceiveVote(m, i)
    \/ DropPoll \/ RecordVote \/ RefuseVote \/ Tick \/ SendUpdate \/ CompleteUpdate
    \/ \E at \in expiry : ExpirePoll(at) \/ ExpireNothing(at)

PollsSpec == PollsInit /\ [][PollsNext]_poll_vars
-----------------------------------------------------------------------------
\* A poll with a deadline that has not been announced has a job for exactly
\* that deadline, however often it was edited, and nobody is told twice that
\* the poll has ended.
DeadlineIsKept ==
    /\ poll.live /\ Due # Never /\ ~ poll.notified =>
         (IF home = "local" THEN Due ELSE Due + GraceTime) \in expiry
    /\ \A v \in DOMAIN told : told[v] <= 1

\* The tally of a local poll is the count of its votes, its voters are counted
\* once each, and in a single-choice poll nobody has two votes, whatever was
\* edited between the votes.
TallyIsTrue ==
    poll.live /\ home = "local" =>
        /\ \A i \in DOMAIN poll.ballot : poll.tally[i] = Cardinality({x \in vote : x.at = i})
        /\ poll.voters = Cardinality({x.by : x \in vote})
        /\ ~ poll.multiple => \A x, y \in vote : x.by = y.by => x = y

\* A poll ends once, at the deadline it has now, with the votes it was given.
PollsSafe == PollsTypeOK /\ DeadlineIsKept /\ TallyIsTrue
=============================================================================
