------------------------------- MODULE Quotes -------------------------------
(***************************************************************************)
(* One quote post and the consent it needs.  The quoting and the quoted     *)
(* status may each be local or remote; a quote of a local status is decided *)
(* by its quote_approval_policy, a quote of a remote one by the answer of   *)
(* the other server to a QuoteRequest, and either side may withdraw.        *)
(*                                                                          *)
(* Activities of the other server arrive in any order; the replay markers   *)
(* see to it that each is processed once.                                   *)
(***************************************************************************)
EXTENDS Naturals

CONSTANT MaxAuthorizations   \* bound on the authorizations issued for the quote

ASSUME QuotesAssumption == MaxAuthorizations \in Nat \ {0}

VARIABLES
    kind,       \* [by, of]: where the quoting and the quoted status live
    cached,     \* the quoting status is in the database
    quote,      \* status_quote
    target,     \* the quoted status: [live, policy]
    tie,        \* the quoting author to the quoted one
    asked,      \* a QuoteRequest was enqueued for the other server
    answers,    \* what the other server sent: [answer, auth]
    served,     \* authorizations given out so far
    saidQuote,  \* what the last activity about a local quoting status says
    notices,    \* quote notifications of a local quoted author
    deciding,   \* what an inbox handler has found out before its transaction
    granted,    \* history: authorizations the quoted author has given
    withdrawn,  \* history: those of rows it has revoked, as far as known here
    revived     \* history: those stored after that by a handler that had verified them before

told_vars == <<asked, answers, saidQuote>>
consent_vars == <<granted, withdrawn, revived>>
quote_vars == <<kind, cached, quote, target, tie, told_vars, served, notices, deciding, consent_vars>>

NoAuthorization == 0
NoQuote == [state |-> "none", auth |-> NoAuthorization]
Policies == {"public", "followers", "nobody"}
Ties == {"none", "follows", "blocked", "self"}
NoDecision == [about |-> "none", agreed |-> FALSE, auth |-> NoAuthorization]

QuotesInit ==
    /\ kind \in [by : {"local", "remote"}, of : {"local", "remote"}]
    /\ cached = FALSE /\ quote = NoQuote
    /\ target \in [live : {TRUE}, policy : Policies] /\ tie \in Ties
    /\ kind # [by |-> "local", of |-> "local"] => tie # "self"
    /\ asked = FALSE /\ answers = {} /\ served = 0 /\ saidQuote = "unsent" /\ notices = 0
    /\ deciding = NoDecision /\ granted = {} /\ withdrawn = {} /\ revived = {}

QuotesTypeOK ==
    /\ quote.state \in {"none", "pending", "accepted", "rejected", "revoked", "deleted"}
    /\ quote.auth \in 0..MaxAuthorizations /\ served \in 0..MaxAuthorizations
    /\ target.policy \in Policies /\ tie \in Ties
    /\ saidQuote \in {"unsent", "plain", "quoted"} /\ notices \in 0..1
    /\ deciding.about \in {"none", "note", "request"} /\ deciding.auth \in 0..MaxAuthorizations
    /\ (granted \cup withdrawn \cup revived) \subseteq 0..MaxAuthorizations
-----------------------------------------------------------------------------
(* Decisions *)

\* The quote policy of a local status, for a local or a remote author.
PolicyAllows ==
    /\ target.live /\ tie # "blocked"
    /\ \/ target.policy = "public" \/ (target.policy = "followers" /\ tie = "follows")
       \/ tie = "self"

\* resolve_quote_target of a remote status: an approval, automatic or manual,
\* must be possible; the other server decides.
RemoteMayBeAsked == target.live /\ tie # "blocked" /\ target.policy # "nobody"

NextAuthorization == served + 1

\* notify_local_status_quote and notify_remote_actor_quote: at most one
\* notification for a quote.
NotifyQuote == 1

\* note_object: the Note names the quote the database has at that moment.
NoteOf(row) == IF row.state = "none" THEN "plain" ELSE "quoted"
-----------------------------------------------------------------------------
(* Quotes of this server *)

\* create_status: the activity of the new status is built before
\* create_local_status_quote inserts the row.
CreateQuoteOfLocal ==
    /\ kind = [by |-> "local", of |-> "local"] /\ ~ cached
    /\ PolicyAllows /\ NextAuthorization <= MaxAuthorizations
    /\ saidQuote' = NoteOf(quote)
    /\ cached' = TRUE /\ served' = IF tie = "self" THEN served ELSE NextAuthorization
    /\ quote' = [state |-> "accepted", auth |-> IF tie = "self" THEN NoAuthorization ELSE NextAuthorization]
    /\ granted' = granted \cup {quote'.auth}
    /\ notices' = IF tie = "self" THEN notices ELSE NotifyQuote
    /\ UNCHANGED <<kind, target, tie, asked, answers, deciding, withdrawn, revived>>

CreateQuoteOfRemote ==
    /\ kind = [by |-> "local", of |-> "remote"] /\ ~ cached /\ RemoteMayBeAsked
    /\ saidQuote' = NoteOf(quote)
    /\ cached' = TRUE /\ quote' = [state |-> "pending", auth |-> NoAuthorization]
    /\ asked' = TRUE      \* enqueue_quote_request_in_transaction
    /\ UNCHANGED <<kind, target, tie, answers, served, notices, deciding, consent_vars>>

\* update_status: an edit cannot change the quote, and its activity names it.
EditQuoting ==
    /\ kind.by = "local" /\ cached /\ saidQuote' = NoteOf(quote)
    /\ UNCHANGED <<kind, cached, quote, target, tie, asked, answers, served, notices, deciding, consent_vars>>

\* The other server answers a request, and may answer again.
PeerAccepts ==
    /\ asked /\ NextAuthorization <= MaxAuthorizations
    /\ served' = NextAuthorization /\ granted' = granted \cup {NextAuthorization}
    /\ answers' = answers \cup {[answer |-> "accept", auth |-> NextAuthorization]}
    /\ UNCHANGED <<kind, cached, quote, target, tie, asked, saidQuote, notices, deciding, withdrawn, revived>>

PeerRejects ==
    /\ asked /\ answers' = answers \cup {[answer |-> "reject", auth |-> NoAuthorization]}
    /\ answers' # answers
    /\ UNCHANGED <<kind, cached, quote, target, tie, asked, served, saidQuote, notices, deciding, consent_vars>>

Withdrawal(auth) == [answer |-> "delete", auth |-> auth]

PeerWithdraws(auth) ==
    /\ kind.of = "remote" /\ auth # NoAuthorization
    /\ answers' = answers \cup {Withdrawal(auth)} /\ answers' # answers
    /\ UNCHANGED <<kind, cached, quote, target, tie, asked, served, saidQuote, notices, deciding, consent_vars>>

\* transition_quote_request: only a pending request is answered.
\* Mutant: a later answer is taken as well.
Pending_Any == TRUE

Pending == quote.state = "pending"

\* The inbox Accept and Reject of a QuoteRequest, from the author of the
\* target; an Update with the quote follows, whatever the row says.
ReceiveAnswer(x) ==
    /\ x \in answers /\ x.answer # "delete" /\ target.live /\ cached
    /\ answers' = answers \ {x}
    /\ quote' = IF ~ Pending THEN quote
                ELSE [state |-> IF x.answer = "accept" THEN "accepted" ELSE "rejected", auth |-> x.auth]
    /\ saidQuote' = NoteOf(quote')
    /\ UNCHANGED <<kind, cached, target, tie, asked, served, notices, deciding, consent_vars>>

\* The inbox Delete of a QuoteAuthorization: revoke_quote_authorization finds
\* the quote by its authorization.
ReceiveWithdrawal(x) ==
    /\ x \in answers /\ x.answer = "delete" /\ x.auth = quote.auth /\ kind.of = "remote" /\ target.live
    /\ answers' = answers \ {x}
    /\ quote' = [quote EXCEPT !.state = "revoked"] /\ withdrawn' = withdrawn \cup {quote.auth}
    /\ saidQuote' = IF kind.by = "local" THEN NoteOf(quote') ELSE saidQuote
    /\ UNCHANGED <<kind, cached, target, tie, asked, served, notices, deciding, granted, revived>>

\* An answer about a target that is gone, or a Delete of an authorization that
\* no quote has: one that comes before the Accept it takes back is forgotten.
IgnoreAnswer(x) ==
    /\ x \in answers
    /\ IF x.answer = "delete" THEN x.auth # quote.auth \/ ~ target.live ELSE ~ target.live
    /\ answers' = answers \ {x}
    /\ UNCHANGED <<kind, cached, quote, target, tie, asked, served, saidQuote, notices, deciding, consent_vars>>
-----------------------------------------------------------------------------
(* Quotes of the other server *)

\* What the handler of a Note or of a QuoteRequest knows when it begins its
\* transaction: an authorization of its own, or one of the other server.
Decides(about, auth) == deciding' = [about |-> about, agreed |-> TRUE, auth |-> auth]
Refuses(about) == deciding' = [NoDecision EXCEPT !.about = about]

\* resolve_inbound_quote and the inbox QuoteRequest, for a local status: the
\* policy, follows and blocks are read before the transaction.
ResolveQuoteOfLocal(about) ==
    /\ kind = [by |-> "remote", of |-> "local"] /\ deciding = NoDecision
    /\ about = "request" => target.live
    /\ \/ /\ PolicyAllows /\ NextAuthorization <= MaxAuthorizations /\ Decides(about, NextAuthorization)
          /\ served' = NextAuthorization /\ granted' = granted \cup {NextAuthorization}
       \/ ~ PolicyAllows /\ Refuses(about) /\ UNCHANGED <<served, granted>>
    /\ UNCHANGED <<kind, cached, quote, target, tie, told_vars, notices, withdrawn, revived>>

\* resolve_inbound_quote for a remote status: the authorization the Note names
\* is fetched from the server of its author, which still vouches for it.
ResolveQuoteOfRemote ==
    /\ kind = [by |-> "remote", of |-> "remote"] /\ deciding = NoDecision
    /\ \/ /\ target.live /\ NextAuthorization <= MaxAuthorizations /\ Decides("note", NextAuthorization)
          /\ served' = NextAuthorization /\ granted' = granted \cup {NextAuthorization}
       \/ /\ target.live /\ quote.auth \in granted \ withdrawn /\ Withdrawal(quote.auth) \notin answers
          /\ Decides("note", quote.auth) /\ UNCHANGED <<served, granted>>
       \/ Refuses("note") /\ UNCHANGED <<served, granted>>
    /\ UNCHANGED <<kind, cached, quote, target, tie, told_vars, notices, withdrawn, revived>>

\* upsert_remote_status_quote: the row gets the new state whatever it was.
UpsertQuote(state, auth) ==
    /\ quote' = [state |-> state, auth |-> auth]
    /\ revived' = IF auth \in withdrawn THEN revived \cup {auth} ELSE revived

\* The Create or Update of the Note is stored.  A quote that was not agreed to
\* is left as it is.
StoreQuote(edited) ==
    /\ deciding.about = "note" /\ cached = edited /\ cached' = TRUE
    /\ IF deciding.agreed THEN UpsertQuote("accepted", deciding.auth) ELSE UNCHANGED <<quote, revived>>
    /\ notices' = IF deciding.agreed /\ kind.of = "local" /\ ~ edited THEN NotifyQuote ELSE notices
    /\ deciding' = NoDecision
    /\ UNCHANGED <<kind, target, tie, told_vars, served, granted, withdrawn>>

\* The QuoteRequest is answered; the row is written if the quoting status is known.
AnswerQuoteRequest ==
    /\ deciding.about = "request"
    /\ IF cached THEN UpsertQuote(IF deciding.agreed THEN "accepted" ELSE "rejected", deciding.auth)
       ELSE UNCHANGED <<quote, revived>>
    /\ notices' = IF cached /\ deciding.agreed THEN NotifyQuote ELSE notices
    /\ deciding' = NoDecision
    /\ UNCHANGED <<kind, cached, target, tie, told_vars, served, granted, withdrawn>>
-----------------------------------------------------------------------------
(* The quoted author *)

\* revoke_quote, revoke_status_quote and enqueue_quote_revocation_in_transaction
RevokeQuote ==
    /\ kind.of = "local" /\ target.live /\ quote.state \notin {"none", "revoked"}
    /\ quote' = [quote EXCEPT !.state = "revoked"] /\ withdrawn' = withdrawn \cup {quote.auth}
    /\ UNCHANGED <<kind, cached, target, tie, told_vars, served, notices, deciding, granted, revived>>

\* update_local_status_quote_policy, and the policy of a remote status
ChangePolicy(p) ==
    /\ target.live /\ p # target.policy /\ target' = [target EXCEPT !.policy = p]
    /\ UNCHANGED <<kind, cached, quote, tie, told_vars, served, notices, deciding, consent_vars>>

ChangeTie(t) ==
    /\ t # tie /\ tie # "self" /\ tie' = t
    /\ UNCHANGED <<kind, cached, quote, target, told_vars, served, notices, deciding, consent_vars>>

\* mark_quotes_target_deleted
DeleteTarget ==
    /\ target.live /\ target' = [target EXCEPT !.live = FALSE]
    /\ quote' = IF quote.state = "accepted" THEN [quote EXCEPT !.state = "deleted"] ELSE quote
    /\ UNCHANGED <<kind, cached, tie, told_vars, served, notices, deciding, consent_vars>>

QuotesNext ==
    \/ CreateQuoteOfLocal \/ CreateQuoteOfRemote \/ PeerAccepts \/ PeerRejects
    \/ \E auth \in granted : PeerWithdraws(auth)
    \/ \E x \in answers : ReceiveAnswer(x) \/ ReceiveWithdrawal(x) \/ IgnoreAnswer(x)
    \/ \E about \in {"note", "request"} : ResolveQuoteOfLocal(about)
    \/ ResolveQuoteOfRemote \/ \E b \in BOOLEAN : StoreQuote(b)
    \/ EditQuoting \/ AnswerQuoteRequest \/ RevokeQuote \/ DeleteTarget
    \/ \E p \in Policies : ChangePolicy(p)
    \/ \E t \in {"none", "follows", "blocked"} : ChangeTie(t)

QuotesSpec == QuotesInit /\ [][QuotesNext]_quote_vars
-----------------------------------------------------------------------------
\* status_quote_response: the quoted status is shown with an accepted quote,
\* if it can still be found.
ShownQuote == quote.state = "accepted" /\ target.live

\* quote_authorization, which the other servers verify a quote with.
AuthorizationServed == quote.auth # NoAuthorization /\ quote.state = "accepted" /\ kind.of = "local" /\ target.live

\* accepted_quotes_for_status and count_accepted_quotes
ListedQuote == quote.state = "accepted"

\* A quote is shown, listed and vouched for only under an authorization that the
\* quoted author has given, and not under one it has taken back, unless the
\* handler of a Note had verified it before the withdrawal and stored it after.
\* A quote of this server stays hidden once it was revoked, whatever answers
\* come late or again; one of another server may be shown again, under a new
\* authorization, when the Note or a QuoteRequest comes again and the policy
\* allows it.  The quoted author is notified once.
QuoteHasConsent ==
    /\ ShownQuote \/ ListedQuote \/ AuthorizationServed =>
         /\ quote.auth \in granted
         /\ quote.auth \in withdrawn => quote.auth \in revived
         /\ withdrawn # {} => kind.by = "remote"
    /\ notices <= 1

\* No order of requests, answers, withdrawals, edits and deletions shows a
\* quote without consent.
QuotesSafe == QuotesTypeOK /\ QuoteHasConsent
=============================================================================
