------------------------------- MODULE Access -------------------------------
(***************************************************************************)
(* How people and applications get in: registration behind a limit per      *)
(* client, browser sessions and passwords, OAuth codes and tokens, and the  *)
(* push subscription of a token with the deliveries to it.                  *)
(***************************************************************************)
EXTENDS Naturals, FiniteSets

CONSTANTS
    Registrations,  \* requests to register, all of one client
    BurstLimit, BurstWindow, DailyLimit, DailyWindow,
    MaxLag,         \* ticks a request may wait for the lock after it took its time
    LastTick,       \* bound on the clock
    People,         \* local accounts
    Codes,          \* authorization codes
    Exchanges,      \* token requests under way
    MaxEndpoints,   \* bound on the endpoints a client registers
    Pushes,         \* notifications that are pushed
    Nobody          \* the subject of a token of an application

ASSUME AccessAssumption ==
    /\ {BurstLimit, DailyLimit} \subseteq Nat \ {0}
    /\ {BurstWindow, DailyWindow, MaxLag, LastTick, MaxEndpoints} \subseteq Nat
    /\ BurstWindow + MaxLag < DailyWindow /\ Nobody \notin People

VARIABLES
    tick,       \* the clock
    attempts,   \* registration_attempt: [by, at]
    registrar,  \* [stage, now, allowed] of a request to register
    session,    \* people with a session cookie that has not run out
    barredAccounts,     \* suspended accounts
    password,   \* version of the password of every account
    changer,    \* the change of a password under way: [of, stage]
    code,       \* [of, state] of an authorization code
    exchange,   \* [code, stage] of a token request
    tokens,     \* oauth_access_token: [from, of, revoked]
    endpoint,   \* push_subscription of the token: version of its endpoint, 0 without one
    rejected,   \* endpoints the push service refuses for good
    subscriber, \* a request to subscribe: stage
    pushJob,    \* WebPushDelivery jobs: [state, to]
    removed     \* endpoints whose subscription a delivery removed

access_vars == <<tick, attempts, registrar, session, barredAccounts, password, changer, code, exchange, tokens,
                 endpoint, rejected, subscriber, pushJob, removed>>
register_vars == <<tick, attempts, registrar>>
oauth_vars == <<session, barredAccounts, password, changer, code, exchange, tokens>>
push_vars == <<endpoint, rejected, subscriber, pushJob, removed>>

NewRegistration == [stage |-> "new", now |-> 0, allowed |-> FALSE]

\* create_access_token_for_subject
NewToken(e, x) == [from |-> e, of |-> x, revoked |-> FALSE]

\* An application and every account have a token already.
AccessInit ==
    /\ tick = 0 /\ attempts = {} /\ registrar = [q \in Registrations |-> NewRegistration]
    /\ session = {} /\ barredAccounts = {} /\ password = [x \in People |-> 0] /\ changer = [of |-> Nobody, saw |-> 0]
    /\ code = [c \in Codes |-> [of |-> Nobody, state |-> "none"]]
    /\ exchange = [e \in Exchanges |-> [code |-> Nobody, stage |-> "idle"]]
    /\ tokens = {NewToken(0, x) : x \in People \cup {Nobody}}
    /\ endpoint = 0 /\ rejected = {} /\ subscriber = "idle"
    /\ pushJob = [n \in Pushes |-> [state |-> "none", to |-> 0]] /\ removed = {}

\* Every value is of its type.
AccessTypeOK ==
    /\ tick \in 0..LastTick /\ \A a \in attempts : a.by \in Registrations /\ a.at \in 0..LastTick
    /\ \A q \in Registrations : registrar[q].stage \in {"new", "timed", "counted", "limited", "admitted", "done"}
    /\ session \subseteq People /\ barredAccounts \subseteq People
    /\ \A t \in tokens : t.of \in People \cup {Nobody} /\ t.revoked \in BOOLEAN
    /\ endpoint \in 0..MaxEndpoints /\ removed \subseteq 1..MaxEndpoints
-----------------------------------------------------------------------------
\* find_access_token_grant
Grants(t) == t \in tokens /\ ~ t.revoked /\ t.of # Nobody /\ t.of \notin barredAccounts

\* find_application_access_token_grant
GrantsApplication(t) == t \in tokens /\ ~ t.revoked /\ t.of = Nobody

-----------------------------------------------------------------------------
(* Registration *)

Tick ==
    /\ tick < LastTick /\ tick' = tick + 1
    /\ \A q \in Registrations : registrar[q].stage \in {"timed", "counted"} => tick < registrar[q].now + MaxLag
    /\ UNCHANGED <<attempts, registrar, oauth_vars, push_vars>>

\* register_account up to the lock: the time is taken before.
BeginRegistration(q) ==
    /\ registrar[q].stage = "new" /\ \E t \in tokens : GrantsApplication(t)
    /\ registrar' = [registrar EXCEPT ![q].stage = "timed", ![q].now = tick]
    /\ UNCHANGED <<tick, attempts, oauth_vars, push_vars>>

Recent(now, window) == {a \in attempts : a.at + window > now}

\* pg_advisory_xact_lock: held until the transaction is over.
\* Mutant: nobody waits.
LimitLockFree_Always == TRUE

LimitLockFree == \A q \in Registrations : registrar[q].stage # "counted"

\* check_registration_rate_limit: old attempts are removed, the others counted.
CountAttempts(q) ==
    LET now == registrar[q].now
        kept == Recent(now, DailyWindow) IN
    /\ registrar[q].stage = "timed" /\ LimitLockFree
    /\ attempts' = kept
    /\ registrar' = [registrar EXCEPT ![q].stage = "counted",
          ![q].allowed = Cardinality(Recent(now, BurstWindow)) < BurstLimit /\ Cardinality(kept) < DailyLimit]
    /\ UNCHANGED <<tick, oauth_vars, push_vars>>

RecordAttempt(q) ==
    /\ registrar[q].stage = "counted"
    /\ attempts' = IF registrar[q].allowed THEN attempts \cup {[by |-> q, at |-> registrar[q].now]} ELSE attempts
    /\ registrar' = [registrar EXCEPT ![q].stage = IF registrar[q].allowed THEN "admitted" ELSE "limited"]
    /\ UNCHANGED <<tick, oauth_vars, push_vars>>

\* validate, create_local_account_in_transaction, create_access_token: an
\* invalid request or a name that is taken has used up its attempt.
CreateAccount(q) ==
    /\ registrar[q].stage = "admitted"
    /\ registrar' = [registrar EXCEPT ![q].stage = "done"]
    /\ UNCHANGED <<tick, attempts, oauth_vars, push_vars>>
-----------------------------------------------------------------------------
(* Sessions and passwords *)

Login(x) ==
    /\ x \notin barredAccounts /\ session' = session \cup {x}
    /\ UNCHANGED <<register_vars, barredAccounts, password, changer, code, exchange, tokens, push_vars>>

\* logout, or the seven days of the cookie are over
Logout(x) ==
    /\ x \in session /\ session' = session \ {x}
    /\ UNCHANGED <<register_vars, barredAccounts, password, changer, code, exchange, tokens, push_vars>>

\* change_password: the old password is verified against the row that was read.
VerifyPassword(x) ==
    /\ x \in session /\ changer.of = Nobody /\ changer' = [of |-> x, saw |-> password[x]]
    /\ UNCHANGED <<register_vars, session, barredAccounts, password, code, exchange, tokens, push_vars>>

ChangePassword ==
    /\ changer.of # Nobody /\ password[changer.of] < 2
    /\ password' = [password EXCEPT ![changer.of] = @ + 1] /\ changer' = [of |-> Nobody, saw |-> 0]
    /\ UNCHANGED <<register_vars, session, barredAccounts, code, exchange, tokens, push_vars>>

\* reset of a password by an administrator
ResetPassword(x) ==
    /\ password[x] < 2 /\ password' = [password EXCEPT ![x] = @ + 1]
    /\ UNCHANGED <<register_vars, session, barredAccounts, changer, code, exchange, tokens, push_vars>>

\* The suspension of the account (Moderation.tla): its tokens are revoked.
BarAccount(x) ==
    /\ x \notin barredAccounts /\ barredAccounts' = barredAccounts \cup {x}
    /\ tokens' = {[t EXCEPT !.revoked = t.revoked \/ t.of = x] : t \in tokens}
    /\ UNCHANGED <<register_vars, session, password, changer, code, exchange, push_vars>>

UnbarAccount(x) ==
    /\ x \in barredAccounts /\ barredAccounts' = barredAccounts \ {x}
    /\ UNCHANGED <<register_vars, session, password, changer, code, exchange, tokens, push_vars>>
-----------------------------------------------------------------------------
(* OAuth *)

\* authorize, with validate_authorize_request: the session says who grants.
Authorize(x, c) ==
    /\ x \in session /\ code[c].state = "none"
    /\ code' = [code EXCEPT ![c] = [of |-> x, state |-> "issued"]]
    /\ UNCHANGED <<register_vars, session, barredAccounts, password, changer, exchange, tokens, push_vars>>

CodeExpires(c) ==
    /\ code[c].state = "issued" /\ code' = [code EXCEPT ![c].state = "expired"]
    /\ UNCHANGED <<register_vars, session, barredAccounts, password, changer, exchange, tokens, push_vars>>

\* consume_authorization_code up to its UPDATE, which names the row only: of
\* two requests that found the code, both get a token.
FindCode(e, c) ==
    /\ exchange[e].stage = "idle" /\ code[c].state = "issued"
    /\ exchange' = [exchange EXCEPT ![e] = [code |-> c, stage |-> "found"]]
    /\ UNCHANGED <<register_vars, session, barredAccounts, password, changer, code, tokens, push_vars>>

\* The rest of token: a verifier that does not fit uses the code up.
ExchangeCode(e, verified) ==
    /\ exchange[e].stage = "found"
    /\ code' = [code EXCEPT ![exchange[e].code].state = "consumed"]
    /\ tokens' = IF verified THEN tokens \cup {NewToken(e, code[exchange[e].code].of)} ELSE tokens
    /\ exchange' = [exchange EXCEPT ![e].stage = "done"]
    /\ UNCHANGED <<register_vars, session, barredAccounts, password, changer, push_vars>>

\* client_credentials_scopes, create_application_access_token
ClientCredentials(e) ==
    /\ exchange[e].stage = "idle"
    /\ tokens' = tokens \cup {NewToken(e, Nobody)}
    /\ exchange' = [exchange EXCEPT ![e].stage = "done"]
    /\ UNCHANGED <<register_vars, session, barredAccounts, password, changer, code, push_vars>>

\* revoke_access_token: the subscription of the token goes too.
RevokeToken(t) ==
    /\ t \in tokens /\ tokens' = (tokens \ {t}) \cup {[t EXCEPT !.revoked = TRUE]}
    /\ endpoint' = IF t.of # Nobody /\ t.from = 0 THEN 0 ELSE endpoint
    /\ UNCHANGED <<register_vars, session, barredAccounts, password, changer, code, exchange, rejected, subscriber, pushJob, removed>>
-----------------------------------------------------------------------------
(* Push: the subscription of one token *)

LastEndpoint == IF endpoint > 0 THEN endpoint ELSE
    CHOOSE n \in 0..MaxEndpoints : n \in {0} \cup rejected \cup removed \cup {pushJob[p].to : p \in Pushes}
                                   /\ \A m \in {0} \cup rejected \cup removed \cup {pushJob[p].to : p \in Pushes} : m <= n

\* create_subscription: the token is looked up, the endpoint is resolved, and
\* upsert_push_subscription keeps the id of the row that is there.
BeginSubscribe ==
    /\ subscriber = "idle" /\ subscriber' = "resolving" /\ \E t \in tokens : Grants(t) /\ t.from = 0
    /\ UNCHANGED <<register_vars, oauth_vars, endpoint, rejected, pushJob, removed>>

Subscribe ==
    /\ subscriber = "resolving" /\ LastEndpoint < MaxEndpoints
    /\ endpoint' = LastEndpoint + 1 /\ subscriber' = "idle"
    /\ UNCHANGED <<register_vars, oauth_vars, rejected, pushJob, removed>>

\* delete_subscription
Unsubscribe ==
    /\ endpoint > 0 /\ endpoint' = 0
    /\ UNCHANGED <<register_vars, oauth_vars, rejected, subscriber, pushJob, removed>>

\* The push service drops an endpoint.
EndpointGone(n) ==
    /\ n \in 1..endpoint /\ n \notin rejected /\ rejected' = rejected \cup {n}
    /\ UNCHANGED <<register_vars, oauth_vars, endpoint, subscriber, pushJob, removed>>

\* after_save of a notification that is not filtered: a job per subscription.
QueuePush(p) ==
    /\ pushJob[p].state = "none"
    /\ pushJob' = [pushJob EXCEPT ![p].state = IF endpoint > 0 THEN "queued" ELSE "done"]
    /\ UNCHANGED <<register_vars, oauth_vars, endpoint, rejected, subscriber, removed>>

\* deliver up to the request: push_delivery finds the subscription by its id,
\* its alerts and push_policy_allows let the notification through.
LoadPush(p, wanted) ==
    /\ pushJob[p].state = "queued"
    /\ pushJob' = [pushJob EXCEPT ![p] = IF endpoint > 0 /\ wanted THEN [state |-> "sending", to |-> endpoint]
                                                                  ELSE [state |-> "done", to |-> 0]]
    /\ UNCHANGED <<register_vars, oauth_vars, endpoint, rejected, subscriber, removed>>

\* The answer: a permanent failure removes the subscription by its id.
PushAnswered(p, retry) ==
    /\ pushJob[p].state = "sending"
    /\ IF pushJob[p].to \in rejected
       THEN /\ endpoint' = 0 /\ removed' = IF endpoint > 0 THEN removed \cup {endpoint} ELSE removed
            /\ pushJob' = [pushJob EXCEPT ![p].state = "done"]
       ELSE /\ pushJob' = [pushJob EXCEPT ![p] = [state |-> IF retry THEN "queued" ELSE "done", to |-> 0]]
            /\ UNCHANGED <<endpoint, removed>>
    /\ UNCHANGED <<register_vars, oauth_vars, rejected, subscriber>>

RegistrationNext ==
    \/ Tick
    \/ \E q \in Registrations : BeginRegistration(q) \/ CountAttempts(q) \/ RecordAttempt(q) \/ CreateAccount(q)
OAuthNext ==
    \/ \E x \in People : Login(x) \/ Logout(x) \/ VerifyPassword(x) \/ ResetPassword(x) \/ BarAccount(x) \/ UnbarAccount(x)
    \/ ChangePassword
    \/ \E x \in People, c \in Codes : Authorize(x, c)
    \/ \E c \in Codes : CodeExpires(c)
    \/ \E e \in Exchanges : ClientCredentials(e) \/ (\E c \in Codes : FindCode(e, c)) \/ \E verified \in BOOLEAN : ExchangeCode(e, verified)
    \/ \E t \in tokens : RevokeToken(t)
PushNext ==
    \/ BeginSubscribe \/ Subscribe \/ Unsubscribe \/ \E n \in 1..MaxEndpoints : EndpointGone(n)
    \/ \E p \in Pushes : QueuePush(p) \/ \E choice \in BOOLEAN : LoadPush(p, choice) \/ PushAnswered(p, choice)
AccessNext == RegistrationNext \/ OAuthNext \/ PushNext

AccessSpec == AccessInit /\ [][AccessNext]_access_vars
-----------------------------------------------------------------------------
\* No more attempts are let through in any burst window than its limit says,
\* whoever waits for the lock with a time that is already old.
BurstHolds ==
    \A start \in 0..LastTick :
        Cardinality({q \in Registrations : /\ registrar[q].stage \in {"admitted", "done"}
                                           /\ registrar[q].now \in start .. start + BurstWindow - 1}) <= BurstLimit

\* Limits hold between processes that share nothing but the database.
AccessSafe == AccessTypeOK /\ BurstHolds
=============================================================================
