---------------------------- MODULE ContentProofs ----------------------------
(***************************************************************************)
(* Proofs about what accounts write and what others do with it: the consent *)
(* that a quote needs, the fetches of preview cards, the tallies of polls,  *)
(* the rows of conversations, the counters and boosts of a status, the life *)
(* of a local status, and the usage of tags and the pins of an account.     *)
(***************************************************************************)
EXTENDS Quotes, PreviewCards, Polls, Conversations, Interactions, LocalStatuses, Tags,
         FiniteSetTheorems, WellFoundedInduction, TLAPS

-----------------------------------------------------------------------------
(* Quotes *)

QuoteRow == [state : {"none", "pending", "accepted", "rejected", "revoked", "deleted"}, auth : 0..MaxAuthorizations]

QuotesTyped ==
    /\ kind \in [by : {"local", "remote"}, of : {"local", "remote"}]
    /\ quote \in QuoteRow /\ target \in [live : BOOLEAN, policy : Policies] /\ tie \in Ties
    /\ answers \subseteq [answer : {"accept", "reject", "delete"}, auth : 0..MaxAuthorizations]
    /\ served \in 0..MaxAuthorizations /\ saidQuote \in {"unsent", "plain", "quoted"} /\ notices \in {0, 1}
    /\ deciding \in [about : {"none", "note", "request"}, agreed : BOOLEAN, auth : 0..MaxAuthorizations]
    /\ granted \subseteq 0..MaxAuthorizations /\ withdrawn \subseteq 0..MaxAuthorizations
    /\ revived \subseteq 0..MaxAuthorizations

\* What is accepted, decided or answered has an authorization that was given.
ConsentFits ==
    /\ quote.state = "accepted" => quote.auth \in granted /\ (quote.auth \in withdrawn => quote.auth \in revived)
    /\ deciding.agreed => deciding.auth \in granted
    /\ \A x \in answers : x.answer = "accept" => x.auth \in granted

\* A quote of this server waits for its first answer, and a revoked one for none.
LocalQuoteFits ==
    /\ quote.state = "pending" => kind.by = "local"
    /\ deciding.about # "none" => kind.by = "remote"
    /\ kind.by = "local" => /\ ~ cached => quote.state = "none" /\ quote.auth = 0
                            /\ withdrawn # {} => quote.state = "revoked"
    /\ \A x \in answers : x.answer = "delete" => x.auth # 0

QuotesInv == QuotesTyped /\ ConsentFits /\ LocalQuoteFits

LEMMA QuoteAuthorizations ==
    /\ 0 \in 0..MaxAuthorizations
    /\ \A n \in 0..MaxAuthorizations : n + 1 <= MaxAuthorizations => n + 1 \in 0..MaxAuthorizations
BY QuotesAssumption

LEMMA NewAuthorization ==
    ASSUME QuotesInv, NextAuthorization <= MaxAuthorizations
    PROVE  NextAuthorization \in 0..MaxAuthorizations
BY QuoteAuthorizations DEF QuotesInv, QuotesTyped, NextAuthorization

LEMMA NoteIsSaid == \A entry : NoteOf(entry) \in {"plain", "quoted"}
BY DEF NoteOf

\* What the author of the quoting status does.
LEMMA QuotingKeeps ==
    ASSUME QuotesInv, CreateQuoteOfLocal \/ CreateQuoteOfRemote \/ EditQuoting
    PROVE  QuotesInv'
<1>1. CASE CreateQuoteOfLocal
  <2>1. PICK n \in 0..MaxAuthorizations : n = IF tie = "self" THEN NoAuthorization ELSE NextAuthorization
    BY <1>1, QuoteAuthorizations, NewAuthorization DEF CreateQuoteOfLocal, NoAuthorization
  <2>2. /\ kind.by = "local" /\ ~ cached /\ quote' = [state |-> "accepted", auth |-> n] /\ granted' = granted \cup {n}
        /\ saidQuote' \in {"plain", "quoted"} /\ notices' \in {notices, 1} /\ cached' = TRUE
        /\ UNCHANGED <<kind, target, tie, asked, answers, deciding, withdrawn, revived>>
    BY <1>1, <2>1, NoteIsSaid DEF CreateQuoteOfLocal, NotifyQuote
  <2>3. served' \in 0..MaxAuthorizations
    BY <1>1, NewAuthorization DEF CreateQuoteOfLocal, QuotesInv, QuotesTyped
  <2>4. withdrawn = {}
    BY <2>2 DEF QuotesInv, LocalQuoteFits
  <2>5. QuotesTyped'
    BY <2>2, <2>3 DEF QuotesInv, QuotesTyped, QuoteRow
  <2>6. ConsentFits' /\ LocalQuoteFits'
    BY <2>2, <2>4 DEF QuotesInv, ConsentFits, LocalQuoteFits
  <2> QED BY <2>5, <2>6 DEF QuotesInv
<1>2. CASE CreateQuoteOfRemote
  <2>1. /\ kind.by = "local" /\ ~ cached /\ quote' = [state |-> "pending", auth |-> 0]
        /\ saidQuote' \in {"plain", "quoted"} /\ cached' = TRUE /\ asked' = TRUE
        /\ UNCHANGED <<kind, target, tie, answers, served, notices, deciding, granted, withdrawn, revived>>
    BY <1>2, NoteIsSaid DEF CreateQuoteOfRemote, NoAuthorization, consent_vars
  <2>2. QuotesTyped'
    BY <2>1, QuoteAuthorizations DEF QuotesInv, QuotesTyped, QuoteRow
  <2>3. ConsentFits' /\ LocalQuoteFits'
    BY <2>1 DEF QuotesInv, ConsentFits, LocalQuoteFits
  <2> QED BY <2>2, <2>3 DEF QuotesInv
<1>3. CASE EditQuoting
  BY <1>3, NoteIsSaid DEF EditQuoting, QuotesInv, QuotesTyped, ConsentFits, LocalQuoteFits, consent_vars
<1> QED BY <1>1, <1>2, <1>3

\* What the other server sends.
LEMMA PeerKeeps ==
    ASSUME QuotesInv, PeerAccepts \/ PeerRejects \/ \E auth \in granted : PeerWithdraws(auth)
    PROVE  QuotesInv'
<1>1. PICK n \in 0..MaxAuthorizations, a \in {"accept", "reject", "delete"} :
        /\ answers' = answers \cup {[answer |-> a, auth |-> n]} /\ served' \in 0..MaxAuthorizations
        /\ granted \subseteq granted' /\ granted' \subseteq 0..MaxAuthorizations /\ (a = "accept" => n \in granted')
        /\ (a = "delete" => n # 0)
        /\ UNCHANGED <<kind, cached, quote, target, tie, asked, saidQuote, notices, deciding, withdrawn, revived>>
  <2>1. CASE PeerAccepts
    BY <2>1, NewAuthorization DEF PeerAccepts, QuotesInv, QuotesTyped
  <2>2. CASE PeerRejects
    BY <2>2, QuoteAuthorizations DEF PeerRejects, QuotesInv, QuotesTyped, NoAuthorization, consent_vars
  <2>3. CASE \E auth \in granted : PeerWithdraws(auth)
    BY <2>3 DEF PeerWithdraws, QuotesInv, QuotesTyped, Withdrawal, NoAuthorization, consent_vars
  <2> QED BY <2>1, <2>2, <2>3
<1>2. QuotesTyped'
  BY <1>1 DEF QuotesInv, QuotesTyped
<1>3. PICK x : x = [answer |-> a, auth |-> n]
  OBVIOUS
<1>4. answers' = answers \cup {x} /\ (x.answer = "accept" => x.auth \in granted') /\ (x.answer = "delete" => x.auth # 0)
  BY <1>1, <1>3
<1>5. ConsentFits'
  BY <1>1, <1>4 DEF QuotesInv, ConsentFits
<1>6. LocalQuoteFits'
  BY <1>1, <1>4 DEF QuotesInv, LocalQuoteFits
<1> QED BY <1>2, <1>5, <1>6 DEF QuotesInv

\* What becomes of its answers.
LEMMA AnswersKeep ==
    ASSUME QuotesInv, NEW x \in answers, ReceiveAnswer(x) \/ ReceiveWithdrawal(x) \/ IgnoreAnswer(x)
    PROVE  QuotesInv'
<1>1. x.auth \in 0..MaxAuthorizations /\ (x.answer = "accept" => x.auth \in granted)
  BY DEF QuotesInv, QuotesTyped, ConsentFits
<1>2. CASE ReceiveAnswer(x)
  <2>1. /\ saidQuote' \in {"plain", "quoted"} /\ answers' \subseteq answers
        /\ UNCHANGED <<kind, cached, target, tie, asked, served, notices, deciding, granted, withdrawn, revived>>
    BY <1>2, NoteIsSaid DEF ReceiveAnswer, consent_vars
  <2>2. CASE quote.state = "pending"
    <3>1. quote' = [state |-> IF x.answer = "accept" THEN "accepted" ELSE "rejected", auth |-> x.auth] /\ cached
      BY <1>2, <2>2 DEF ReceiveAnswer, Pending
    <3>2. withdrawn = {} /\ kind.by = "local"
      BY <2>2 DEF QuotesInv, LocalQuoteFits
    <3>3. QuotesTyped'
      BY <1>1, <2>1, <3>1 DEF QuotesInv, QuotesTyped, QuoteRow
    <3>4. ConsentFits' /\ LocalQuoteFits'
      BY <1>1, <2>1, <3>1, <3>2 DEF QuotesInv, ConsentFits, LocalQuoteFits
    <3> QED BY <3>3, <3>4 DEF QuotesInv
  <2>3. CASE quote.state # "pending"
    <3>1. quote' = quote
      BY <1>2, <2>3 DEF ReceiveAnswer, Pending
    <3> QED BY <2>1, <3>1 DEF QuotesInv, QuotesTyped, ConsentFits, LocalQuoteFits
  <2> QED BY <2>2, <2>3
<1>3. CASE ReceiveWithdrawal(x)
  <2>1. /\ quote' = [quote EXCEPT !.state = "revoked"] /\ withdrawn' = withdrawn \cup {quote.auth}
        /\ saidQuote' \in {saidQuote, "plain", "quoted"} /\ answers' \subseteq answers
        /\ UNCHANGED <<kind, cached, target, tie, asked, served, notices, deciding, granted, revived>>
    BY <1>3, NoteIsSaid DEF ReceiveWithdrawal
  <2>2. x.auth = quote.auth /\ x.answer = "delete" /\ kind.of = "remote"
    BY <1>3 DEF ReceiveWithdrawal
  <2>3. kind.by = "local" => cached
    BY <2>2 DEF QuotesInv, LocalQuoteFits, ConsentFits
  <2>4. QuotesTyped'
    BY <2>1 DEF QuotesInv, QuotesTyped, QuoteRow
  <2>5. ConsentFits' /\ LocalQuoteFits'
    BY <2>1, <2>3 DEF QuotesInv, QuotesTyped, QuoteRow, ConsentFits, LocalQuoteFits
  <2> QED BY <2>4, <2>5 DEF QuotesInv
<1>4. CASE IgnoreAnswer(x)
  BY <1>4 DEF IgnoreAnswer, QuotesInv, QuotesTyped, ConsentFits, LocalQuoteFits, consent_vars
<1> QED BY <1>2, <1>3, <1>4

\* A handler decides, and writes what it has decided.
LEMMA HandlersKeep ==
    ASSUME QuotesInv,
           \/ \E about \in {"note", "request"} : ResolveQuoteOfLocal(about)
           \/ ResolveQuoteOfRemote \/ AnswerQuoteRequest \/ \E b \in BOOLEAN : StoreQuote(b)
    PROVE  QuotesInv'
<1>0. NoDecision.about = "none" /\ NoDecision.agreed = FALSE /\ NoDecision.auth = 0
      /\ NoDecision \in [about : {"none", "note", "request"}, agreed : BOOLEAN, auth : 0..MaxAuthorizations]
  BY QuoteAuthorizations DEF NoDecision, NoAuthorization
<1>1. ASSUME (\E about \in {"note", "request"} : ResolveQuoteOfLocal(about)) \/ ResolveQuoteOfRemote
      PROVE  QuotesInv'
  <2>1. kind.by = "remote" /\ UNCHANGED <<kind, cached, quote, target, tie, asked, answers, saidQuote, notices, withdrawn, revived>>
    BY <1>1 DEF ResolveQuoteOfLocal, ResolveQuoteOfRemote, told_vars
  <2>2. /\ served' \in 0..MaxAuthorizations /\ granted \subseteq granted' /\ granted' \subseteq 0..MaxAuthorizations
        /\ deciding' \in [about : {"none", "note", "request"}, agreed : BOOLEAN, auth : 0..MaxAuthorizations]
        /\ deciding'.agreed => deciding'.auth \in granted'
    <3>1. PICK about \in {"note", "request"} :
            \/ Refuses(about) /\ UNCHANGED <<served, granted>>
            \/ quote.auth \in granted /\ Decides(about, quote.auth) /\ UNCHANGED <<served, granted>>
            \/ /\ NextAuthorization <= MaxAuthorizations /\ Decides(about, NextAuthorization)
               /\ served' = NextAuthorization /\ granted' = granted \cup {NextAuthorization}
      BY <1>1 DEF ResolveQuoteOfLocal, ResolveQuoteOfRemote
    <3>2. served \in 0..MaxAuthorizations /\ granted \subseteq 0..MaxAuthorizations
      BY DEF QuotesInv, QuotesTyped
    <3>3. CASE Refuses(about) /\ UNCHANGED <<served, granted>>
      BY <3>2, <3>3, QuoteAuthorizations DEF Refuses, NoDecision, NoAuthorization
    <3>4. CASE quote.auth \in granted /\ Decides(about, quote.auth) /\ UNCHANGED <<served, granted>>
      BY <3>2, <3>4 DEF Decides
    <3>5. ASSUME NextAuthorization <= MaxAuthorizations, Decides(about, NextAuthorization),
                 served' = NextAuthorization, granted' = granted \cup {NextAuthorization}
          PROVE  /\ served' \in 0..MaxAuthorizations /\ granted \subseteq granted' /\ granted' \subseteq 0..MaxAuthorizations
                 /\ deciding' \in [about : {"none", "note", "request"}, agreed : BOOLEAN, auth : 0..MaxAuthorizations]
                 /\ deciding'.agreed => deciding'.auth \in granted'
      BY <3>2, <3>5, NewAuthorization DEF Decides
    <3> QED BY <3>1, <3>3, <3>4, <3>5
  <2>3. QuotesTyped'
    BY <2>1, <2>2 DEF QuotesInv, QuotesTyped
  <2>4. ConsentFits' /\ LocalQuoteFits'
    BY <2>1, <2>2 DEF QuotesInv, ConsentFits, LocalQuoteFits
  <2> QED BY <2>3, <2>4 DEF QuotesInv
<1>2. ASSUME AnswerQuoteRequest \/ \E b \in BOOLEAN : StoreQuote(b)
      PROVE  QuotesInv'
  <2>1. /\ kind.by = "remote" /\ deciding' = NoDecision /\ cached' \in BOOLEAN \cup {cached} /\ notices' \in {notices, 1}
        /\ UNCHANGED <<kind, target, tie, asked, answers, saidQuote, served, granted, withdrawn>>
    BY <1>2 DEF StoreQuote, AnswerQuoteRequest, QuotesInv, LocalQuoteFits, told_vars, NotifyQuote
  <2>2. \/ quote' = quote /\ revived' = revived
        \/ \E st \in {"accepted", "rejected"} : UpsertQuote(st, deciding.auth) /\ (st = "accepted" => deciding.agreed)
    BY <1>2 DEF StoreQuote, AnswerQuoteRequest
  <2>3. deciding.auth \in 0..MaxAuthorizations /\ (deciding.agreed => deciding.auth \in granted)
    BY DEF QuotesInv, QuotesTyped, ConsentFits
  <2>4. /\ quote' \in QuoteRow /\ revived \subseteq revived' /\ revived' \subseteq 0..MaxAuthorizations
        /\ quote'.state = "accepted" => quote'.auth \in granted /\ (quote'.auth \in withdrawn => quote'.auth \in revived')
        /\ quote'.state = "pending" => quote.state = "pending"
    <3>1. CASE quote' = quote /\ revived' = revived
      BY <3>1 DEF QuotesInv, QuotesTyped, ConsentFits
    <3>2. ASSUME NEW st \in {"accepted", "rejected"}, UpsertQuote(st, deciding.auth), st = "accepted" => deciding.agreed
          PROVE  /\ quote' \in QuoteRow /\ revived \subseteq revived' /\ revived' \subseteq 0..MaxAuthorizations
                 /\ quote'.state = "accepted" => quote'.auth \in granted /\ (quote'.auth \in withdrawn => quote'.auth \in revived')
                 /\ quote'.state = "pending" => quote.state = "pending"
      BY <2>3, <3>2 DEF UpsertQuote, QuoteRow, QuotesInv, QuotesTyped
    <3> QED BY <2>2, <3>1, <3>2
  <2>5. QuotesTyped'
    BY <1>0, <2>1, <2>4 DEF QuotesInv, QuotesTyped
  <2>6. ConsentFits' /\ LocalQuoteFits'
    BY <1>0, <2>1, <2>4 DEF QuotesInv, ConsentFits, LocalQuoteFits
  <2> QED BY <2>5, <2>6 DEF QuotesInv
<1> QED BY <1>1, <1>2

\* What the quoted author does.
LEMMA QuotedKeeps ==
    ASSUME QuotesInv,
           \/ RevokeQuote \/ DeleteTarget \/ \E p \in Policies : ChangePolicy(p)
           \/ \E t \in {"none", "follows", "blocked"} : ChangeTie(t)
    PROVE  QuotesInv'
<1> USE DEF told_vars, consent_vars
<1>1. CASE RevokeQuote
  <2>1. /\ quote.state # "none" /\ quote' = [quote EXCEPT !.state = "revoked"] /\ withdrawn' = withdrawn \cup {quote.auth}
        /\ UNCHANGED <<kind, cached, target, tie, asked, answers, saidQuote, served, notices, deciding, granted, revived>>
    BY <1>1 DEF RevokeQuote
  <2>2. QuotesTyped'
    BY <2>1 DEF QuotesInv, QuotesTyped, QuoteRow
  <2>3. ConsentFits' /\ LocalQuoteFits'
    BY <2>1 DEF QuotesInv, QuotesTyped, QuoteRow, ConsentFits, LocalQuoteFits
  <2> QED BY <2>2, <2>3 DEF QuotesInv
<1>2. CASE DeleteTarget
  BY <1>2 DEF DeleteTarget, QuotesInv, QuotesTyped, QuoteRow, ConsentFits, LocalQuoteFits
<1>3. ASSUME NEW p \in Policies, ChangePolicy(p)
      PROVE  QuotesInv'
  BY <1>3 DEF ChangePolicy, QuotesInv, QuotesTyped, ConsentFits, LocalQuoteFits
<1>4. ASSUME NEW t \in {"none", "follows", "blocked"}, ChangeTie(t)
      PROVE  QuotesInv'
  BY <1>4 DEF ChangeTie, QuotesInv, QuotesTyped, Ties, ConsentFits, LocalQuoteFits
<1> QED BY <1>1, <1>2, <1>3, <1>4

\* A quote is shown, listed and vouched for only under an authorization that was
\* given and not taken back, except by a handler the withdrawal came too late
\* for; one of this server that was revoked stays hidden.  For any number of
\* authorizations and any order of what arrives.
THEOREM QuotesNeedConsent == QuotesSpec => []QuotesSafe
<1>1. QuotesInit => QuotesInv
  <2> SUFFICES ASSUME QuotesInit PROVE QuotesInv
    OBVIOUS
  <2>1. quote \in QuoteRow /\ quote.state = "none"
    BY QuoteAuthorizations DEF QuotesInit, QuoteRow, NoQuote, NoAuthorization
  <2>2. target \in [live : BOOLEAN, policy : Policies]
    BY DEF QuotesInit
  <2>3. deciding.about = "none" /\ deciding.agreed = FALSE
        /\ deciding \in [about : {"none", "note", "request"}, agreed : BOOLEAN, auth : 0..MaxAuthorizations]
    BY QuoteAuthorizations DEF QuotesInit, NoDecision, NoAuthorization
  <2>4. QuotesTyped
    BY <2>1, <2>2, <2>3, QuoteAuthorizations DEF QuotesInit, QuotesTyped
  <2> QED BY <2>1, <2>3, <2>4 DEF QuotesInit, QuotesInv, ConsentFits, LocalQuoteFits, NoQuote, NoAuthorization
<1>2. QuotesInv /\ [QuotesNext]_quote_vars => QuotesInv'
  <2>1. QuotesInv /\ UNCHANGED quote_vars => QuotesInv'
    BY DEF QuotesInv, QuotesTyped, ConsentFits, LocalQuoteFits, quote_vars, told_vars, consent_vars
  <2> QED BY <2>1, QuotingKeeps, PeerKeeps, AnswersKeep, HandlersKeep, QuotedKeeps DEF QuotesNext
<1>3. QuotesInv => QuotesSafe
  <2>1. QuotesInv => QuotesTypeOK
    BY DEF QuotesInv, QuotesTyped, QuoteRow, QuotesTypeOK
  <2>2. QuotesInv => (quote.state = "accepted" => /\ quote.auth \in granted /\ (quote.auth \in withdrawn => quote.auth \in revived)
                                                  /\ (withdrawn # {} => kind.by = "remote"))
    BY DEF QuotesInv, QuotesTyped, ConsentFits, LocalQuoteFits
  <2>3. QuotesInv => notices <= 1
    BY DEF QuotesInv, QuotesTyped
  <2> QED BY <2>1, <2>2, <2>3 DEF QuotesSafe, QuoteHasConsent, ShownQuote, ListedQuote, AuthorizationServed
<1> QED BY <1>1, <1>2, <1>3, PTL DEF QuotesSpec
-----------------------------------------------------------------------------
(* Preview cards *)

CardRow == [id : CardIds \cup {NoCard}, state : {"pending", "ready", "failed"}, old : BOOLEAN]
FetchJob == [state : {"none", "queued", "running"}, attempts : Nat]
Fetcher == [card : CardIds \cup {NoCard}, stage : {"idle", "page", "picture"},
            doing : {"ready", "leased", "asking", "answered"}, age : 0..LeaseTicks, asked : 0..TimeoutTicks]
Host == [lease : 0..LeaseTicks, wait : 0..SpacingTicks]

CardsTyped ==
    /\ card \in CardRow /\ link \in [Posts -> CardIds \cup {NoCard}] /\ fetchJob \in [CardIds -> FetchJob]
    /\ fetcher \in [Fetchers -> Fetcher] /\ pruning \in CardIds \cup {NoCard}
    /\ host \in Host /\ overtaken \subseteq Fetchers
    /\ scanned \in [Posts -> BOOLEAN]

\* Statuses refer to the row that is there.
LinksAreOfCard == \A p \in Posts : link[p] \in {NoCard, card.id}

\* Only a fetch that has a card takes a lease, which is fresh when it is taken.
FetchersHaveCards == \A f \in Fetchers : fetcher[f].stage # "idle" => fetcher[f].card \in CardIds
IdleDoNotAsk == \A f \in Fetchers : fetcher[f].stage = "idle" => fetcher[f].doing = "ready"
ReadyIsFresh == \A f \in Fetchers : fetcher[f].doing = "ready" => fetcher[f].age = 0

\* The row of the host tells how long the fetcher that has the lease still has it.
LeaseIsOurs == \A f \in Fetchers : HasLease(f) => host.lease + fetcher[f].age = LeaseTicks
OneHasLease == \A f, g \in Fetchers : HasLease(f) /\ HasLease(g) => f = g

PendingHasJob == card.id # NoCard /\ card.state = "pending" => fetchJob[card.id].state # "none"

CardJobs == LinksAreOfCard /\ PendingHasJob
LeasesHold == FetchersHaveCards /\ IdleDoNotAsk /\ ReadyIsFresh /\ LeaseIsOurs /\ OneHasLease
CardsInv == CardsTyped /\ CardJobs /\ LeasesHold

LEMMA Ticks ==
    /\ LeaseTicks \in 0..LeaseTicks /\ SpacingTicks \in 0..SpacingTicks /\ 0 \in 0..LeaseTicks /\ 0 \in 0..SpacingTicks
    /\ 0 \in 0..TimeoutTicks /\ NoCard \notin CardIds
BY PreviewCardsAssumption DEF NoCard

LEMMA ReadyRests ==
    ASSUME NEW c \in CardIds \cup {NoCard}, NEW stage \in {"idle", "page", "picture"}
    PROVE  /\ Ready(c, stage) \in Fetcher /\ Ready(c, stage).doing = "ready" /\ Ready(c, stage).age = 0
           /\ Ready(c, stage).card = c /\ Ready(c, stage).stage = stage
BY Ticks DEF Ready, Fetcher

LEMMA NoJobTyped == NoJob \in FetchJob /\ NoJob.state = "none"
BY DEF NoJob, FetchJob

\* A fetcher that is ready has given its lease up: the host's is as it was or,
\* when it is released, nobody's.
LEMMA FetcherPreserves ==
    ASSUME CardsInv, NEW f \in Fetchers, NEW r \in Fetcher, r.doing = "ready", r.age = 0,
           r.stage = "idle" \/ r.card \in CardIds, fetcher' = [fetcher EXCEPT ![f] = r],
           \/ UNCHANGED <<host, overtaken>>
           \/ host' = host /\ overtaken' = overtaken \ {f}
           \/ ReleaseHost(f)
    PROVE  fetcher' \in [Fetchers -> Fetcher] /\ host' \in Host /\ overtaken' \subseteq Fetchers /\ LeasesHold'
<1>1. fetcher \in [Fetchers -> Fetcher] /\ host \in Host /\ overtaken \subseteq Fetchers
  BY DEF CardsInv, CardsTyped
<1>2. fetcher' \in [Fetchers -> Fetcher] /\ fetcher'[f] = r /\ \A g \in Fetchers \ {f} : fetcher'[g] = fetcher[g]
  BY <1>1
<1>3. host' \in Host
  BY <1>1, Ticks DEF ReleaseHost, Host
<1>4. overtaken' \subseteq Fetchers
  BY <1>1 DEF ReleaseHost
<1>5. \A g \in Fetchers : HasLease(g)' => g # f /\ HasLease(g) /\ host' = host
  <2> SUFFICES ASSUME NEW g \in Fetchers, HasLease(g)' PROVE g # f /\ HasLease(g) /\ host' = host
    OBVIOUS
  <2>1. g # f /\ g \notin overtaken' /\ fetcher'[g] = fetcher[g] /\ fetcher[g].doing # "ready" /\ fetcher[g].age < LeaseTicks
    BY <1>2 DEF HasLease
  <2>2. CASE UNCHANGED <<host, overtaken>> \/ (host' = host /\ overtaken' = overtaken \ {f})
    BY <2>1, <2>2 DEF HasLease
  <2>3. CASE ReleaseHost(f)
    <3>1. HasLease(f) /\ overtaken' = overtaken
      BY <2>1, <2>3 DEF ReleaseHost
    <3>2. HasLease(g)
      BY <2>1, <3>1 DEF HasLease
    <3> QED BY <2>1, <3>1, <3>2 DEF CardsInv, LeasesHold, OneHasLease
  <2> QED BY <2>1, <2>2, <2>3
<1>6. FetchersHaveCards' /\ IdleDoNotAsk' /\ ReadyIsFresh'
  BY <1>2 DEF CardsInv, LeasesHold, FetchersHaveCards, IdleDoNotAsk, ReadyIsFresh
<1>7. LeaseIsOurs'
  <2> SUFFICES ASSUME NEW g \in Fetchers, HasLease(g)' PROVE host'.lease + fetcher'[g].age = LeaseTicks
    BY DEF LeaseIsOurs
  <2> QED BY <1>2, <1>5 DEF CardsInv, LeasesHold, LeaseIsOurs
<1>8. OneHasLease'
  <2> SUFFICES ASSUME NEW g \in Fetchers, NEW h \in Fetchers, HasLease(g)', HasLease(h)' PROVE g = h
    BY DEF OneHasLease
  <2> QED BY <1>5 DEF CardsInv, LeasesHold, OneHasLease
<1> QED BY <1>2, <1>3, <1>4, <1>6, <1>7, <1>8 DEF LeasesHold

\* The job of a card that was stored is over; another one is left alone.
LEMMA EndPreserves ==
    ASSUME CardsInv, NEW c \in CardIds, NEW state \in {"ready", "failed"}, NEW job \in FetchJob, UNCHANGED link,
           \/ card' = Stored(c, state) /\ fetchJob' = [fetchJob EXCEPT ![c] = job]
           \/ card' = card /\ job.state # "none" /\ fetchJob' = [fetchJob EXCEPT ![c] = job]
    PROVE  card' \in CardRow /\ fetchJob' \in [CardIds -> FetchJob] /\ CardJobs'
<1>1. card \in CardRow /\ fetchJob \in [CardIds -> FetchJob]
  BY DEF CardsInv, CardsTyped
<1>2. card' \in CardRow /\ card'.id = card.id
  BY <1>1 DEF Stored, CardRow
<1>3. fetchJob' \in [CardIds -> FetchJob] /\ fetchJob'[c] = job /\ \A d \in CardIds \ {c} : fetchJob'[d] = fetchJob[d]
  BY <1>1
<1>4. LinksAreOfCard'
  BY <1>2 DEF CardsInv, CardJobs, LinksAreOfCard
<1>5. PendingHasJob'
  <2> SUFFICES ASSUME card'.id # NoCard, card'.state = "pending" PROVE fetchJob'[card'.id].state # "none"
    BY DEF PendingHasJob
  <2>1. CASE card.id = c
    <3>1. card' = card /\ job.state # "none"
      BY <1>1, <2>1 DEF Stored, CardRow
    <3> QED BY <1>3, <2>1, <3>1
  <2>2. CASE card.id # c
    <3>1. card' = card
      BY <2>2 DEF Stored
    <3> QED BY <1>1, <1>3, <2>2, <3>1 DEF CardsInv, CardJobs, PendingHasJob, CardRow
  <2> QED BY <2>1, <2>2
<1> QED BY <1>2, <1>3, <1>4, <1>5 DEF CardJobs

\* An attempt ends, with a page, an error that is tried again, or the last one.
LEMMA AttemptPreserves ==
    ASSUME CardsInv, NEW f \in Fetchers, fetcher[f].stage # "idle", FinishFetch(f) \/ FailFetch(f),
           UNCHANGED <<host, overtaken>> \/ ReleaseHost(f),
           UNCHANGED <<link, scanned, pruning>>
    PROVE  CardsInv'
<1> DEFINE c == fetcher[f].card
           last == fetchJob[c].attempts + 1 >= MaxFetchAttempts
<1>1. c \in CardIds
  BY DEF CardsInv, LeasesHold, FetchersHaveCards
<1>2. fetchJob[c] \in FetchJob
  BY <1>1 DEF CardsInv, CardsTyped
<1>3. fetcher' = [fetcher EXCEPT ![f] = Resting]
  BY DEF FinishFetch, FailFetch
<1>4. card' \in CardRow /\ fetchJob' \in [CardIds -> FetchJob] /\ CardJobs'
  <2>1. CASE FinishFetch(f)
    <3>1. card' = Stored(c, "ready") /\ fetchJob' = [fetchJob EXCEPT ![c] = NoJob]
      BY <2>1 DEF FinishFetch
    <3> HIDE DEF c
    <3> QED BY <1>1, <3>1, EndPreserves, NoJobTyped
  <2>2. CASE FailFetch(f) /\ last
    <3>1. card' = Stored(c, "failed") /\ fetchJob' = [fetchJob EXCEPT ![c] = NoJob]
      BY <2>2 DEF FailFetch, GiveUp
    <3> HIDE DEF c
    <3> QED BY <1>1, <3>1, EndPreserves, NoJobTyped
  <2>3. CASE FailFetch(f) /\ ~ last
    <3> DEFINE job == [state |-> "queued", attempts |-> fetchJob[c].attempts + 1]
    <3>1. card' = card /\ fetchJob' = [fetchJob EXCEPT ![c] = job]
      BY <2>3 DEF FailFetch
    <3>2. job \in FetchJob /\ job.state # "none"
      BY <1>2 DEF FetchJob
    <3> HIDE DEF c, job
    <3> QED BY <1>1, <3>1, <3>2, EndPreserves
  <2> QED BY <2>1, <2>2, <2>3
<1>5. fetcher' \in [Fetchers -> Fetcher] /\ host' \in Host /\ overtaken' \subseteq Fetchers /\ LeasesHold'
  <2>1. Resting \in Fetcher /\ Resting.doing = "ready" /\ Resting.age = 0 /\ Resting.stage = "idle"
    BY ReadyRests DEF Resting
  <2> QED BY <1>3, <2>1, FetcherPreserves
<1> QED BY <1>4, <1>5 DEF CardsInv, CardsTyped

LEMMA SameRequests ==
    ASSUME CardsInv, UNCHANGED <<fetcher, host, overtaken>>
    PROVE  LeasesHold'
BY DEF CardsInv, LeasesHold, FetchersHaveCards, IdleDoNotAsk, ReadyIsFresh, LeaseIsOurs, OneHasLease, HasLease

LEMMA AttachPreserves ==
    ASSUME CardsInv, NEW p \in Posts, AttachCard(p)
    PROVE  CardsInv'
<1> DEFINE d == FreshId
<1>1. /\ card \in CardRow /\ link \in [Posts -> CardIds \cup {NoCard}] /\ fetchJob \in [CardIds -> FetchJob]
      /\ LinksAreOfCard /\ PendingHasJob /\ scanned \in [Posts -> BOOLEAN]
  BY DEF CardsInv, CardsTyped, CardJobs
<1>2. d \in CardIds /\ (card.id # NoCard => d = card.id) /\ (card.id = NoCard => fetchJob[d] = NoJob)
  BY <1>1, Ticks DEF AttachCard, FreshId, UsedIds, CardRow
<1> HIDE DEF d
<1>3. /\ card' = IF card.id # NoCard THEN card ELSE [id |-> d, state |-> "pending", old |-> FALSE]
      /\ link' = [link EXCEPT ![p] = d] /\ scanned' = [scanned EXCEPT ![p] = TRUE]
      /\ fetchJob' = IF NeedsFetch /\ fetchJob[d].state = "none"
                     THEN [fetchJob EXCEPT ![d] = [state |-> "queued", attempts |-> 0]] ELSE fetchJob
      /\ UNCHANGED <<fetcher, host, overtaken, pruning>>
  BY DEF AttachCard, d
<1>4. card' \in CardRow /\ card'.id = d
  BY <1>1, <1>2, <1>3, Ticks DEF CardRow
<1>5. link' \in [Posts -> CardIds \cup {NoCard}] /\ scanned' \in [Posts -> BOOLEAN]
  BY <1>1, <1>2, <1>3
<1>6. fetchJob' \in [CardIds -> FetchJob]
  BY <1>1, <1>2, <1>3 DEF FetchJob
<1>7. LinksAreOfCard'
  <2>1. \A q \in Posts : link'[q] = IF q = p THEN d ELSE link[q]
    BY <1>1, <1>3
  <2> QED BY <1>1, <1>2, <1>4, <2>1 DEF LinksAreOfCard
<1>8. PendingHasJob'
  <2> SUFFICES ASSUME card'.state = "pending" PROVE fetchJob'[d].state # "none"
    BY <1>4 DEF PendingHasJob
  <2>1. NeedsFetch
    BY <1>3 DEF NeedsFetch
  <2> QED BY <1>1, <1>2, <1>3, <2>1
<1>9. LeasesHold'
  BY <1>3, SameRequests
<1> QED BY <1>3, <1>4, <1>5, <1>6, <1>7, <1>8, <1>9 DEF CardsInv, CardsTyped, CardJobs

LEMMA DetachPreserves ==
    ASSUME CardsInv, NEW p \in Posts, DetachCard(p)
    PROVE  CardsInv'
<1>1. link' = [link EXCEPT ![p] = NoCard] /\ scanned' = [scanned EXCEPT ![p] = TRUE]
      /\ UNCHANGED <<card, fetchJob, fetcher, host, overtaken, pruning>>
  BY DEF DetachCard
<1>2. CardsTyped'
  BY <1>1 DEF CardsInv, CardsTyped
<1>3. LinksAreOfCard' /\ PendingHasJob'
  BY <1>1 DEF CardsInv, CardsTyped, CardJobs, LinksAreOfCard, PendingHasJob
<1>4. LeasesHold'
  BY <1>1, SameRequests
<1> QED BY <1>2, <1>3, <1>4 DEF CardsInv, CardJobs

LEMMA BeginPreserves ==
    ASSUME CardsInv, NEW f \in Fetchers, NEW c \in CardIds, BeginFetch(f, c)
    PROVE  CardsInv'
<1>1. /\ UNCHANGED <<card, link, scanned, host, overtaken, pruning>> /\ card \in CardRow
      /\ fetchJob \in [CardIds -> FetchJob] /\ CardJobs /\ fetchJob[c].state = "queued"
  BY DEF BeginFetch, CardsInv, CardsTyped
<1>2. CASE card.id = c
  <2> DEFINE r == Ready(c, "page")
  <2>1. fetcher' = [fetcher EXCEPT ![f] = r] /\ fetchJob' = [fetchJob EXCEPT ![c].state = "running"]
    BY <1>2 DEF BeginFetch
  <2>2. r \in Fetcher /\ r.doing = "ready" /\ r.age = 0 /\ r.card \in CardIds
    BY ReadyRests
  <2> HIDE DEF r
  <2>3. fetcher' \in [Fetchers -> Fetcher] /\ LeasesHold'
    BY <1>1, <2>1, <2>2, FetcherPreserves
  <2>4. fetchJob' \in [CardIds -> FetchJob] /\ fetchJob'[c].state = "running"
    BY <1>1, <2>1 DEF FetchJob
  <2>5. CardJobs'
    BY <1>1, <1>2, <2>4 DEF CardJobs, LinksAreOfCard, PendingHasJob
  <2> QED BY <1>1, <2>3, <2>4, <2>5 DEF CardsInv, CardsTyped
<1>3. CASE card.id # c
  <2>1. fetchJob' = [fetchJob EXCEPT ![c] = NoJob] /\ UNCHANGED fetcher
    BY <1>3 DEF BeginFetch
  <2>2. fetchJob' \in [CardIds -> FetchJob] /\ \A d \in CardIds \ {c} : fetchJob'[d] = fetchJob[d]
    BY <1>1, <2>1, NoJobTyped
  <2>3. CardJobs'
    BY <1>1, <1>3, <2>2 DEF CardJobs, LinksAreOfCard, PendingHasJob, CardRow
  <2>4. LeasesHold'
    BY <1>1, <2>1, SameRequests
  <2> QED BY <1>1, <2>1, <2>2, <2>3, <2>4 DEF CardsInv, CardsTyped
<1> QED BY <1>2, <1>3

\* acquire_preview_host_lease: a lease that has run out is nobody's.
LEMMA AcquirePreserves ==
    ASSUME CardsInv, NEW f \in Fetchers, Acquire(f)
    PROVE  CardsInv'
<1>1. /\ fetcher[f].stage # "idle" /\ fetcher[f].doing = "ready" /\ host.lease = 0
      /\ host' = [lease |-> LeaseTicks, wait |-> SpacingTicks] /\ fetcher' = [fetcher EXCEPT ![f].doing = "leased"]
      /\ UNCHANGED <<card, link, scanned, fetchJob, overtaken, pruning>>
  BY DEF Acquire, HostIsFree
<1>2. fetcher \in [Fetchers -> Fetcher] /\ \A g \in Fetchers : fetcher[g].age \in 0..LeaseTicks
  BY DEF CardsInv, CardsTyped, Fetcher
<1>3. \A g \in Fetchers : ~ HasLease(g)
  <2> SUFFICES ASSUME NEW g \in Fetchers, HasLease(g) PROVE FALSE
    OBVIOUS
  <2>1. host.lease + fetcher[g].age = LeaseTicks /\ fetcher[g].age < LeaseTicks
    BY DEF CardsInv, LeasesHold, LeaseIsOurs, HasLease
  <2> QED BY <1>1, <1>2, <2>1
<1>4. /\ fetcher' \in [Fetchers -> Fetcher] /\ fetcher'[f].age = fetcher[f].age /\ fetcher'[f].stage = fetcher[f].stage
      /\ fetcher'[f].card = fetcher[f].card /\ fetcher'[f].doing = "leased"
      /\ \A g \in Fetchers \ {f} : fetcher'[g] = fetcher[g]
  BY <1>1, <1>2 DEF Fetcher
<1>5. \A g \in Fetchers : HasLease(g)' => g = f
  BY <1>1, <1>3, <1>4 DEF HasLease
<1>6. host' \in Host /\ host'.lease = LeaseTicks
  BY <1>1, Ticks DEF Host
<1>7. LeaseIsOurs' /\ OneHasLease'
  <2>1. fetcher'[f].age = 0
    BY <1>1, <1>4 DEF CardsInv, LeasesHold, ReadyIsFresh
  <2>2. LeaseIsOurs'
    BY <1>5, <1>6, <2>1, PreviewCardsAssumption DEF LeaseIsOurs
  <2>3. OneHasLease'
    <3> SUFFICES ASSUME NEW g \in Fetchers, NEW h \in Fetchers, HasLease(g)', HasLease(h)' PROVE g = h
      BY DEF OneHasLease
    <3> QED BY <1>5
  <2> QED BY <2>2, <2>3
<1>8. FetchersHaveCards' /\ IdleDoNotAsk' /\ ReadyIsFresh'
  BY <1>1, <1>4 DEF CardsInv, LeasesHold, FetchersHaveCards, IdleDoNotAsk, ReadyIsFresh
<1>9. CardJobs'
  BY <1>1 DEF CardsInv, CardJobs, LinksAreOfCard, PendingHasJob
<1> QED BY <1>1, <1>4, <1>6, <1>7, <1>8, <1>9 DEF CardsInv, CardsTyped, LeasesHold

\* A request begins and ends under the lease of its fetcher.
LEMMA RequestPreserves ==
    ASSUME CardsInv, NEW f \in Fetchers, Request(f) \/ Return(f)
    PROVE  CardsInv'
<1>1. UNCHANGED <<card, link, scanned, fetchJob, host, overtaken, pruning>> /\ fetcher \in [Fetchers -> Fetcher]
  BY DEF Request, Return, CardsInv, CardsTyped
<1>2. /\ fetcher' \in [Fetchers -> Fetcher] /\ fetcher'[f].age = fetcher[f].age /\ fetcher'[f].stage = fetcher[f].stage
      /\ fetcher'[f].card = fetcher[f].card /\ fetcher[f].doing # "ready" /\ fetcher'[f].doing # "ready"
      /\ \A g \in Fetchers \ {f} : fetcher'[g] = fetcher[g]
  BY <1>1, Ticks DEF Request, Return, Fetcher
<1>3. \A g \in Fetchers : HasLease(g)' <=> HasLease(g)
  BY <1>1, <1>2 DEF HasLease
<1>4. LeaseIsOurs' /\ OneHasLease'
  BY <1>1, <1>2, <1>3 DEF CardsInv, LeasesHold, LeaseIsOurs, OneHasLease
<1>5. FetchersHaveCards' /\ IdleDoNotAsk' /\ ReadyIsFresh'
  BY <1>2 DEF CardsInv, LeasesHold, FetchersHaveCards, IdleDoNotAsk, ReadyIsFresh
<1>6. CardJobs'
  BY <1>1 DEF CardsInv, CardJobs, LinksAreOfCard, PendingHasJob
<1> QED BY <1>1, <1>2, <1>4, <1>5, <1>6 DEF CardsInv, CardsTyped, LeasesHold

LEMMA AnswerPreserves ==
    ASSUME CardsInv, NEW f \in Fetchers, NEW a \in {"redirect", "error", "document", "pictured"}, HandleAnswer(f, a)
    PROVE  CardsInv'
<1>1. fetcher[f].doing = "answered" /\ ReleaseHost(f) /\ UNCHANGED <<link, scanned, pruning>>
  BY DEF HandleAnswer
<1>2. fetcher[f].stage # "idle" /\ fetcher[f].card \in CardIds /\ fetcher[f] \in Fetcher /\ fetcher \in [Fetchers -> Fetcher]
  BY <1>1 DEF CardsInv, CardsTyped, LeasesHold, IdleDoNotAsk, FetchersHaveCards
<1>3. CASE a \in {"error", "document"}
  <2>1. FinishFetch(f) \/ FailFetch(f)
    BY <1>3 DEF HandleAnswer, EndAttempt
  <2> QED BY <1>1, <1>2, <2>1, AttemptPreserves
<1>4. CASE a \in {"redirect", "pictured"}
  <2> DEFINE r == Ready(fetcher[f].card, IF a = "redirect" THEN fetcher[f].stage ELSE "picture")
  <2>1. fetcher' = [fetcher EXCEPT ![f] = r] /\ UNCHANGED <<card, fetchJob>>
    <3>1. CASE a = "redirect"
      BY <1>2, <3>1 DEF HandleAnswer
    <3>2. CASE a = "pictured"
      BY <1>2, <3>2 DEF HandleAnswer
    <3> QED BY <1>4, <3>1, <3>2
  <2>2. r \in Fetcher /\ r.doing = "ready" /\ r.age = 0 /\ r.card \in CardIds
    BY <1>2, ReadyRests DEF Fetcher
  <2> HIDE DEF r
  <2>3. fetcher' \in [Fetchers -> Fetcher] /\ host' \in Host /\ overtaken' \subseteq Fetchers /\ LeasesHold'
    BY <1>1, <2>1, <2>2, FetcherPreserves
  <2>4. CardJobs'
    BY <1>1, <2>1 DEF CardsInv, CardJobs, LinksAreOfCard, PendingHasJob
  <2> QED BY <1>1, <2>1, <2>3, <2>4 DEF CardsInv, CardsTyped
<1> QED BY <1>3, <1>4

LEMMA DeathPreserves ==
    ASSUME CardsInv, NEW f \in Fetchers, FetcherDies(f)
    PROVE  CardsInv'
<1> DEFINE c == fetcher[f].card
<1>1. /\ fetcher' = [fetcher EXCEPT ![f] = Resting] /\ fetchJob' = [fetchJob EXCEPT ![c].state = "queued"]
      /\ overtaken' = overtaken \ {f} /\ UNCHANGED <<card, link, scanned, host, pruning>>
  BY DEF FetcherDies
<1>2. fetcher' \in [Fetchers -> Fetcher] /\ overtaken' \subseteq Fetchers /\ LeasesHold'
  <2>1. Resting \in Fetcher /\ Resting.doing = "ready" /\ Resting.age = 0 /\ Resting.stage = "idle"
    BY ReadyRests DEF Resting
  <2> QED BY <1>1, <2>1, FetcherPreserves
<1>3. fetchJob \in [CardIds -> FetchJob] /\ card \in CardRow
  BY DEF CardsInv, CardsTyped
<1>4. fetchJob' \in [CardIds -> FetchJob] /\ \A d \in CardIds : fetchJob'[d].state # fetchJob[d].state => fetchJob'[d].state = "queued"
  BY <1>1, <1>3 DEF FetchJob
<1>5. CardJobs'
  BY <1>1, <1>3, <1>4 DEF CardsInv, CardJobs, LinksAreOfCard, PendingHasJob, CardRow
<1> QED BY <1>1, <1>2, <1>4, <1>5 DEF CardsInv, CardsTyped

LEMMA TimePreserves ==
    ASSUME CardsInv, TimePasses
    PROVE  CardsInv'
<1>1. fetcher \in [Fetchers -> Fetcher] /\ host \in Host /\ card \in CardRow /\ UNCHANGED <<link, scanned, fetchJob, overtaken, pruning>>
  BY DEF CardsInv, CardsTyped, TimePasses
<1>2. host' \in Host /\ host'.lease = IF host.lease = 0 THEN 0 ELSE host.lease - 1
  BY <1>1, PreviewCardsAssumption DEF TimePasses, Host
<1>3. \A f \in Fetchers : /\ fetcher'[f].stage = fetcher[f].stage /\ fetcher'[f].card = fetcher[f].card
                          /\ fetcher'[f].doing = fetcher[f].doing /\ fetcher'[f] \in Fetcher
                          /\ fetcher'[f].age = IF fetcher[f].doing = "ready" \/ fetcher[f].age = LeaseTicks
                                               THEN fetcher[f].age ELSE fetcher[f].age + 1
  <2> TAKE f \in Fetchers
  <2> DEFINE n == IF fetcher[f].doing = "ready" \/ fetcher[f].age = LeaseTicks THEN fetcher[f].age ELSE fetcher[f].age + 1
             m == IF fetcher[f].doing = "asking" THEN fetcher[f].asked + 1 ELSE fetcher[f].asked
  <2>1. fetcher'[f] = [fetcher[f] EXCEPT !.age = n, !.asked = m]
    BY DEF TimePasses, Older
  <2>2. n \in 0..LeaseTicks
    BY <1>1, PreviewCardsAssumption DEF Fetcher
  <2>3. m \in 0..TimeoutTicks
    BY <1>1, PreviewCardsAssumption DEF Fetcher, TimePasses
  <2> HIDE DEF m
  <2>4. /\ fetcher'[f].stage = fetcher[f].stage /\ fetcher'[f].card = fetcher[f].card
        /\ fetcher'[f].doing = fetcher[f].doing /\ fetcher'[f].age = n
    BY <1>1, <2>1 DEF Fetcher
  <2> HIDE DEF n
  <2>5. fetcher'[f] \in Fetcher
    BY <1>1, <2>1, <2>2, <2>3 DEF Fetcher
  <2> QED BY <2>4, <2>5 DEF n
<1>4. fetcher' \in [Fetchers -> Fetcher]
  BY <1>3 DEF TimePasses
<1>5. \A f \in Fetchers : HasLease(f)' => /\ HasLease(f) /\ fetcher'[f].age = fetcher[f].age + 1
                                          /\ fetcher'[f].age < LeaseTicks
  <2> SUFFICES ASSUME NEW f \in Fetchers, HasLease(f)'
               PROVE  HasLease(f) /\ fetcher'[f].age = fetcher[f].age + 1 /\ fetcher'[f].age < LeaseTicks
    OBVIOUS
  <2>1. /\ fetcher[f].doing # "ready" /\ fetcher'[f].age < LeaseTicks /\ f \notin overtaken
        /\ fetcher[f].age \in 0..LeaseTicks
    BY <1>1, <1>3 DEF HasLease, Fetcher
  <2> QED BY <1>3, <2>1, PreviewCardsAssumption DEF HasLease
<1>6. LeaseIsOurs' /\ OneHasLease'
  <2>1. LeaseIsOurs'
    <3> SUFFICES ASSUME NEW f \in Fetchers, HasLease(f)' PROVE host'.lease + fetcher'[f].age = LeaseTicks
      BY DEF LeaseIsOurs
    <3>1. host.lease + fetcher[f].age = LeaseTicks /\ fetcher[f].age \in 0..LeaseTicks /\ host.lease \in 0..LeaseTicks
      BY <1>1, <1>5 DEF CardsInv, LeasesHold, LeaseIsOurs, Fetcher, Host
    <3> QED BY <1>2, <1>5, <3>1, PreviewCardsAssumption
  <2>2. OneHasLease'
    <3> SUFFICES ASSUME NEW f \in Fetchers, NEW g \in Fetchers, HasLease(f)', HasLease(g)' PROVE f = g
      BY DEF OneHasLease
    <3> QED BY <1>5 DEF CardsInv, LeasesHold, OneHasLease
  <2> QED BY <2>1, <2>2
<1>7. FetchersHaveCards' /\ IdleDoNotAsk' /\ ReadyIsFresh'
  BY <1>3 DEF CardsInv, LeasesHold, FetchersHaveCards, IdleDoNotAsk, ReadyIsFresh
<1>8. card' \in CardRow /\ card'.id = card.id /\ card'.state = card.state
  BY <1>1 DEF TimePasses, CardRow
<1>9. CardJobs'
  BY <1>1, <1>8 DEF CardsInv, CardJobs, LinksAreOfCard, PendingHasJob
<1> QED BY <1>1, <1>2, <1>4, <1>6, <1>7, <1>8, <1>9 DEF CardsInv, CardsTyped, LeasesHold

LEMMA OrphansPreserve ==
    ASSUME CardsInv, ChooseOrphans \/ DeleteOrphans
    PROVE  CardsInv'
<1>1. card \in CardRow /\ link \in [Posts -> CardIds \cup {NoCard}] /\ UNCHANGED <<scanned, fetchJob, fetcher, host, overtaken>>
  BY DEF CardsInv, CardsTyped, ChooseOrphans, DeleteOrphans
<1>2. LeasesHold'
  BY <1>1, SameRequests
<1>3. CASE ChooseOrphans
  BY <1>1, <1>2, <1>3 DEF ChooseOrphans, CardsInv, CardsTyped, CardRow, CardJobs, LinksAreOfCard, PendingHasJob
<1>4. CASE DeleteOrphans
  <2>1. /\ pruning # NoCard /\ pruning' = NoCard
        /\ card' = IF card.id = pruning THEN [card EXCEPT !.id = NoCard, !.state = "pending", !.old = FALSE] ELSE card
        /\ link' = [p \in Posts |-> IF link[p] = pruning THEN NoCard ELSE link[p]]
    BY <1>4 DEF DeleteOrphans
  <2>2. card' \in CardRow /\ card'.id = IF card.id = pruning THEN NoCard ELSE card.id
    BY <1>1, <2>1 DEF CardRow
  <2>3. link' \in [Posts -> CardIds \cup {NoCard}]
    BY <1>1, <2>1
  <2>4. LinksAreOfCard'
    BY <2>1, <2>2 DEF CardsInv, CardJobs, LinksAreOfCard
  <2>5. PendingHasJob'
    BY <1>1, <2>1, <2>2 DEF CardsInv, CardJobs, PendingHasJob
  <2> QED BY <1>1, <1>2, <2>1, <2>2, <2>3, <2>4, <2>5 DEF CardsInv, CardsTyped, CardJobs
<1> QED BY <1>3, <1>4

\* For any statuses, workers, processes that die and times: two requests to a
\* host at once only after a fetcher lost its lease, and no card that nobody is
\* going to fetch.
THEOREM CardsAreFetched == PreviewCardsSpec => []PreviewCardsSafe
<1>1. PreviewCardsInit => CardsInv
  <2> SUFFICES ASSUME PreviewCardsInit PROVE CardsInv
    OBVIOUS
  <2>1. Resting \in Fetcher /\ Resting.doing = "ready" /\ Resting.age = 0 /\ Resting.stage = "idle"
    BY ReadyRests DEF Resting
  <2>2. CardsTyped
    BY Ticks, NoJobTyped, <2>1 DEF PreviewCardsInit, CardsTyped, CardRow, Host
  <2>3. card.id = NoCard /\ (\A p \in Posts : link[p] = NoCard) /\ (\A f \in Fetchers : fetcher[f] = Resting)
    BY DEF PreviewCardsInit
  <2>4. LeasesHold
    BY <2>1, <2>3 DEF LeasesHold, FetchersHaveCards, IdleDoNotAsk, ReadyIsFresh, LeaseIsOurs, OneHasLease, HasLease
  <2> QED BY <2>2, <2>3, <2>4 DEF CardsInv, CardJobs, LinksAreOfCard, PendingHasJob
<1>2. ASSUME CardsInv, [PreviewCardsNext]_card_vars
      PROVE  CardsInv'
  <2> USE <1>2
  <2>1. ASSUME NEW p \in Posts, AttachCard(p) \/ DetachCard(p) \/ Backfill(p)
        PROVE  CardsInv'
    BY <2>1, AttachPreserves, DetachPreserves DEF Backfill
  <2>2. ASSUME NEW f \in Fetchers, NotPermitted(f)
        PROVE  CardsInv'
    BY <2>2, AttemptPreserves DEF NotPermitted, EndAttempt
  <2>3. CASE UNCHANGED card_vars
    <3>1. CardsTyped' /\ CardJobs'
      BY <2>3 DEF card_vars, CardsInv, CardsTyped, CardJobs, LinksAreOfCard, PendingHasJob
    <3> QED BY <2>3, <3>1, SameRequests DEF card_vars, CardsInv
  <2> QED BY <2>1, <2>2, <2>3, AcquirePreserves, RequestPreserves, DeathPreserves, BeginPreserves, AnswerPreserves,
             TimePreserves, OrphansPreserve
          DEF PreviewCardsNext
<1>3. CardsInv => PreviewCardsSafe
  <2> SUFFICES ASSUME CardsInv PROVE PreviewCardsSafe
    OBVIOUS
  <2>1. PreviewCardsTypeOK
    BY DEF CardsInv, CardsTyped, CardRow, FetchJob, Host, CardJobs, LinksAreOfCard, PreviewCardsTypeOK
  <2>2. OneRequestPerHost
    BY DEF CardsInv, LeasesHold, OneHasLease, OneRequestPerHost
  <2>3. PendingCardHasJob
    BY DEF CardsInv, CardJobs, LinksAreOfCard, PendingHasJob, PendingCardHasJob
  <2> QED BY <2>1, <2>2, <2>3 DEF PreviewCardsSafe
<1> QED BY <1>1, <1>2, <1>3, PTL DEF PreviewCardsSpec
-----------------------------------------------------------------------------
(* Polls *)

Account == Voters \cup RemoteVoters

\* A poll that is there, but for its tally
PollRow(tally) ==
    [live : {TRUE}, ballot : Ballots, multiple : BOOLEAN, hide : BOOLEAN, ends : 0..MaxClock, closed : 0..MaxClock,
     notified : BOOLEAN, tally : {tally}, voters : Nat]

PollTyped == poll.live => poll \in PollRow(poll.tally) /\ poll.tally \in [DOMAIN poll.ballot -> Nat]

PollsTyped ==
    /\ home \in {"local", "remote"} /\ clock \in 1..MaxClock /\ update \in {"none", "queued", "running"}
    /\ poll = NoPoll \/ poll.live
    /\ PollTyped
    /\ arriving = Nobody \/ arriving.by \in RemoteVoters
    /\ expiry \subseteq 1..MaxClock + 2 /\ told \in [Voters \cup {Author} -> {0, 1}]

VotesFit ==
    /\ IsFiniteSet(vote) /\ (~ poll.live => vote = {})
    /\ poll.live => vote \subseteq [by : Account, at : DOMAIN poll.ballot]

\* Nobody has been told of a deadline that was not announced.
ToldOnce ==
    /\ poll.live /\ ~ poll.notified => \A v \in Voters \cup {Author} : told[v] = 0
    /\ home = "remote" /\ ~ poll.live => \A v \in Voters \cup {Author} : told[v] = 0

JobForDeadline ==
    poll.live /\ Due # Never /\ ~ poll.notified => (IF home = "local" THEN Due ELSE Due + GraceTime) \in expiry

PollsInv == PollsTyped /\ VotesFit /\ ToldOnce /\ JobForDeadline /\ TallyIsTrue

LEMMA Ballot ==
    \A b \in Ballots : Len(b) \in Nat /\ DOMAIN b = 1..Len(b) /\ IsFiniteSet(DOMAIN b)
<1> SUFFICES ASSUME NEW b \in Ballots PROVE Len(b) \in Nat /\ DOMAIN b = 1..Len(b) /\ IsFiniteSet(DOMAIN b)
  OBVIOUS
<1>1. Len(b) \in Nat /\ DOMAIN b = 1..Len(b)
  BY PollsAssumption
<1> QED BY <1>1, FS_Interval

LEMMA ByOfVotes ==
    ASSUME NEW S, IsFiniteSet(S)
    PROVE  IsFiniteSet({x.by : x \in S})
<1> DEFINE f == [x \in S |-> x.by]
<1>1. f \in Surjection(S, {x.by : x \in S})
  BY DEF Surjection
<1> HIDE DEF f
<1> QED BY <1>1, FS_Surjection

\* vote and record_remote_poll_vote: the votes that are cast are counted.
LEMMA CastCounts ==
    ASSUME PollsInv, NEW v \in Account, NEW choices, MayVote(v, choices), Cast(v, choices)
    PROVE  /\ poll'.live /\ poll' \in PollRow(poll'.tally) /\ poll'.tally \in [DOMAIN poll.ballot -> Nat]
           /\ IsFiniteSet(vote') /\ vote' \subseteq [by : Account, at : DOMAIN poll.ballot]
           /\ poll'.ballot = poll.ballot /\ poll'.ends = poll.ends /\ poll'.closed = poll.closed /\ poll'.notified = poll.notified
           /\ home = "local" =>
                 /\ \A i \in DOMAIN poll.ballot : poll'.tally[i] = Cardinality({x \in vote' : x.at = i})
                 /\ poll'.voters = Cardinality({x.by : x \in vote'})
                 /\ ~ poll'.multiple => \A x, y \in vote' : x.by = y.by => x = y
<1> DEFINE W == [by : {v}, at : choices]
           D == DOMAIN poll.ballot
           t == [i \in DOMAIN poll.tally |-> IF i \in choices THEN poll.tally[i] + 1 ELSE poll.tally[i]]
           n == IF VotesOf(v) = {} THEN poll.voters + 1 ELSE poll.voters
<1>1. /\ poll.live /\ poll \in PollRow(poll.tally) /\ poll.tally \in [D -> Nat] /\ poll.ballot \in Ballots
      /\ IsFiniteSet(vote) /\ vote \subseteq [by : Account, at : D]
  BY DEF PollsInv, PollsTyped, PollTyped, VotesFit, MayVote, Open, PollRow
<1>2. /\ choices \subseteq D /\ choices # {} /\ \A c \in choices : [by |-> v, at |-> c] \notin vote
      /\ (~ poll.multiple => Cardinality(choices) = 1) /\ (~ poll.multiple => VotesOf(v) = {})
      /\ (VotesOf(v) # {} => v \in RemoteVoters)
  BY DEF MayVote
<1>3. vote' = vote \cup W /\ poll' = [poll EXCEPT !.tally = t, !.voters = n]
  BY DEF Cast
<1>4. t \in [D -> Nat] /\ n \in Nat /\ \A i \in D : t[i] = IF i \in choices THEN poll.tally[i] + 1 ELSE poll.tally[i]
  BY <1>1 DEF PollRow
<1> HIDE DEF t, n
<1>5. /\ poll'.tally = t /\ poll'.voters = n /\ poll' \in PollRow(t) /\ poll'.live
      /\ poll'.ballot = poll.ballot /\ poll'.ends = poll.ends /\ poll'.closed = poll.closed /\ poll'.notified = poll.notified
      /\ poll'.multiple = poll.multiple
  BY <1>1, <1>3, <1>4 DEF PollRow
<1>6. IsFiniteSet(choices)
  BY <1>1, <1>2, Ballot, FS_Subset
<1>7. IsFiniteSet(W)
  <2> DEFINE f == [c \in choices |-> [by |-> v, at |-> c]]
  <2>1. f \in Surjection(choices, W)
    BY DEF Surjection
  <2> HIDE DEF f, W
  <2> QED BY <1>6, <2>1, FS_Surjection
<1>8. IsFiniteSet(vote') /\ vote' \subseteq [by : Account, at : D]
  <2>1. W \subseteq [by : Account, at : D]
    BY <1>2
  <2> HIDE DEF W
  <2> QED BY <1>1, <1>3, <1>7, <2>1, FS_Union
<1>9. ASSUME home = "local", NEW i \in D
      PROVE  t[i] = Cardinality({x \in vote' : x.at = i})
  <2> DEFINE S == {x \in vote : x.at = i}
             e == [by |-> v, at |-> i]
  <2>1. IsFiniteSet(S) /\ poll.tally[i] = Cardinality(S) /\ Cardinality(S) \in Nat
    <3>1. IsFiniteSet(S)
      BY <1>1, FS_Subset
    <3> QED BY <1>1, <1>9, <3>1, FS_CardinalityType DEF PollsInv, TallyIsTrue
  <2>2. CASE i \in choices
    <3>1. {x \in vote' : x.at = i} = S \cup {e}
      BY <1>3, <2>2
    <3>2. e \notin S
      BY <1>2, <2>2
    <3> HIDE DEF S, e
    <3> QED BY <1>4, <2>1, <2>2, <3>1, <3>2, FS_AddElement
  <2>3. CASE i \notin choices
    <3>1. {x \in vote' : x.at = i} = S
      BY <1>3, <2>3
    <3> HIDE DEF S
    <3> QED BY <1>4, <2>1, <2>3, <3>1
  <2> QED BY <2>2, <2>3
<1>10. ASSUME home = "local"
       PROVE  n = Cardinality({x.by : x \in vote'})
  <2> DEFINE S == {x.by : x \in vote}
  <2>1. IsFiniteSet(S) /\ poll.voters = Cardinality(S)
    BY <1>1, <1>10, ByOfVotes DEF PollsInv, TallyIsTrue
  <2>2. {x.by : x \in vote'} = S \cup {v}
    <3>1. \A x \in W : x.by = v
      OBVIOUS
    <3>2. \E x \in W : x.by = v
      <4>1. PICK c \in choices : TRUE
        BY <1>2
      <4>2. [by |-> v, at |-> c] \in W
        OBVIOUS
      <4> QED BY <3>1, <4>2
    <3> HIDE DEF W
    <3> QED BY <1>3, <3>1, <3>2
  <2>3. VotesOf(v) = {} <=> v \notin S
    BY DEF VotesOf
  <2> HIDE DEF S
  <2> QED BY <2>1, <2>2, <2>3, FS_AddElement DEF n
<1>11. ASSUME home = "local", ~ poll.multiple, NEW x \in vote', NEW y \in vote', x.by = y.by
       PROVE  x = y
  <2>1. \E c : choices = {c}
    BY <1>2, <1>6, <1>11, FS_Singleton
  <2>2. \A z \in vote : z.by # v
    BY <1>2, <1>11 DEF VotesOf
  <2>3. \A z, w \in W : z = w /\ z.by = v
    BY <2>1
  <2>4. \A z, w \in vote : z.by = w.by => z = w
    BY <1>1, <1>11 DEF PollsInv, TallyIsTrue
  <2> HIDE DEF W
  <2> QED BY <1>3, <1>11, <2>2, <2>3, <2>4
<1> QED BY <1>4, <1>5, <1>8, <1>9, <1>10, <1>11

\* A vote moves neither the deadline nor what was told.
LEMMA VotePreserves ==
    ASSUME PollsInv, NEW v \in Account, NEW choices, MayVote(v, choices), Cast(v, choices),
           update' \in {"none", "queued", "running"}, arriving' = Nobody \/ arriving' = arriving,
           UNCHANGED <<home, clock, expiry, told>>
    PROVE  PollsInv'
<1>1. poll.live /\ poll'.live /\ poll' \in PollRow(poll'.tally) /\ poll'.tally \in [DOMAIN poll.ballot -> Nat]
  BY CastCounts DEF MayVote, Open
<1>2. IsFiniteSet(vote') /\ vote' \subseteq [by : Account, at : DOMAIN poll.ballot]
  BY CastCounts
<1>3. poll'.ballot = poll.ballot /\ poll'.ends = poll.ends /\ poll'.closed = poll.closed /\ poll'.notified = poll.notified
  BY CastCounts
<1>4. TallyIsTrue'
  BY <1>3, CastCounts DEF TallyIsTrue
<1>5. PollsTyped'
  BY <1>1, <1>3 DEF PollsInv, PollsTyped, PollTyped, Nobody
<1>6. VotesFit'
  BY <1>1, <1>2, <1>3 DEF VotesFit
<1>7. ToldOnce' /\ JobForDeadline'
  BY <1>1, <1>3 DEF PollsInv, ToldOnce, JobForDeadline, Due
<1> QED BY <1>4, <1>5, <1>6, <1>7 DEF PollsInv

LEMMA NoVotes ==
    ASSUME NEW ballot \in Ballots
    PROVE  /\ ZeroTally(ballot) \in [DOMAIN ballot -> Nat] /\ \A i \in DOMAIN ballot : ZeroTally(ballot)[i] = 0
           /\ IsFiniteSet({}) /\ \A i : Cardinality({x \in {} : x.at = i}) = 0
           /\ Cardinality({x.by : x \in {}}) = 0
<1>1. \A i : {x \in {} : x.at = i} = {}
  OBVIOUS
<1>2. {x.by : x \in {}} = {}
  OBVIOUS
<1> QED BY <1>1, <1>2, FS_EmptySet DEF ZeroTally

\* A poll with a new deadline: its votes were dropped, or kept with their tally.
LEMMA WritePreserves ==
    ASSUME PollsInv, NEW b \in Ballots, NEW m \in BOOLEAN, NEW h \in BOOLEAN, NEW e \in Deadlines,
           CreatePoll(b, m, h, e) \/ EditPoll(b, m, h, e)
    PROVE  PollsInv'
<1>1. /\ home = "local" /\ home' = home /\ clock' = clock /\ clock \in 1..MaxClock /\ UNCHANGED <<update, sentTally, arriving>>
      /\ expiry' = expiry \cup {e} /\ told' = Fresh
  BY DEF CreatePoll, EditPoll, WithExpiry, PollsInv, PollsTyped
<1>2. e \in 1..MaxClock /\ e # 0 /\ e \in 0..MaxClock /\ e \in 1..MaxClock + 2
  BY <1>1, PollsAssumption DEF Deadlines
<1>3. 0 \in 0..MaxClock
  BY PollsAssumption
<1>4. told' \in [Voters \cup {Author} -> {0, 1}] /\ \A v \in Voters \cup {Author} : told'[v] = 0
  BY <1>1 DEF Fresh
<1>5. ASSUME poll' \in PollRow(poll'.tally), poll'.tally \in [DOMAIN b -> Nat], poll'.ballot = b, poll'.live,
             poll'.ends = e, poll'.closed = Never, VotesFit', TallyIsTrue'
      PROVE  PollsInv'
  <2>1. Due' = e
    BY <1>5 DEF Due
  <2>2. PollsTyped'
    BY <1>1, <1>2, <1>4, <1>5 DEF PollsInv, PollsTyped, PollTyped, Nobody
  <2>3. ToldOnce' /\ JobForDeadline'
    BY <1>1, <1>4, <2>1 DEF ToldOnce, JobForDeadline
  <2> QED BY <1>5, <2>2, <2>3 DEF PollsInv
<1>6. CASE CreatePoll(b, m, h, e) \/ (EditPoll(b, m, h, e) /\ Changed(b, m))
  <2> DEFINE t == ZeroTally(b)
             notes == [live |-> TRUE, ballot |-> b, multiple |-> m, hide |-> h, ends |-> e, closed |-> Never,
                       notified |-> FALSE, tally |-> t, voters |-> 0]
  <2>1. poll' = notes /\ vote' = {}
    <3>1. CASE CreatePoll(b, m, h, e)
      BY <3>1 DEF CreatePoll
    <3>2. CASE EditPoll(b, m, h, e) /\ Changed(b, m)
      <4>1. poll.live /\ poll \in PollRow(poll.tally)
        BY <3>2 DEF EditPoll, PollsInv, PollsTyped, PollTyped
      <4> QED BY <3>2, <4>1 DEF EditPoll, PollRow
    <3> QED BY <1>6, <3>1, <3>2
  <2> HIDE DEF t
  <2>2. poll' \in PollRow(poll'.tally) /\ poll'.tally = t /\ poll'.ballot = b /\ poll'.live /\ poll'.ends = e /\ poll'.closed = Never
        /\ poll'.voters = 0
    BY <1>2, <1>3, <2>1 DEF PollRow, Never
  <2>3. VotesFit' /\ TallyIsTrue'
    BY <2>1, <2>2, NoVotes DEF VotesFit, TallyIsTrue, t
  <2> QED BY <1>5, <2>2, <2>3, NoVotes DEF t
<1>7. CASE EditPoll(b, m, h, e) /\ ~ Changed(b, m)
  <2>1. poll.live /\ poll \in PollRow(poll.tally) /\ poll.tally \in [DOMAIN b -> Nat] /\ b = poll.ballot /\ m = poll.multiple
    BY <1>7 DEF EditPoll, Changed, PollsInv, PollsTyped, PollTyped
  <2>2. poll' = [poll EXCEPT !.hide = h, !.ends = e, !.closed = Never, !.notified = FALSE] /\ vote' = vote
    BY <1>7, <2>1 DEF EditPoll, PollRow
  <2>3. /\ poll' \in PollRow(poll'.tally) /\ poll'.tally = poll.tally /\ poll'.ballot = b /\ poll'.live /\ poll'.ends = e
        /\ poll'.closed = Never /\ poll'.voters = poll.voters /\ poll'.multiple = poll.multiple
    BY <1>2, <1>3, <2>1, <2>2 DEF PollRow, Never
  <2>4. VotesFit' /\ TallyIsTrue'
    BY <1>1, <2>1, <2>2, <2>3 DEF PollsInv, VotesFit, TallyIsTrue
  <2> QED BY <1>5, <2>1, <2>3, <2>4
<1> QED BY <1>6, <1>7

LEMMA UpsertPreserves ==
    ASSUME PollsInv, NEW b \in Ballots, NEW m \in BOOLEAN, NEW e \in Deadlines \cup {Never}, NEW c \in {Never, clock}, UpsertPoll(b, m, e, c)
    PROVE  PollsInv'
<1> DEFINE due == IF c # Never THEN c ELSE e
           t == ZeroTally(b)
           notes == [live |-> TRUE, ballot |-> b, multiple |-> m, hide |-> FALSE, ends |-> e, closed |-> c,
                     notified |-> poll.notified, tally |-> t, voters |-> 0]
<1>1. /\ home = "remote" /\ clock \in 1..MaxClock /\ poll' = notes
      /\ vote' = (IF poll.live /\ Changed(b, m) THEN {} ELSE vote)
      /\ expiry' = (IF due = Never THEN expiry ELSE expiry \cup {due + 1}) /\ UNCHANGED <<home, clock, update, sentTally, arriving, told>>
  BY DEF UpsertPoll, WithExpiry, GraceTime, PollsInv, PollsTyped
<1>2. e \in 0..MaxClock /\ c \in 0..MaxClock /\ due \in 0..MaxClock /\ (due # Never => due + 1 \in 1..MaxClock + 2)
  BY <1>1, PollsAssumption DEF Deadlines, Never
<1>3. poll.notified \in BOOLEAN
  <2>1. NoPoll.notified \in BOOLEAN
    BY DEF NoPoll
  <2>2. poll.live => poll.notified \in BOOLEAN
    BY DEF PollsInv, PollsTyped, PollTyped, PollRow
  <2> QED BY <2>1, <2>2 DEF PollsInv, PollsTyped
<1>4. t \in [DOMAIN b -> Nat]
  BY NoVotes
<1> HIDE DEF t
<1>5. poll' \in PollRow(t) /\ poll'.tally = t /\ poll'.ballot = b /\ poll'.live /\ poll'.ends = e /\ poll'.closed = c
      /\ poll'.notified = poll.notified
  BY <1>1, <1>2, <1>3 DEF PollRow
<1>6. Due' = due
  BY <1>5 DEF Due
<1> HIDE DEF due
<1>7. PollsTyped'
  BY <1>1, <1>2, <1>4, <1>5 DEF PollsInv, PollsTyped, PollTyped, Nobody
<1>8. VotesFit'
  BY <1>1, <1>5, FS_EmptySet DEF PollsInv, VotesFit, Changed
<1>9. ToldOnce'
  <2>1. ASSUME ~ poll.notified PROVE \A v \in Voters \cup {Author} : told[v] = 0
    BY <1>1, <2>1 DEF PollsInv, ToldOnce
  <2> QED BY <1>1, <1>5, <2>1 DEF ToldOnce
<1>10. JobForDeadline' /\ TallyIsTrue'
  BY <1>1, <1>6 DEF JobForDeadline, TallyIsTrue, GraceTime
<1> QED BY <1>7, <1>8, <1>9, <1>10 DEF PollsInv

LEMMA ExpiryPreserves ==
    ASSUME PollsInv, NEW at \in expiry, ExpirePoll(at) \/ ExpireNothing(at)
    PROVE  PollsInv'
<1>1. clock \in 1..MaxClock /\ at <= clock /\ at \in 1..MaxClock + 2 /\ expiry' = expiry \ {at} /\ UNCHANGED <<home, vote, clock, sentTally, arriving>>
  BY DEF ExpirePoll, ExpireNothing, PollsInv, PollsTyped
<1>2. CASE ExpirePoll(at)
  <2> DEFINE n == IF Due # Never THEN Due ELSE clock
  <2>1. /\ poll.live /\ ~ poll.notified /\ poll' = [poll EXCEPT !.closed = n, !.notified = TRUE]
        /\ told' = [v \in DOMAIN told |-> IF v \in Recipients THEN told[v] + 1 ELSE told[v]]
        /\ update' \in {"none", "queued", "running"}
    BY <1>2 DEF ExpirePoll, WithUpdate, PollsInv, PollsTyped
  <2>2. poll \in PollRow(poll.tally) /\ poll.tally \in [DOMAIN poll.ballot -> Nat] /\ told \in [Voters \cup {Author} -> {0, 1}]
    BY <2>1 DEF PollsInv, PollsTyped, PollTyped
  <2>3. n \in 0..MaxClock
    BY <1>1, <2>2, PollsAssumption DEF Due, PollRow
  <2> HIDE DEF n
  <2>4. /\ poll' \in PollRow(poll.tally) /\ poll'.tally = poll.tally /\ poll'.ballot = poll.ballot /\ poll'.live /\ poll'.notified
        /\ poll'.voters = poll.voters /\ poll'.multiple = poll.multiple
    BY <2>1, <2>2, <2>3 DEF PollRow
  <2>5. told' \in [Voters \cup {Author} -> {0, 1}]
    BY <2>1, <2>2 DEF PollsInv, ToldOnce
  <2>6. PollsTyped'
    BY <1>1, <2>1, <2>2, <2>4, <2>5 DEF PollsInv, PollsTyped, PollTyped, Nobody
  <2>7. VotesFit' /\ ToldOnce' /\ JobForDeadline' /\ TallyIsTrue'
    BY <1>1, <2>1, <2>4 DEF PollsInv, VotesFit, ToldOnce, JobForDeadline, TallyIsTrue
  <2> QED BY <2>6, <2>7 DEF PollsInv
<1>3. CASE ExpireNothing(at)
  <2>1. UNCHANGED <<poll, update, told>> /\ ~ (poll.live /\ Due <= clock /\ ~ poll.notified)
    BY <1>3 DEF ExpireNothing
  <2>2. poll.live => Due \in 0..MaxClock
    BY DEF PollsInv, PollsTyped, PollTyped, PollRow, Due
  <2>3. JobForDeadline'
    <3> SUFFICES ASSUME poll.live, Due # Never, ~ poll.notified
                 PROVE  (IF home = "local" THEN Due ELSE Due + GraceTime) \in expiry \ {at}
      BY <1>1, <2>1 DEF JobForDeadline, Due
    <3>1. (IF home = "local" THEN Due ELSE Due + GraceTime) \in expiry
      BY DEF PollsInv, JobForDeadline
    <3>2. ~ (Due <= clock)
      BY <2>1
    <3> QED BY <1>1, <2>2, <3>1, <3>2, PollsAssumption DEF GraceTime
  <2>4. PollsTyped'
    BY <1>1, <2>1 DEF PollsInv, PollsTyped, PollTyped, Nobody
  <2>5. VotesFit' /\ ToldOnce' /\ TallyIsTrue'
    BY <1>1, <2>1 DEF PollsInv, VotesFit, ToldOnce, TallyIsTrue
  <2> QED BY <2>3, <2>4, <2>5 DEF PollsInv
<1> QED BY <1>2, <1>3

\* The steps that leave the poll, its votes and its deadlines alone
LEMMA SamePollPreserves ==
    ASSUME PollsInv, UNCHANGED <<home, poll, vote, expiry, told>>, clock' \in 1..MaxClock, update' \in {"none", "queued", "running"},
           arriving' = Nobody \/ arriving'.by \in RemoteVoters
    PROVE  PollsInv'
<1>1. PollsTyped'
  BY DEF PollsInv, PollsTyped, PollTyped, Nobody
<1>2. VotesFit' /\ ToldOnce' /\ TallyIsTrue' /\ JobForDeadline'
  BY DEF PollsInv, VotesFit, ToldOnce, TallyIsTrue, JobForDeadline, Due
<1> QED BY <1>1, <1>2 DEF PollsInv

\* For any voters, ballots, edits and deadlines: the tally of a local poll is
\* the count of its votes, an end that is not announced has its job, and nobody
\* is told of it twice.
THEOREM PollsAreTrue == PollsSpec => []PollsSafe
<1>1. PollsInit => PollsInv
  <2> SUFFICES ASSUME PollsInit PROVE PollsInv
    OBVIOUS
  <2>1. poll = NoPoll /\ ~ poll.live /\ vote = {} /\ told \in [Voters \cup {Author} -> {0, 1}] /\ \A v \in Voters \cup {Author} : told[v] = 0
    BY DEF PollsInit, NoPoll, Fresh
  <2>2. clock \in 1..MaxClock
    BY PollsAssumption DEF PollsInit
  <2> QED BY <2>1, <2>2, FS_EmptySet DEF PollsInit, PollsInv, PollsTyped, PollTyped, VotesFit, ToldOnce, JobForDeadline, TallyIsTrue
<1>2. ASSUME PollsInv, [PollsNext]_poll_vars
      PROVE  PollsInv'
  <2> USE <1>2
  <2>1. clock \in 1..MaxClock /\ update \in {"none", "queued", "running"} /\ (arriving = Nobody \/ arriving.by \in RemoteVoters)
    BY DEF PollsInv, PollsTyped
  <2>2. WithUpdate \in {"none", "queued", "running"}
    BY <2>1 DEF WithUpdate
  <2>3. ASSUME NEW v \in Voters, NEW choices \in SUBSET DOMAIN poll.ballot, VotePoll(v, choices)
        PROVE  PollsInv'
    <3>1. v \in Account /\ update' \in {"none", "queued", "running"}
      BY <2>1, <2>2, <2>3 DEF VotePoll, Account
    <3> QED BY <2>3, <3>1, VotePreserves DEF VotePoll
  <2>4. ASSUME NEW m \in RemoteVoters, NEW i \in DOMAIN poll.ballot, ReceiveVote(m, i)
        PROVE  PollsInv'
    <3>1. arriving'.by \in RemoteVoters
      BY <2>4 DEF ReceiveVote
    <3> QED BY <2>1, <2>4, <3>1, SamePollPreserves DEF ReceiveVote
  <2>5. CASE DropPoll
    <3>1. poll' = NoPoll /\ ~ poll'.live /\ vote' = {} /\ home = "local" /\ UNCHANGED <<home, clock, expiry, update, sentTally, arriving, told>>
      BY <2>5 DEF DropPoll, NoPoll
    <3>2. PollsTyped'
      BY <3>1 DEF PollsInv, PollsTyped, PollTyped, NoPoll, Nobody
    <3> QED BY <3>1, <3>2, FS_EmptySet DEF PollsInv, VotesFit, ToldOnce, JobForDeadline, TallyIsTrue
  <2>6. CASE RecordVote
    <3>1. arriving.by \in Account /\ update' \in {"none", "queued", "running"}
      BY <2>1, <2>2, <2>6 DEF RecordVote, Account
    <3> QED BY <2>6, <3>1, VotePreserves DEF RecordVote
  <2>7. CASE RefuseVote \/ Tick \/ SendUpdate \/ CompleteUpdate
    <3>1. clock' \in 1..MaxClock /\ update' \in {"none", "queued", "running"} /\ (arriving' = Nobody \/ arriving'.by \in RemoteVoters)
      BY <2>1, <2>7, PollsAssumption DEF RefuseVote, Tick, SendUpdate, CompleteUpdate, Nobody
    <3> QED BY <2>7, <3>1, SamePollPreserves DEF RefuseVote, Tick, SendUpdate, CompleteUpdate
  <2>8. CASE UNCHANGED poll_vars
    BY <2>1, <2>8, SamePollPreserves DEF poll_vars, Nobody
  <2> QED BY <2>3, <2>4, <2>5, <2>6, <2>7, <2>8, WritePreserves, UpsertPreserves, ExpiryPreserves DEF PollsNext
<1>3. PollsInv => PollsSafe
  <2> SUFFICES ASSUME PollsInv PROVE PollsSafe
    OBVIOUS
  <2>1. poll.live => poll.ballot \in Ballots /\ DOMAIN poll.tally = DOMAIN poll.ballot
    BY DEF PollsInv, PollsTyped, PollTyped, PollRow
  <2>2. vote \subseteq [by : Voters \cup RemoteVoters, at : 1..Len(poll.ballot)]
    BY <2>1, Ballot DEF PollsInv, VotesFit, Account
  <2>3. PollsTypeOK
    BY <2>1, <2>2 DEF PollsInv, PollsTyped, PollsTypeOK
  <2>4. DeadlineIsKept
    BY DEF PollsInv, PollsTyped, JobForDeadline, DeadlineIsKept
  <2> QED BY <2>3, <2>4 DEF PollsInv, PollsSafe
<1> QED BY <1>1, <1>2, <1>3, PTL DEF PollsSpec
-----------------------------------------------------------------------------
(* Conversations *)

\* A set of numbers has a least one.
LEMMA LeastNumber ==
    ASSUME NEW T \in SUBSET Nat, T # {}
    PROVE  \E x \in T : \A y \in T : x <= y
<1>1. \E R : IsWellFoundedOn(R, Nat) /\ \A x, y \in Nat : x < y => <<x, y>> \in R
  <2>1. \A x, y \in Nat : x < y => <<x, y>> \in OpToRel(<, Nat)
    BY DEF OpToRel
  <2> WITNESS OpToRel(<, Nat)
  <2> QED BY <2>1, NatLessThanWellFounded
<1>2. PICK R : IsWellFoundedOn(R, Nat) /\ \A x, y \in Nat : x < y => <<x, y>> \in R
  BY <1>1
<1>3. \E x \in T : \A y \in T : ~ (<<y, x>> \in R)
  <2>1. T \subseteq Nat /\ IsWellFoundedOn(R, Nat)
    BY <1>2
  <2> QED BY <2>1, WFMin, Zenon
<1>4. PICK x \in T : \A y \in T : ~ (<<y, x>> \in R)
  BY <1>3
<1>5. x \in Nat /\ \A y \in T : y \in Nat /\ ~ (y < x)
  BY <1>2, <1>4
<1>6. \A y \in T : x <= y
  BY <1>5
<1> QED BY <1>4, <1>6

Peakless(U) == U # {} /\ ~ \E n \in U : \A m \in U : m <= n

\* A finite set of numbers has a greatest one: a smallest set without one would
\* not be the smallest.
LEMMA GreatestNumber ==
    ASSUME NEW S \in SUBSET Nat, IsFiniteSet(S), S # {}
    PROVE  \E n \in S : \A m \in S : m <= n
<1> DEFINE Sizes == {n \in Nat : \E U \in SUBSET S : Peakless(U) /\ Cardinality(U) = n}
<1>0. \A U \in SUBSET S : IsFiniteSet(U) /\ Cardinality(U) \in Nat
  BY FS_Subset, FS_CardinalityType
<1>1. ASSUME Peakless(S) PROVE FALSE
  <2>1. Cardinality(S) \in Sizes
    BY <1>0, <1>1
  <2>2. PICK n \in Sizes : \A k \in Sizes : n <= k
    <3>1. Sizes \in SUBSET Nat
      OBVIOUS
    <3> HIDE DEF Sizes
    <3> QED BY <2>1, <3>1, LeastNumber
  <2>3. PICK U \in SUBSET S : Peakless(U) /\ Cardinality(U) = n
    BY <2>2
  <2>4. PICK x \in U : TRUE
    BY <2>3 DEF Peakless
  <2>5. IsFiniteSet(U \ {x}) /\ Cardinality(U \ {x}) = n - 1 /\ n \in Nat
    BY <1>0, <2>2, <2>3, <2>4, FS_RemoveElement
  <2>6. ~ Peakless(U \ {x})
    <3>1. U \ {x} \in SUBSET S /\ Cardinality(U \ {x}) \in Nat
      BY <1>0
    <3>2. ~ (n <= n - 1)
      BY <2>5
    <3> QED BY <2>2, <2>5, <3>1, <3>2
  <2>7. CASE U \ {x} = {}
    <3>1. U = {x} /\ x \in Nat
      BY <2>4, <2>7
    <3> QED BY <2>3, <3>1 DEF Peakless
  <2>8. CASE U \ {x} # {}
    <3>1. PICK y \in U \ {x} : \A m \in U \ {x} : m <= y
      BY <2>6, <2>8 DEF Peakless
    <3>2. x \in Nat /\ y \in Nat /\ U \subseteq Nat
      BY <2>4
    <3>3. CASE x <= y
      <4>1. \A m \in U : m <= y
        BY <3>1, <3>3
      <4> QED BY <2>3, <3>1, <4>1 DEF Peakless
    <3>4. CASE y <= x
      <4>1. \A m \in U : m <= x
        BY <3>1, <3>2, <3>4
      <4> QED BY <2>3, <2>4, <4>1 DEF Peakless
    <3> QED BY <3>2, <3>3, <3>4
  <2> QED BY <2>7, <2>8
<1> QED BY <1>1 DEF Peakless

ViewRow == [last : Messages, unread : BOOLEAN, hidden : BOOLEAN]
DraftView == [last : Messages \cup {NoMessage}, unread : BOOLEAN, hidden : BOOLEAN]
MessageRow == [state : {"absent", "live", "open", "gone", "purged"}, by : People \cup {Peer}, to : SUBSET People,
               thread : Threads \cup {NoThread}, parent : Messages \cup {NoMessage}, edited : BOOLEAN]
WriterRow == [kind : {"idle", "attach", "edit", "arrive", "revise"}, msg : Messages \cup {NoMessage},
              row : MessageRow, seen : SUBSET People]

ViewsTyped ==
    /\ DOMAIN view = Threads
    /\ \A t \in Threads : DOMAIN view[t] \subseteq People /\ \A a \in DOMAIN view[t] : view[t][a] \in ViewRow

\* A message that was written is in a conversation that exists, until its row is purged.
MessagesFit ==
    /\ message \in [Messages -> MessageRow]
    /\ \A m \in Messages : /\ message[m].state = "absent" => message[m] = Unwritten
                           /\ message[m].state \in {"live", "open", "gone"} => message[m].thread \in opened
                           /\ message[m].thread \in opened \cup {NoThread}
                           /\ m \in RemoteMessages => message[m].by = Peer

\* What a transaction has in hand stays as it read it: it locks the message.
WriterFits(x) ==
    x.kind # "idle" =>
        /\ x.msg \in Messages /\ x.row.state = "live" /\ x.row.thread \in opened
        /\ (x.kind \in {"attach", "arrive"}) => message[x.msg] = Unwritten /\ ~ x.row.edited
        /\ x.kind = "attach" => x.row.by \in People /\ x.msg \notin RemoteMessages
        /\ x.kind = "arrive" => x.row.by = Peer
        /\ (x.kind \in {"edit", "revise"}) => message[x.msg].state = "live" /\ x.row.edited
        /\ x.kind = "edit" => x.row.thread = message[x.msg].thread /\ x.msg \notin RemoteMessages
        /\ x.kind = "revise" => x.msg \in RemoteMessages /\ x.row.by = Peer

WritersFit ==
    /\ writer \in [Writers -> WriterRow]
    /\ \A w \in Writers : WriterFits(writer[w])
    /\ \A v, w \in Writers : v # w /\ writer[v].kind # "idle" => writer[v].msg # writer[w].msg

\* Every view, hidden or not, shows a message of its conversation that the
\* account may read, or one that an edit moved away or that was purged.
ShownFits ==
    \A t \in Threads : \A a \in DOMAIN view[t] :
        LET m == view[t][a].last IN
        \/ m \in RemoteMessages /\ message[m].edited /\ message[m].thread # t
        \/ message[m].state = "purged"
        \/ message[m].state = "live" /\ message[m].thread = t /\ a \in Participants(message[m])

ConversationsInv ==
    /\ opened \subseteq Threads /\ hides \subseteq People /\ lost \subseteq opened \X People
    /\ ViewsTyped /\ MessagesFit /\ WritersFit /\ ShownFits /\ AddressedHaveView

LEMMA ParticipantsArePeople ==
    ASSUME NEW entry \in MessageRow
    PROVE  Participants(entry) \subseteq People /\ Peer \notin Participants(entry)
BY ConversationsAssumption DEF Participants, MessageRow

\* repair_direct_conversation_after_delete leaves views of visible messages, and
\* removes nobody who has one.
LEMMA RepairShows ==
    ASSUME NEW msgs \in [Messages -> MessageRow], NEW t \in Threads, NEW vs,
           DOMAIN vs \subseteq People, \A a \in DOMAIN vs : vs[a] \in DraftView
    PROVE  /\ DOMAIN Repaired(msgs, t, vs) = {a \in DOMAIN vs : VisibleTo(msgs, t, a) # {}}
           /\ \A a \in DOMAIN Repaired(msgs, t, vs) :
                 Repaired(msgs, t, vs)[a] \in ViewRow /\ Repaired(msgs, t, vs)[a].last \in VisibleTo(msgs, t, a)
<1>1. ASSUME NEW a \in DOMAIN vs, VisibleTo(msgs, t, a) # {}
      PROVE  Newest(VisibleTo(msgs, t, a)) \in VisibleTo(msgs, t, a)
  <2> DEFINE S == VisibleTo(msgs, t, a)
  <2>1. S \in SUBSET Nat /\ S \in SUBSET Messages /\ S # {}
    BY <1>1, ConversationsAssumption DEF VisibleTo
  <2> HIDE DEF S
  <2>2. IsFiniteSet(S)
    BY <2>1, ConversationsAssumption, FS_Subset
  <2>3. \E n \in S : \A m \in S : m <= n
    BY <2>1, <2>2, GreatestNumber
  <2>4. Newest(S) \in S
    BY <2>3 DEF Newest
  <2> QED BY <2>4 DEF S
<1>2. \A a \in DOMAIN vs : VisibleTo(msgs, t, a) \subseteq Messages
  BY DEF VisibleTo
<1> QED BY <1>1, <1>2 DEF Repaired, StillShown, ViewRow, DraftView

\* A view that is not lost any more was inserted.
LostStayLost(t) ==
    \A u \in Threads, a \in People : <<u, a>> \in lost => <<u, a>> \in lost' \/ (u = t /\ a \in DOMAIN view'[t])

\* The participants of an entry are among the views, or have lost theirs.
HaveViews(entry, vs) == \A a \in Participants(entry) : a \in DOMAIN vs \/ <<entry.thread, a>> \in lost'

\* A transaction that replaces one message and repairs its conversation.
LEMMA RepairKeeps ==
    ASSUME ConversationsInv, NEW m \in Messages, NEW new \in MessageRow, NEW t \in opened, NEW vs,
           DOMAIN view[t] \subseteq DOMAIN vs, DOMAIN vs \subseteq People,
           \A a \in DOMAIN vs : vs[a] \in DraftView,
           message' = [message EXCEPT ![m] = new],
           view' = [view EXCEPT ![t] = Repaired([message EXCEPT ![m] = new], t, vs)],
           UNCHANGED <<opened, hides>>,
           new.thread = t, new.state # "absent", message[m].edited => new.edited, message[m].state # "purged",
           m \in RemoteMessages => new.by = Peer,
           message[m].state = "absent" \/ message[m].thread = t \/ (m \in RemoteMessages /\ new.edited),
           LostStayLost(t), new.state = "live" => HaveViews(new, vs)
    PROVE  ViewsTyped' /\ MessagesFit' /\ ShownFits' /\ AddressedHaveView'
<1> DEFINE msgs == [message EXCEPT ![m] = new]
           r == Repaired(msgs, t, vs)
<1>0. /\ t \in Threads /\ message \in [Messages -> MessageRow] /\ DOMAIN view = Threads
      /\ message' = msgs /\ view' = [view EXCEPT ![t] = r] /\ UNCHANGED opened
  BY DEF ConversationsInv, ViewsTyped, MessagesFit
<1>1. msgs \in [Messages -> MessageRow] /\ msgs[m] = new /\ \A n \in Messages \ {m} : msgs[n] = message[n]
  BY <1>0
<1> HIDE DEF msgs
<1>2. /\ DOMAIN r = {a \in DOMAIN vs : VisibleTo(msgs, t, a) # {}}
      /\ \A a \in DOMAIN r : r[a] \in ViewRow /\ r[a].last \in VisibleTo(msgs, t, a)
  <2>1. t \in Threads /\ msgs \in [Messages -> MessageRow] /\ DOMAIN vs \subseteq People /\ \A a \in DOMAIN vs : vs[a] \in DraftView
    BY <1>0, <1>1
  <2> QED BY ONLY <2>1, RepairShows, Zenon
<1> HIDE DEF r
<1>3. DOMAIN view' = Threads /\ view'[t] = r /\ \A u \in Threads \ {t} : view'[u] = view[u]
  BY <1>0
<1>4. ViewsTyped'
  BY <1>2, <1>3 DEF ConversationsInv, ViewsTyped
<1>5. MessagesFit'
  BY <1>0, <1>1 DEF ConversationsInv, MessagesFit
<1>6. ShownFits'
  <2> SUFFICES ASSUME NEW u \in Threads, NEW a \in DOMAIN view'[u], NEW n, n = view'[u][a].last
               PROVE  \/ n \in RemoteMessages /\ message'[n].edited /\ message'[n].thread # u
                      \/ message'[n].state = "purged"
                      \/ message'[n].state = "live" /\ message'[n].thread = u /\ a \in Participants(message'[n])
    BY DEF ShownFits, Participants
  <2>1. CASE u = t
    <3>1. n \in VisibleTo(msgs, t, a)
      BY <1>2, <1>3, <2>1
    <3> QED BY <1>0, <2>1, <3>1 DEF VisibleTo
  <2>2. CASE u # t
    <3>1. a \in DOMAIN view[u] /\ n = view[u][a].last /\ n \in Messages
      BY <1>3, <2>2 DEF ConversationsInv, ViewsTyped, ViewRow
    <3>2. \/ n \in RemoteMessages /\ message[n].edited /\ message[n].thread # u
          \/ message[n].state = "purged"
          \/ message[n].state = "live" /\ message[n].thread = u /\ a \in Participants(message[n])
      BY <3>1 DEF ConversationsInv, ShownFits
    <3> QED BY <1>0, <1>1, <2>2, <3>1, <3>2
  <2> QED BY <2>1, <2>2
<1>7. AddressedHaveView'
  <2> SUFFICES ASSUME NEW n \in Messages, message'[n].state = "live", NEW a \in Participants(message'[n])
               PROVE  a \in DOMAIN view'[message'[n].thread] \/ (a \in People /\ <<message'[n].thread, a>> \in lost')
    BY DEF AddressedHaveView, Participants
  <2>0. msgs[n].state = "live" /\ a \in Participants(msgs[n]) /\ msgs[n].thread \in Threads /\ a \in People
    <3>1. msgs[n].state = "live" /\ a \in Participants(msgs[n]) /\ msgs[n] \in MessageRow
      BY <1>0, <1>1
    <3>2. msgs[n].thread \in Threads
      BY <1>0, <1>5, <3>1 DEF ConversationsInv, MessagesFit
    <3> QED BY <3>1, <3>2, ParticipantsArePeople
  <2>1. CASE n = m
    <3>1. msgs[n] = new /\ msgs[n].thread = t /\ (a \in DOMAIN vs \/ <<t, a>> \in lost')
      BY <1>1, <2>0, <2>1 DEF HaveViews
    <3>2. a \in DOMAIN vs => n \in VisibleTo(msgs, t, a)
      BY <2>0, <3>1 DEF VisibleTo
    <3> QED BY <1>0, <1>2, <1>3, <2>0, <3>1, <3>2
  <2>2. CASE n # m
    <3>1. a \in DOMAIN view[msgs[n].thread] \/ <<msgs[n].thread, a>> \in lost
      BY <1>1, <2>0, <2>2 DEF ConversationsInv, AddressedHaveView
    <3>2. CASE msgs[n].thread = t
      <4>1. a \in DOMAIN vs => n \in VisibleTo(msgs, t, a)
        BY <2>0, <3>2 DEF VisibleTo
      <4> QED BY <1>0, <1>2, <1>3, <2>0, <3>1, <3>2, <4>1 DEF LostStayLost
    <3>3. CASE msgs[n].thread # t
      BY <1>0, <1>3, <2>0, <3>1, <3>3 DEF LostStayLost
    <3> QED BY <3>2, <3>3
  <2> QED BY <2>1, <2>2
<1> QED BY <1>4, <1>5, <1>6, <1>7

\* A transaction that ends lets go of its message; the others keep theirs.
LEMMA WriterEnds ==
    ASSUME ConversationsInv, NEW w \in Writers, writer' = [writer EXCEPT ![w] = NoWriter], UNCHANGED opened,
           \A v \in Writers \ {w} : writer[v].kind # "idle" => message'[writer[v].msg] = message[writer[v].msg]
    PROVE  WritersFit'
<1>1. NoWriter \in WriterRow /\ NoWriter.kind = "idle" /\ NoWriter.msg = NoMessage /\ NoMessage \notin Messages
  BY ConversationsAssumption DEF NoWriter, WriterRow, Unwritten, MessageRow, NoMessage, NoThread
<1>2. writer \in [Writers -> WriterRow] /\ \A v \in Writers : WriterFits(writer[v])
  BY DEF ConversationsInv, WritersFit
<1>3. writer' \in [Writers -> WriterRow] /\ writer'[w] = NoWriter /\ \A v \in Writers \ {w} : writer'[v] = writer[v]
  BY <1>1, <1>2
<1>4. ASSUME NEW v \in Writers PROVE WriterFits(writer[v])'
  <2>1. CASE v = w
    BY <1>1, <1>3, <2>1 DEF WriterFits
  <2>2. CASE v # w
    BY <1>2, <1>3, <2>2 DEF WriterFits
  <2> QED BY <2>1, <2>2
<1>5. ASSUME NEW v \in Writers, NEW u \in Writers, v # u, writer'[v].kind # "idle" PROVE writer'[v].msg # writer'[u].msg
  <2>1. v # w /\ writer'[v] = writer[v] /\ writer[v].msg \in Messages
    BY <1>1, <1>2, <1>3, <1>5 DEF WriterFits
  <2> QED BY <1>1, <1>3, <1>5, <2>1 DEF ConversationsInv, WritersFit
<1> QED BY <1>3, <1>4, <1>5 DEF WritersFit

\* A transaction that begins has a message nobody else has.
LEMMA WriterBegins ==
    ASSUME ConversationsInv, NEW w \in Writers, NEW x \in WriterRow, writer[w] = NoWriter, x.kind # "idle", RowFree(x.msg),
           writer' = [writer EXCEPT ![w] = x], opened \subseteq opened', opened' \subseteq Threads, UNCHANGED <<message, view, hides, lost>>,
           WriterFits(x)'
    PROVE  ConversationsInv'
<1>2. writer \in [Writers -> WriterRow] /\ \A v \in Writers : WriterFits(writer[v])
  BY DEF ConversationsInv, WritersFit
<1>3. writer' \in [Writers -> WriterRow] /\ writer'[w] = x /\ \A v \in Writers \ {w} : writer'[v] = writer[v]
  BY <1>2
<1>4. ASSUME NEW v \in Writers PROVE WriterFits(writer[v])'
  <2>1. CASE v = w
    BY <1>3, <2>1 DEF WriterFits
  <2>2. CASE v # w
    BY <1>2, <1>3, <2>2 DEF WriterFits
  <2> QED BY <2>1, <2>2
<1>5. ASSUME NEW v \in Writers, NEW u \in Writers, v # u, writer'[v].kind # "idle" PROVE writer'[v].msg # writer'[u].msg
  BY <1>3, <1>5 DEF ConversationsInv, WritersFit, RowFree
<1>6. WritersFit'
  BY <1>3, <1>4, <1>5 DEF WritersFit
<1>7. ViewsTyped' /\ MessagesFit' /\ ShownFits' /\ AddressedHaveView'
  BY DEF ConversationsInv, ViewsTyped, MessagesFit, ShownFits, AddressedHaveView, Participants
<1> QED BY <1>6, <1>7 DEF ConversationsInv

\* Views that a message is put on are kept, or are the new ones.
LEMMA WithViewsDrafts ==
    ASSUME NEW vs, NEW new, DOMAIN vs \subseteq People, DOMAIN new \subseteq People,
           \A a \in DOMAIN vs : vs[a] \in DraftView, \A a \in DOMAIN new : new[a] \in DraftView
    PROVE  /\ DOMAIN WithViews(vs, DOMAIN new, new) = DOMAIN vs \cup DOMAIN new
           /\ DOMAIN WithViews(vs, DOMAIN new, new) \subseteq People
           /\ \A a \in DOMAIN WithViews(vs, DOMAIN new, new) : WithViews(vs, DOMAIN new, new)[a] \in DraftView
BY DEF WithViews

LEMMA ViewsAreDrafts ==
    ASSUME ViewsTyped, NEW t \in Threads
    PROVE  DOMAIN view[t] \subseteq People /\ \A a \in DOMAIN view[t] : view[t][a] \in DraftView
BY DEF ViewsTyped, ViewRow, DraftView

\* The other transactions have other messages.
LEMMA OthersKeepTheirs ==
    ASSUME ConversationsInv, NEW w \in Writers, writer[w].kind # "idle", NEW new,
           message' = [message EXCEPT ![writer[w].msg] = new]
    PROVE  \A v \in Writers \ {w} : writer[v].kind # "idle" => message'[writer[v].msg] = message[writer[v].msg]
<1> SUFFICES ASSUME NEW v \in Writers \ {w}, writer[v].kind # "idle" PROVE message'[writer[v].msg] = message[writer[v].msg]
  OBVIOUS
<1>1. writer[v].msg # writer[w].msg /\ writer[v].msg \in Messages
  BY DEF ConversationsInv, WritersFit, WriterFits
<1>2. message \in [Messages -> MessageRow]
  BY DEF ConversationsInv, MessagesFit
<1> QED BY <1>1, <1>2

\* An edit, a message that arrives and its Update end with a repair.
LEMMA RepairingEnds ==
    ASSUME ConversationsInv, NEW w \in Writers, writer[w].kind \in {"edit", "arrive", "revise"}, NEW new,
           DOMAIN new \subseteq People, \A a \in DOMAIN new : new[a] \in DraftView,
           NEW gone \in SUBSET People,
           Participants(writer[w].row) \subseteq DOMAIN view[writer[w].row.thread] \cup DOMAIN new \cup gone,
           gone \cap (DOMAIN view[writer[w].row.thread] \cup DOMAIN new) = {},
           lost' = LostAfter(writer[w].row.thread, gone),
           message' = [message EXCEPT ![writer[w].msg] = writer[w].row],
           view' = [view EXCEPT ![writer[w].row.thread] =
                       Repaired([message EXCEPT ![writer[w].msg] = writer[w].row], writer[w].row.thread,
                                WithViews(view[writer[w].row.thread], DOMAIN new, new))],
           writer' = [writer EXCEPT ![w] = NoWriter], UNCHANGED <<opened, hides>>
    PROVE  ConversationsInv'
<1>0. writer[w] \in WriterRow /\ WriterFits(writer[w]) /\ opened \subseteq Threads /\ ViewsTyped
  BY DEF ConversationsInv, WritersFit
<1> DEFINE x == writer[w]
           t == x.row.thread
           vs == WithViews(view[t], DOMAIN new, new)
<1>1. /\ x.msg \in Messages /\ x.row \in MessageRow /\ t \in opened /\ t \in Threads /\ x.row.state = "live"
      /\ x.kind = "arrive" => message[x.msg] = Unwritten /\ x.row.by = Peer
      /\ x.kind \in {"edit", "revise"} => message[x.msg].state = "live"
      /\ x.msg \in RemoteMessages => x.row.by = Peer
      /\ x.kind # "arrive" => x.row.edited
      /\ x.kind = "edit" => t = message[x.msg].thread
      /\ x.kind = "revise" => x.msg \in RemoteMessages
  BY <1>0 DEF WriterFits, WriterRow
<1>2. DOMAIN vs = DOMAIN view[t] \cup DOMAIN new /\ DOMAIN vs \subseteq People /\ \A a \in DOMAIN vs : vs[a] \in DraftView
  <2>1. DOMAIN view[t] \subseteq People /\ \A a \in DOMAIN view[t] : view[t][a] \in DraftView
    BY <1>0, <1>1, ViewsAreDrafts
  <2> QED BY <2>1, WithViewsDrafts
<1>3. Unwritten.state = "absent" /\ ~ Unwritten.edited
  BY DEF Unwritten
<1>4. \A a \in Participants(x.row) : a \in DOMAIN vs \/ a \in gone
  BY <1>2
<1>5. /\ message' = [message EXCEPT ![x.msg] = x.row]
      /\ view' = [view EXCEPT ![t] = Repaired([message EXCEPT ![x.msg] = x.row], t, vs)]
  OBVIOUS
<1>6. /\ message[x.msg].edited => x.row.edited
      /\ message[x.msg].state = "absent" \/ message[x.msg].thread = t \/ (x.msg \in RemoteMessages /\ x.row.edited)
      /\ message[x.msg].state # "purged"
      /\ x.row.state # "absent" /\ x.row.thread = t /\ DOMAIN view[t] \subseteq DOMAIN vs
  BY <1>1, <1>2, <1>3, <1>4
<1>7. WritersFit'
  BY <1>5, WriterEnds, OthersKeepTheirs
<1>8. \A u \in Threads, a \in People : <<u, a>> \in lost' <=> /\ <<u, a>> \in lost \/ (u = t /\ a \in gone)
                                                              /\ ~ (u = t /\ a \in DOMAIN view'[t])
  BY DEF LostAfter
<1>9. DOMAIN view'[t] \subseteq DOMAIN vs
  <2>1. view'[t] = Repaired([message EXCEPT ![x.msg] = x.row], t, vs)
    BY <1>0, <1>1, <1>5 DEF ViewsTyped
  <2> HIDE DEF vs
  <2> QED BY <2>1 DEF Repaired, StillShown
<1>10. HaveViews(x.row, vs)
  BY <1>1, <1>2, <1>4, <1>8, <1>9 DEF HaveViews
<1>11. LostStayLost(t)
  BY <1>8 DEF LostStayLost
<1>12. lost' \subseteq opened' \X People
  BY <1>1 DEF LostAfter, ConversationsInv
<1> HIDE DEF vs, t, x
<1>13. ViewsTyped' /\ MessagesFit' /\ ShownFits' /\ AddressedHaveView'
  BY <1>1, <1>2, <1>5, <1>6, <1>10, <1>11, RepairKeeps
<1> QED BY <1>7, <1>12, <1>13 DEF ConversationsInv

LEMMA EndingKeeps ==
    ASSUME ConversationsInv, NEW w \in Writers, FinishEdit(w) \/ FinishArrive(w) \/ FinishRevise(w)
    PROVE  ConversationsInv'
<1>0. writer[w] \in WriterRow /\ WriterFits(writer[w]) /\ writer[w].row \in MessageRow /\ writer[w].msg \in Messages \cup {NoMessage}
  BY DEF ConversationsInv, WritersFit, WriterRow
<1>1. Participants(writer[w].row) \subseteq People /\ writer[w].row.to \subseteq People
  BY <1>0, ParticipantsArePeople DEF MessageRow
<1> DEFINE shown == DOMAIN view[writer[w].row.thread]
<1>2. CASE FinishEdit(w)
  <2> DEFINE new == [a \in Participants(writer[w].row) \ writer[w].seen |->
                       [last |-> NoMessage, unread |-> a # writer[w].row.by, hidden |-> FALSE]]
  <2>1. DOMAIN new = Participants(writer[w].row) \ writer[w].seen /\ \A a \in DOMAIN new : new[a] \in DraftView
    BY DEF DraftView
  <2>2. /\ writer[w].kind = "edit" /\ message' = [message EXCEPT ![writer[w].msg] = writer[w].row]
        /\ view' = [view EXCEPT ![writer[w].row.thread] =
                       Repaired([message EXCEPT ![writer[w].msg] = writer[w].row], writer[w].row.thread,
                                WithViews(view[writer[w].row.thread], Participants(writer[w].row) \ writer[w].seen, new))]
        /\ writer' = [writer EXCEPT ![w] = NoWriter] /\ UNCHANGED <<opened, hides>>
        /\ lost' = LostAfter(writer[w].row.thread, (Participants(writer[w].row) \cap writer[w].seen) \ shown)
    BY <1>2 DEF FinishEdit
  <2> DEFINE gone == (Participants(writer[w].row) \cap writer[w].seen) \ shown
  <2>3. /\ gone \in SUBSET People /\ Participants(writer[w].row) \subseteq shown \cup DOMAIN new \cup gone
        /\ gone \cap (shown \cup DOMAIN new) = {}
    BY <1>1, <2>1
  <2> HIDE DEF new
  <2> QED BY <1>1, <2>1, <2>2, <2>3, RepairingEnds
<1>3. CASE FinishArrive(w)
  <2> DEFINE new == [a \in writer[w].row.to |-> [last |-> writer[w].msg, unread |-> TRUE, hidden |-> FALSE]]
  <2>1. DOMAIN new = writer[w].row.to /\ \A a \in DOMAIN new : new[a] \in DraftView
    BY <1>0 DEF DraftView
  <2>2. /\ writer[w].kind = "arrive" /\ message' = [message EXCEPT ![writer[w].msg] = writer[w].row]
        /\ view' = [view EXCEPT ![writer[w].row.thread] =
                       Repaired([message EXCEPT ![writer[w].msg] = writer[w].row], writer[w].row.thread,
                                WithViews(view[writer[w].row.thread], writer[w].row.to, new))]
        /\ writer' = [writer EXCEPT ![w] = NoWriter] /\ UNCHANGED <<opened, hides>>
        /\ lost' = LostAfter(writer[w].row.thread, {})
    BY <1>3 DEF FinishArrive
  <2>3. Participants(writer[w].row) \subseteq shown \cup DOMAIN new
    BY <1>0, <2>1, <2>2, ConversationsAssumption DEF WriterFits, Participants
  <2> HIDE DEF new
  <2>4. PICK gone \in SUBSET People : gone = {}
    OBVIOUS
  <2>5. /\ Participants(writer[w].row) \subseteq shown \cup DOMAIN new \cup gone /\ gone \cap (shown \cup DOMAIN new) = {}
        /\ lost' = LostAfter(writer[w].row.thread, gone)
    BY <2>2, <2>3, <2>4
  <2> QED BY <1>1, <2>1, <2>2, <2>5, RepairingEnds
<1>4. CASE FinishRevise(w)
  <2> DEFINE new == [a \in writer[w].row.to \ writer[w].seen |-> [last |-> writer[w].msg, unread |-> FALSE, hidden |-> FALSE]]
  <2>1. DOMAIN new = writer[w].row.to \ writer[w].seen /\ \A a \in DOMAIN new : new[a] \in DraftView
    BY <1>0 DEF DraftView
  <2>2. /\ writer[w].kind = "revise" /\ message' = [message EXCEPT ![writer[w].msg] = writer[w].row]
        /\ view' = [view EXCEPT ![writer[w].row.thread] =
                       Repaired([message EXCEPT ![writer[w].msg] = writer[w].row], writer[w].row.thread,
                                WithViews(view[writer[w].row.thread], DOMAIN new, new))]
        /\ writer' = [writer EXCEPT ![w] = NoWriter] /\ UNCHANGED <<opened, hides>>
        /\ lost' = LostAfter(writer[w].row.thread, {})
        /\ writer[w].row.to \cap shown = writer[w].row.to \cap writer[w].seen
    BY <1>4 DEF FinishRevise
  <2>3. Participants(writer[w].row) \subseteq shown \cup DOMAIN new
    BY <1>0, <2>1, <2>2, ConversationsAssumption DEF WriterFits, Participants
  <2> HIDE DEF new
  <2>4. PICK gone \in SUBSET People : gone = {}
    OBVIOUS
  <2>5. /\ Participants(writer[w].row) \subseteq shown \cup DOMAIN new \cup gone /\ gone \cap (shown \cup DOMAIN new) = {}
        /\ lost' = LostAfter(writer[w].row.thread, gone)
    BY <2>2, <2>3, <2>4
  <2> QED BY <1>1, <2>1, <2>2, <2>5, RepairingEnds
<1> QED BY <1>2, <1>3, <1>4

\* A new message of an account is put on the views of its participants.
LEMMA AttachKeeps ==
    ASSUME ConversationsInv, NEW w \in Writers, FinishAttach(w)
    PROVE  ConversationsInv'
<1> DEFINE x == writer[w]
           t == x.row.thread
           who == Participants(x.row)
           new == [a \in who |-> [last |-> x.msg, unread |-> a # x.row.by, hidden |-> FALSE]]
           vs == WithViews(view[t], who, new)
<1>0. /\ x.kind = "attach" /\ message' = [message EXCEPT ![x.msg] = x.row] /\ view' = [view EXCEPT ![t] = vs]
      /\ writer' = [writer EXCEPT ![w] = NoWriter] /\ UNCHANGED <<opened, hides>> /\ lost' = LostAfter(t, {})
  BY DEF FinishAttach
<1>1. /\ x.msg \in Messages /\ x.row \in MessageRow /\ t \in opened /\ t \in Threads /\ x.row.state = "live"
      /\ message[x.msg] = Unwritten /\ x.msg \notin RemoteMessages
      /\ ViewsTyped /\ MessagesFit /\ ShownFits /\ AddressedHaveView
  BY <1>0 DEF WriterFits, WriterRow, ConversationsInv, WritersFit
<1>2. who \subseteq People
  BY <1>1, ParticipantsArePeople
<1>3. WritersFit'
  BY <1>0, WriterEnds, OthersKeepTheirs
<1>4. Unwritten.state = "absent" /\ ~ Unwritten.edited
  BY DEF Unwritten
<1>5. \A a \in who : new[a] \in ViewRow /\ new[a].last = x.msg
  BY <1>1 DEF ViewRow
<1>6. DOMAIN vs = DOMAIN view[t] \cup who /\ \A a \in DOMAIN vs : vs[a] = IF a \in who THEN new[a] ELSE view[t][a]
  BY DEF WithViews
<1> HIDE DEF vs, new
<1>7. DOMAIN view' = Threads /\ view'[t] = vs /\ \A u \in Threads \ {t} : view'[u] = view[u]
  BY <1>0, <1>1 DEF ViewsTyped
<1>8. message'[x.msg] = x.row /\ \A n \in Messages \ {x.msg} : message'[n] = message[n]
  BY <1>0, <1>1 DEF MessagesFit
<1>9. ViewsTyped'
  BY <1>1, <1>2, <1>5, <1>6, <1>7 DEF ViewsTyped
<1>10. MessagesFit'
  BY <1>0, <1>1, <1>8 DEF MessagesFit
<1>11. ShownFits'
  <2> SUFFICES ASSUME NEW u \in Threads, NEW a \in DOMAIN view'[u], NEW n, n = view'[u][a].last
               PROVE  \/ n \in RemoteMessages /\ message'[n].edited /\ message'[n].thread # u
                      \/ message'[n].state = "purged"
                      \/ message'[n].state = "live" /\ message'[n].thread = u /\ a \in Participants(message'[n])
    BY DEF ShownFits, Participants
  <2>1. CASE u = t /\ a \in who
    BY <1>1, <1>5, <1>6, <1>7, <1>8, <2>1
  <2>2. CASE ~ (u = t /\ a \in who)
    <3>1. a \in DOMAIN view[u] /\ view'[u][a] = view[u][a] /\ n \in Messages
      BY <1>1, <1>6, <1>7, <2>2 DEF ViewsTyped, ViewRow
    <3>2. \/ n \in RemoteMessages /\ message[n].edited /\ message[n].thread # u
          \/ message[n].state = "purged"
          \/ message[n].state = "live" /\ message[n].thread = u /\ a \in Participants(message[n])
      BY <1>1, <3>1 DEF ShownFits
    <3>3. n # x.msg
      BY <1>1, <1>4, <3>2
    <3> QED BY <1>8, <3>1, <3>2, <3>3
  <2> QED BY <2>1, <2>2
<1>12. AddressedHaveView'
  <2> SUFFICES ASSUME NEW n \in Messages, message'[n].state = "live", NEW a \in Participants(message'[n])
               PROVE  a \in DOMAIN view'[message'[n].thread] \/ (a \in People /\ <<message'[n].thread, a>> \in lost')
    BY DEF AddressedHaveView, Participants
  <2>1. CASE n = x.msg
    BY <1>6, <1>7, <1>8, <2>1
  <2>2. CASE n # x.msg
    <3>1. /\ message'[n] = message[n] /\ message[n].thread \in Threads
          /\ a \in DOMAIN view[message[n].thread] \/ (a \in People /\ <<message[n].thread, a>> \in lost)
      BY <1>1, <1>8, <2>2 DEF AddressedHaveView, MessagesFit, ConversationsInv
    <3>2. \A v \in Threads, b \in People : <<v, b>> \in lost => <<v, b>> \in lost' \/ (v = t /\ b \in DOMAIN view'[t])
      BY <1>0 DEF LostAfter
    <3> QED BY <1>6, <1>7, <3>1, <3>2
  <2> QED BY <2>1, <2>2
<1>13. lost' \subseteq opened' \X People
  BY <1>0, <1>1 DEF LostAfter, ConversationsInv
<1> QED BY <1>0, <1>3, <1>9, <1>10, <1>11, <1>12, <1>13 DEF ConversationsInv

\* Deleting a message, or making it public, is one step with its repair.
LEMMA WithdrawalKeeps ==
    ASSUME ConversationsInv, NEW m \in Messages, Delete(m) \/ Widen(m)
    PROVE  ConversationsInv'
<1> DEFINE t == message[m].thread
<1>0. message \in [Messages -> MessageRow] /\ opened \subseteq Threads /\ ViewsTyped
  BY DEF ConversationsInv, MessagesFit
<1>1. message[m].state = "live" /\ RowFree(m) /\ UNCHANGED <<opened, writer, hides, lost>> /\ t \in opened
  BY DEF Delete, Widen, ConversationsInv, MessagesFit
<1>2. PICK new \in MessageRow :
        /\ new.thread = t /\ new.state \in {"gone", "open"} /\ (message[m].edited => new.edited) /\ new.by = message[m].by
        /\ message' = [message EXCEPT ![m] = new]
        /\ view' = [view EXCEPT ![t] = Repaired([message EXCEPT ![m] = new], t, view[t])]
  <2>1. CASE Delete(m)
    <3> DEFINE new == [message[m] EXCEPT !.state = "gone"]
    <3>1. new \in MessageRow /\ new.thread = t /\ new.state = "gone" /\ new.edited = message[m].edited /\ new.by = message[m].by
      BY <1>0 DEF MessageRow
    <3>2. [message EXCEPT ![m].state = "gone"] = [message EXCEPT ![m] = new]
      OBVIOUS
    <3>3. message' = [message EXCEPT ![m] = new] /\ view' = [view EXCEPT ![t] = Repaired([message EXCEPT ![m] = new], t, view[t])]
      BY <2>1, <3>2 DEF Delete
    <3> QED BY <3>1, <3>3
  <2>2. CASE Widen(m)
    <3> DEFINE new == [message[m] EXCEPT !.state = "open", !.edited = TRUE]
    <3>1. new \in MessageRow /\ new.thread = t /\ new.state = "open" /\ new.edited /\ new.by = message[m].by
      BY <1>0 DEF MessageRow
    <3>2. [message EXCEPT ![m].state = "open", ![m].edited = TRUE] = [message EXCEPT ![m] = new]
      BY <1>0 DEF MessageRow
    <3>3. message' = [message EXCEPT ![m] = new] /\ view' = [view EXCEPT ![t] = Repaired([message EXCEPT ![m] = new], t, view[t])]
      BY <2>2, <3>2 DEF Widen
    <3> QED BY <3>1, <3>3
  <2> QED BY <2>1, <2>2
<1>3. DOMAIN view[t] \subseteq People /\ \A a \in DOMAIN view[t] : view[t][a] \in DraftView
  BY <1>0, <1>1, ViewsAreDrafts
<1>4. ViewsTyped' /\ MessagesFit' /\ ShownFits' /\ AddressedHaveView'
  <2> DEFINE vs == view[t]
  <2>1. /\ DOMAIN view[t] \subseteq DOMAIN vs /\ DOMAIN vs \subseteq People /\ \A a \in DOMAIN vs : vs[a] \in DraftView
        /\ view' = [view EXCEPT ![t] = Repaired([message EXCEPT ![m] = new], t, vs)]
        /\ new.state # "absent" /\ new.state # "live" /\ message[m].state # "purged" /\ LostStayLost(t) /\ (m \in RemoteMessages => new.by = Peer)
    BY <1>1, <1>2, <1>3 DEF ConversationsInv, MessagesFit, LostStayLost
  <2> HIDE DEF vs
  <2> QED BY <1>1, <1>2, <2>1, RepairKeeps
<1>5. \A w \in Writers : writer[w].kind # "idle" => message'[writer[w].msg] = message[writer[w].msg]
  <2>1. \A w \in Writers : writer[w].kind # "idle" => writer[w].msg \in Messages /\ writer[w].msg # m
    BY <1>1 DEF ConversationsInv, WritersFit, WriterFits, RowFree
  <2> QED BY <1>0, <1>2, <2>1
<1>6. WritersFit'
  <2>1. \A w \in Writers : WriterFits(writer[w])'
    BY <1>1, <1>5 DEF ConversationsInv, WritersFit, WriterFits
  <2> QED BY <1>1, <2>1 DEF ConversationsInv, WritersFit
<1> QED BY <1>1, <1>4, <1>6 DEF ConversationsInv

\* A purge leaves the views as they are: what they showed of its author is purged.
LEMMA PurgeKeeps ==
    ASSUME ConversationsInv, NEW b \in People \cup {Peer}, PurgeAuthor(b)
    PROVE  ConversationsInv'
<1> DEFINE theirs == {m \in Messages : message[m].by = b /\ message[m].state # "absent"}
<1>1. /\ \A m \in theirs : RowFree(m)
      /\ UNCHANGED <<view, opened, writer, hides, lost>> /\ message \in [Messages -> MessageRow]
  BY DEF PurgeAuthor, ConversationsInv, MessagesFit
<1>2. \A m \in Messages \ theirs : message'[m] = message[m]
  BY DEF PurgeAuthor
<1>3. \A m \in theirs : /\ message'[m] \in MessageRow /\ message'[m].state = "purged" /\ message'[m].by = message[m].by
                        /\ message'[m].edited = message[m].edited /\ message'[m].thread \in {message[m].thread, NoThread}
  <2> TAKE m \in theirs
  <2> DEFINE thread == IF b = Peer THEN message[m].thread ELSE NoThread
  <2>1. message'[m] = [message[m] EXCEPT !.state = "purged", !.thread = thread]
    BY DEF PurgeAuthor
  <2>2. thread \in {message[m].thread, NoThread} /\ message[m] \in MessageRow
    BY <1>1
  <2> HIDE DEF thread
  <2> QED BY <2>1, <2>2 DEF MessageRow
<1>4. message' \in [Messages -> MessageRow]
  <2>1. \A m \in Messages : message'[m] \in MessageRow
    BY <1>1, <1>2, <1>3
  <2>2. message' = [m \in Messages |-> message'[m]]
    BY DEF PurgeAuthor
  <2> QED BY <2>1, <2>2
<1> HIDE DEF theirs
<1>5. MessagesFit'
  <2> SUFFICES ASSUME NEW m \in Messages
               PROVE  /\ message'[m].state = "absent" => message'[m] = Unwritten
                      /\ message'[m].state \in {"live", "open", "gone"} => message'[m].thread \in opened
                      /\ message'[m].thread \in opened \cup {NoThread}
                      /\ m \in RemoteMessages => message'[m].by = Peer
    BY <1>1, <1>4 DEF MessagesFit
  <2>1. CASE m \in theirs
    BY <1>3, <2>1 DEF ConversationsInv, MessagesFit
  <2>2. CASE m \notin theirs
    BY <1>2, <2>2 DEF ConversationsInv, MessagesFit
  <2> QED BY <2>1, <2>2
<1>6. ViewsTyped'
  BY <1>1 DEF ConversationsInv, ViewsTyped
<1>7. ShownFits'
  <2> SUFFICES ASSUME NEW u \in Threads, NEW a \in DOMAIN view[u], NEW n, n = view[u][a].last
               PROVE  \/ n \in RemoteMessages /\ message'[n].edited /\ message'[n].thread # u
                      \/ message'[n].state = "purged"
                      \/ message'[n].state = "live" /\ message'[n].thread = u /\ a \in Participants(message'[n])
    BY <1>1 DEF ShownFits, Participants
  <2>1. n \in Messages
    BY DEF ConversationsInv, ViewsTyped, ViewRow
  <2> QED BY <1>2, <1>3, <2>1 DEF ConversationsInv, ShownFits
<1>8. AddressedHaveView'
  <2> SUFFICES ASSUME NEW n \in Messages, message'[n].state = "live", NEW a \in Participants(message'[n])
               PROVE  a \in DOMAIN view[message'[n].thread] \/ (a \in People /\ <<message'[n].thread, a>> \in lost)
    BY <1>1 DEF AddressedHaveView, Participants
  <2>1. message'[n] = message[n]
    BY <1>2, <1>3
  <2> QED BY <2>1 DEF ConversationsInv, AddressedHaveView
<1>9. WritersFit'
  <2> SUFFICES ASSUME NEW v \in Writers PROVE WriterFits(writer[v])'
    BY <1>1 DEF ConversationsInv, WritersFit
  <2>1. WriterFits(writer[v])
    BY DEF ConversationsInv, WritersFit
  <2>2. writer[v].kind # "idle" => writer[v].msg \in Messages /\ writer[v].msg \notin theirs
    BY <1>1, <2>1 DEF WriterFits, RowFree
  <2>3. writer[v].kind # "idle" => message'[writer[v].msg] = message[writer[v].msg]
    BY <1>2, <2>2
  <2> QED BY <1>1, <2>1, <2>3 DEF WriterFits
<1> QED BY <1>1, <1>5, <1>6, <1>7, <1>8, <1>9 DEF ConversationsInv

LEMMA BeginningKeeps ==
    ASSUME ConversationsInv, NEW w \in Writers, NEW m \in Messages, NEW to \in SUBSET People,
           \/ \E a \in People, p \in Messages \cup {NoMessage} : BeginAttach(w, m, a, to, p)
           \/ \E p \in Messages \cup {NoMessage} : BeginArrive(w, m, to, p)
           \/ BeginMessageEdit(w, m, to) \/ BeginRevise(w, m, to)
    PROVE  ConversationsInv'
<1>0. /\ message \in [Messages -> MessageRow] /\ opened \subseteq Threads /\ message[m] \in MessageRow
      /\ \A t \in Threads : DOMAIN view[t] \subseteq People
      /\ message[m].state = "live" => message[m].thread \in opened
  BY DEF ConversationsInv, MessagesFit, ViewsTyped
<1>1. ASSUME NEW a \in People, NEW p \in Messages \cup {NoMessage}, BeginAttach(w, m, a, to, p)
      PROVE  ConversationsInv'
  <2> DEFINE t == ThreadOf(p)
             entry == [state |-> "live", by |-> a, to |-> to, thread |-> t, parent |-> p, edited |-> FALSE]
  <2>0. PICK x : x = [kind |-> "attach", msg |-> m, seen |-> DOMAIN view[t], row |-> entry]
    OBVIOUS
  <2>1. /\ writer[w] = NoWriter /\ RowFree(m) /\ message[m] = Unwritten /\ t \in Threads /\ m \notin RemoteMessages
        /\ opened' = opened \cup {t} /\ writer' = [writer EXCEPT ![w] = x] /\ UNCHANGED <<message, view, hides, lost>>
    BY <1>1, <2>0 DEF BeginAttach, MayAttach
  <2> HIDE DEF t
  <2>2. /\ x \in WriterRow /\ x.kind = "attach" /\ x.msg = m
        /\ x.row.state = "live" /\ x.row.thread = t /\ ~ x.row.edited /\ x.row.by \in People
    BY <1>0, <2>0, <2>1 DEF WriterRow, MessageRow
  <2>3. WriterFits(x)'
    BY <2>1, <2>2 DEF WriterFits
  <2> QED BY <1>0, <2>1, <2>2, <2>3, WriterBegins
<1>2. ASSUME NEW p \in Messages \cup {NoMessage}, BeginArrive(w, m, to, p)
      PROVE  ConversationsInv'
  <2> DEFINE t == ThreadOf(p)
             entry == [state |-> "live", by |-> Peer, to |-> to, thread |-> t, parent |-> p, edited |-> FALSE]
  <2>0. PICK x : x = [kind |-> "arrive", msg |-> m, seen |-> DOMAIN view[t], row |-> entry]
    OBVIOUS
  <2>1. /\ writer[w] = NoWriter /\ RowFree(m) /\ message[m] = Unwritten /\ t \in Threads
        /\ opened' = opened \cup {t} /\ writer' = [writer EXCEPT ![w] = x] /\ UNCHANGED <<message, view, hides, lost>>
    BY <1>2, <2>0 DEF BeginArrive, MayAttach
  <2> HIDE DEF t
  <2>2. /\ x \in WriterRow /\ x.kind = "arrive" /\ x.msg = m
        /\ x.row.state = "live" /\ x.row.thread = t /\ ~ x.row.edited /\ x.row.by = Peer
    BY <1>0, <2>0, <2>1 DEF WriterRow, MessageRow
  <2>3. WriterFits(x)'
    BY <2>1, <2>2 DEF WriterFits
  <2> QED BY <1>0, <2>1, <2>2, <2>3, WriterBegins
<1>3. CASE BeginMessageEdit(w, m, to)
  <2> DEFINE entry == [message[m] EXCEPT !.to = to, !.edited = TRUE]
  <2>0. PICK x : x = [kind |-> "edit", msg |-> m, seen |-> DOMAIN view[message[m].thread], row |-> entry]
    OBVIOUS
  <2>1. /\ writer[w] = NoWriter /\ RowFree(m) /\ message[m].state = "live" /\ m \notin RemoteMessages
        /\ writer' = [writer EXCEPT ![w] = x] /\ UNCHANGED <<message, view, opened, hides, lost>>
    BY <1>3, <2>0 DEF BeginMessageEdit
  <2>2. entry \in MessageRow /\ entry.state = "live" /\ entry.thread = message[m].thread /\ entry.edited
    BY <1>0, <2>1 DEF MessageRow
  <2> HIDE DEF entry
  <2>3. x \in WriterRow /\ x.kind = "edit" /\ x.msg = m /\ x.row = entry
    BY <1>0, <2>0, <2>1, <2>2 DEF WriterRow
  <2>4. WriterFits(x)'
    BY <1>0, <2>1, <2>2, <2>3 DEF WriterFits
  <2> QED BY <1>0, <2>1, <2>3, <2>4, WriterBegins
<1>4. CASE BeginRevise(w, m, to)
  <2> DEFINE t == ThreadOf(message[m].parent)
             entry == [message[m] EXCEPT !.to = to, !.thread = t, !.edited = TRUE]
  <2>0. PICK x : x = [kind |-> "revise", msg |-> m, seen |-> DOMAIN view[t], row |-> entry]
    OBVIOUS
  <2>1. /\ writer[w] = NoWriter /\ RowFree(m) /\ message[m].state = "live" /\ m \in RemoteMessages /\ t \in Threads
        /\ opened' = opened \cup {t} /\ writer' = [writer EXCEPT ![w] = x] /\ UNCHANGED <<message, view, hides, lost>>
    BY <1>4, <2>0 DEF BeginRevise
  <2> HIDE DEF t
  <2>2. entry \in MessageRow /\ entry.state = "live" /\ entry.thread = t /\ entry.edited /\ entry.by = Peer
    BY <1>0, <2>1 DEF MessageRow, ConversationsInv, MessagesFit
  <2> HIDE DEF entry
  <2>3. x \in WriterRow /\ x.kind = "revise" /\ x.msg = m /\ x.row = entry
    BY <1>0, <2>0, <2>1, <2>2 DEF WriterRow
  <2>4. WriterFits(x)'
    BY <1>0, <2>1, <2>2, <2>3 DEF WriterFits
  <2> QED BY <1>0, <2>1, <2>3, <2>4, WriterBegins
<1> QED BY <1>1, <1>2, <1>3, <1>4

\* Reading or hiding a conversation changes neither who sees it nor what.
LEMMA ReadingKeeps ==
    ASSUME ConversationsInv, NEW a \in People, NEW t \in Threads, MarkRead(a, t) \/ Hide(a, t)
    PROVE  ConversationsInv'
<1>1. a \in DOMAIN view[t] /\ UNCHANGED <<message, opened, writer, hides, lost>>
  BY DEF MarkRead, Hide, Found
<1>2. DOMAIN view = Threads /\ \A u \in Threads : \A b \in DOMAIN view[u] : view[u][b] \in ViewRow
  BY DEF ConversationsInv, ViewsTyped
<1>3. /\ DOMAIN view' = Threads /\ \A u \in Threads : DOMAIN view'[u] = DOMAIN view[u]
      /\ \A u \in Threads : \A b \in DOMAIN view[u] : view'[u][b] \in ViewRow /\ view'[u][b].last = view[u][b].last
  <2>1. PICK entry \in ViewRow : entry.last = view[t][a].last /\ view' = [view EXCEPT ![t] = [view[t] EXCEPT ![a] = entry]]
    <3>1. CASE MarkRead(a, t)
      <4> DEFINE entry == [view[t][a] EXCEPT !.unread = FALSE]
      <4>1. entry \in ViewRow /\ entry.last = view[t][a].last
        BY <1>1, <1>2 DEF ViewRow
      <4> QED BY <3>1, <4>1 DEF MarkRead
    <3>2. CASE Hide(a, t)
      <4> DEFINE entry == [view[t][a] EXCEPT !.hidden = TRUE]
      <4>1. entry \in ViewRow /\ entry.last = view[t][a].last
        BY <1>1, <1>2 DEF ViewRow
      <4> QED BY <3>2, <4>1 DEF Hide
    <3> QED BY <3>1, <3>2
  <2> QED BY <1>1, <1>2, <2>1
<1>4. ViewsTyped' /\ ShownFits'
  BY <1>1, <1>3 DEF ConversationsInv, ViewsTyped, ShownFits, Participants
<1>5. MessagesFit' /\ WritersFit'
  BY <1>1 DEF ConversationsInv, MessagesFit, WritersFit, WriterFits
<1>6. AddressedHaveView'
  <2> SUFFICES ASSUME NEW n \in Messages, message[n].state = "live"
               PROVE  Participants(message[n]) \subseteq
                          DOMAIN view'[message[n].thread] \cup {b \in People : <<message[n].thread, b>> \in lost}
    BY <1>1 DEF AddressedHaveView, Participants
  <2>1. message[n].thread \in Threads
    BY DEF ConversationsInv, MessagesFit
  <2> QED BY <1>3, <2>1 DEF ConversationsInv, AddressedHaveView
<1> QED BY <1>1, <1>4, <1>5, <1>6 DEF ConversationsInv

\* Every conversation shows each account a message it may read, and every
\* participant of a direct message has a view of its conversation, whatever
\* new messages, edits, deletions and Updates interleave, but for the views that
\* an edit had read and another deletion removed.
THEOREM ConversationsAreTrue == ConversationsSpec => []ConversationsSafe
<1>1. ConversationsInit => ConversationsInv
  <2> SUFFICES ASSUME ConversationsInit PROVE ConversationsInv
    OBVIOUS
  <2>1. Unwritten \in MessageRow /\ Unwritten.state = "absent" /\ Unwritten.thread = NoThread /\ Unwritten.by = Peer /\ NoWriter \in WriterRow /\ NoWriter.kind = "idle"
    BY DEF Unwritten, NoWriter, MessageRow, WriterRow, NoMessage, NoThread
  <2>2. opened = {} /\ lost = {} /\ hides \subseteq People /\ \A w \in Writers : writer[w] = NoWriter
    BY DEF ConversationsInit
  <2>3. MessagesFit /\ AddressedHaveView
    BY <2>1 DEF ConversationsInit, MessagesFit, AddressedHaveView
  <2>4. ViewsTyped /\ ShownFits
    BY DEF ConversationsInit, ViewsTyped, ShownFits
  <2>5. WritersFit
    BY <2>1, <2>2 DEF ConversationsInit, WritersFit, WriterFits
  <2> QED BY <2>2, <2>3, <2>4, <2>5 DEF ConversationsInv
<1>2. ConversationsInv /\ [ConversationsNext]_conversation_vars => ConversationsInv'
  <2> SUFFICES ASSUME ConversationsInv, [ConversationsNext]_conversation_vars PROVE ConversationsInv'
    OBVIOUS
  <2>1. ASSUME NEW w \in Writers, Rollback(w) PROVE ConversationsInv'
    <3>1. writer' = [writer EXCEPT ![w] = NoWriter] /\ UNCHANGED <<message, view, opened, hides, lost>>
      BY <2>1 DEF Rollback
    <3>2. WritersFit'
      BY <3>1, WriterEnds
    <3> QED BY <3>1, <3>2 DEF ConversationsInv, ViewsTyped, MessagesFit, ShownFits, AddressedHaveView, Participants
  <2>2. CASE UNCHANGED conversation_vars
    BY <2>2 DEF conversation_vars, ConversationsInv, ViewsTyped, MessagesFit, ShownFits, AddressedHaveView, Participants,
       WritersFit, WriterFits
  <2> QED BY <2>1, <2>2, BeginningKeeps, AttachKeeps, EndingKeeps, WithdrawalKeeps, PurgeKeeps, ReadingKeeps DEF ConversationsNext
<1>3. ConversationsInv => ConversationsSafe
  <2> SUFFICES ASSUME ConversationsInv PROVE ConversationsSafe
    OBVIOUS
  <2>1. ConversationsTypeOK
    <3>1. ASSUME NEW m \in Messages
          PROVE  /\ message[m].state \in {"absent", "live", "open", "gone", "purged"} /\ message[m].to \subseteq People
                 /\ message[m].thread \in opened \cup {NoThread}
      BY DEF ConversationsInv, MessagesFit, MessageRow, Unwritten
    <3>2. \A t \in Threads : DOMAIN view[t] \subseteq People /\ \A a \in DOMAIN view[t] : view[t][a].last \in Messages
      BY DEF ConversationsInv, ViewsTyped, ViewRow
    <3> QED BY <3>1, <3>2 DEF ConversationsInv, ConversationsTypeOK
  <2>2. ListedIsReadable
    <3> SUFFICES ASSUME NEW a \in People, NEW t \in Listed(a), NEW m, m = view[t][a].last,
                        ~ (m \in RemoteMessages /\ message[m].edited /\ message[m].thread # t),
                        ~ (message[m].state = "purged" /\ LastStatus(a, t) = NoMessage)
                 PROVE  /\ LastStatus(a, t) = m /\ message[m].thread = t /\ a \in Participants(message[m])
                        /\ Participants(message[m]) \ {a} \subseteq ConversationAccounts(a, t)
      BY DEF ListedIsReadable
    <3>1. t \in Threads /\ a \in DOMAIN view[t] /\ m \in Messages
      BY DEF Listed, Found, ConversationsInv, ViewsTyped, ViewRow
    <3>2. message[m].state = "live" /\ message[m].thread = t /\ a \in Participants(message[m])
      <4>1. message[m].state # "purged"
        BY ConversationsAssumption DEF LastStatus, Shown, NoMessage
      <4> QED BY <3>1, <4>1 DEF ConversationsInv, ShownFits
    <3>3. Participants(message[m]) \subseteq People /\ Peer \notin Participants(message[m])
      BY <3>1, ParticipantsArePeople DEF ConversationsInv, MessagesFit
    <3>4. LastStatus(a, t) = m
      BY <3>1, <3>2, ConversationsAssumption DEF LastStatus, Shown, NoMessage
    <3>5. Participants(message[m]) \ {a} \subseteq ConversationAccounts(a, t)
      BY <3>3 DEF ConversationAccounts, Audience, Participants
    <3> QED BY <3>2, <3>4, <3>5
  <2> QED BY <2>1, <2>2 DEF ConversationsInv, ConversationsSafe
<1> QED BY <1>1, <1>2, <1>3, PTL DEF ConversationsSpec

-----------------------------------------------------------------------------
(* Favourites, boosts and their counters *)

Activities == 1..MaxActivities
Transaction == [pc : {"read", "written", "marked", "done"}, undo : BOOLEAN, key : Interacting,
                id : Activities, adds : BOOLEAN, drops : BOOLEAN]
CountRow == [status : Statuses, counts : [Counts -> Nat]]
Batch == [open : BOOLEAN, marks : SUBSET Statuses, claimed : SUBSET Statuses, found : SUBSET CountRow,
          stored : SUBSET Statuses]
OutRow == [what : {"Like", "UndoLike", "Announce", "UndoAnnounce"}, key : Interacting, id : Activities]

InteractionsTyped ==
    /\ mark \in [Interacting -> 0..MaxActivities] /\ issued \in 0..MaxActivities
    /\ counter \in [Statuses -> [Counts -> Nat]] /\ dirty \subseteq Statuses
    /\ client \in [Clients -> {Quiet} \cup Transaction]
    /\ maintain \in Batch /\ maintain.stored \subseteq maintain.claimed
    /\ refresh \in {"none", "queued", "running"}
    /\ outbox \subseteq OutRow /\ crossed \subseteq Interacting
    /\ \A k \in {d.key : d \in outbox} \cup crossed : Delivered(k)

\* What a client that has written knows of its mark.
ClientFits(q) ==
    /\ q.pc = "read" => ~ q.adds /\ ~ q.drops
    /\ (q.pc \in {"written", "marked"}) => q.key.verb \in Counts /\ (q.adds <=> ~ q.undo)
    /\ q.pc = "done" => (q.key.verb \in Counts => ~ q.adds /\ ~ q.undo) /\ (q.adds => ~ q.undo)
    /\ (q.pc # "idle" /\ q.drops) => q.undo
    /\ (q.pc # "idle" /\ q.adds) => mark[q.key] = 0
    /\ (q.pc # "idle" /\ q.undo /\ Delivered(q.key)) => WasSent(q.key, q.id, FALSE)

\* A client that is alone with its pair finds the mark as it has read it.
FindsMark(q) == IF q.undo THEN mark[q.key] = q.id /\ (q.pc # "read" => q.drops) ELSE mark[q.key] = 0

AloneFits(r) ==
    LET q == client[r] IN
    q.pc # "idle" /\ Delivered(q.key) /\ q.key \notin crossed =>
        /\ q.pc # "done" /\ FindsMark(q)
        /\ \A p \in Clients \ {r} : ~ Busy(client[p], q.key)

ClientsFit ==
    /\ \A r \in Clients : ClientFits(client[r]) /\ AloneFits(r)
    /\ \A r, q \in Clients : r # q /\ Wrote(client[r]) /\ Wrote(client[q]) => client[r].key # client[q].key

\* A claimed status is not being marked by a client, so what was counted is
\* still what the rows say when the batch commits.
BatchFits ==
    /\ \A s \in maintain.claimed : ~ MarkLocked(s)
    /\ \A f \in maintain.found : f.status \in maintain.claimed /\ f.counts = Counted(f.status)
    /\ \A s \in maintain.stored : \E f \in maintain.found : f.status = s

InteractionsInv ==
    /\ InteractionsTyped /\ ClientsFit /\ BatchFits /\ DriftIsMarked /\ SentActivityIsKnown

LEMMA InteractingFields ==
    ASSUME NEW k \in Interacting
    PROVE  /\ k.by \in LocalActors \cup RemoteActors /\ k.on \in Statuses /\ k.verb \in Verbs
           /\ Delivered(k) => k.verb \in Counts
BY InteractionsAssumption DEF Interacting, Delivered, Verbs, Counts

LEMMA DeliveryFields ==
    ASSUME NEW q, q.undo \in BOOLEAN
    PROVE  /\ Delivery(q).key = q.key /\ Delivery(q).id = q.id /\ (Delivery(q).what \in Undos <=> q.undo)
           /\ q.key \in Interacting /\ q.id \in Activities => Delivery(q) \in OutRow
BY DEF OutRow, Delivery, Like, UndoLike, AnnounceBoost, UndoAnnounce, Undos

LEMMA DeliveryTells ==
    ASSUME NEW q, q.undo \in BOOLEAN
    PROVE  Delivery([key |-> q.key, id |-> q.id, undo |-> q.undo]) = Delivery(q)
BY DEF Delivery, Like, UndoLike, AnnounceBoost, UndoAnnounce

LEMMA QuietIsIdle == Quiet.pc = "idle" /\ \A q \in Transaction : q.pc # "idle"
BY DEF Quiet, Transaction

\* What refresh_status_trend counts is a number for each verb.
LEMMA CountedIsTyped ==
    ASSUME NEW s
    PROVE  Counted(s) \in [Counts -> Nat]
<1>1. ASSUME NEW v \in Counts
      PROVE  Cardinality({k \in Interacting : k.on = s /\ k.verb = v /\ mark[k] # 0}) \in Nat
  <2> DEFINE S == {k \in Interacting : k.on = s /\ k.verb = v /\ mark[k] # 0}
  <2>1. S \in SUBSET Interacting
    OBVIOUS
  <2> HIDE DEF S
  <2>2. Cardinality(S) \in Nat
    BY <2>1, InteractingIsFinite, FS_Subset, FS_CardinalityType
  <2> QED BY <2>2 DEF S
<1> QED BY <1>1 DEF Counted

\* The counts of a status depend on which favourites and boosts it has.
LEMMA CountedSame ==
    ASSUME NEW s, \A k \in Interacting : k.on = s /\ k.verb \in Counts => (mark'[k] # 0 <=> mark[k] # 0)
    PROVE  Counted(s)' = Counted(s)
<1>1. ASSUME NEW v \in Counts
      PROVE  {k \in Interacting : k.on = s /\ k.verb = v /\ mark'[k] # 0} = {k \in Interacting : k.on = s /\ k.verb = v /\ mark[k] # 0}
  OBVIOUS
<1> QED BY <1>1 DEF Counted

\* A step of a client that is not its commit.
LEMMA ClientStep ==
    ASSUME InteractionsInv, NEW r \in Clients, NEW x \in {Quiet} \cup Transaction, client' = [client EXCEPT ![r] = x],
           UNCHANGED <<mark, counter, dirty, maintain, refresh, outbox>>, issued' \in 0..MaxActivities,
           ClientFits(x), Wrote(x) => \A q \in Clients \ {r} : Wrote(client[q]) => client[q].key # x.key,
           x.pc = "marked" => x.key.on \notin maintain.claimed,
           crossed \subseteq crossed', crossed' \subseteq Interacting, \A k \in crossed' : Delivered(k),
           x.pc # "idle" /\ Delivered(x.key) /\ x.key \notin crossed' =>
               x.pc # "done" /\ FindsMark(x) /\ \A p \in Clients \ {r} : ~ Busy(client[p], x.key)
    PROVE  InteractionsInv'
<1>1. client \in [Clients -> {Quiet} \cup Transaction] /\ ClientsFit
  BY DEF InteractionsInv, InteractionsTyped
<1>2. client'[r] = x /\ \A q \in Clients \ {r} : client'[q] = client[q]
  BY <1>1
<1>3. InteractionsTyped'
  BY <1>1 DEF InteractionsInv, InteractionsTyped
<1>4. ClientsFit'
  <2>1. \A q \in Clients : ClientFits(client[q])'
    BY <1>1, <1>2 DEF ClientsFit, ClientFits, WasSent
  <2>3. ASSUME NEW q \in Clients PROVE AloneFits(q)'
    <3>1. CASE q = r
      BY <1>2, <3>1 DEF AloneFits, FindsMark, Busy
    <3>2. CASE q # r
      <4>1. AloneFits(q) /\ client'[q] = client[q]
        BY <1>1, <1>2, <3>2 DEF ClientsFit
      <4>2. SUFFICES ASSUME client[q].pc # "idle", Delivered(client[q].key), client[q].key \notin crossed'
                     PROVE  ~ Busy(x, client[q].key)
        BY <1>2, <3>2, <4>1 DEF AloneFits, FindsMark, Busy
      <4> QED BY <3>2, <4>2 DEF Busy
    <3> QED BY <3>1, <3>2
  <2>2. \A p, q \in Clients : p # q /\ Wrote(client'[p]) /\ Wrote(client'[q]) => client'[p].key # client'[q].key
    BY <1>1, <1>2 DEF ClientsFit
  <2> QED BY <2>1, <2>2, <2>3 DEF ClientsFit, Wrote
<1>5. \A s : Counted(s)' = Counted(s)
  BY CountedSame
<1>6. BatchFits'
  <2>1. \A s \in maintain.claimed : ~ MarkLocked(s)'
    BY <1>2 DEF InteractionsInv, BatchFits, MarkLocked
  <2> QED BY <1>5, <2>1 DEF InteractionsInv, BatchFits
<1>7. DriftIsMarked' /\ SentActivityIsKnown'
  BY <1>5 DEF InteractionsInv, DriftIsMarked, SentActivityIsKnown, WasSent
<1> QED BY <1>3, <1>4, <1>6, <1>7 DEF InteractionsInv

LEMMA BeganKeeps ==
    ASSUME InteractionsInv, NEW r \in Clients, NEW k \in Interacting, NEW undo \in BOOLEAN, NEW id \in Activities,
           Began(r, k, undo, id), issued' \in 0..MaxActivities,
           Delivered(k) => mark[k] = IF undo THEN id ELSE 0
    PROVE  InteractionsInv'
<1> DEFINE x == [pc |-> "read", undo |-> undo, key |-> k, id |-> id, adds |-> FALSE, drops |-> FALSE]
<1>1. x \in Transaction /\ x.pc = "read" /\ ~ x.adds /\ ~ x.drops /\ x.key = k /\ x.id = id /\ x.undo = undo
  BY DEF Transaction
<1>2. /\ client' = [client EXCEPT ![r] = x] /\ UNCHANGED <<mark, counter, dirty, maintain, refresh, outbox>>
      /\ crossed' = IF Delivered(k) /\ \E q \in Clients : Busy(client[q], k) THEN crossed \cup {k} ELSE crossed
  BY DEF Began
<1> HIDE DEF x
<1>3. ClientFits(x) /\ ~ Wrote(x) /\ x.pc # "marked"
  <2>1. Delivered(k) /\ undo => WasSent(k, id, FALSE)
    <3>1. Delivered(k) /\ undo => mark[k] = id /\ id # 0
      BY DEF Activities
    <3>2. SentActivityIsKnown
      BY DEF InteractionsInv
    <3> QED BY <3>1, <3>2 DEF SentActivityIsKnown
  <2> QED BY <1>1, <2>1 DEF ClientFits, Wrote
<1>4. crossed \subseteq crossed' /\ crossed' \subseteq Interacting /\ \A p \in crossed' : Delivered(p)
  BY <1>2 DEF InteractionsInv, InteractionsTyped
<1>5. Delivered(k) /\ k \notin crossed' => FindsMark(x) /\ \A p \in Clients \ {r} : ~ Busy(client[p], k)
  BY <1>1, <1>2 DEF FindsMark
<1> QED BY <1>1, <1>2, <1>3, <1>4, <1>5, ClientStep

\* A request or an activity that arrives changes nothing yet.
LEMMA RequestKeeps ==
    ASSUME InteractionsInv, NEW r \in Clients, NEW k \in Interacting,
           (Add(r, k) /\ (Delivered(k) => mark[k] = 0)) \/ RemoveRow(r, k)
    PROVE  InteractionsInv'
<1>1. issued \in 0..MaxActivities /\ mark[k] \in 0..MaxActivities /\ MaxActivities \in Nat
  BY InteractionsAssumption DEF InteractionsInv, InteractionsTyped
<1>2. CASE Add(r, k) /\ (Delivered(k) => mark[k] = 0)
  <2>1. issued < MaxActivities /\ issued' = issued + 1 /\ Began(r, k, FALSE, issued + 1)
    BY <1>2 DEF Add
  <2>2. issued + 1 \in Activities /\ issued' \in 0..MaxActivities
    BY <1>1, <2>1 DEF Activities
  <2> QED BY <1>2, <2>1, <2>2, BeganKeeps
<1>3. CASE RemoveRow(r, k)
  <2>1. mark[k] # 0 /\ issued' = issued /\ Began(r, k, TRUE, mark[k])
    BY <1>3 DEF RemoveRow
  <2>2. mark[k] \in Activities /\ issued' \in 0..MaxActivities
    BY <1>1, <2>1 DEF Activities
  <2> QED BY <2>1, <2>2, BeganKeeps
<1> QED BY <1>2, <1>3

LEMMA WriteKeeps ==
    ASSUME InteractionsInv, NEW r \in Clients, WriteRow(r)
    PROVE  InteractionsInv'
<1>0. /\ client[r] \in Transaction /\ client[r].pc = "read" /\ client \in [Clients -> {Quiet} \cup Transaction]
      /\ ClientFits(client[r]) /\ AloneFits(r)
  BY QuietIsIdle DEF WriteRow, InteractionsInv, InteractionsTyped, ClientsFit
<1>1. PICK q : q = client[r]
  OBVIOUS
<1>2. PICK drops \in Drops(q) :
        client' = [client EXCEPT ![r] = [q EXCEPT !.adds = ~ q.undo, !.drops = drops,
                                                  !.pc = IF q.key.verb \in Counts THEN "written" ELSE "done"]]
  BY <1>1 DEF WriteRow
<1>3. /\ ~ KeyLocked(r, q.key) /\ (q.undo \/ mark[q.key] = 0)
      /\ UNCHANGED <<mark, counter, dirty, maintain, refresh, outbox, crossed, issued>>
  BY <1>1 DEF WriteRow
<1>4. PICK x : x = [q EXCEPT !.adds = ~ q.undo, !.drops = drops,
                             !.pc = IF q.key.verb \in Counts THEN "written" ELSE "done"]
  OBVIOUS
<1>5. drops \in BOOLEAN /\ (drops => q.undo) /\ (q.undo /\ Delivered(q.key) /\ mark[q.key] = q.id => drops)
  <2>1. q.id # 0 /\ ~ (Delivered(q.key) /\ Inbound(q.key))
    BY <1>0, <1>1, InteractionsAssumption DEF Transaction, Activities, Delivered, Inbound
  <2> QED BY <1>2, <2>1 DEF Drops
<1>6. /\ x \in Transaction /\ x.key = q.key /\ x.id = q.id /\ x.undo = q.undo /\ x.adds = ~ q.undo /\ q.undo \in BOOLEAN
      /\ x.drops = drops /\ x.pc = IF q.key.verb \in Counts THEN "written" ELSE "done"
  BY <1>0, <1>1, <1>4, <1>5 DEF Transaction
<1>7. ClientFits(x)
  BY <1>0, <1>1, <1>3, <1>5, <1>6 DEF ClientFits
<1>8. \A p \in Clients \ {r} : Wrote(client[p]) => client[p].key # x.key
  BY <1>3, <1>6 DEF KeyLocked
<1>9. Delivered(x.key) /\ x.key \notin crossed =>
        x.pc # "done" /\ FindsMark(x) /\ \A p \in Clients \ {r} : ~ Busy(client[p], x.key)
  <2>1. q.key \in Interacting
    BY <1>0, <1>1 DEF Transaction
  <2> QED BY <1>0, <1>1, <1>5, <1>6, <2>1, InteractingFields DEF AloneFits, FindsMark
<1>10. x.pc # "marked" /\ issued' \in 0..MaxActivities /\ crossed \subseteq Interacting /\ \A k \in crossed : Delivered(k)
  BY <1>3, <1>6 DEF InteractionsInv, InteractionsTyped
<1> QED BY <1>2, <1>3, <1>4, <1>6, <1>7, <1>8, <1>9, <1>10, ClientStep

LEMMA MeetKeeps ==
    ASSUME InteractionsInv, NEW r \in Clients, MeetRow(r)
    PROVE  InteractionsInv'
<1>0. client[r] \in Transaction /\ client[r].pc = "read" /\ ClientFits(client[r]) /\ AloneFits(r)
  BY QuietIsIdle DEF MeetRow, InteractionsInv, InteractionsTyped, ClientsFit
<1>1. PICK q : q = client[r]
  OBVIOUS
<1>2. /\ ~ KeyLocked(r, q.key) /\ ~ q.undo /\ mark[q.key] # 0
      /\ UNCHANGED <<mark, counter, dirty, maintain, refresh, outbox, crossed, issued>>
      /\ \/ Ignored(q.key) /\ client' = [client EXCEPT ![r] = [q EXCEPT !.pc = "done"]]
         \/ client' = [client EXCEPT ![r] = Quiet]
  BY <1>1 DEF MeetRow
<1>3. issued' \in 0..MaxActivities /\ crossed \subseteq Interacting /\ \A k \in crossed : Delivered(k)
  BY <1>2 DEF InteractionsInv, InteractionsTyped
<1>4. CASE Ignored(q.key) /\ client' = [client EXCEPT ![r] = [q EXCEPT !.pc = "done"]]
  <2>0. PICK x : x = [q EXCEPT !.pc = "done"]
    OBVIOUS
  <2>1. /\ x \in Transaction /\ x.pc = "done" /\ x.key = q.key /\ x.undo = q.undo /\ x.adds = q.adds /\ ~ q.adds
        /\ x.drops = q.drops /\ ~ q.drops
    BY <1>0, <1>1, <2>0 DEF Transaction, ClientFits
  <2>2. ClientFits(x) /\ x.pc # "marked"
    BY <1>2, <2>1 DEF ClientFits
  <2>3. ~ Wrote(x)
    BY <1>2, <2>1 DEF Wrote
  <2>4. Delivered(x.key) => x.key \in crossed
    BY <1>0, <1>1, <1>2, <2>1 DEF AloneFits, FindsMark
  <2> QED BY <1>2, <1>3, <1>4, <2>0, <2>1, <2>2, <2>3, <2>4, ClientStep
<1>5. CASE client' = [client EXCEPT ![r] = Quiet]
  <2>1. PICK x : x = Quiet
    OBVIOUS
  <2>2. ClientFits(x) /\ x.pc # "marked" /\ x.pc = "idle" /\ ~ Wrote(x)
    BY <2>1, QuietIsIdle DEF ClientFits, Wrote
  <2> QED BY <1>2, <1>3, <1>5, <2>1, <2>2, ClientStep
<1> QED BY <1>2, <1>4, <1>5

LEMMA MarkAndAbortKeep ==
    ASSUME InteractionsInv, NEW r \in Clients, MarkDirty(r) \/ AbortRequest(r)
    PROVE  InteractionsInv'
<1>0. /\ issued' \in 0..MaxActivities /\ client \in [Clients -> {Quiet} \cup Transaction]
      /\ crossed \subseteq Interacting /\ \A k \in crossed : Delivered(k)
  BY DEF MarkDirty, AbortRequest, InteractionsInv, InteractionsTyped
<1>1. CASE MarkDirty(r)
  <2>0. client[r] \in Transaction /\ client[r].pc = "written" /\ ClientFits(client[r]) /\ AloneFits(r)
    BY <1>1, QuietIsIdle DEF MarkDirty, InteractionsInv, InteractionsTyped, ClientsFit
  <2>1. PICK x : x = [client[r] EXCEPT !.pc = "marked"]
    OBVIOUS
  <2>2. client' = [client EXCEPT ![r] = x] /\ UNCHANGED <<mark, counter, dirty, maintain, refresh, outbox, crossed, issued>>
    BY <1>0, <1>1, <2>1 DEF MarkDirty
  <2>3. /\ x \in Transaction /\ x.pc = "marked" /\ x.key = client[r].key /\ x.undo = client[r].undo
        /\ x.adds = client[r].adds /\ x.drops = client[r].drops /\ x.id = client[r].id
    BY <2>0, <2>1 DEF Transaction
  <2>4. ClientFits(x) /\ x.key.on \notin maintain.claimed
    BY <1>1, <2>0, <2>3 DEF ClientFits, MarkDirty, ClaimedMark
  <2>5. \A p \in Clients \ {r} : Wrote(client[p]) => client[p].key # x.key
    BY <2>0, <2>3 DEF InteractionsInv, ClientsFit, Wrote, ClientFits
  <2>6. Delivered(x.key) /\ x.key \notin crossed => FindsMark(x) /\ \A p \in Clients \ {r} : ~ Busy(client[p], x.key)
    BY <2>0, <2>3 DEF AloneFits, FindsMark
  <2> QED BY <1>0, <2>2, <2>3, <2>4, <2>5, <2>6, ClientStep
<1>2. CASE AbortRequest(r)
  <2>1. client' = [client EXCEPT ![r] = Quiet] /\ UNCHANGED <<mark, counter, dirty, maintain, refresh, outbox, crossed, issued>>
    BY <1>2 DEF AbortRequest
  <2>2. PICK x : x = Quiet
    OBVIOUS
  <2>3. ClientFits(x) /\ x.pc # "marked" /\ x.pc = "idle" /\ ~ Wrote(x)
    BY <2>2, QuietIsIdle DEF ClientFits, Wrote
  <2> QED BY <1>0, <2>1, <2>2, <2>3, ClientStep
<1> QED BY <1>1, <1>2

\* A commit changes the mark of its pair, the counters of its status and what
\* is sent, together.
LEMMA CommitKeeps ==
    ASSUME InteractionsInv, NEW r \in Clients, CommitRequest(r)
    PROVE  InteractionsInv'
<1>0. /\ client \in [Clients -> {Quiet} \cup Transaction] /\ mark \in [Interacting -> 0..MaxActivities]
      /\ counter \in [Statuses -> [Counts -> Nat]] /\ maintain \in Batch /\ outbox \subseteq OutRow
  BY DEF InteractionsInv, InteractionsTyped
<1>1. PICK q : q = client[r]
  OBVIOUS
<1>2. q \in Transaction /\ q.pc \in {"marked", "done"} /\ ClientFits(q) /\ AloneFits(r)
  BY <1>0, <1>1, QuietIsIdle DEF CommitRequest, InteractionsInv, ClientsFit
<1>3. PICK s : s = q.key.on
  OBVIOUS
<1>4. PICK n : n = RowAfter(q)
  OBVIOUS
<1>5. /\ mark' = [mark EXCEPT ![q.key] = n]
      /\ counter' = IF q.key.verb \in Counts /\ (q.adds \/ q.undo)
                    THEN [counter EXCEPT ![s][q.key.verb] = AtLeastZero(@ + (IF q.adds THEN 1 ELSE -1))]
                    ELSE counter
      /\ dirty' = IF q.pc = "marked" THEN dirty \cup {s} ELSE dirty
      /\ outbox' = IF Delivered(q.key) THEN outbox \cup {Delivery(q)} ELSE outbox
      /\ client' = [client EXCEPT ![r] = Quiet]
      /\ UNCHANGED <<maintain, refresh, crossed, issued>>
  BY <1>1, <1>3, <1>4 DEF CommitRequest
<1>6. q.key \in Interacting /\ q.id \in Activities /\ s \in Statuses /\ q.key.verb \in Verbs
  BY <1>2, <1>3, InteractingFields DEF Transaction
<1>7. n \in 0..MaxActivities /\ q.id \in 0..MaxActivities /\ q.id # 0
  <2>1. q.id \in 0..MaxActivities /\ q.id # 0 /\ mark[q.key] \in 0..MaxActivities /\ 0 \in 0..MaxActivities
    BY <1>0, <1>6, InteractionsAssumption DEF Activities
  <2> QED BY <1>4, <2>1 DEF RowAfter
<1>8. mark'[q.key] = n /\ \A k \in Interacting \ {q.key} : mark'[k] = mark[k]
  BY <1>0, <1>5, <1>6
<1>9. client'[r] = Quiet /\ \A p \in Clients \ {r} : client'[p] = client[p]
  BY <1>0, <1>5
\* Who is not marked changes no count.
<1>10. q.pc = "done" => counter' = counter /\ (q.key.verb \in Counts => mark' = mark)
  <2> SUFFICES ASSUME q.pc = "done" PROVE counter' = counter /\ (q.key.verb \in Counts => mark' = mark)
    OBVIOUS
  <2>1. q.key.verb \in Counts => ~ q.adds /\ ~ q.undo
    BY <1>2 DEF ClientFits
  <2>2. q.key.verb \in Counts => n = mark[q.key]
    BY <1>2, <1>4, <2>1 DEF RowAfter, ClientFits
  <2> QED BY <1>0, <1>5, <1>6, <2>1, <2>2
<1>11. ASSUME NEW t \in Statuses, t # s \/ q.pc = "done"
       PROVE  Counted(t)' = Counted(t) /\ counter'[t] = counter[t]
  <2>1. Counted(t)' = Counted(t)
    <3>1. CASE q.pc = "done" /\ q.key.verb \in Counts
      BY <1>10, <3>1, CountedSame
    <3>2. CASE t # s \/ q.key.verb \notin Counts
      BY <1>3, <1>8, <3>2, CountedSame
    <3> QED BY <1>11, <3>1, <3>2
  <2>2. counter'[t] = counter[t]
    BY <1>0, <1>5, <1>6, <1>10, <1>11
  <2> QED BY <2>1, <2>2
<1>18. (\A k, id, u : WasSent(k, id, u) => WasSent(k, id, u)') /\ (Delivered(q.key) => WasSent(q.key, q.id, q.undo)')
  <2>1. q.undo \in BOOLEAN
    BY <1>2 DEF Transaction
  <2> QED BY <1>5, <2>1, DeliveryTells DEF WasSent
<1>12. InteractionsTyped'
  <2>1. mark' \in [Interacting -> 0..MaxActivities]
    BY <1>0, <1>5, <1>7
  <2>2. counter' \in [Statuses -> [Counts -> Nat]]
    <3>1. CASE q.key.verb \in Counts /\ (q.adds \/ q.undo)
      <4>1. PICK c \in Nat : counter' = [counter EXCEPT ![s][q.key.verb] = c]
        <5>1. counter[s][q.key.verb] \in Nat
          BY <1>0, <1>6, <3>1
        <5>2. AtLeastZero(counter[s][q.key.verb] + (IF q.adds THEN 1 ELSE -1)) \in Nat
          BY <5>1 DEF AtLeastZero
        <5> QED BY <1>5, <3>1, <5>2
      <4> QED BY <1>0, <1>6, <3>1, <4>1
    <3>2. CASE ~ (q.key.verb \in Counts /\ (q.adds \/ q.undo))
      BY <1>0, <1>5, <3>2
    <3> QED BY <3>1, <3>2
  <2>3. client' \in [Clients -> {Quiet} \cup Transaction]
    BY <1>0, <1>5
  <2>4. Delivery(q) \in OutRow /\ Delivery(q).key = q.key
    <3>1. q.undo \in BOOLEAN
      BY <1>2 DEF Transaction
    <3> QED BY <1>6, <3>1, DeliveryFields
  <2> QED BY <1>5, <1>6, <2>1, <2>2, <2>3, <2>4 DEF InteractionsInv, InteractionsTyped, Delivered
<1>13. ClientsFit'
  <2>1. ASSUME NEW p \in Clients PROVE ClientFits(client[p])'
    <3>1. CASE p = r
      BY <1>9, <3>1, QuietIsIdle DEF ClientFits
    <3>2. CASE p # r
      <4>1. client'[p] = client[p] /\ ClientFits(client[p]) /\ (client[p].pc # "idle" => client[p].key \in Interacting)
        BY <1>0, <1>9, <3>2, QuietIsIdle DEF InteractionsInv, ClientsFit, Transaction
      <4>2. client[p].pc # "idle" /\ client[p].adds => Wrote(client[p])
        BY <1>0, <4>1, QuietIsIdle DEF ClientFits, Wrote, Transaction
      <4>5. q.key = client[p].key /\ client[p].pc # "idle" /\ client[p].adds => n = 0
        <5>1. q.key = client[p].key /\ client[p].pc # "idle" /\ client[p].adds => ~ Wrote(q) /\ mark[q.key] = 0
          BY <1>1, <3>2, <4>1, <4>2 DEF InteractionsInv, ClientsFit, ClientFits
        <5>2. ~ Wrote(q) => n = mark[q.key]
          BY <1>2, <1>4 DEF Wrote, RowAfter, ClientFits
        <5> QED BY <5>1, <5>2
      <4>3. client[p].pc # "idle" /\ client[p].adds => mark'[client[p].key] = 0
        BY <1>8, <4>1, <4>5 DEF ClientFits
      <4>4. PICK c : c = client[p]
        OBVIOUS
      <4>6. client'[p] = c /\ ClientFits(c) /\ (c.pc # "idle" /\ c.adds => mark'[c.key] = 0)
        BY <4>1, <4>3, <4>4
      <4>7. WasSent(c.key, c.id, FALSE) => WasSent(c.key, c.id, FALSE)'
        BY <1>18
      <4>8. ClientFits(c)'
        BY <4>6, <4>7 DEF ClientFits, Delivered
      <4> QED BY <4>6, <4>8 DEF ClientFits, Delivered
    <3> QED BY <3>1, <3>2
  <2>3. ASSUME NEW p \in Clients PROVE AloneFits(p)'
    <3>1. CASE p = r
      BY <1>9, <3>1, QuietIsIdle DEF AloneFits
    <3>2. CASE p # r
      <4>1. AloneFits(p) /\ client'[p] = client[p] /\ (client[p].pc # "idle" => client[p].key \in Interacting)
        BY <1>0, <1>9, <3>2, QuietIsIdle DEF InteractionsInv, ClientsFit, Transaction
      <4>2. SUFFICES ASSUME client[p].pc # "idle", Delivered(client[p].key), client[p].key \notin crossed
                     PROVE  /\ client[p].pc # "done" /\ FindsMark(client[p])'
                            /\ \A o \in Clients \ {p} : ~ Busy(client'[o], client[p].key)
        BY <1>5, <4>1 DEF AloneFits
      <4>3. client[p].key # q.key
        BY <1>1, <1>2, <3>2, <4>1, <4>2 DEF AloneFits, Busy
      <4>4. FindsMark(client[p])'
        BY <1>8, <4>1, <4>2, <4>3 DEF AloneFits, FindsMark
      <4>5. \A o \in Clients \ {p} : ~ Busy(client'[o], client[p].key)
        BY <1>9, <4>1, <4>2, QuietIsIdle DEF AloneFits, Busy
      <4> QED BY <4>1, <4>2, <4>4, <4>5 DEF AloneFits
    <3> QED BY <3>1, <3>2
  <2>2. \A p, o \in Clients : p # o /\ Wrote(client'[p]) /\ Wrote(client'[o]) => client'[p].key # client'[o].key
    BY <1>9, QuietIsIdle DEF InteractionsInv, ClientsFit, Wrote
  <2> QED BY <2>1, <2>2, <2>3 DEF ClientsFit, Wrote
<1>14. BatchFits'
  <2>0. q.pc = "marked" => s \notin maintain.claimed
    BY <1>1, <1>3 DEF InteractionsInv, BatchFits, MarkLocked
  <2>1. \A t \in maintain.claimed : ~ MarkLocked(t)'
    BY <1>9, QuietIsIdle DEF InteractionsInv, BatchFits, MarkLocked
  <2>2. \A f \in maintain.found : f.status \in maintain.claimed /\ f.counts = Counted(f.status)'
    <3> SUFFICES ASSUME NEW f \in maintain.found PROVE f.status \in maintain.claimed /\ f.counts = Counted(f.status)'
      OBVIOUS
    <3>1. f.status \in maintain.claimed /\ f.counts = Counted(f.status) /\ f.status \in Statuses
      BY <1>0 DEF InteractionsInv, BatchFits, Batch
    <3> QED BY <1>2, <1>11, <2>0, <3>1
  <2> QED BY <1>5, <2>1, <2>2 DEF InteractionsInv, BatchFits
<1>15. DriftIsMarked'
  <2> SUFFICES ASSUME NEW t \in Statuses, counter'[t] # Counted(t)' PROVE t \in dirty'
    BY DEF DriftIsMarked
  <2>1. CASE t = s /\ q.pc = "marked"
    BY <1>5, <2>1
  <2>2. CASE t # s \/ q.pc = "done"
    BY <1>5, <1>11, <2>2 DEF InteractionsInv, DriftIsMarked
  <2> QED BY <1>2, <2>1, <2>2
<1>16. ASSUME NEW d \in outbox', d \notin outbox
       PROVE  Delivered(q.key) /\ d.key = q.key /\ d.id = q.id /\ (d.what \in Undos <=> q.undo)
  <2>1. q.undo \in BOOLEAN /\ d = Delivery(q) /\ Delivered(q.key)
    BY <1>2, <1>5, <1>16 DEF Transaction
  <2> QED BY <2>1, DeliveryFields
<1>17. SentActivityIsKnown'
  <2>0. SentActivityIsKnown /\ outbox' = IF Delivered(q.key) THEN outbox \cup {Delivery(q)} ELSE outbox
    BY <1>5 DEF InteractionsInv
  <2>1. ASSUME NEW k \in Interacting, NEW m \in 0..MaxActivities, Delivered(k), mark'[k] = m, m # 0
        PROVE  WasSent(k, m, FALSE)'
    <3>1. CASE mark[k] = m
      <4>1. WasSent(k, m, FALSE)
        BY <2>0, <2>1, <3>1 DEF SentActivityIsKnown
      <4> QED BY <1>18, <4>1
    <3>2. CASE mark[k] # m
      <4>1. k = q.key /\ m = n
        BY <1>8, <2>1, <3>2
      <4>2. q.adds /\ m = q.id /\ q.undo = FALSE
        BY <1>2, <1>4, <2>1, <3>2, <4>1 DEF RowAfter, ClientFits, Transaction
      <4>3. WasSent(q.key, q.id, q.undo)'
        BY <1>18, <2>1, <4>1
      <4> QED BY <4>1, <4>2, <4>3
    <3> QED BY <3>1, <3>2
  <2>4. \A k \in Interacting : Delivered(k) /\ mark'[k] # 0 => WasSent(k, mark[k], FALSE)'
    <3> SUFFICES ASSUME NEW k \in Interacting, Delivered(k), mark'[k] # 0 PROVE WasSent(k, mark[k], FALSE)'
      OBVIOUS
    <3>1. PICK m \in 0..MaxActivities : m = mark'[k]
      BY <1>0, <1>7, <1>8
    <3>2. WasSent(k, m, FALSE)'
      BY <2>1, <3>1
    <3> QED BY <3>1, <3>2 DEF WasSent
  <2>2. ASSUME NEW d \in outbox', d.what \in Undos PROVE WasSent(d.key, d.id, FALSE)'
    <3>1. CASE d \in outbox
      BY <1>18, <2>0, <2>2, <3>1 DEF SentActivityIsKnown
    <3>2. CASE d \notin outbox
      <4>1. q.undo /\ Delivered(q.key) /\ d.key = q.key /\ d.id = q.id
        BY <1>16, <2>2, <3>2
      <4> QED BY <1>2, <1>18, <4>1 DEF ClientFits
    <3> QED BY <3>1, <3>2
  <2>3. ASSUME NEW d \in outbox', d.what \notin Undos
        PROVE  mark'[d.key] = d.id \/ WasSent(d.key, d.id, TRUE)' \/ d.key \in crossed'
    <3>0. SUFFICES ASSUME d.key \notin crossed PROVE mark'[d.key] = d.id \/ WasSent(d.key, d.id, TRUE)'
      BY <1>5
    <3>1. CASE d \in outbox /\ d.key # q.key
      <4>1. d.key \in Interacting
        BY <1>0, <3>1 DEF OutRow
      <4> QED BY <1>8, <1>18, <2>0, <2>3, <3>0, <3>1, <4>1 DEF SentActivityIsKnown
    <3>2. d.key = q.key /\ Delivered(d.key) => q.pc = "marked" /\ FindsMark(q)
      BY <1>1, <1>2, <3>0 DEF AloneFits
    <3>3. CASE d \in outbox /\ d.key = q.key
      <4>1. Delivered(d.key) /\ d.id # 0
        BY <1>0, <3>3, InteractionsAssumption DEF InteractionsInv, InteractionsTyped, OutRow, Activities
      <4>2. WasSent(d.key, d.id, TRUE) \/ mark[d.key] = d.id
        BY <2>0, <2>3, <3>0, <3>3 DEF SentActivityIsKnown
      <4>3. CASE mark[d.key] = d.id
        <5>1. q.undo = TRUE /\ q.id = d.id
          BY <1>2, <3>2, <3>3, <4>1, <4>3 DEF FindsMark, Transaction
        <5> QED BY <1>18, <3>3, <4>1, <5>1
      <4> QED BY <1>18, <4>2, <4>3
    <3>4. CASE d \notin outbox
      <4>1. Delivered(q.key) /\ d.key = q.key /\ d.id = q.id /\ ~ q.undo
        BY <1>16, <2>3, <3>4
      <4>2. q.adds
        BY <1>2, <3>2, <4>1 DEF ClientFits
      <4> QED BY <1>4, <1>8, <4>1, <4>2 DEF RowAfter
    <3> QED BY <3>1, <3>3, <3>4
  <2> QED BY <2>2, <2>3, <2>4 DEF SentActivityIsKnown, Delivered
<1> QED BY <1>12, <1>13, <1>14, <1>15, <1>17 DEF InteractionsInv

\* The rows of an actor that is deleted go; what it interacted with is marked.
LEMMA ForgetKeeps ==
    ASSUME InteractionsInv, NEW m \in RemoteActors, ForgetActor(m)
    PROVE  InteractionsInv'
<1>0. mark \in [Interacting -> 0..MaxActivities] /\ client \in [Clients -> {Quiet} \cup Transaction] /\ maintain \in Batch
  BY DEF InteractionsInv, InteractionsTyped
<1>1. /\ \A s \in InteractedWith(m) : ~ ClaimedMark(s)
      /\ dirty' = dirty \cup InteractedWith(m) /\ InteractedWith(m) \subseteq Statuses
      /\ mark' = [k \in Interacting |-> IF k.by = m THEN 0 ELSE mark[k]]
      /\ UNCHANGED <<counter, client, maintain, refresh, outbox, crossed, issued>>
  BY DEF ForgetActor, InteractedWith
<1>2. ASSUME NEW s \in Statuses, s \notin InteractedWith(m) PROVE Counted(s)' = Counted(s)
  <2>1. \A k \in Interacting : k.on = s /\ k.verb \in Counts => (mark'[k] # 0 <=> mark[k] # 0)
    BY <1>1, <1>2 DEF InteractedWith
  <2> QED BY <2>1, CountedSame
<1>3. InteractionsTyped'
  BY <1>1, InteractionsAssumption DEF InteractionsInv, InteractionsTyped
<1>4. ClientsFit'
  <2>1. ASSUME NEW r \in Clients PROVE ClientFits(client[r])'
    <3>1. client[r].pc # "idle" /\ client[r].adds => mark[client[r].key] = 0 /\ client[r].key \in Interacting
      BY <1>0, QuietIsIdle DEF InteractionsInv, ClientsFit, ClientFits, Transaction
    <3> QED BY <1>1, <3>1 DEF InteractionsInv, ClientsFit, ClientFits, WasSent
  <2>2. ASSUME NEW r \in Clients PROVE AloneFits(r)'
    <3>1. client[r].pc # "idle" => client[r].key \in Interacting
      BY <1>0, QuietIsIdle DEF Transaction
    <3>2. client[r].pc # "idle" /\ Delivered(client[r].key) => client[r].key.by # m
      BY InteractionsAssumption DEF Delivered
    <3>3. client[r].pc # "idle" /\ Delivered(client[r].key) => mark'[client[r].key] = mark[client[r].key]
      BY <1>1, <3>1, <3>2
    <3> QED BY <1>1, <3>3 DEF InteractionsInv, ClientsFit, AloneFits, FindsMark
  <2> QED BY <1>1, <2>1, <2>2 DEF InteractionsInv, ClientsFit, Wrote
<1>5. BatchFits'
  <2>1. \A f \in maintain.found : f.status \in maintain.claimed /\ f.counts = Counted(f.status)'
    <3> SUFFICES ASSUME NEW f \in maintain.found PROVE f.status \in maintain.claimed /\ f.counts = Counted(f.status)'
      OBVIOUS
    <3>1. f.status \in maintain.claimed /\ f.counts = Counted(f.status) /\ f.status \in Statuses
      BY <1>0 DEF InteractionsInv, BatchFits, Batch
    <3>2. f.status \notin InteractedWith(m)
      BY <1>1, <3>1 DEF ClaimedMark
    <3> QED BY <1>2, <3>1, <3>2
  <2> QED BY <1>1, <2>1 DEF InteractionsInv, BatchFits, MarkLocked
<1>6. DriftIsMarked'
  BY <1>1, <1>2 DEF InteractionsInv, DriftIsMarked
<1>7. SentActivityIsKnown'
  <2>1. ASSUME NEW k \in Interacting, Delivered(k) PROVE mark'[k] = mark[k]
    BY <1>1, <2>1, InteractionsAssumption DEF Delivered
  <2>2. \A d \in outbox : d.key \in Interacting /\ Delivered(d.key)
    BY DEF InteractionsInv, InteractionsTyped, OutRow
  <2> QED BY <1>1, <2>1, <2>2 DEF InteractionsInv, SentActivityIsKnown, WasSent
<1> QED BY <1>3, <1>4, <1>5, <1>6, <1>7 DEF InteractionsInv

\* The maintenance changes the counters of what it has counted, no mark.
LEMMA MaintenanceKeeps ==
    ASSUME InteractionsInv, maintain' \in Batch, maintain'.stored \subseteq maintain'.claimed,
           refresh' \in {"none", "queued", "running"}, UNCHANGED <<mark, client, outbox, crossed, issued>>,
           counter' \in [Statuses -> [Counts -> Nat]], dirty' \subseteq Statuses,
           \A s \in maintain'.claimed : ~ MarkLocked(s),
           \A f \in maintain'.found : f.status \in maintain'.claimed /\ f.counts = Counted(f.status),
           \A s \in maintain'.stored : \E f \in maintain'.found : f.status = s,
           \A s \in Statuses : counter'[s] # Counted(s) => s \in dirty'
    PROVE  InteractionsInv'
<1>1. \A s : Counted(s)' = Counted(s)
  BY CountedSame
<1>2. InteractionsTyped'
  BY DEF InteractionsInv, InteractionsTyped
<1>3. ClientsFit' /\ SentActivityIsKnown'
  BY DEF InteractionsInv, ClientsFit, ClientFits, AloneFits, FindsMark, Wrote, SentActivityIsKnown, WasSent
<1>4. BatchFits'
  BY <1>1 DEF BatchFits, MarkLocked
<1>5. DriftIsMarked'
  BY <1>1 DEF DriftIsMarked
<1> QED BY <1>2, <1>3, <1>4, <1>5 DEF InteractionsInv

LEMMA BatchKeeps ==
    ASSUME InteractionsInv,
           ScheduleRefresh \/ ClaimBatch \/ FinishBatch \/ AbortBatch \/ \E s \in Statuses : Recount(s) \/ StoreCount(s)
    PROVE  InteractionsInv'
<1>0. /\ maintain \in Batch /\ maintain.stored \subseteq maintain.claimed /\ counter \in [Statuses -> [Counts -> Nat]]
      /\ dirty \subseteq Statuses /\ refresh \in {"none", "queued", "running"} /\ BatchFits
      /\ \A s \in Statuses : counter[s] # Counted(s) => s \in dirty
  BY DEF InteractionsInv, InteractionsTyped, DriftIsMarked
<1>1. NoBatch \in Batch /\ NoBatch.stored = {} /\ NoBatch.claimed = {} /\ NoBatch.found = {}
  BY DEF NoBatch, Batch
<1>2. CASE ScheduleRefresh
  BY <1>0, <1>2, MaintenanceKeeps DEF ScheduleRefresh, BatchFits
<1>3. CASE ClaimBatch
  <2>1. PICK batch \in SUBSET Claimable :
          maintain' = [NoBatch EXCEPT !.open = TRUE, !.marks = Trending \ dirty, !.claimed = batch]
    BY <1>3 DEF ClaimBatch
  <2>2. batch \subseteq Statuses /\ Trending \ dirty \subseteq Statuses /\ \A s \in batch : ~ MarkLocked(s)
    BY <1>0 DEF Claimable, Trending
  <2>3. maintain' \in Batch /\ maintain'.stored = {} /\ maintain'.found = {} /\ maintain'.claimed = batch
    BY <2>1, <2>2 DEF NoBatch, Batch
  <2>4. refresh' = "running" /\ UNCHANGED <<mark, counter, dirty, client, outbox, crossed, issued>>
    BY <1>3 DEF ClaimBatch
  <2> QED BY <1>0, <2>2, <2>3, <2>4, MaintenanceKeeps
<1>4. CASE FinishBatch
  <2>1. /\ maintain.stored = maintain.claimed /\ maintain' = NoBatch /\ UNCHANGED <<mark, client, outbox, crossed, issued>>
        /\ counter' = [s \in Statuses |-> IF s \in maintain.stored
                         THEN (CHOOSE f \in maintain.found : f.status = s).counts ELSE counter[s]]
        /\ dirty' = (dirty \cup maintain.marks) \ maintain.claimed /\ refresh' \in {"none", "queued"}
    BY <1>4 DEF FinishBatch
  <2>2. ASSUME NEW s \in maintain.stored
        PROVE  (CHOOSE f \in maintain.found : f.status = s).counts = Counted(s)
    BY <1>0 DEF BatchFits
  <2>3. ASSUME NEW s \in Statuses PROVE counter'[s] = IF s \in maintain.stored THEN Counted(s) ELSE counter[s]
    BY <2>1, <2>2
  <2>4. counter' \in [Statuses -> [Counts -> Nat]]
    <3>1. \A s \in Statuses : counter'[s] \in [Counts -> Nat]
      BY <1>0, <2>3, CountedIsTyped
    <3>2. counter' = [s \in Statuses |-> counter'[s]]
      BY <2>1
    <3> QED BY <3>1, <3>2
  <2>5. \A s \in Statuses : counter'[s] # Counted(s) => s \in dirty'
    BY <1>0, <2>1, <2>3
  <2>6. dirty' \subseteq Statuses
    BY <1>0, <2>1 DEF Batch
  <2> QED BY <1>1, <2>1, <2>4, <2>5, <2>6, MaintenanceKeeps
<1>5. CASE AbortBatch
  BY <1>0, <1>1, <1>5, MaintenanceKeeps DEF AbortBatch
<1>6. ASSUME NEW s \in Statuses, Recount(s) PROVE InteractionsInv'
  <2>1. PICK f : f = [status |-> s, counts |-> Counted(s)]
    OBVIOUS
  <2>2. f \in CountRow /\ f.status = s /\ f.counts = Counted(s)
    BY <2>1, CountedIsTyped DEF CountRow
  <2>3. /\ s \in maintain.claimed /\ maintain' = [maintain EXCEPT !.found = @ \cup {f}]
        /\ UNCHANGED <<mark, counter, dirty, client, refresh, outbox, crossed, issued>>
    BY <1>6, <2>1 DEF Recount
  <2>4. /\ maintain' \in Batch /\ maintain'.found = maintain.found \cup {f}
        /\ maintain'.stored = maintain.stored /\ maintain'.claimed = maintain.claimed
    BY <1>0, <2>2, <2>3 DEF Batch
  <2> QED BY <1>0, <2>2, <2>3, <2>4, MaintenanceKeeps DEF BatchFits
<1>7. ASSUME NEW s \in Statuses, StoreCount(s) PROVE InteractionsInv'
  <2>1. /\ s \in Recounted /\ maintain' = [maintain EXCEPT !.stored = @ \cup {s}]
        /\ UNCHANGED <<mark, counter, dirty, client, refresh, outbox, crossed, issued>>
    BY <1>7 DEF StoreCount
  <2>2. PICK f \in maintain.found : f.status = s
    BY <2>1 DEF Recounted
  <2>3. s \in maintain.claimed
    BY <1>0, <2>2 DEF BatchFits
  <2>4. /\ maintain' \in Batch /\ maintain'.found = maintain.found
        /\ maintain'.stored = maintain.stored \cup {s} /\ maintain'.claimed = maintain.claimed
    BY <1>0, <2>1 DEF Batch
  <2> QED BY <1>0, <2>1, <2>2, <2>3, <2>4, MaintenanceKeeps DEF BatchFits
<1> QED BY <1>2, <1>3, <1>4, <1>5, <1>6, <1>7

\* The counters that trends are ranked by differ from the rows only while a
\* recount is owed, whatever requests, deletions and batches run at once, and a
\* Like or an Announce that was sent is stored or was undone by its own
\* identifier, unless two requests of the account about that status met.
THEOREM CountersAndBoostsAreTrue == InteractionsSpec => []InteractionsSafe
<1>1. InteractionsInit => InteractionsInv
  <2> SUFFICES ASSUME InteractionsInit PROVE InteractionsInv
    OBVIOUS
  <2>1. NoBatch \in Batch /\ NoBatch.stored = {} /\ NoBatch.claimed = {} /\ NoBatch.found = {}
    BY DEF NoBatch, Batch
  <2>2. InteractionsTyped
    BY <2>1, InteractionsAssumption DEF InteractionsInit, InteractionsTyped
  <2>3. ClientsFit /\ BatchFits
    BY <2>1, QuietIsIdle DEF InteractionsInit, ClientsFit, ClientFits, AloneFits, Wrote, BatchFits
  <2>4. SentActivityIsKnown
    BY DEF InteractionsInit, SentActivityIsKnown
  <2>5. DriftIsMarked
    <3> SUFFICES ASSUME NEW s \in Statuses PROVE counter[s] = Counted(s)
      BY DEF DriftIsMarked
    <3>1. ASSUME NEW v \in Counts PROVE Cardinality({k \in Interacting : k.on = s /\ k.verb = v /\ mark[k] # 0}) = 0
      <4>1. {k \in Interacting : k.on = s /\ k.verb = v /\ mark[k] # 0} = {}
        BY DEF InteractionsInit
      <4> QED BY <4>1, FS_EmptySet
    <3>2. counter[s] = [v \in Counts |-> 0]
      BY DEF InteractionsInit
    <3> QED BY <3>1, <3>2 DEF Counted
  <2> QED BY <2>2, <2>3, <2>4, <2>5 DEF InteractionsInv
<1>2. InteractionsInv /\ [InteractionsNext]_interaction_vars => InteractionsInv'
  <2> SUFFICES ASSUME InteractionsInv, [InteractionsNext]_interaction_vars PROVE InteractionsInv'
    OBVIOUS
  <2>1. ASSUME NEW r \in Clients, NEW k \in Interacting,
               \/ Favourite(r, k) \/ FavouriteRemote(r, k) \/ Reblog(r, k) \/ ReblogRemote(r, k)
               \/ Unfavourite(r, k) \/ UnfavouriteRemote(r, k) \/ Unreblog(r, k) \/ UnreblogRemote(r, k)
               \/ Bookmark(r, k) \/ Unbookmark(r, k) \/ ReceiveLike(r, k) \/ ReceiveAnnounce(r, k)
               \/ ReceiveUndoLike(r, k) \/ ReceiveUndoAnnounce(r, k)
        PROVE  InteractionsInv'
    <3>2. Inbound(k) => ~ Delivered(k)
      BY InteractionsAssumption DEF Inbound, Delivered
    <3>1. (Add(r, k) /\ (Delivered(k) => mark[k] = 0)) \/ RemoveRow(r, k)
      BY <2>1, <3>2 DEF Favourite, FavouriteRemote, Reblog, ReblogRemote, Unfavourite, UnfavouriteRemote, Unreblog, UnreblogRemote,
         Bookmark, Unbookmark, ReceiveLike, ReceiveAnnounce, ReceiveUndoLike, ReceiveUndoAnnounce
    <3> QED BY <3>1, RequestKeeps
  <2>2. CASE UNCHANGED interaction_vars
    <3>1. UNCHANGED <<mark, counter, dirty, client, maintain, refresh, outbox, crossed, issued>>
      BY <2>2 DEF interaction_vars
    <3> QED BY <3>1, MaintenanceKeeps DEF InteractionsInv, InteractionsTyped, BatchFits, DriftIsMarked
  <2> QED BY <2>1, <2>2, WriteKeeps, MeetKeeps, MarkAndAbortKeep, CommitKeeps, ForgetKeeps, BatchKeeps DEF InteractionsNext
<1>3. InteractionsInv => InteractionsSafe
  <2> SUFFICES ASSUME InteractionsInv PROVE InteractionsSafe
    OBVIOUS
  <2>1. \A r \in Clients : client[r].pc \in {"idle", "read", "written", "marked", "done"}
    BY QuietIsIdle DEF InteractionsInv, InteractionsTyped, Transaction
  <2>2. InteractionsTypeOK
    BY <2>1 DEF InteractionsInv, InteractionsTyped, InteractionsTypeOK, Batch, Delivered
  <2> QED BY <2>2 DEF InteractionsInv, InteractionsSafe
<1> QED BY <1>1, <1>2, <1>3, PTL DEF InteractionsSpec

-----------------------------------------------------------------------------
(* Local statuses *)

MediumRow == [status : Requests \cup {Nil}, schedule : Requests \cup {Nil}, st : {"absent", "stored", "deleted"}]
PublisherRow == [pc : {"idle", "claimed", "read", "checked"}, id : Requests \cup {Nil}, media : SUBSET Media]
EditorRow == [pc : {"idle", "editing", "deleting"}, id : Requests \cup {Nil}, media : SUBSET Media]
ActivityKind == {"Create", "Update", "Policy", "Delete"}

StatusesTyped ==
    /\ keyRow \in [Keys -> Requests \cup {Nil}]
    /\ request \in [Requests -> {"new", "reserved", "checked", "made", "done", "replayed", "refused"}]
    /\ row \in [Requests -> {"none", "live", "deleted"}]
    /\ made \in [Requests -> Nat]
    /\ schedule \in [Requests -> {"none", "later", "due"}]
    /\ duty \in [Requests -> {"none", "active", "over"}]
    /\ publisher \in [Publishers -> PublisherRow]
    /\ editor \in [Editors -> EditorRow]
    /\ medium \in [Media -> MediumRow]
    /\ revision \in [Requests -> Seq(SUBSET Media)]
    /\ sent \in [Requests -> Seq(ActivityKind)]

\* A request has committed once its status or the job of its schedule exists.
Committed(r) == row[r] # "none" \/ duty[r] # "none"
InHand(r) == request[r] \in {"reserved", "checked", "made"}
Twins(r, s) == r # s /\ RequestKey[r] # Nil /\ RequestKey[r] = RequestKey[s]

\* The advisory lock of a key, and what is recorded under it, let one of its
\* requests commit.
KeysFit ==
    /\ \A r \in Requests : made[r] = IF row[r] = "none" THEN 0 ELSE 1
    /\ \A r \in Requests : Committed(r) =>
          request[r] \in {"made", "done"} \/ (request[r] = "refused" /\ RequestKey[r] \in excused)
    /\ \A r \in Requests : request[r] = "done" /\ RequestKey[r] # Nil =>
          keyRow[RequestKey[r]] # Nil \/ RequestKey[r] \in excused
    /\ \A r, s \in Requests : Twins(r, s) => ~ (InHand(r) /\ InHand(s))
    /\ \A r, s \in Requests : Twins(r, s) /\ (InHand(r) \/ Committed(r)) /\ Committed(s) => RequestKey[r] \in excused

\* A worker at work publishes a schedule whose job exists.
PublishersFit ==
    \A p \in Publishers : publisher[p].pc # "idle" => publisher[p].id \in Requests /\ duty[publisher[p].id] # "none"

\* An edit holds the row of a status that lives; a deletion has seen its status.
EditorsFit ==
    \A e \in Editors :
        /\ editor[e].pc = "editing" => editor[e].id \in Requests /\ row[editor[e].id] = "live"
        /\ editor[e].pc = "deleting" => editor[e].id \in Requests /\ row[editor[e].id] # "none"

Updates(tells) == {i \in DOMAIN tells : tells[i] = "Update"}

TellsOf(tells, state, history) ==
    /\ tells = <<>> <=> state = "none"
    /\ \A i \in DOMAIN tells : (tells[i] = "Create") <=> (i = 1)
    /\ \A i, j \in DOMAIN tells : i < j /\ tells[i] = "Delete" => tells[j] = "Delete"
    /\ state = "live" => \A i \in DOMAIN tells : tells[i] # "Delete"
    /\ IsFiniteSet(Updates(tells))
    /\ Len(history) = IF Cardinality(Updates(tells)) = 0 THEN 0 ELSE Cardinality(Updates(tells)) + 1

TellsFit == \A r \in Requests : TellsOf(sent[r], row[r], revision[r])

StatusesInv ==
    /\ StatusesTyped /\ KeysFit /\ PublishersFit /\ EditorsFit /\ TellsFit
    /\ WaitingHasJob /\ ReservationHolds

\* One more activity that the followers are told of.
LEMMA ToldMore ==
    ASSUME NEW tells \in Seq(ActivityKind), NEW act \in ActivityKind, IsFiniteSet(Updates(tells))
    PROVE  /\ Append(tells, act) \in Seq(ActivityKind) /\ Append(tells, act) # <<>>
           /\ DOMAIN Append(tells, act) = 1..(Len(tells) + 1) /\ DOMAIN tells = 1..Len(tells) /\ Len(tells) \in Nat
           /\ Append(tells, act)[Len(tells) + 1] = act
           /\ \A i \in 1..Len(tells) : Append(tells, act)[i] = tells[i]
           /\ IsFiniteSet(Updates(Append(tells, act))) /\ Cardinality(Updates(tells)) \in Nat
           /\ Cardinality(Updates(Append(tells, act))) =
                IF act = "Update" THEN Cardinality(Updates(tells)) + 1 ELSE Cardinality(Updates(tells))
<1>1. /\ Append(tells, act) \in Seq(ActivityKind) /\ Append(tells, act) # <<>>
      /\ DOMAIN Append(tells, act) = 1..(Len(tells) + 1) /\ DOMAIN tells = 1..Len(tells) /\ Len(tells) \in Nat
      /\ Append(tells, act)[Len(tells) + 1] = act
      /\ \A i \in 1..Len(tells) : Append(tells, act)[i] = tells[i]
  OBVIOUS
<1>2. Updates(Append(tells, act)) = IF act = "Update" THEN Updates(tells) \cup {Len(tells) + 1} ELSE Updates(tells)
  BY <1>1 DEF Updates
<1>3. Len(tells) + 1 \notin Updates(tells)
  BY <1>1 DEF Updates
<1>4. Cardinality(Updates(tells)) \in Nat
  BY FS_CardinalityType
<1>5. /\ IsFiniteSet(Updates(tells) \cup {Len(tells) + 1})
      /\ Cardinality(Updates(tells) \cup {Len(tells) + 1}) = Cardinality(Updates(tells)) + 1
  BY <1>3, FS_AddElement
<1> QED BY <1>1, <1>2, <1>4, <1>5

\* The first activity is the Create, an edit adds an Update and a revision, and a
\* deletion is the last to be told.
LEMMA TellCreate ==
    ASSUME NEW tells \in Seq(ActivityKind), NEW history, TellsOf(tells, "none", history)
    PROVE  TellsOf(Append(tells, "Create"), "live", history)
<1>0. "Create" \in ActivityKind /\ tells = <<>> /\ IsFiniteSet(Updates(tells)) /\ Len(tells) = 0
  BY DEF ActivityKind, TellsOf
<1>1. /\ Append(tells, "Create") # <<>>
      /\ DOMAIN Append(tells, "Create") = 1..(Len(tells) + 1) /\ Append(tells, "Create")[Len(tells) + 1] = "Create"
      /\ IsFiniteSet(Updates(Append(tells, "Create")))
      /\ Cardinality(Updates(Append(tells, "Create"))) = Cardinality(Updates(tells))
  BY <1>0, ToldMore
<1>2. DOMAIN Append(tells, "Create") = {1} /\ Append(tells, "Create")[1] = "Create"
  BY <1>0, <1>1
<1> QED BY <1>1, <1>2 DEF TellsOf

LEMMA TellUpdate ==
    ASSUME NEW tells \in Seq(ActivityKind), NEW history, NEW more, TellsOf(tells, "live", history),
           Len(more) = IF Len(history) = 0 THEN 2 ELSE Len(history) + 1
    PROVE  TellsOf(Append(tells, "Update"), "live", more)
<1>0. "Update" \in ActivityKind /\ tells # <<>> /\ IsFiniteSet(Updates(tells)) /\ \A i \in DOMAIN tells : tells[i] # "Delete"
  BY DEF ActivityKind, TellsOf
<1>1. /\ Append(tells, "Update") # <<>> /\ DOMAIN tells = 1..Len(tells) /\ Len(tells) \in Nat
      /\ DOMAIN Append(tells, "Update") = 1..(Len(tells) + 1) /\ Append(tells, "Update")[Len(tells) + 1] = "Update"
      /\ \A i \in 1..Len(tells) : Append(tells, "Update")[i] = tells[i]
      /\ IsFiniteSet(Updates(Append(tells, "Update"))) /\ Cardinality(Updates(tells)) \in Nat
      /\ Cardinality(Updates(Append(tells, "Update"))) = Cardinality(Updates(tells)) + 1
  BY <1>0, ToldMore
<1>2. Len(tells) # 0
  BY <1>0
<1>3. \A i \in DOMAIN Append(tells, "Update") : /\ (Append(tells, "Update")[i] = "Create") <=> (i = 1)
                                               /\ Append(tells, "Update")[i] # "Delete"
  BY <1>0, <1>1, <1>2 DEF TellsOf
<1>4. Len(more) = IF Cardinality(Updates(Append(tells, "Update"))) = 0 THEN 0 ELSE Cardinality(Updates(Append(tells, "Update"))) + 1
  BY <1>1 DEF TellsOf
<1> QED BY <1>1, <1>3, <1>4 DEF TellsOf

LEMMA TellPolicy ==
    ASSUME NEW tells \in Seq(ActivityKind), NEW history, TellsOf(tells, "live", history)
    PROVE  TellsOf(Append(tells, "Policy"), "live", history)
<1>0. "Policy" \in ActivityKind /\ tells # <<>> /\ IsFiniteSet(Updates(tells)) /\ \A i \in DOMAIN tells : tells[i] # "Delete"
  BY DEF ActivityKind, TellsOf
<1>1. /\ Append(tells, "Policy") # <<>> /\ DOMAIN tells = 1..Len(tells) /\ Len(tells) \in Nat
      /\ DOMAIN Append(tells, "Policy") = 1..(Len(tells) + 1) /\ Append(tells, "Policy")[Len(tells) + 1] = "Policy"
      /\ \A i \in 1..Len(tells) : Append(tells, "Policy")[i] = tells[i]
      /\ IsFiniteSet(Updates(Append(tells, "Policy"))) /\ Cardinality(Updates(tells)) \in Nat
      /\ Cardinality(Updates(Append(tells, "Policy"))) = Cardinality(Updates(tells))
  BY <1>0, ToldMore
<1>2. Len(tells) # 0
  BY <1>0
<1>3. \A i \in DOMAIN Append(tells, "Policy") : /\ (Append(tells, "Policy")[i] = "Create") <=> (i = 1)
                                               /\ Append(tells, "Policy")[i] # "Delete"
  BY <1>0, <1>1, <1>2 DEF TellsOf
<1> QED BY <1>1, <1>3 DEF TellsOf

LEMMA TellDelete ==
    ASSUME NEW tells \in Seq(ActivityKind), NEW state, state # "none", NEW history, TellsOf(tells, state, history)
    PROVE  TellsOf(Append(tells, "Delete"), "deleted", history)
<1>0. "Delete" \in ActivityKind /\ tells # <<>> /\ IsFiniteSet(Updates(tells))
  BY DEF ActivityKind, TellsOf
<1>1. /\ Append(tells, "Delete") # <<>> /\ DOMAIN tells = 1..Len(tells) /\ Len(tells) \in Nat
      /\ DOMAIN Append(tells, "Delete") = 1..(Len(tells) + 1) /\ Append(tells, "Delete")[Len(tells) + 1] = "Delete"
      /\ \A i \in 1..Len(tells) : Append(tells, "Delete")[i] = tells[i]
      /\ IsFiniteSet(Updates(Append(tells, "Delete"))) /\ Cardinality(Updates(tells)) \in Nat
      /\ Cardinality(Updates(Append(tells, "Delete"))) = Cardinality(Updates(tells))
  BY <1>0, ToldMore
<1>2. Len(tells) # 0
  BY <1>0
<1>3. \A i \in DOMAIN Append(tells, "Delete") : (Append(tells, "Delete")[i] = "Create") <=> (i = 1)
  BY <1>1, <1>2 DEF TellsOf
<1>4. \A i, j \in DOMAIN Append(tells, "Delete") : i < j /\ Append(tells, "Delete")[i] = "Delete" => Append(tells, "Delete")[j] = "Delete"
  BY <1>1 DEF TellsOf
<1> QED BY <1>1, <1>3, <1>4 DEF TellsOf

\* A step that commits nothing new and touches no key.
LEMMA KeysFrame ==
    ASSUME StatusesInv, UNCHANGED <<request, keyRow, excused>>,
           \A r \in Requests : (Committed(r)' <=> Committed(r)) /\ made'[r] = IF row'[r] = "none" THEN 0 ELSE 1
    PROVE  KeysFit'
BY DEF StatusesInv, KeysFit, Twins, InHand

\* The lock of its key lets a request in that finds nothing recorded; when it is
\* done its result is recorded, or the key is excused.
LEMMA RequestStepKeeps ==
    ASSUME StatusesInv,
           \/ \E r \in Requests : BeginStatusCreation(r) \/ CheckStatusInput(r) \/ CompleteCreation(r) \/ LoseCreation(r)
           \/ \E k \in Keys : ExpireKey(k)
    PROVE  StatusesInv'
<1>0. /\ request \in [Requests -> {"new", "reserved", "checked", "made", "done", "replayed", "refused"}]
      /\ keyRow \in [Keys -> Requests \cup {Nil}] /\ KeysFit
      /\ \A r \in Requests : RequestKey[r] \in Keys \cup {Nil}
  BY LocalStatusesAssumption DEF StatusesInv, StatusesTyped
<1>1. UNCHANGED <<row, made, schedule, moves, duty, publisher, editor, medium, deleting, revision, sent>>
  BY DEF BeginStatusCreation, CheckStatusInput, CompleteCreation, LoseCreation, ExpireKey
<1>2. \A r \in Requests : Committed(r)' <=> Committed(r)
  BY <1>1 DEF Committed
<1>3. ASSUME NEW r \in Requests, BeginStatusCreation(r)
      PROVE  KeysFit' /\ request' \in [Requests -> {"new", "reserved", "checked", "made", "done", "replayed", "refused"}] /\ UNCHANGED keyRow
  <2>1. PICK x \in {"reserved", "replayed"} :
          /\ request' = [request EXCEPT ![r] = x] /\ UNCHANGED <<keyRow, excused>> /\ request[r] = "new"
          /\ x = "reserved" /\ RequestKey[r] # Nil => KeyIsFree(RequestKey[r]) /\ keyRow[RequestKey[r]] = Nil
    BY <1>3 DEF BeginStatusCreation
  <2>2. ~ Committed(r)
    BY <1>0, <2>1 DEF KeysFit
  <2>3. \A s \in Requests \ {r} : request'[s] = request[s]
    BY <1>0, <2>1
  <2>4. request'[r] = x
    BY <1>0, <2>1
  <2>5. ASSUME NEW s \in Requests, Twins(r, s), x = "reserved"
        PROVE  ~ InHand(s) /\ (Committed(s) => RequestKey[r] \in excused)
    <3>1. ~ InHand(s)
      BY <2>1, <2>5 DEF KeyIsFree, Holds, InHand, Twins
    <3>2. Committed(s) => RequestKey[s] \in excused
      BY <1>0, <2>1, <2>5, <3>1 DEF KeysFit, InHand, Twins
    <3> QED BY <2>5, <3>1, <3>2 DEF Twins
  <2>6. ASSUME NEW a \in Requests, NEW b \in Requests, Twins(a, b)
        PROVE  /\ ~ (InHand(a)' /\ InHand(b)')
               /\ (InHand(a)' \/ Committed(a)) /\ Committed(b) => RequestKey[a] \in excused
    <3>0. Twins(b, a) /\ RequestKey[a] = RequestKey[b]
      BY <2>6 DEF Twins
    <3>1. CASE a = r
      BY <1>0, <2>1, <2>2, <2>3, <2>4, <2>5, <2>6, <3>0, <3>1 DEF KeysFit, InHand, Twins
    <3>2. CASE b = r
      BY <1>0, <2>1, <2>2, <2>3, <2>4, <2>5, <2>6, <3>0, <3>2 DEF KeysFit, InHand, Twins
    <3>3. CASE a # r /\ b # r
      BY <1>0, <2>1, <2>3, <2>6, <3>3 DEF KeysFit, InHand, Twins
    <3> QED BY <3>1, <3>2, <3>3
  <2>7. \A s \in Requests : Committed(s) =>
          request'[s] \in {"made", "done"} \/ (request'[s] = "refused" /\ RequestKey[s] \in excused')
    BY <1>0, <2>1, <2>2, <2>3 DEF KeysFit
  <2>8. \A s \in Requests : request'[s] = "done" /\ RequestKey[s] # Nil => keyRow'[RequestKey[s]] # Nil \/ RequestKey[s] \in excused'
    BY <1>0, <2>1, <2>3, <2>4 DEF KeysFit
  <2> QED BY <1>0, <1>1, <1>2, <2>1, <2>6, <2>7, <2>8 DEF KeysFit, Twins
<1>4. ASSUME NEW r \in Requests, CheckStatusInput(r)
      PROVE  KeysFit' /\ request' \in [Requests -> {"new", "reserved", "checked", "made", "done", "replayed", "refused"}] /\ UNCHANGED keyRow
  <2>1. PICK x \in {"checked", "refused"} : request' = [request EXCEPT ![r] = x] /\ UNCHANGED <<keyRow, excused>> /\ request[r] = "reserved"
    BY <1>4 DEF CheckStatusInput
  <2>2. ~ Committed(r)
    BY <1>0, <2>1 DEF KeysFit
  <2> QED BY <1>0, <1>1, <1>2, <2>1, <2>2 DEF KeysFit, Twins, InHand
<1>5. ASSUME NEW r \in Requests, CompleteCreation(r)
      PROVE  /\ KeysFit' /\ request' \in [Requests -> {"new", "reserved", "checked", "made", "done", "replayed", "refused"}]
             /\ keyRow' \in [Keys -> Requests \cup {Nil}]
  <2>1. /\ request' = [request EXCEPT ![r] = "done"] /\ request[r] = "made" /\ UNCHANGED excused
        /\ keyRow' = IF RequestKey[r] = Nil THEN keyRow ELSE [keyRow EXCEPT ![RequestKey[r]] = r]
    BY <1>5 DEF CompleteCreation
  <2>2. r # Nil /\ keyRow' \in [Keys -> Requests \cup {Nil}] /\ \A k \in Keys : keyRow[k] # Nil => keyRow'[k] # Nil
    BY <1>0, <2>1, LocalStatusesAssumption
  <2>3. RequestKey[r] # Nil => keyRow'[RequestKey[r]] # Nil
    BY <1>0, <2>1, <2>2
  <2>4. \A s \in Requests : request'[s] = "done" /\ RequestKey[s] # Nil => keyRow'[RequestKey[s]] # Nil \/ RequestKey[s] \in excused'
    BY <1>0, <2>1, <2>2, <2>3 DEF KeysFit
  <2> QED BY <1>0, <1>1, <1>2, <2>1, <2>2, <2>4 DEF KeysFit, Twins, InHand
<1>6. ASSUME NEW r \in Requests, LoseCreation(r)
      PROVE  KeysFit' /\ request' \in [Requests -> {"new", "reserved", "checked", "made", "done", "replayed", "refused"}] /\ UNCHANGED keyRow
  BY <1>0, <1>1, <1>2, <1>6 DEF LoseCreation, KeysFit, Twins, InHand
<1>7. ASSUME NEW k \in Keys, ExpireKey(k)
      PROVE  KeysFit' /\ UNCHANGED request /\ keyRow' \in [Keys -> Requests \cup {Nil}]
  BY <1>0, <1>1, <1>2, <1>7 DEF ExpireKey, KeysFit, Twins, InHand
<1>8. /\ KeysFit' /\ request' \in [Requests -> {"new", "reserved", "checked", "made", "done", "replayed", "refused"}]
      /\ keyRow' \in [Keys -> Requests \cup {Nil}]
  BY <1>0, <1>3, <1>4, <1>5, <1>6, <1>7
<1>9. StatusesTyped' /\ PublishersFit' /\ EditorsFit' /\ TellsFit' /\ WaitingHasJob' /\ ReservationHolds'
  BY <1>1, <1>8 DEF StatusesInv, StatusesTyped, PublishersFit, EditorsFit, TellsFit, WaitingHasJob, ReservationHolds
<1> QED BY <1>8, <1>9 DEF StatusesInv

\* The request under which a status or a schedule is committed is the only one of
\* its key that is in hand, and had committed nothing before.
LEMMA CommitKeys ==
    ASSUME StatusesInv, NEW r \in Requests, request[r] \in {"reserved", "checked"},
           request' = [request EXCEPT ![r] = "made"], UNCHANGED <<keyRow, excused>>,
           \A s \in Requests \ {r} : (Committed(s)' <=> Committed(s)) /\ made'[s] = made[s] /\ row'[s] = row[s],
           made'[r] = IF row'[r] = "none" THEN 0 ELSE 1
    PROVE  KeysFit'
<1>0. request \in [Requests -> {"new", "reserved", "checked", "made", "done", "replayed", "refused"}] /\ KeysFit
  BY DEF StatusesInv, StatusesTyped
<1>1. request'[r] = "made" /\ \A s \in Requests \ {r} : request'[s] = request[s]
  BY <1>0
<1>2. ~ Committed(r) /\ InHand(r) /\ InHand(r)' /\ \A s \in Requests \ {r} : InHand(s)' <=> InHand(s)
  BY <1>0, <1>1 DEF KeysFit, InHand
<1>3. /\ \A s \in Requests : made'[s] = IF row'[s] = "none" THEN 0 ELSE 1
      /\ \A s \in Requests : Committed(s)' => request'[s] \in {"made", "done"} \/ (request'[s] = "refused" /\ RequestKey[s] \in excused')
      /\ \A s \in Requests : request'[s] = "done" /\ RequestKey[s] # Nil => keyRow'[RequestKey[s]] # Nil \/ RequestKey[s] \in excused'
  BY <1>0, <1>1 DEF KeysFit
<1>4. ASSUME NEW a \in Requests, NEW b \in Requests, Twins(a, b)
      PROVE  /\ ~ (InHand(a)' /\ InHand(b)')
             /\ (InHand(a)' \/ Committed(a)') /\ Committed(b)' => RequestKey[a] \in excused
  <2>0. Twins(b, a) /\ RequestKey[a] = RequestKey[b] /\ a # b
    BY <1>4 DEF Twins
  <2>1. /\ ~ (InHand(a) /\ InHand(b))
        /\ (InHand(a) \/ Committed(a)) /\ Committed(b) => RequestKey[a] \in excused
        /\ (InHand(b) \/ Committed(b)) /\ Committed(a) => RequestKey[a] \in excused
    BY <1>0, <1>4, <2>0 DEF KeysFit
  <2>2. CASE a = r
    BY <1>2, <2>0, <2>1, <2>2
  <2>3. CASE b = r
    BY <1>2, <2>0, <2>1, <2>3
  <2>4. CASE a # r /\ b # r
    BY <1>2, <2>1, <2>4
  <2> QED BY <2>2, <2>3, <2>4
<1> QED BY <1>3, <1>4 DEF KeysFit, Twins

\* The insert of a status that nobody has read yet.
LEMMA CreateStatusKeeps ==
    ASSUME StatusesInv, NEW r \in Requests, CreateStatus(r)
    PROVE  StatusesInv'
<1>0. StatusesTyped /\ KeysFit /\ TellsFit /\ EditorsFit /\ ReservationHolds /\ WaitingHasJob /\ PublishersFit
  BY DEF StatusesInv
<1>a. /\ UNCHANGED <<keyRow, schedule, moves, duty, publisher, editor, deleting, revision, excused>>
      /\ request[r] = "checked"
  BY DEF CreateStatus
<1>1. row[r] = "none" /\ made[r] = 0 /\ ~ Committed(r)
  BY <1>0, <1>a DEF KeysFit, Committed
<1>2. CASE StillStored(RequestMedia[r])
  <2>1. /\ request' = [request EXCEPT ![r] = "made"] /\ row' = [row EXCEPT ![r] = "live"]
        /\ made' = [made EXCEPT ![r] = @ + 1] /\ medium' = Attach(RequestMedia[r], r)
        /\ sent' = [sent EXCEPT ![r] = Append(@, "Create")]
    BY <1>2 DEF CreateStatus, Announce
  <2>2. /\ row'[r] = "live" /\ \A s \in Requests \ {r} : row'[s] = row[s]
        /\ made'[r] = 1 /\ \A s \in Requests \ {r} : made'[s] = made[s]
    BY <1>0, <1>1, <2>1 DEF StatusesTyped
  <2>3. \A s \in Requests \ {r} : Committed(s)' <=> Committed(s)
    BY <1>a, <2>2 DEF Committed
  <2>4. KeysFit'
    BY <1>a, <2>1, <2>2, <2>3, CommitKeys
  <2>5. medium' \in [Media -> MediumRow] /\ \A m \in Media : medium'[m].schedule # Nil => medium'[m] = medium[m]
    <3>1. ASSUME NEW m \in Media
          PROVE  medium'[m] \in MediumRow /\ (medium'[m].schedule # Nil => medium'[m] = medium[m])
      <4>1. medium[m] \in MediumRow
        BY <1>0 DEF StatusesTyped
      <4>2. medium'[m] = IF m \in RequestMedia[r] THEN [medium[m] EXCEPT !.status = r, !.schedule = Nil] ELSE medium[m]
        BY <2>1 DEF Attach
      <4>3. /\ [medium[m] EXCEPT !.status = r, !.schedule = Nil] \in MediumRow
            /\ [medium[m] EXCEPT !.status = r, !.schedule = Nil].schedule = Nil
        BY <4>1 DEF MediumRow
      <4> QED BY <4>1, <4>2, <4>3
    <3>2. medium' = [m \in Media |-> medium'[m]]
      BY <2>1 DEF Attach
    <3> QED BY <3>1, <3>2
  <2>6. sent' \in [Requests -> Seq(ActivityKind)] /\ sent'[r] = Append(sent[r], "Create")
        /\ \A s \in Requests \ {r} : sent'[s] = sent[s]
    BY <1>0, <2>1 DEF StatusesTyped, ActivityKind
  <2>7. TellsOf(sent'[r], "live", revision[r])
    BY <1>0, <1>1, <2>6, TellCreate DEF StatusesTyped, TellsFit
  <2>8. TellsFit'
    BY <1>0, <1>a, <2>2, <2>6, <2>7 DEF TellsFit
  <2>9. StatusesTyped'
    BY <1>0, <1>a, <2>1, <2>5, <2>6 DEF StatusesTyped
  <2>10. EditorsFit' /\ PublishersFit' /\ WaitingHasJob'
    BY <1>0, <1>1, <1>a, <2>2 DEF EditorsFit, PublishersFit, WaitingHasJob
  <2>11. ReservationHolds'
    BY <1>0, <1>a, <2>5 DEF ReservationHolds
  <2> QED BY <2>4, <2>8, <2>9, <2>10, <2>11 DEF StatusesInv
<1>3. CASE ~ StillStored(RequestMedia[r])
  <2>1. request' = [request EXCEPT ![r] = "refused"] /\ UNCHANGED <<row, made, medium, sent>>
    BY <1>3 DEF CreateStatus
  <2>2. \A s \in Requests : Committed(s)' <=> Committed(s)
    BY <1>a, <2>1 DEF Committed
  <2>3. KeysFit'
    BY <1>0, <1>1, <1>a, <2>1, <2>2 DEF KeysFit, StatusesTyped, Twins, InHand
  <2>4. StatusesTyped' /\ PublishersFit' /\ EditorsFit' /\ TellsFit' /\ WaitingHasJob' /\ ReservationHolds'
    BY <1>0, <1>a, <2>1 DEF StatusesTyped, PublishersFit, EditorsFit, TellsFit, WaitingHasJob, ReservationHolds
  <2> QED BY <2>3, <2>4 DEF StatusesInv
<1> QED BY <1>2, <1>3

\* A schedule is committed with its job and the reservation of free media.
LEMMA CreateScheduledKeeps ==
    ASSUME StatusesInv, NEW r \in Requests, CreateScheduledStatus(r)
    PROVE  StatusesInv'
<1>0. StatusesTyped /\ KeysFit /\ TellsFit /\ EditorsFit /\ ReservationHolds /\ WaitingHasJob /\ PublishersFit
  BY DEF StatusesInv
<1>a. /\ UNCHANGED <<keyRow, row, made, moves, publisher, editor, deleting, revision, sent, excused>>
      /\ request[r] = "reserved"
  BY DEF CreateScheduledStatus
<1>1. row[r] = "none" /\ made[r] = 0 /\ ~ Committed(r) /\ r # Nil
  BY <1>0, <1>a, LocalStatusesAssumption DEF KeysFit, Committed
<1>2. CASE AcceptsSchedule(r)
  <2>1. /\ request' = [request EXCEPT ![r] = "made"] /\ schedule' = [schedule EXCEPT ![r] = "later"]
        /\ duty' = [duty EXCEPT ![r] = "active"]
        /\ medium' = [m \in Media |-> IF m \in RequestMedia[r] THEN [medium[m] EXCEPT !.schedule = r] ELSE medium[m]]
    BY <1>2 DEF CreateScheduledStatus
  <2>2. /\ duty'[r] = "active" /\ \A s \in Requests \ {r} : duty'[s] = duty[s]
        /\ schedule'[r] = "later" /\ \A s \in Requests \ {r} : schedule'[s] = schedule[s]
    BY <1>0, <2>1 DEF StatusesTyped
  <2>3. \A s \in Requests \ {r} : Committed(s)' <=> Committed(s)
    BY <1>a, <2>2 DEF Committed
  <2>4. KeysFit'
    BY <1>a, <1>1, <2>1, <2>3, CommitKeys
  <2>5. \A m \in RequestMedia[r] : medium[m].status = Nil
    BY <1>2 DEF AcceptsSchedule, IsAvailable
  <2>6. /\ medium' \in [Media -> MediumRow]
        /\ \A m \in Media : \/ medium'[m] = medium[m]
                            \/ medium'[m].schedule = r /\ medium'[m].status = Nil
    <3>1. ASSUME NEW m \in Media
          PROVE  /\ medium'[m] \in MediumRow
                 /\ medium'[m] = medium[m] \/ (medium'[m].schedule = r /\ medium'[m].status = Nil)
      <4>1. medium[m] \in MediumRow
        BY <1>0 DEF StatusesTyped
      <4>2. medium'[m] = IF m \in RequestMedia[r] THEN [medium[m] EXCEPT !.schedule = r] ELSE medium[m]
        BY <2>1
      <4>3. /\ [medium[m] EXCEPT !.schedule = r] \in MediumRow /\ [medium[m] EXCEPT !.schedule = r].schedule = r
            /\ [medium[m] EXCEPT !.schedule = r].status = medium[m].status
        BY <4>1 DEF MediumRow
      <4> QED BY <2>5, <4>1, <4>2, <4>3
    <3>2. medium' = [m \in Media |-> medium'[m]]
      BY <2>1
    <3> QED BY <3>1, <3>2
  <2>7. ReservationHolds'
    <3> SUFFICES ASSUME NEW m \in Media, medium'[m].schedule # Nil
                 PROVE  medium'[m].status = Nil /\ schedule'[medium'[m].schedule] # "none"
      BY DEF ReservationHolds
    <3>1. CASE medium'[m] = medium[m]
      <4>1. medium[m].schedule \in Requests /\ medium[m].status = Nil /\ schedule[medium[m].schedule] # "none"
        BY <1>0, <3>1 DEF ReservationHolds, StatusesTyped, MediumRow
      <4> QED BY <2>2, <3>1, <4>1
    <3> QED BY <2>2, <2>6, <3>1
  <2>8. StatusesTyped'
    BY <1>0, <1>a, <2>1, <2>6 DEF StatusesTyped
  <2>9. EditorsFit' /\ TellsFit'
    BY <1>0, <1>a DEF EditorsFit, TellsFit
  <2>10. PublishersFit' /\ WaitingHasJob'
    BY <1>0, <1>a, <2>2 DEF PublishersFit, WaitingHasJob
  <2> QED BY <2>4, <2>7, <2>8, <2>9, <2>10 DEF StatusesInv
<1>3. CASE ~ AcceptsSchedule(r)
  <2>1. request' = [request EXCEPT ![r] = "refused"] /\ UNCHANGED <<schedule, duty, medium>>
    BY <1>3 DEF CreateScheduledStatus
  <2>2. \A s \in Requests : Committed(s)' <=> Committed(s)
    BY <1>a, <2>1 DEF Committed
  <2>3. KeysFit'
    BY <1>0, <1>1, <1>a, <2>1, <2>2 DEF KeysFit, StatusesTyped, Twins, InHand
  <2>4. StatusesTyped' /\ PublishersFit' /\ EditorsFit' /\ TellsFit' /\ WaitingHasJob' /\ ReservationHolds'
    BY <1>0, <1>a, <2>1 DEF StatusesTyped, PublishersFit, EditorsFit, TellsFit, WaitingHasJob, ReservationHolds
  <2> QED BY <2>3, <2>4 DEF StatusesInv
<1> QED BY <1>2, <1>3

\* A schedule that becomes due or is moved is still the one of its job.
LEMMA MoveKeeps ==
    ASSUME StatusesInv, NEW r \in Requests, ScheduleComesDue(r) \/ RescheduleStatus(r)
    PROVE  StatusesInv'
<1>0. StatusesTyped /\ KeysFit /\ TellsFit /\ EditorsFit /\ ReservationHolds /\ WaitingHasJob /\ PublishersFit
  BY DEF StatusesInv
<1>1. UNCHANGED <<keyRow, request, row, made, duty, publisher, editor, medium, deleting, revision, sent, excused>>
  BY DEF ScheduleComesDue, RescheduleStatus
<1>2. PICK x \in {"later", "due"} : schedule' = [schedule EXCEPT ![r] = x] /\ schedule[r] # "none"
  BY DEF ScheduleComesDue, RescheduleStatus, MoveSchedule
<1>3. schedule' \in [Requests -> {"none", "later", "due"}] /\ \A s \in Requests : schedule'[s] # "none" <=> schedule[s] # "none"
  BY <1>0, <1>2 DEF StatusesTyped
<1>4. \A s \in Requests : Committed(s)' <=> Committed(s)
  BY <1>1 DEF Committed
<1>5. KeysFit'
  BY <1>0, <1>1, <1>4 DEF KeysFit, Twins, InHand
<1>6. StatusesTyped' /\ TellsFit' /\ EditorsFit' /\ PublishersFit' /\ WaitingHasJob'
  BY <1>0, <1>1, <1>3 DEF StatusesTyped, TellsFit, EditorsFit, PublishersFit, WaitingHasJob
<1>7. ReservationHolds'
  BY <1>0, <1>1, <1>3 DEF ReservationHolds, StatusesTyped, MediumRow
<1> QED BY <1>5, <1>6, <1>7 DEF StatusesInv

\* A schedule that goes takes its reservations along.
LEMMA ReservationReleased ==
    ASSUME NEW r \in Requests, NEW before \in [Media -> MediumRow]
    PROVE  /\ Release(r, before) \in [Media -> MediumRow]
           /\ \A m \in Media : Release(r, before)[m].schedule # Nil =>
                 Release(r, before)[m] = before[m] /\ Release(r, before)[m].schedule # r
<1>1. ASSUME NEW m \in Media, NEW x, x = Release(r, before)[m]
      PROVE  x \in MediumRow /\ (x.schedule # Nil => x = before[m] /\ x.schedule # r)
  <2>1. x = IF before[m].schedule = r THEN [before[m] EXCEPT !.schedule = Nil] ELSE before[m]
    BY <1>1 DEF Release
  <2>2. before[m] \in MediumRow
    OBVIOUS
  <2>3. [before[m] EXCEPT !.schedule = Nil] \in MediumRow /\ [before[m] EXCEPT !.schedule = Nil].schedule = Nil
    BY <2>2 DEF MediumRow
  <2> QED BY <2>1, <2>2, <2>3
<1>2. Release(r, before) = [m \in Media |-> Release(r, before)[m]]
  BY DEF Release
<1> QED BY <1>1, <1>2

\* A medium that is reserved after the schedule of r has gone was reserved before,
\* and by another schedule.
LEMMA ReservationsAfter ==
    ASSUME StatusesTyped, ReservationHolds, NEW r \in Requests,
           \A s \in Requests \ {r} : schedule'[s] = schedule[s],
           \A m \in Media : medium'[m].schedule # Nil => medium'[m] = medium[m] /\ medium'[m].schedule # r
    PROVE  ReservationHolds'
<1> SUFFICES ASSUME NEW m \in Media, medium'[m].schedule # Nil
             PROVE  medium'[m].status = Nil /\ schedule'[medium'[m].schedule] # "none"
  BY DEF ReservationHolds
<1>1. medium'[m] = medium[m] /\ medium[m].schedule # r /\ medium[m].schedule # Nil
  OBVIOUS
<1>2. medium[m].schedule \in Requests /\ medium[m].status = Nil /\ schedule[medium[m].schedule] # "none"
  BY <1>1 DEF StatusesTyped, MediumRow, ReservationHolds
<1> QED BY <1>1, <1>2

\* Cancelling ends the job with the schedule.
LEMMA CancelKeeps ==
    ASSUME StatusesInv, NEW r \in Requests, Cancel(r), schedule[r] # "none" \/ duty[r] # "none",
           UNCHANGED <<keyRow, request, row, made, moves, editor, deleting, revision, sent, excused>>,
           publisher' = publisher \/ \E p \in Publishers : Retire(p)
    PROVE  StatusesInv'
<1>0. StatusesTyped /\ KeysFit /\ TellsFit /\ EditorsFit /\ ReservationHolds /\ WaitingHasJob /\ PublishersFit
  BY DEF StatusesInv
<1>1. /\ schedule' = [schedule EXCEPT ![r] = "none"] /\ medium' = Release(r, medium)
      /\ duty' = [duty EXCEPT ![r] = IF schedule[r] = "none" THEN @ ELSE "over"]
  BY DEF Cancel
<1>2. /\ schedule'[r] = "none" /\ \A s \in Requests \ {r} : schedule'[s] = schedule[s]
      /\ schedule' \in [Requests -> {"none", "later", "due"}]
      /\ duty[r] # "none" /\ duty'[r] # "none" /\ \A s \in Requests \ {r} : duty'[s] = duty[s]
      /\ duty' \in [Requests -> {"none", "active", "over"}]
  BY <1>0, <1>1 DEF StatusesTyped, WaitingHasJob
<1>3. medium \in [Media -> MediumRow]
  BY <1>0 DEF StatusesTyped
<1>4. /\ medium' \in [Media -> MediumRow]
      /\ \A m \in Media : medium'[m].schedule # Nil => medium'[m] = medium[m] /\ medium'[m].schedule # r
  BY <1>1, <1>3, ReservationReleased
<1>5. ReservationHolds'
  BY <1>0, <1>2, <1>4, ReservationsAfter
<1>6. KeysFit'
  <2>1. \A s \in Requests : Committed(s)' <=> Committed(s)
    BY <1>2 DEF Committed
  <2> QED BY <1>0, <2>1 DEF KeysFit, Twins, InHand
<1>7. /\ publisher' \in [Publishers -> PublisherRow]
      /\ \A p \in Publishers : publisher'[p].pc # "idle" => publisher'[p] = publisher[p]
  <2>1. IdlePublisher \in PublisherRow /\ IdlePublisher.pc = "idle"
    BY DEF IdlePublisher, PublisherRow
  <2>2. publisher' = publisher \/ \E p \in Publishers : publisher' = [publisher EXCEPT ![p] = IdlePublisher]
    BY DEF Retire
  <2> QED BY <1>0, <2>1, <2>2 DEF StatusesTyped
<1>8. StatusesTyped' /\ TellsFit' /\ EditorsFit'
  BY <1>0, <1>2, <1>4, <1>7 DEF StatusesTyped, TellsFit, EditorsFit
<1>9. PublishersFit' /\ WaitingHasJob'
  BY <1>0, <1>2, <1>7 DEF PublishersFit, WaitingHasJob
<1> QED BY <1>5, <1>6, <1>8, <1>9 DEF StatusesInv

\* A worker claims a job that exists, reads its schedule and checks the media; the
\* job ends here only when its schedule has gone.
LEMMA WorkerKeeps ==
    ASSUME StatusesInv, NEW p \in Publishers,
           \/ \E r \in Requests : ClaimPublication(p, r)
           \/ SnapshotSchedule(p) \/ CheckPublication(p) \/ AbandonPublication(p)
    PROVE  StatusesInv'
<1>0. StatusesTyped /\ KeysFit /\ TellsFit /\ EditorsFit /\ ReservationHolds /\ WaitingHasJob /\ PublishersFit
  BY DEF StatusesInv
<1>1. UNCHANGED <<keyRow, request, row, made, schedule, moves, editor, medium, deleting, revision, sent, excused>>
  BY DEF ClaimPublication, SnapshotSchedule, CheckPublication, AbandonPublication
<1>2. \/ UNCHANGED duty
      \/ publisher[p].pc = "claimed" /\ ScheduleIsGone(publisher[p].id) /\ EndDuty(publisher[p].id)
  BY DEF ClaimPublication, SnapshotSchedule, CheckPublication, AbandonPublication
<1>3. /\ duty' \in [Requests -> {"none", "active", "over"}]
      /\ \A s \in Requests : (duty'[s] # "none" <=> duty[s] # "none") /\ (duty'[s] = duty[s] \/ schedule[s] = "none")
  <2>1. CASE UNCHANGED duty
    BY <1>0, <2>1 DEF StatusesTyped
  <2>2. CASE publisher[p].pc = "claimed" /\ ScheduleIsGone(publisher[p].id) /\ EndDuty(publisher[p].id)
    <3>1. publisher[p].id \in Requests /\ duty[publisher[p].id] # "none"
      BY <1>0, <2>2 DEF PublishersFit
    <3> QED BY <1>0, <2>2, <3>1 DEF StatusesTyped, ScheduleIsGone, EndDuty
  <2> QED BY <1>2, <2>1, <2>2
<1>4. \E x \in PublisherRow :
        /\ publisher' = [publisher EXCEPT ![p] = x]
        /\ x.pc # "idle" => x.id \in Requests /\ duty[x.id] # "none"
  <2>1. publisher[p] \in PublisherRow /\ (publisher[p].pc # "idle" => publisher[p].id \in Requests /\ duty[publisher[p].id] # "none")
    BY <1>0 DEF StatusesTyped, PublishersFit
  <2>2. IdlePublisher \in PublisherRow /\ IdlePublisher.pc = "idle"
    BY DEF IdlePublisher, PublisherRow
  <2>3. ASSUME NEW r \in Requests, ClaimPublication(p, r)
        PROVE  \E x \in PublisherRow : /\ publisher' = [publisher EXCEPT ![p] = x]
                                       /\ x.pc # "idle" => x.id \in Requests /\ duty[x.id] # "none"
    <3>1. [pc |-> "claimed", id |-> r, media |-> {}] \in PublisherRow
      BY DEF PublisherRow
    <3>2. publisher' = [publisher EXCEPT ![p] = [pc |-> "claimed", id |-> r, media |-> {}]] /\ duty[r] # "none"
      BY <2>3 DEF ClaimPublication
    <3> QED BY <3>1, <3>2
  <2>4. CASE Retire(p)
    BY <2>2, <2>4 DEF Retire
  <2>5. CASE SnapshotSchedule(p) /\ ~ Retire(p)
    <3>1. PICK ms \in SUBSET Media : publisher' = [publisher EXCEPT ![p] = [pc |-> "read", id |-> publisher[p].id, media |-> ms]]
      BY <2>5 DEF SnapshotSchedule
    <3>2. publisher[p].pc # "idle"
      BY <2>5 DEF SnapshotSchedule
    <3>3. [pc |-> "read", id |-> publisher[p].id, media |-> ms] \in PublisherRow
      BY <2>1 DEF PublisherRow
    <3> QED BY <2>1, <3>1, <3>2, <3>3
  <2>6. CASE CheckPublication(p) /\ ~ Retire(p)
    <3>1. publisher' = [publisher EXCEPT ![p] = [publisher[p] EXCEPT !.pc = "checked"]] /\ publisher[p].pc # "idle"
      BY <1>0, <2>6 DEF CheckPublication, StatusesTyped
    <3>2. /\ [publisher[p] EXCEPT !.pc = "checked"] \in PublisherRow
          /\ [publisher[p] EXCEPT !.pc = "checked"].id = publisher[p].id
      BY <2>1 DEF PublisherRow
    <3> QED BY <2>1, <3>1, <3>2
  <2> QED BY <2>3, <2>4, <2>5, <2>6 DEF AbandonPublication
<1>5. /\ publisher' \in [Publishers -> PublisherRow]
      /\ \A q \in Publishers : publisher'[q].pc # "idle" => publisher'[q].id \in Requests /\ duty[publisher'[q].id] # "none"
  BY <1>0, <1>4 DEF StatusesTyped, PublishersFit
<1>6. KeysFit'
  <2>1. \A s \in Requests : Committed(s)' <=> Committed(s)
    BY <1>1, <1>3 DEF Committed
  <2> QED BY <1>0, <1>1, <2>1 DEF KeysFit, Twins, InHand
<1>7. StatusesTyped' /\ TellsFit' /\ EditorsFit' /\ ReservationHolds'
  BY <1>0, <1>1, <1>3, <1>5 DEF StatusesTyped, TellsFit, EditorsFit, ReservationHolds
<1>8. PublishersFit' /\ WaitingHasJob'
  BY <1>0, <1>1, <1>3, <1>5 DEF PublishersFit, WaitingHasJob
<1> QED BY <1>6, <1>7, <1>8 DEF StatusesInv

\* The worker inserts the status where the schedule was, if no status has its
\* identifier; otherwise its transaction leaves everything as it is.
LEMMA PublishKeeps ==
    ASSUME StatusesInv, NEW p \in Publishers, PublishSchedule(p)
    PROVE  StatusesInv'
<1>0. StatusesTyped /\ KeysFit /\ TellsFit /\ EditorsFit /\ ReservationHolds /\ WaitingHasJob /\ PublishersFit
  BY DEF StatusesInv
<1>a. UNCHANGED <<keyRow, request, moves, editor, deleting, revision, excused>> /\ Retire(p) /\ publisher[p].pc = "checked"
  BY DEF PublishSchedule
<1>1. /\ publisher' \in [Publishers -> PublisherRow]
      /\ \A q \in Publishers : publisher'[q].pc # "idle" => publisher'[q] = publisher[q]
  <2>1. IdlePublisher \in PublisherRow /\ IdlePublisher.pc = "idle"
    BY DEF IdlePublisher, PublisherRow
  <2> QED BY <1>0, <1>a, <2>1 DEF StatusesTyped, Retire
<1>2. PICK r \in Requests : r = publisher[p].id /\ duty[r] # "none"
  BY <1>0, <1>a DEF PublishersFit
<1>3. CASE IdIsUnused(r) /\ StillStored(publisher[p].media)
  <2>1. /\ row' = [row EXCEPT ![r] = "live"] /\ made' = [made EXCEPT ![r] = @ + 1]
        /\ schedule' = [schedule EXCEPT ![r] = "none"] /\ medium' = Release(r, Attach(publisher[p].media, r))
        /\ sent' = [sent EXCEPT ![r] = Append(@, "Create")] /\ duty' = [duty EXCEPT ![r] = "over"]
    BY <1>2, <1>3 DEF PublishSchedule, Announce, EndDuty
  <2>2. row[r] = "none" /\ made[r] = 0
    BY <1>0, <1>3 DEF IdIsUnused, KeysFit
  <2>3. /\ row'[r] = "live" /\ \A s \in Requests \ {r} : row'[s] = row[s]
        /\ made'[r] = 1 /\ \A s \in Requests \ {r} : made'[s] = made[s]
        /\ schedule'[r] = "none" /\ \A s \in Requests \ {r} : schedule'[s] = schedule[s]
        /\ duty'[r] = "over" /\ \A s \in Requests \ {r} : duty'[s] = duty[s]
    BY <1>0, <2>1, <2>2 DEF StatusesTyped
  <2>4. KeysFit'
    <3>1. \A s \in Requests : (Committed(s)' <=> Committed(s)) /\ made'[s] = IF row'[s] = "none" THEN 0 ELSE 1
      BY <1>0, <1>2, <2>3 DEF Committed, KeysFit
    <3> QED BY <1>a, <3>1, KeysFrame
  <2>5. PICK between : between = Attach(publisher[p].media, r)
    OBVIOUS
  <2>6. between \in [Media -> MediumRow] /\ \A m \in Media : between[m].schedule # Nil => between[m] = medium[m]
    <3>1. ASSUME NEW m \in Media
          PROVE  between[m] \in MediumRow /\ (between[m].schedule # Nil => between[m] = medium[m])
      <4>1. medium[m] \in MediumRow
        BY <1>0 DEF StatusesTyped
      <4>2. between[m] = IF m \in publisher[p].media THEN [medium[m] EXCEPT !.status = r, !.schedule = Nil] ELSE medium[m]
        BY <2>5 DEF Attach
      <4>3. /\ [medium[m] EXCEPT !.status = r, !.schedule = Nil] \in MediumRow
            /\ [medium[m] EXCEPT !.status = r, !.schedule = Nil].schedule = Nil
        BY <4>1 DEF MediumRow
      <4> QED BY <4>1, <4>2, <4>3
    <3>2. between = [m \in Media |-> between[m]]
      BY <2>5 DEF Attach
    <3> QED BY <3>1, <3>2
  <2>7. medium' = Release(r, between)
    BY <2>1, <2>5
  <2>8. /\ medium' \in [Media -> MediumRow]
        /\ \A m \in Media : medium'[m].schedule # Nil => medium'[m] = medium[m] /\ medium'[m].schedule # r
    <3>1. /\ Release(r, between) \in [Media -> MediumRow]
          /\ \A m \in Media : Release(r, between)[m].schedule # Nil =>
                Release(r, between)[m] = between[m] /\ Release(r, between)[m].schedule # r
      BY <2>6, ReservationReleased
    <3> QED BY <2>6, <2>7, <3>1
  <2>9. ReservationHolds'
    BY <1>0, <2>3, <2>8, ReservationsAfter
  <2>10. sent' \in [Requests -> Seq(ActivityKind)] /\ sent'[r] = Append(sent[r], "Create")
         /\ \A s \in Requests \ {r} : sent'[s] = sent[s]
    BY <1>0, <2>1 DEF StatusesTyped, ActivityKind
  <2>11. TellsOf(sent'[r], "live", revision[r])
    BY <1>0, <2>2, <2>10, TellCreate DEF StatusesTyped, TellsFit
  <2>12. TellsFit'
    BY <1>0, <1>a, <2>3, <2>10, <2>11 DEF TellsFit
  <2>13. StatusesTyped'
    BY <1>0, <1>1, <1>a, <2>1, <2>8, <2>10 DEF StatusesTyped
  <2>14. EditorsFit' /\ PublishersFit' /\ WaitingHasJob'
    BY <1>0, <1>1, <1>2, <1>a, <2>2, <2>3 DEF EditorsFit, PublishersFit, WaitingHasJob
  <2> QED BY <2>4, <2>9, <2>12, <2>13, <2>14 DEF StatusesInv
<1>4. CASE ~ (IdIsUnused(r) /\ StillStored(publisher[p].media))
  <2>1. UNCHANGED <<row, made, schedule, medium, sent, duty>>
    BY <1>2, <1>4 DEF PublishSchedule
  <2>2. KeysFit'
    <3>1. \A s \in Requests : Committed(s)' <=> Committed(s)
      BY <2>1 DEF Committed
    <3> QED BY <1>0, <1>a, <2>1, <3>1 DEF KeysFit, Twins, InHand
  <2>3. StatusesTyped' /\ PublishersFit' /\ EditorsFit' /\ TellsFit' /\ WaitingHasJob' /\ ReservationHolds'
    BY <1>0, <1>1, <1>a, <2>1 DEF StatusesTyped, PublishersFit, EditorsFit, TellsFit, WaitingHasJob, ReservationHolds
  <2> QED BY <2>2, <2>3 DEF StatusesInv
<1> QED BY <1>3, <1>4

\* An upload, and a deletion that still finds its medium free of every revision.
LEMMA MediaKeeps ==
    ASSUME StatusesInv, NEW x \in Media, UploadMedia(x) \/ BeginDeleteMedia(x) \/ DeleteMedia(x)
    PROVE  StatusesInv'
<1>0. StatusesTyped /\ KeysFit /\ TellsFit /\ EditorsFit /\ ReservationHolds /\ WaitingHasJob /\ PublishersFit
  BY DEF StatusesInv
<1>1. UNCHANGED <<keyRow, request, row, made, schedule, moves, duty, publisher, editor, revision, sent, excused>>
  BY DEF UploadMedia, BeginDeleteMedia, DeleteMedia
<1>2. \/ UNCHANGED medium
      \/ \E st \in {"stored", "deleted"} : medium' = [medium EXCEPT ![x] = [Unattached EXCEPT !.st = st]]
  <2>1. Unattached = [Unattached EXCEPT !.st = "stored"]
    BY DEF Unattached
  <2> QED BY <2>1 DEF UploadMedia, BeginDeleteMedia, DeleteMedia
<1>3. \A st \in {"stored", "deleted"} : [Unattached EXCEPT !.st = st] \in MediumRow /\ [Unattached EXCEPT !.st = st].schedule = Nil
  BY DEF Unattached, MediumRow
<1>4. medium' \in [Media -> MediumRow] /\ \A m \in Media : medium'[m].schedule # Nil => medium'[m] = medium[m]
  BY <1>0, <1>2, <1>3 DEF StatusesTyped
<1>5. KeysFit'
  <2>1. \A s \in Requests : Committed(s)' <=> Committed(s)
    BY <1>1 DEF Committed
  <2> QED BY <1>0, <1>1, <2>1 DEF KeysFit, Twins, InHand
<1>6. StatusesTyped' /\ TellsFit' /\ EditorsFit' /\ PublishersFit' /\ WaitingHasJob'
  BY <1>0, <1>1, <1>4 DEF StatusesTyped, TellsFit, EditorsFit, PublishersFit, WaitingHasJob
<1>7. ReservationHolds'
  BY <1>0, <1>1, <1>4 DEF ReservationHolds
<1> QED BY <1>5, <1>6, <1>7 DEF StatusesInv

\* An edit locks a row that lives, a deletion reads one.
LEMMA BeginKeeps ==
    ASSUME StatusesInv, NEW e \in Editors, NEW r \in Requests,
           BeginDelete(e, r) \/ \E ms \in SUBSET Media : BeginEdit(e, r, ms)
    PROVE  StatusesInv'
<1>0. StatusesTyped /\ KeysFit /\ TellsFit /\ EditorsFit /\ ReservationHolds /\ WaitingHasJob /\ PublishersFit
  BY DEF StatusesInv
<1>1. UNCHANGED <<keyRow, request, row, made, schedule, moves, duty, publisher, medium, deleting, revision, sent, excused>>
  BY DEF BeginDelete, BeginEdit
<1>a. row[r] = "live"
  BY DEF BeginDelete, BeginEdit, MayEdit
<1>2. PICK k \in {"editing", "deleting"}, ms \in SUBSET Media :
        editor' = [editor EXCEPT ![e] = [pc |-> k, id |-> r, media |-> ms]] /\ row[r] = "live"
  BY <1>a DEF BeginDelete, BeginEdit
<1>3. editor' \in [Editors -> EditorRow] /\ EditorsFit'
  <2>1. [pc |-> k, id |-> r, media |-> ms] \in EditorRow
    BY DEF EditorRow
  <2>2. PICK z \in EditorRow : z = [pc |-> k, id |-> r, media |-> ms] /\ z.id = r
    BY <2>1
  <2>3. editor' = [editor EXCEPT ![e] = z]
    BY <1>2, <2>2
  <2> QED BY <1>0, <1>1, <1>2, <2>2, <2>3 DEF StatusesTyped, EditorsFit
<1>4. KeysFit'
  <2>1. \A s \in Requests : Committed(s)' <=> Committed(s)
    BY <1>1 DEF Committed
  <2> QED BY <1>0, <1>1, <2>1 DEF KeysFit, Twins, InHand
<1>5. StatusesTyped' /\ TellsFit' /\ PublishersFit' /\ WaitingHasJob' /\ ReservationHolds'
  BY <1>0, <1>1, <1>3 DEF StatusesTyped, TellsFit, PublishersFit, WaitingHasJob, ReservationHolds
<1> QED BY <1>3, <1>4, <1>5 DEF StatusesInv

\* The edit stores its revision with the Update; a reserved medium stops it.
LEMMA CommitEditKeeps ==
    ASSUME StatusesInv, NEW e \in Editors, CommitEdit(e)
    PROVE  StatusesInv'
<1>0. StatusesTyped /\ KeysFit /\ TellsFit /\ EditorsFit /\ ReservationHolds /\ WaitingHasJob /\ PublishersFit
  BY DEF StatusesInv
<1>1. /\ UNCHANGED <<keyRow, request, row, made, schedule, moves, duty, publisher, deleting, excused>>
      /\ editor[e].pc = "editing" /\ editor' = [editor EXCEPT ![e] = IdlePublisher]
  BY DEF CommitEdit
<1>2. PICK r \in Requests : r = editor[e].id /\ row[r] = "live"
  BY <1>0, <1>1 DEF EditorsFit
<1>3. PICK ms \in SUBSET Media : ms = editor[e].media
  BY <1>0 DEF StatusesTyped, EditorRow
<1>4. editor' \in [Editors -> EditorRow] /\ EditorsFit'
  <2>0. IdlePublisher \in EditorRow /\ IdlePublisher.pc = "idle"
    BY DEF IdlePublisher, EditorRow
  <2>1. PICK z \in EditorRow : z = IdlePublisher /\ z.pc = "idle"
    BY <2>0
  <2>2. editor' = [editor EXCEPT ![e] = z]
    BY <1>1, <2>1
  <2> QED BY <1>0, <1>1, <2>1, <2>2 DEF StatusesTyped, EditorsFit
<1>5. KeysFit'
  <2>1. \A s \in Requests : Committed(s)' <=> Committed(s)
    BY <1>1 DEF Committed
  <2> QED BY <1>0, <1>1, <2>1 DEF KeysFit, Twins, InHand
<1>6. PublishersFit' /\ WaitingHasJob'
  BY <1>0, <1>1 DEF PublishersFit, WaitingHasJob
<1>7. CASE StillStored(ms) /\ MediaCheck(ms)
  <2>1. /\ medium' = [m \in Media |-> IF m \in ms THEN [medium[m] EXCEPT !.status = r]
                                      ELSE IF medium[m].status = r THEN [medium[m] EXCEPT !.status = Nil]
                                      ELSE medium[m]]
        /\ revision' = [revision EXCEPT ![r] = Revised(r, ms)]
        /\ sent' = [sent EXCEPT ![r] = Append(@, "Update")]
    BY <1>2, <1>3, <1>7 DEF CommitEdit, AnnounceEdit, Announce
  <2>2. /\ medium' \in [Media -> MediumRow]
        /\ \A m \in Media : medium'[m].schedule # Nil => medium'[m] = medium[m]
    <3>1. ASSUME NEW m \in Media
          PROVE  medium'[m] \in MediumRow /\ (medium'[m].schedule # Nil => medium'[m] = medium[m])
      <4>1. medium[m] \in MediumRow /\ (medium[m].schedule # Nil => medium[m].status = Nil)
        BY <1>0 DEF StatusesTyped, ReservationHolds
      <4>2. medium'[m] = IF m \in ms THEN [medium[m] EXCEPT !.status = r]
                         ELSE IF medium[m].status = r THEN [medium[m] EXCEPT !.status = Nil] ELSE medium[m]
        BY <2>1
      <4>3. /\ [medium[m] EXCEPT !.status = r] \in MediumRow
            /\ [medium[m] EXCEPT !.status = r].schedule = medium[m].schedule
            /\ [medium[m] EXCEPT !.status = Nil] \in MediumRow
            /\ [medium[m] EXCEPT !.status = Nil].schedule = medium[m].schedule
        BY <4>1 DEF MediumRow
      <4>4. m \in ms => medium[m].schedule = Nil
        BY <1>7 DEF MediaCheck
      <4>5. r # Nil
        BY LocalStatusesAssumption
      <4> QED BY <4>1, <4>2, <4>3, <4>4, <4>5
    <3>2. medium' = [m \in Media |-> medium'[m]]
      BY <2>1
    <3> QED BY <3>1, <3>2
  <2>3. Revised(r, ms) \in Seq(SUBSET Media) /\ Len(Revised(r, ms)) = IF Len(revision[r]) = 0 THEN 2 ELSE Len(revision[r]) + 1
    <3>1. revision[r] \in Seq(SUBSET Media) /\ MediaOf(r) \in SUBSET Media
      BY <1>0 DEF StatusesTyped, MediaOf
    <3>2. PICK old \in SUBSET Media, history \in Seq(SUBSET Media) : old = MediaOf(r) /\ history = revision[r]
      BY <3>1
    <3>3. (history = <<>>) <=> Len(history) = 0
      BY <3>2
    <3>4. (<<old>> \o <<ms>>) \in Seq(SUBSET Media) /\ Len(<<old>> \o <<ms>>) = 2
      OBVIOUS
    <3>5. (history \o <<ms>>) \in Seq(SUBSET Media) /\ Len(history \o <<ms>>) = Len(history) + 1
      OBVIOUS
    <3>6. Revised(r, ms) = IF history = <<>> THEN <<old>> \o <<ms>> ELSE history \o <<ms>>
      BY <3>2 DEF Revised
    <3> QED BY <3>2, <3>3, <3>4, <3>5, <3>6
  <2>4. /\ revision' \in [Requests -> Seq(SUBSET Media)] /\ revision'[r] = Revised(r, ms)
        /\ \A s \in Requests \ {r} : revision'[s] = revision[s]
        /\ sent' \in [Requests -> Seq(ActivityKind)] /\ sent'[r] = Append(sent[r], "Update")
        /\ \A s \in Requests \ {r} : sent'[s] = sent[s]
    BY <1>0, <2>1, <2>3 DEF StatusesTyped, ActivityKind
  <2>5. TellsOf(sent'[r], "live", revision'[r])
    <3>1. sent[r] \in Seq(ActivityKind) /\ TellsOf(sent[r], "live", revision[r])
      BY <1>0, <1>2 DEF StatusesTyped, TellsFit
    <3> QED BY <2>3, <2>4, <3>1, TellUpdate
  <2>6. TellsFit'
    BY <1>0, <1>1, <1>2, <2>4, <2>5 DEF TellsFit
  <2>7. StatusesTyped'
    BY <1>0, <1>1, <1>4, <2>2, <2>4 DEF StatusesTyped
  <2>8. ReservationHolds'
    BY <1>0, <1>1, <2>2 DEF ReservationHolds
  <2> QED BY <1>4, <1>5, <1>6, <2>6, <2>7, <2>8 DEF StatusesInv
<1>8. CASE ~ (StillStored(ms) /\ MediaCheck(ms))
  <2>1. UNCHANGED <<medium, revision, sent>>
    BY <1>3, <1>8 DEF CommitEdit
  <2>2. StatusesTyped' /\ TellsFit' /\ ReservationHolds'
    BY <1>0, <1>1, <1>4, <2>1 DEF StatusesTyped, TellsFit, ReservationHolds
  <2> QED BY <1>4, <1>5, <1>6, <2>2 DEF StatusesInv
<1> QED BY <1>7, <1>8

\* A PUT for the quote policy alone tells of an Update and stores no revision.
LEMMA CommitPolicyKeeps ==
    ASSUME StatusesInv, NEW e \in Editors, CommitPolicy(e)
    PROVE  StatusesInv'
<1>0. StatusesTyped /\ KeysFit /\ TellsFit /\ EditorsFit /\ ReservationHolds /\ WaitingHasJob /\ PublishersFit
  BY DEF StatusesInv
<1>1. /\ UNCHANGED <<keyRow, request, row, made, schedule, moves, duty, publisher, medium, deleting, revision, excused>>
      /\ editor[e].pc = "editing" /\ editor' = [editor EXCEPT ![e] = IdlePublisher]
  BY DEF CommitPolicy
<1>2. PICK r \in Requests : r = editor[e].id /\ row[r] = "live"
  BY <1>0, <1>1 DEF EditorsFit
<1>3. /\ sent' = [sent EXCEPT ![r] = Append(@, "Policy")] /\ "Policy" \in ActivityKind
      /\ sent' \in [Requests -> Seq(ActivityKind)] /\ sent'[r] = Append(sent[r], "Policy")
      /\ \A s \in Requests \ {r} : sent'[s] = sent[s]
  BY <1>0, <1>2 DEF CommitPolicy, Announce, StatusesTyped, ActivityKind
<1>4. editor' \in [Editors -> EditorRow] /\ EditorsFit'
  <2>0. IdlePublisher \in EditorRow /\ IdlePublisher.pc = "idle"
    BY DEF IdlePublisher, EditorRow
  <2>1. PICK z \in EditorRow : z = IdlePublisher /\ z.pc = "idle"
    BY <2>0
  <2>2. editor' = [editor EXCEPT ![e] = z]
    BY <1>1, <2>1
  <2> QED BY <1>0, <1>1, <2>1, <2>2 DEF StatusesTyped, EditorsFit
<1>5. KeysFit'
  <2>1. \A s \in Requests : Committed(s)' <=> Committed(s)
    BY <1>1 DEF Committed
  <2> QED BY <1>0, <1>1, <2>1 DEF KeysFit, Twins, InHand
<1>6. TellsFit'
  <2>1. sent[r] \in Seq(ActivityKind) /\ TellsOf(sent[r], "live", revision[r])
    BY <1>0, <1>2 DEF StatusesTyped, TellsFit
  <2>2. TellsOf(Append(sent[r], "Policy"), "live", revision[r])
    BY <2>1, TellPolicy
  <2> QED BY <1>0, <1>1, <1>2, <1>3, <2>2 DEF TellsFit
<1>7. StatusesTyped' /\ PublishersFit' /\ WaitingHasJob' /\ ReservationHolds'
  BY <1>0, <1>1, <1>3, <1>4 DEF StatusesTyped, PublishersFit, WaitingHasJob, ReservationHolds
<1> QED BY <1>4, <1>5, <1>6, <1>7 DEF StatusesInv

\* No edit is open on a row that is deleted.
LEMMA CommitDeleteKeeps ==
    ASSUME StatusesInv, NEW e \in Editors, CommitDelete(e)
    PROVE  StatusesInv'
<1>0. StatusesTyped /\ KeysFit /\ TellsFit /\ EditorsFit /\ ReservationHolds /\ WaitingHasJob /\ PublishersFit
  BY DEF StatusesInv
<1>1. /\ UNCHANGED <<keyRow, request, made, schedule, moves, duty, publisher, medium, deleting, revision, excused>>
      /\ editor[e].pc = "deleting" /\ editor' = [editor EXCEPT ![e] = IdlePublisher]
  BY DEF CommitDelete
<1>2. PICK r \in Requests : r = editor[e].id /\ row[r] # "none"
  BY <1>0, <1>1 DEF EditorsFit
<1>3. /\ row' = [row EXCEPT ![r] = "deleted"] /\ sent' = [sent EXCEPT ![r] = Append(@, "Delete")]
      /\ \A f \in Editors : ~ (editor[f].pc = "editing" /\ editor[f].id = r)
  BY <1>2 DEF CommitDelete, DeleteRow, Announce, RowIsFree, Locked
<1>4. /\ row'[r] = "deleted" /\ \A s \in Requests \ {r} : row'[s] = row[s]
      /\ row' \in [Requests -> {"none", "live", "deleted"}]
      /\ sent' \in [Requests -> Seq(ActivityKind)] /\ sent'[r] = Append(sent[r], "Delete")
      /\ \A s \in Requests \ {r} : sent'[s] = sent[s]
  BY <1>0, <1>3 DEF StatusesTyped, ActivityKind
<1>5. editor' \in [Editors -> EditorRow] /\ EditorsFit'
  <2>0. IdlePublisher \in EditorRow /\ IdlePublisher.pc = "idle"
    BY DEF IdlePublisher, EditorRow
  <2>1. PICK z \in EditorRow : z = IdlePublisher /\ z.pc = "idle"
    BY <2>0
  <2>2. editor' = [editor EXCEPT ![e] = z]
    BY <1>1, <2>1
  <2>3. editor' \in [Editors -> EditorRow] /\ \A f \in Editors : editor'[f] = editor[f] \/ editor'[f].pc = "idle"
    BY <1>0, <2>1, <2>2 DEF StatusesTyped
  <2> QED BY <1>0, <1>3, <1>4, <2>3 DEF EditorsFit
<1>6. KeysFit'
  <2>1. \A s \in Requests : (Committed(s)' <=> Committed(s)) /\ made'[s] = IF row'[s] = "none" THEN 0 ELSE 1
    BY <1>0, <1>1, <1>2, <1>4 DEF Committed, KeysFit
  <2> QED BY <1>1, <2>1, KeysFrame
<1>7. TellsFit'
  <2>1. sent[r] \in Seq(ActivityKind) /\ TellsOf(sent[r], row[r], revision[r])
    BY <1>0 DEF StatusesTyped, TellsFit
  <2>2. TellsOf(Append(sent[r], "Delete"), "deleted", revision[r])
    BY <1>2, <2>1, TellDelete
  <2> QED BY <1>0, <1>1, <1>4, <2>2 DEF TellsFit
<1>8. StatusesTyped' /\ PublishersFit' /\ WaitingHasJob' /\ ReservationHolds'
  BY <1>0, <1>1, <1>4, <1>5 DEF StatusesTyped, PublishersFit, WaitingHasJob, ReservationHolds
<1> QED BY <1>5, <1>6, <1>7, <1>8 DEF StatusesInv

\* What a schedule reserves and what a worker took for it are media that it names,
\* and nothing that is not stored is reserved.
MediaNamed ==
    /\ \A m \in Media : medium[m].schedule # Nil => m \in RequestMedia[medium[m].schedule]
    /\ \A m \in Media : medium[m].st # "stored" => medium[m].schedule = Nil
    /\ \A p \in Publishers : publisher[p].pc # "idle" => publisher[p].media \subseteq RequestMedia[publisher[p].id]

\* A step that leaves the media and the posts alone, and ends or begins no schedule.
LEMMA MediaFrame ==
    ASSUME StatusesInv, MediaNamed, ScheduleHasItsMedia, UNCHANGED <<medium, made>>,
           \A r \in Requests : schedule'[r] # "none" => schedule[r] # "none",
           \A p \in Publishers : publisher'[p].pc # "idle" => publisher'[p].media \subseteq RequestMedia[publisher'[p].id]
    PROVE  MediaNamed' /\ ScheduleHasItsMedia'
  BY DEF MediaNamed, ScheduleHasItsMedia

LEMMA RequestsKeepMedia ==
    ASSUME StatusesInv, MediaNamed, ScheduleHasItsMedia,
           NEW r \in Requests, CreateStatus(r) \/ CreateScheduledStatus(r)
    PROVE  MediaNamed' /\ ScheduleHasItsMedia'
<1>0. medium \in [Media -> MediumRow] /\ made \in [Requests -> Nat] /\ publisher' = publisher
      /\ schedule \in [Requests -> {"none", "later", "due"}] /\ RequestMedia[r] \subseteq Media /\ r # Nil
  BY LocalStatusesAssumption DEF StatusesInv, StatusesTyped, CreateStatus, CreateScheduledStatus
<1>1. CASE CreateStatus(r) /\ StillStored(RequestMedia[r])
  <2>1. made' = [made EXCEPT ![r] = @ + 1] /\ schedule' = schedule
    BY <1>1 DEF CreateStatus
  <2>2. \A m \in Media : /\ m \in RequestMedia[r] => medium'[m].schedule = Nil /\ medium'[m].st = medium[m].st
                         /\ m \notin RequestMedia[r] => medium'[m] = medium[m]
    BY <1>0, <1>1 DEF CreateStatus, Attach, MediumRow
  <2>3. made'[r] > 0 /\ \A s \in Requests : made[s] > 0 => made'[s] > 0
    BY <1>0, <2>1
  <2>4. \A s \in Requests : RequestMedia[s] \subseteq Media
    BY LocalStatusesAssumption
  <2>5. MediaNamed'
    BY <1>0, <2>2 DEF MediaNamed
  <2>6. ScheduleHasItsMedia'
    BY <2>1, <2>2, <2>3, <2>4 DEF ScheduleHasItsMedia
  <2> QED BY <2>5, <2>6
<1>2. CASE CreateStatus(r) /\ ~ StillStored(RequestMedia[r])
  <2>1. UNCHANGED <<medium, made, schedule>>
    BY <1>2 DEF CreateStatus
  <2> QED BY <1>0, <2>1 DEF MediaNamed, ScheduleHasItsMedia
<1>3. CASE CreateScheduledStatus(r) /\ AcceptsSchedule(r)
  <2>1. schedule' = [schedule EXCEPT ![r] = "later"] /\ made' = made
    BY <1>3 DEF CreateScheduledStatus
  <2>2. \A m \in Media :
          /\ m \in RequestMedia[r] => /\ medium'[m].schedule = r /\ medium'[m].st = medium[m].st
                                      /\ medium[m].st = "stored" /\ medium[m].schedule = Nil
          /\ m \notin RequestMedia[r] => medium'[m] = medium[m]
    BY <1>0, <1>3 DEF CreateScheduledStatus, AcceptsSchedule, IsAvailable, MediumRow
  <2>4. \A s \in Requests : RequestMedia[s] \subseteq Media
    BY LocalStatusesAssumption
  <2>5. MediaNamed'
    BY <1>0, <2>2 DEF MediaNamed
  <2>6. ASSUME NEW s \in Requests, NEW m \in RequestMedia[s], schedule'[s] # "none"
        PROVE  \/ medium'[m].schedule = s \/ medium'[m].st = "deleted"
               \/ \E t \in Requests : m \in RequestMedia[t] /\ made'[t] > 0
    <3>1. CASE s = r
      BY <2>2, <2>4, <3>1
    <3>2. CASE s # r
      <4>1. schedule[s] # "none" /\ m \in Media
        BY <1>0, <2>1, <2>4, <2>6, <3>2
      <4>2. \/ medium[m].schedule = s \/ medium[m].st = "deleted"
            \/ \E t \in Requests : m \in RequestMedia[t] /\ made[t] > 0
        BY <2>6, <4>1 DEF ScheduleHasItsMedia
      <4>3. s # Nil
        BY LocalStatusesAssumption
      <4> QED BY <2>1, <2>2, <4>1, <4>2, <4>3
    <3> QED BY <3>1, <3>2
  <2> QED BY <2>5, <2>6 DEF ScheduleHasItsMedia
<1>4. CASE CreateScheduledStatus(r) /\ ~ AcceptsSchedule(r)
  <2>1. UNCHANGED <<medium, made, schedule>>
    BY <1>4 DEF CreateScheduledStatus
  <2> QED BY <1>0, <2>1 DEF MediaNamed, ScheduleHasItsMedia
<1> QED BY <1>1, <1>2, <1>3, <1>4

\* Cancelling releases the media of one schedule, which no longer waits.
LEMMA CancelKeepsMedia ==
    ASSUME StatusesInv, MediaNamed, ScheduleHasItsMedia, NEW r \in Requests, Cancel(r), made' = made,
           \A p \in Publishers : publisher'[p].pc # "idle" => publisher'[p].media \subseteq RequestMedia[publisher'[p].id]
    PROVE  MediaNamed' /\ ScheduleHasItsMedia'
<1>0. medium \in [Media -> MediumRow] /\ schedule \in [Requests -> {"none", "later", "due"}] /\ r # Nil
      /\ \A s \in Requests : RequestMedia[s] \subseteq Media /\ s # Nil
  BY LocalStatusesAssumption DEF StatusesInv, StatusesTyped
<1>1. /\ schedule' = [schedule EXCEPT ![r] = "none"]
      /\ \A m \in Media : /\ medium'[m].st = medium[m].st
                          /\ medium'[m].schedule = IF medium[m].schedule = r THEN Nil ELSE medium[m].schedule
  BY <1>0 DEF Cancel, Release, MediumRow
<1>2. MediaNamed'
  BY <1>0, <1>1 DEF MediaNamed
<1>3. ScheduleHasItsMedia'
  BY <1>0, <1>1 DEF ScheduleHasItsMedia
<1> QED BY <1>2, <1>3

\* A publication takes the media that the worker found reserved.
LEMMA PublicationKeepsMedia ==
    ASSUME StatusesInv, MediaNamed, ScheduleHasItsMedia, NEW p \in Publishers, PublishSchedule(p)
    PROVE  MediaNamed' /\ ScheduleHasItsMedia'
<1>0. medium \in [Media -> MediumRow] /\ schedule \in [Requests -> {"none", "later", "due"}]
      /\ made \in [Requests -> Nat] /\ publisher \in [Publishers -> PublisherRow]
      /\ \A s \in Requests : RequestMedia[s] \subseteq Media /\ s # Nil
  BY LocalStatusesAssumption DEF StatusesInv, StatusesTyped
<1>1. PICK r \in Requests : r = publisher[p].id /\ publisher[p].media \subseteq RequestMedia[r]
  BY DEF PublishSchedule, StatusesInv, PublishersFit, MediaNamed
<1>2. PICK ms \in SUBSET Media : ms = publisher[p].media
  BY <1>0 DEF PublisherRow
<1>3. \A q \in Publishers : publisher'[q].pc # "idle" => publisher'[q].media \subseteq RequestMedia[publisher'[q].id]
  <2>0. IdlePublisher \in PublisherRow /\ IdlePublisher.pc = "idle"
    BY DEF IdlePublisher, PublisherRow
  <2>1. PICK z \in PublisherRow : z = IdlePublisher /\ z.pc = "idle"
    BY <2>0
  <2>2. publisher' = [publisher EXCEPT ![p] = z]
    BY <2>1 DEF PublishSchedule, Retire
  <2> QED BY <1>0, <2>1, <2>2 DEF MediaNamed
<1>4. CASE IdIsUnused(r) /\ StillStored(ms)
  <2>1. /\ made' = [made EXCEPT ![r] = @ + 1] /\ schedule' = [schedule EXCEPT ![r] = "none"]
        /\ medium' = Release(r, Attach(ms, r))
    BY <1>1, <1>2, <1>4 DEF PublishSchedule
  <2>2. \A m \in Media :
          /\ m \in ms => medium'[m].schedule = Nil /\ medium'[m].st = medium[m].st
          /\ m \notin ms => /\ medium'[m].st = medium[m].st
                            /\ medium'[m].schedule = IF medium[m].schedule = r THEN Nil ELSE medium[m].schedule
    <3> SUFFICES ASSUME NEW m \in Media
                 PROVE  /\ m \in ms => medium'[m].schedule = Nil /\ medium'[m].st = medium[m].st
                        /\ m \notin ms => /\ medium'[m].st = medium[m].st
                                          /\ medium'[m].schedule = IF medium[m].schedule = r THEN Nil ELSE medium[m].schedule
      OBVIOUS
    <3>1. Attach(ms, r)[m] = IF m \in ms THEN [medium[m] EXCEPT !.status = r, !.schedule = Nil] ELSE medium[m]
      BY DEF Attach
    <3>2. medium[m] \in MediumRow
      BY <1>0
    <3>3. Attach(ms, r)[m] \in MediumRow
      BY <3>1, <3>2 DEF MediumRow
    <3>4. medium'[m] = IF Attach(ms, r)[m].schedule = r THEN [Attach(ms, r)[m] EXCEPT !.schedule = Nil] ELSE Attach(ms, r)[m]
      BY <2>1 DEF Release
    <3> QED BY <1>0, <3>1, <3>2, <3>3, <3>4 DEF MediumRow
  <2>3. made'[r] > 0 /\ \A s \in Requests : made[s] > 0 => made'[s] > 0
    BY <1>0, <2>1
  <2>4. MediaNamed'
    BY <1>0, <1>3, <2>2 DEF MediaNamed
  <2>5. ScheduleHasItsMedia'
    BY <1>0, <1>1, <1>2, <2>1, <2>2, <2>3 DEF ScheduleHasItsMedia
  <2> QED BY <2>4, <2>5
<1>5. CASE ~ (IdIsUnused(r) /\ StillStored(ms))
  <2>1. UNCHANGED <<medium, made, schedule>>
    BY <1>1, <1>2, <1>5 DEF PublishSchedule
  <2> QED BY <1>3, <2>1, MediaFrame
<1> QED BY <1>4, <1>5

\* Uploads, deletions of media and edits keep what a schedule has reserved.
LEMMA ChangesKeepMedia ==
    ASSUME StatusesInv, MediaNamed, ScheduleHasItsMedia,
           \/ \E m \in Media : UploadMedia(m) \/ DeleteMedia(m)
           \/ \E e \in Editors : CommitEdit(e)
    PROVE  MediaNamed' /\ ScheduleHasItsMedia'
<1>0. medium \in [Media -> MediumRow] /\ \A s \in Requests : RequestMedia[s] \subseteq Media /\ s # Nil
  BY LocalStatusesAssumption DEF StatusesInv, StatusesTyped
<1>1. UNCHANGED <<made, schedule, publisher>>
  BY DEF UploadMedia, DeleteMedia, CommitEdit
<1>2. \A m \in Media : \/ medium'[m].schedule = medium[m].schedule /\ medium'[m].st = medium[m].st
                       \/ medium'[m].schedule = Nil /\ medium'[m].st = "deleted"
                       \/ medium[m].st = "absent" /\ medium'[m].schedule = Nil /\ medium'[m].st = "stored"
  <2>1. CASE \E m \in Media : UploadMedia(m)
    BY <1>0, <2>1 DEF UploadMedia, Unattached, MediumRow
  <2>2. CASE \E m \in Media : DeleteMedia(m)
    BY <1>0, <2>2 DEF DeleteMedia, Unattached, MediumRow
  <2>3. CASE \E e \in Editors : CommitEdit(e)
    BY <1>0, <2>3 DEF CommitEdit, MediumRow
  <2> QED BY <2>1, <2>2, <2>3
<1>3. MediaNamed'
  BY <1>0, <1>1, <1>2 DEF MediaNamed
<1>4. ScheduleHasItsMedia'
  BY <1>0, <1>1, <1>2 DEF ScheduleHasItsMedia, MediaNamed
<1> QED BY <1>3, <1>4

\* A worker takes what is reserved when it reads, and nothing before.
LEMMA WorkersKeepMedia ==
    ASSUME StatusesInv, MediaNamed, ScheduleHasItsMedia, NEW p \in Publishers,
           \/ \E r \in Requests : ClaimPublication(p, r)
           \/ SnapshotSchedule(p) \/ CheckPublication(p) \/ AbandonPublication(p)
    PROVE  MediaNamed' /\ ScheduleHasItsMedia'
<1>0. publisher \in [Publishers -> PublisherRow] /\ UNCHANGED <<medium, made, schedule>>
  BY DEF StatusesInv, StatusesTyped, ClaimPublication, SnapshotSchedule, CheckPublication, AbandonPublication
<1>1. \A q \in Publishers : q # p => publisher'[q] = publisher[q]
  BY <1>0 DEF ClaimPublication, SnapshotSchedule, CheckPublication, AbandonPublication, Retire
<1>2. publisher'[p].pc # "idle" => publisher'[p].media \subseteq RequestMedia[publisher'[p].id]
  <2>1. CASE \E r \in Requests : ClaimPublication(p, r)
    BY <1>0, <2>1 DEF ClaimPublication
  <2>2. CASE SnapshotSchedule(p)
    <3>1. \A m \in Media : medium[m].schedule = publisher[p].id /\ publisher[p].id # Nil => m \in RequestMedia[publisher[p].id]
      BY DEF MediaNamed
    <3>2. publisher[p].id # Nil
      BY <2>2, LocalStatusesAssumption DEF SnapshotSchedule, StatusesInv, PublishersFit
    <3> QED BY <1>0, <2>2, <3>1, <3>2 DEF SnapshotSchedule, Retire, IdlePublisher
  <2>3. CASE CheckPublication(p)
    BY <1>0, <2>3 DEF CheckPublication, Retire, IdlePublisher, MediaNamed, PublisherRow
  <2>4. CASE AbandonPublication(p)
    BY <1>0, <2>4 DEF AbandonPublication, Retire, IdlePublisher
  <2> QED BY <2>1, <2>2, <2>3, <2>4
<1>3. \A q \in Publishers : publisher'[q].pc # "idle" => publisher'[q].media \subseteq RequestMedia[publisher'[q].id]
  BY <1>1, <1>2 DEF MediaNamed
<1> QED BY <1>0, <1>3, MediaFrame

\* The media of a schedule: every step keeps them.
LEMMA SchedulesKeepMedia ==
    ASSUME StatusesInv, MediaNamed, ScheduleHasItsMedia, [LocalStatusesNext]_statuses_vars
    PROVE  MediaNamed' /\ ScheduleHasItsMedia'
<1>1. CASE UNCHANGED statuses_vars
  BY <1>1 DEF statuses_vars, MediaNamed, ScheduleHasItsMedia
<1>2. ASSUME NEW r \in Requests, \/ BeginStatusCreation(r) \/ CheckStatusInput(r) \/ CompleteCreation(r)
                                 \/ LoseCreation(r) \/ ScheduleComesDue(r) \/ RescheduleStatus(r)
      PROVE  MediaNamed' /\ ScheduleHasItsMedia'
  <2>1. UNCHANGED <<medium, made, publisher>>
    BY <1>2 DEF BeginStatusCreation, CheckStatusInput, CompleteCreation, LoseCreation, ScheduleComesDue, RescheduleStatus
  <2>2. \A s \in Requests : schedule'[s] # "none" => schedule[s] # "none"
    BY <1>2 DEF BeginStatusCreation, CheckStatusInput, CompleteCreation, LoseCreation, ScheduleComesDue,
                RescheduleStatus, MoveSchedule, StatusesInv, StatusesTyped
  <2> QED BY <2>1, <2>2, MediaFrame DEF MediaNamed
<1>3. ASSUME NEW r \in Requests, CancelScheduledStatus(r)
      PROVE  MediaNamed' /\ ScheduleHasItsMedia'
  BY <1>3, CancelKeepsMedia DEF CancelScheduledStatus, MediaNamed
<1>4. ASSUME NEW p \in Publishers, RejectPublication(p)
      PROVE  MediaNamed' /\ ScheduleHasItsMedia'
  <2>1. PICK r \in Requests : r = publisher[p].id
    BY <1>4 DEF RejectPublication, StatusesInv, PublishersFit
  <2>2. \A q \in Publishers : publisher'[q].pc # "idle" => publisher'[q].media \subseteq RequestMedia[publisher'[q].id]
    BY <1>4 DEF RejectPublication, Retire, IdlePublisher, MediaNamed, StatusesInv, StatusesTyped
  <2> QED BY <1>4, <2>1, <2>2, CancelKeepsMedia DEF RejectPublication
<1>5. ASSUME \/ \E k \in Keys : ExpireKey(k)
             \/ \E m \in Media : BeginDeleteMedia(m)
             \/ \E e \in Editors : \/ \E r \in Requests : BeginDelete(e, r) \/ \E ms \in SUBSET Media : BeginEdit(e, r, ms)
                                   \/ CommitPolicy(e) \/ CommitDelete(e)
      PROVE  MediaNamed' /\ ScheduleHasItsMedia'
  <2>1. UNCHANGED <<medium, made, schedule, publisher>>
    BY <1>5 DEF ExpireKey, BeginDeleteMedia, BeginDelete, BeginEdit, CommitPolicy, CommitDelete
  <2> QED BY <2>1, MediaFrame DEF MediaNamed
<1> QED BY <1>1, <1>2, <1>3, <1>4, <1>5, RequestsKeepMedia, PublicationKeepsMedia, ChangesKeepMedia, WorkersKeepMedia
        DEF LocalStatusesNext

\* Requests that repeat a key make one status (unless the key expired or a request
\* died after its commit), a schedule that waits has its job and, but for what was
\* checked before it was reserved, its media, and followers are told of a status
\* in the order of its life, with a revision for every edit of its contents
\* (create_status, publish_scheduled_status, update_owned_local_status).
THEOREM StatusesAreMadeOnce == LocalStatusesSpec => []LocalStatusesSafe
<1>1. LocalStatusesInit => StatusesInv
  <2> SUFFICES ASSUME LocalStatusesInit PROVE StatusesInv
    OBVIOUS
  <2>1. IdlePublisher \in PublisherRow /\ IdlePublisher \in EditorRow /\ IdlePublisher.pc = "idle"
    BY DEF IdlePublisher, PublisherRow, EditorRow
  <2>2. [Unattached EXCEPT !.st = "absent"] \in MediumRow /\ [Unattached EXCEPT !.st = "absent"].schedule = Nil
    BY DEF Unattached, MediumRow
  <2>3. StatusesTyped
    BY <2>1, <2>2 DEF LocalStatusesInit, StatusesTyped
  <2>4. KeysFit
    BY DEF LocalStatusesInit, KeysFit, Committed, InHand
  <2>5. PublishersFit /\ EditorsFit /\ WaitingHasJob /\ ReservationHolds
    BY <2>1, <2>2 DEF LocalStatusesInit, PublishersFit, EditorsFit, WaitingHasJob, ReservationHolds
  <2>6. TellsOf(<<>>, "none", <<>>)
    <3>1. Updates(<<>>) = {}
      BY DEF Updates
    <3>2. IsFiniteSet(Updates(<<>>)) /\ Cardinality(Updates(<<>>)) = 0
      BY <3>1, FS_EmptySet
    <3> QED BY <3>2 DEF TellsOf
  <2>7. TellsFit
    BY <2>6 DEF LocalStatusesInit, TellsFit
  <2> QED BY <2>3, <2>4, <2>5, <2>7 DEF StatusesInv
<1>2. StatusesInv /\ [LocalStatusesNext]_statuses_vars => StatusesInv'
  <2> SUFFICES ASSUME StatusesInv, [LocalStatusesNext]_statuses_vars PROVE StatusesInv'
    OBVIOUS
  <2>1. CASE UNCHANGED statuses_vars
    <3>1. \A s \in Requests : Committed(s)' <=> Committed(s)
      BY <2>1 DEF statuses_vars, Committed
    <3>2. KeysFit'
      BY <2>1, <3>1 DEF statuses_vars, StatusesInv, KeysFit, Twins, InHand
    <3>3. StatusesTyped' /\ PublishersFit' /\ EditorsFit' /\ TellsFit' /\ WaitingHasJob' /\ ReservationHolds'
      BY <2>1 DEF statuses_vars, StatusesInv, StatusesTyped, PublishersFit, EditorsFit, TellsFit, WaitingHasJob, ReservationHolds
    <3> QED BY <3>2, <3>3 DEF StatusesInv
  <2>2. ASSUME NEW r \in Requests, CancelScheduledStatus(r)
        PROVE  StatusesInv'
    BY <2>2, CancelKeeps DEF CancelScheduledStatus
  <2>3. ASSUME NEW p \in Publishers, RejectPublication(p)
        PROVE  StatusesInv'
    <3>1. PICK r \in Requests : r = publisher[p].id /\ duty[r] # "none"
      BY <2>3 DEF RejectPublication, StatusesInv, PublishersFit
    <3> QED BY <2>3, <3>1, CancelKeeps DEF RejectPublication
  <2> QED BY <2>1, <2>2, <2>3, RequestStepKeeps, CreateStatusKeeps, CreateScheduledKeeps, MoveKeeps, WorkerKeeps,
             PublishKeeps, MediaKeeps, BeginKeeps, CommitEditKeeps, CommitPolicyKeeps, CommitDeleteKeeps DEF LocalStatusesNext
<1>4. LocalStatusesInit => MediaNamed /\ ScheduleHasItsMedia
  <2> SUFFICES ASSUME LocalStatusesInit PROVE MediaNamed /\ ScheduleHasItsMedia
    OBVIOUS
  <2>1. \A m \in Media : medium[m].schedule = Nil
    BY DEF LocalStatusesInit, Unattached
  <2>2. \A p \in Publishers : publisher[p].pc = "idle"
    BY DEF LocalStatusesInit, IdlePublisher
  <2>3. \A r \in Requests : schedule[r] = "none"
    BY DEF LocalStatusesInit
  <2> QED BY <2>1, <2>2, <2>3 DEF MediaNamed, ScheduleHasItsMedia
<1>5. StatusesInv /\ MediaNamed /\ ScheduleHasItsMedia /\ [LocalStatusesNext]_statuses_vars
        => MediaNamed' /\ ScheduleHasItsMedia'
  BY SchedulesKeepMedia
<1>3. StatusesInv /\ ScheduleHasItsMedia => LocalStatusesSafe
  <2> SUFFICES ASSUME StatusesInv, ScheduleHasItsMedia PROVE LocalStatusesSafe
    OBVIOUS
  <2>1. LocalStatusesTypeOK
    BY DEF StatusesInv, StatusesTyped, LocalStatusesTypeOK, MediumRow, WaitingHasJob
  <2>2. CreatedOnce
    <3>1. \A r \in Requests : made[r] \in {0, 1} /\ (made[r] = 1 => Committed(r))
      BY DEF StatusesInv, KeysFit, Committed
    <3>2. ASSUME NEW r \in Requests, NEW s \in Requests, Twins(r, s), made[r] + made[s] > 1
          PROVE  RequestKey[r] \in excused
      <4>1. Committed(r) /\ Committed(s)
        BY <3>1, <3>2
      <4> QED BY <3>2, <4>1 DEF StatusesInv, KeysFit
    <3> QED BY <3>1, <3>2 DEF CreatedOnce, Twins
  <2>3. ToldInOrder
    BY DEF StatusesInv, TellsFit, TellsOf, ToldInOrder, Updates
  <2> QED BY <2>1, <2>2, <2>3 DEF StatusesInv, LocalStatusesSafe
<1> QED BY <1>1, <1>2, <1>3, <1>4, <1>5, PTL DEF LocalStatusesSpec

-----------------------------------------------------------------------------
(* Tags and pins *)

\* The tags of a set are all listed, each at its place.
LEMMA OrderedLists ==
    ASSUME NEW s \in SUBSET TagIds
    PROVE  /\ Cardinality(s) \in Nat
           /\ Ordered(s) \in [1..Cardinality(s) -> s]
           /\ \A t \in s : \E i \in 1..Cardinality(s) : Ordered(s)[i] = t
           /\ \A i, j \in 1..Cardinality(s) : Ordered(s)[i] = Ordered(s)[j] => i = j
<1> DEFINE UpTo(t) == {u \in s : u <= t}
           rank == [t \in s |-> Cardinality(UpTo(t))]
<1>a. s \subseteq Nat /\ IsFiniteSet(s)
  BY TagsAssumption, FS_Subset
<1>b. \A x \in s : x \in Nat
  BY <1>a
<1>1. PICK n \in Nat : n = Cardinality(s)
  BY <1>a, FS_CardinalityType
<1>2. \A t \in s : /\ UpTo(t) \in SUBSET s /\ IsFiniteSet(UpTo(t)) /\ Cardinality(UpTo(t)) \in Nat
                   /\ Cardinality(UpTo(t)) <= n /\ Cardinality(UpTo(t)) # 0
  <2> TAKE t \in s
  <2>1. UpTo(t) \in SUBSET s /\ t \in UpTo(t)
    BY <1>a
  <2> HIDE DEF UpTo
  <2>2. IsFiniteSet(UpTo(t)) /\ Cardinality(UpTo(t)) <= n
    BY <1>a, <1>1, <2>1, FS_Subset
  <2>3. Cardinality(UpTo(t)) \in Nat /\ Cardinality(UpTo(t)) # 0
    BY <2>1, <2>2, FS_CardinalityType, FS_EmptySet
  <2> QED BY <2>1, <2>2, <2>3
<1>3. ASSUME NEW t \in s, NEW u \in s, t < u
      PROVE  Cardinality(UpTo(t)) < Cardinality(UpTo(u))
  <2>1. UpTo(t) \in SUBSET UpTo(u)
    BY <1>b, <1>3
  <2>2. u \in UpTo(u) /\ u \notin UpTo(t)
    BY <1>b, <1>3
  <2> HIDE DEF UpTo
  <2>3. Cardinality(UpTo(t)) <= Cardinality(UpTo(u)) /\ Cardinality(UpTo(t)) # Cardinality(UpTo(u))
    BY <1>2, <2>1, <2>2, FS_Subset
  <2> QED BY <1>2, <2>3
<1>4. \A t \in s : rank[t] = Cardinality(UpTo(t)) /\ rank[t] \in 1..n
  BY <1>2
<1>5. rank \in Injection(s, 1..n)
  <2>1. rank \in [s -> 1..n]
    BY <1>4
  <2>2. \A t, u \in s : rank[t] = rank[u] => t = u
    <3> TAKE t, u \in s
    <3> HAVE rank[t] = rank[u]
    <3>1. ~ (t < u) /\ ~ (u < t)
      <4> HIDE DEF UpTo, rank
      <4> QED BY <1>2, <1>3, <1>4
    <3> QED BY <1>a, <3>1
  <2> HIDE DEF rank
  <2> QED BY <2>1, <2>2 DEF Injection, IsInjective
<1>6. IsFiniteSet(1..n) /\ Cardinality(1..n) = n
  BY FS_Interval
<1>7. rank \in Surjection(s, 1..n)
  <2> HIDE DEF rank
  <2> QED BY <1>a, <1>1, <1>5, <1>6, FS_Injection
<1>8. \A i \in 1..n : \E t \in s : Cardinality(UpTo(t)) = i
  <2>1. \A i \in 1..n : \E t \in s : rank[t] = i
    <3> HIDE DEF rank
    <3> QED BY <1>7 DEF Surjection
  <2> QED BY <1>4, <2>1
<1>9. \A i \in 1..n : Ordered(s)[i] \in s /\ Cardinality(UpTo(Ordered(s)[i])) = i
  BY <1>1, <1>8 DEF Ordered
<1>10. Ordered(s) \in [1..n -> s]
  BY <1>1, <1>9 DEF Ordered
<1> HIDE DEF UpTo, rank
<1>11. \A t \in s : \E i \in 1..n : Ordered(s)[i] = t
  <2> TAKE t \in s
  <2>1. rank[t] \in 1..n /\ Cardinality(UpTo(Ordered(s)[rank[t]])) = rank[t] /\ Ordered(s)[rank[t]] \in s
    BY <1>4, <1>9
  <2>2. PICK u \in s : u = Ordered(s)[rank[t]]
    BY <2>1
  <2>3. ~ (t < u) /\ ~ (u < t)
    BY <1>2, <1>3, <1>4, <2>1, <2>2
  <2>4. Ordered(s)[rank[t]] = t
    BY <1>b, <2>2, <2>3
  <2> QED BY <2>1, <2>4
<1>12. \A i, j \in 1..n : Ordered(s)[i] = Ordered(s)[j] => i = j
  BY <1>9
<1> QED BY <1>1, <1>10, <1>11, <1>12

\* The adjustments that a transaction may have before it.
Adjustment == TagIds \X {-1, 1}

\* A sequence without repetition.
Once(q) == \A i, j \in DOMAIN q : q[i] = q[j] => i = j

\* adjust_tag_usage is called once for every tag that goes and for every tag that comes.
LEMMA AdjustmentsAreOnce ==
    ASSUME NEW old \in SUBSET TagIds, NEW new \in SUBSET TagIds
    PROVE  /\ Adjustments(old, new) \in Seq(Adjustment) /\ Once(Adjustments(old, new))
           /\ \A t \in TagIds : (<<t, -1>> \in ToSet(Adjustments(old, new)) <=> t \in old)
                             /\ (<<t, 1>> \in ToSet(Adjustments(old, new)) <=> t \in new)
<1>1. PICK m \in Nat, n \in Nat : m = Cardinality(old) /\ n = Cardinality(new)
  BY OrderedLists
<1>2. PICK f \in [1..m -> old], g \in [1..n -> new] : f = Ordered(old) /\ g = Ordered(new)
  BY <1>1, OrderedLists
<1>3. /\ \A t \in old : \E i \in 1..m : f[i] = t
      /\ \A t \in new : \E i \in 1..n : g[i] = t
      /\ \A i, j \in 1..m : f[i] = f[j] => i = j
      /\ \A i, j \in 1..n : g[i] = g[j] => i = j
  BY <1>1, <1>2, OrderedLists
<1>p. PICK p \in Seq(Adjustment) : p = [i \in 1..m |-> <<f[i], -1>>] /\ Len(p) = m /\ \A i \in 1..m : p[i] = <<f[i], -1>>
  <2> DEFINE listing == [i \in 1..m |-> <<f[i], -1>>]
  <2>1. \A i \in 1..m : <<f[i], -1>> \in Adjustment
    BY DEF Adjustment
  <2>2. listing \in [1..m -> Adjustment] /\ \A i \in 1..m : listing[i] = <<f[i], -1>>
    BY <2>1
  <2> HIDE DEF listing
  <2>3. listing \in Seq(Adjustment) /\ Len(listing) = m
    BY <2>2
  <2> QED BY <2>2, <2>3 DEF listing
<1>q. PICK q \in Seq(Adjustment) : q = [i \in 1..n |-> <<g[i], 1>>] /\ Len(q) = n /\ \A i \in 1..n : q[i] = <<g[i], 1>>
  <2> DEFINE listing == [i \in 1..n |-> <<g[i], 1>>]
  <2>1. \A i \in 1..n : <<g[i], 1>> \in Adjustment
    BY DEF Adjustment
  <2>2. listing \in [1..n -> Adjustment] /\ \A i \in 1..n : listing[i] = <<g[i], 1>>
    BY <2>1
  <2> HIDE DEF listing
  <2>3. listing \in Seq(Adjustment) /\ Len(listing) = n
    BY <2>2
  <2> QED BY <2>2, <2>3 DEF listing
<1>4. Adjustments(old, new) = p \o q
  BY <1>1, <1>2, <1>p, <1>q DEF Adjustments
<1>5. PICK all \in Seq(Adjustment) : all = p \o q /\ Len(all) = m + n /\ DOMAIN all = 1..(m + n)
  <2>1. p \o q \in Seq(Adjustment) /\ Len(p \o q) = Len(p) + Len(q)
    OBVIOUS
  <2>2. Len(p \o q) = m + n
    BY <1>p, <1>q, <2>1
  <2>3. PICK x \in Seq(Adjustment) : x = p \o q
    BY <2>1
  <2>4. DOMAIN x = 1..Len(x)
    OBVIOUS
  <2> QED BY <2>2, <2>3, <2>4
<1>6. \A i \in 1..m : i \in 1..(m + n) /\ all[i] = <<f[i], -1>>
  <2>1. \A i \in 1..m : all[i] = p[i]
    BY <1>5, <1>p, <1>q
  <2> QED BY <1>p, <2>1
<1>7. \A i \in 1..n : m + i \in 1..(m + n) /\ all[m + i] = <<g[i], 1>>
  <2>1. \A i \in 1..n : (p \o q)[m + i] = q[i] /\ m + i \in 1..(m + n)
    BY <1>p, <1>q
  <2> QED BY <1>5, <1>q, <2>1
<1>8. \A i \in 1..(m + n) : i \in 1..m \/ \E j \in 1..n : i = m + j
  <2> TAKE i \in 1..(m + n)
  <2>1. i \in 1..m \/ (i - m \in 1..n /\ i = m + (i - m))
    OBVIOUS
  <2> QED BY <2>1
<1>o. Once(all)
  <2> SUFFICES ASSUME NEW i \in 1..(m + n), NEW j \in 1..(m + n), all[i] = all[j] PROVE i = j
    BY <1>5 DEF Once
  <2>1. CASE i \in 1..m /\ j \in 1..m
    <3>1. <<f[i], -1>> = <<f[j], -1>>
      BY <1>6, <2>1
    <3> QED BY <1>3, <2>1, <3>1
  <2>2. ASSUME NEW x \in 1..n, NEW y \in 1..n, i = m + x, j = m + y PROVE i = j
    <3>1. <<g[x], 1>> = <<g[y], 1>>
      BY <1>7, <2>2
    <3> QED BY <1>3, <2>2, <3>1
  <2>3. ASSUME i \in 1..m, NEW y \in 1..n, j = m + y PROVE FALSE
    <3>1. <<f[i], -1>> = <<g[y], 1>>
      BY <1>6, <1>7, <2>3
    <3> QED BY <3>1
  <2>4. ASSUME j \in 1..m, NEW y \in 1..n, i = m + y PROVE FALSE
    <3>1. <<f[j], -1>> = <<g[y], 1>>
      BY <1>6, <1>7, <2>4
    <3> QED BY <3>1
  <2> QED BY <1>8, <2>1, <2>2, <2>3, <2>4
<1>9. ASSUME NEW t \in TagIds
      PROVE  (<<t, -1>> \in ToSet(all) <=> t \in old) /\ (<<t, 1>> \in ToSet(all) <=> t \in new)
  <2>1. ToSet(all) = {all[i] : i \in 1..(m + n)}
    BY <1>5 DEF ToSet
  <2>2. ASSUME NEW i \in 1..(m + n)
        PROVE  (all[i] = <<t, -1>> => t \in old) /\ (all[i] = <<t, 1>> => t \in new)
    <3>1. CASE i \in 1..m
      <4>1. all[i] = <<f[i], -1>> /\ f[i] \in old
        BY <1>6, <3>1
      <4> QED BY <4>1
    <3>2. ASSUME NEW y \in 1..n, i = m + y
          PROVE  (all[i] = <<t, -1>> => t \in old) /\ (all[i] = <<t, 1>> => t \in new)
      <4>1. all[i] = <<g[y], 1>> /\ g[y] \in new
        BY <1>7, <3>2
      <4> QED BY <4>1
    <3> QED BY <1>8, <3>1, <3>2
  <2>4. ASSUME t \in old PROVE <<t, -1>> \in ToSet(all)
    <3>1. PICK i \in 1..m : f[i] = t
      BY <1>3, <2>4
    <3>2. i \in 1..(m + n) /\ all[i] = <<t, -1>>
      BY <1>6, <3>1
    <3> QED BY <2>1, <3>2
  <2>5. ASSUME t \in new PROVE <<t, 1>> \in ToSet(all)
    <3>1. PICK i \in 1..n : g[i] = t
      BY <1>3, <2>5
    <3>2. m + i \in 1..(m + n) /\ all[m + i] = <<t, 1>>
      BY <1>7, <3>1
    <3> QED BY <2>1, <3>2
  <2> QED BY <2>1, <2>2, <2>4, <2>5
<1> QED BY <1>4, <1>5, <1>9, <1>o

\* What is left of a plan once its first adjustment is listing.
LEMMA PlanGoesOn ==
    ASSUME NEW plan \in Seq(Adjustment), Once(plan), plan # <<>>
    PROVE  /\ Head(plan) \in ToSet(plan) /\ ToSet(plan) \subseteq Adjustment
           /\ Tail(plan) \in Seq(Adjustment) /\ Once(Tail(plan))
           /\ ToSet(Tail(plan)) = ToSet(plan) \ {Head(plan)}
<1>1. PICK n \in Nat : n = Len(plan) /\ n > 0 /\ DOMAIN plan = 1..n
  OBVIOUS
<1>2. Head(plan) = plan[1] /\ 1 \in 1..n
  BY <1>1
<1>3. Tail(plan) \in Seq(Adjustment) /\ Len(Tail(plan)) = n - 1 /\ \A i \in 1..(n - 1) : Tail(plan)[i] = plan[i + 1]
  BY <1>1
<1>4. DOMAIN Tail(plan) = 1..(n - 1) /\ \A i \in 1..(n - 1) : i + 1 \in 1..n
  BY <1>1, <1>3
<1>5. Once(Tail(plan))
  BY <1>1, <1>3, <1>4 DEF Once
<1>6. \A i \in 1..n : i # 1 => i - 1 \in 1..(n - 1) /\ plan[i] = Tail(plan)[i - 1]
  BY <1>1, <1>3
<1>7. \A i \in 1..(n - 1) : Tail(plan)[i] # plan[1]
  BY <1>1, <1>2, <1>3, <1>4 DEF Once
<1>8. ToSet(plan) = {plan[i] : i \in 1..n} /\ ToSet(Tail(plan)) = {Tail(plan)[i] : i \in 1..(n - 1)}
  BY <1>1, <1>4 DEF ToSet
<1>9. ToSet(Tail(plan)) \subseteq ToSet(plan) \ {Head(plan)}
  BY <1>2, <1>3, <1>4, <1>7, <1>8
<1>10. ToSet(plan) \ {Head(plan)} \subseteq ToSet(Tail(plan))
  BY <1>2, <1>6, <1>8
<1>11. Head(plan) \in ToSet(plan) /\ ToSet(plan) \subseteq Adjustment
  BY <1>1, <1>2, <1>8
<1> QED BY <1>3, <1>5, <1>9, <1>10, <1>11

\* What the statuses say of the uses of a tag.
CountedUses(t) == [a \in Authors |-> Cardinality({w \in Works : author[w] = a /\ t \in tagged[w]})]

UsageRow == {SumOf(rows) : rows \in [Authors -> Nat]}
Writer ==
    [phase : {"none", "lock", "sum", "store", "mark"}, plan : Seq(Adjustment), net : [TagIds -> {-1, 0, 1}],
     stored : [TagIds -> UsageRow], to : SUBSET TagIds, flags : SUBSET TagIds]
Scorer == [phase : {"none", "sum", "store"}, claimed : SUBSET TagIds, left : Seq(TagIds), stored : [TagIds -> UsageRow]]

UsageTyped ==
    /\ author \in [Works -> Authors] /\ tagged \in [Works -> SUBSET TagIds]
    /\ actorUses \in [TagIds -> [Authors -> Nat]] /\ usage \in [TagIds -> UsageRow]
    /\ usageLock \in [TagIds -> Works \cup {"scoring", Unlocked}] /\ marked \in SUBSET TagIds
    /\ writing \in [Works -> Writer] /\ scoring \in Scorer

\* The rows of a tag once a transaction of author a has changed its own by n, and their sum.
Moved(rows, a, n) == [rows EXCEPT ![a] = IF @ + n < 0 THEN 0 ELSE @ + n]
SumWith(rows, a, n) == SumOf(Moved(rows, a, n))

\* What transaction x has still to sum, and the tags that it has summed with
\* the status and without it.
Ahead(x) == IF x.phase \in {"store", "mark"} THEN ToSet(Tail(x.plan)) ELSE ToSet(x.plan)
Came(x, t) == t \in x.to /\ <<t, 1>> \notin Ahead(x)
Went(x, old, t) == t \in old /\ <<t, -1>> \notin Ahead(x)
Touched(x, old, t) == Came(x, t) \/ Went(x, old, t)
NetOf(x, old, t) == (IF Came(x, t) THEN 1 ELSE 0) - (IF Went(x, old, t) THEN 1 ELSE 0)

\* Transaction x of status w, which has the tags old: what it has summed it
\* has locked, and the sum is still that of the rows with its own change.
PlanFits(x, old) ==
    /\ Once(x.plan) /\ (x.phase # "lock" => x.plan # <<>>)
    /\ \A t \in TagIds : (<<t, -1>> \in ToSet(x.plan) => t \in old) /\ (<<t, 1>> \in ToSet(x.plan) => t \in x.to)
    /\ \A t \in TagIds : t \in x.flags => Touched(x, old, t)
    /\ \A t \in TagIds : Touched(x, old, t) => t \in x.flags \/ (x.phase \in {"store", "mark"} /\ t = Head(x.plan)[1])
    /\ \A t \in TagIds : x.net[t] = NetOf(x, old, t)
LocksFit(w, x, old, locks) ==
    /\ x.phase = "sum" => locks[Head(x.plan)[1]] = w
    /\ \A t \in TagIds : Touched(x, old, t) => locks[t] = w
SumsFit(x, old, a, rows) == \A t \in TagIds : Touched(x, old, t) => x.stored[t] = SumWith(rows[t], a, x.net[t])
TaggerFits(w, x, old, a, locks, rows) ==
    x.phase # "none" => PlanFits(x, old) /\ LocksFit(w, x, old, locks) /\ SumsFit(x, old, a, rows)

ScorerFits(s, rows) ==
    /\ s.phase = "store" => s.left # <<>> /\ s.stored[Head(s.left)] = SumOf(rows[Head(s.left)])
    /\ ToSet(s.left) \subseteq s.claimed
    /\ \A t \in s.claimed : t \notin ToSet(s.left) => s.stored[t] = SumOf(rows[t])

UsageFits == \A t \in TagIds : actorUses[t] = CountedUses(t) /\ usage[t] = SumOf(actorUses[t])
TaggersFit == \A w \in Works : TaggerFits(w, writing[w], tagged[w], author[w], usageLock, actorUses)
ScoringFits == ScorerFits(scoring, actorUses) /\ \A w \in Works, t \in scoring.claimed : t \notin writing[w].flags
UsageLocksFit ==
    \A t \in TagIds : /\ usageLock[t] \in Works => writing[usageLock[t]].phase # "none"
                      /\ usageLock[t] = "scoring" => scoring.phase # "none"
TrendsFit == \A t \in TagIds : tagTrend[t].peak > 0 /\ usage[t] = NoUsage => t \in marked
UsageInv == UsageTyped /\ UsageFits /\ TaggersFit /\ ScoringFits /\ UsageLocksFit /\ TrendsFit

LEMMA NothingUsed == ASSUME NEW rows, rows = [a \in Authors |-> 0] PROVE SumOf(rows) = NoUsage
<1>1. {{a} \X (1..rows[a]) : a \in Authors} \subseteq {{}}
  <2>1. \A a \in Authors : 1..rows[a] = {}
    OBVIOUS
  <2>2. \A a \in Authors : {a} \X (1..rows[a]) = {}
    BY <2>1
  <2> QED BY <2>2
<1>2. UNION {{a} \X (1..rows[a]) : a \in Authors} = {}
  BY <1>1
<1>3. {a \in Authors : rows[a] > 0} = {}
  OBVIOUS
<1>4. Cardinality({}) = 0
  BY FS_EmptySet
<1> QED BY <1>2, <1>3, <1>4 DEF SumOf, NoUsage

LEMMA NoUsageIsARow == NoUsage \in UsageRow
<1> DEFINE none == [a \in Authors |-> 0]
<1>1. none \in [Authors -> Nat] /\ none = [a \in Authors |-> 0]
  OBVIOUS
<1> HIDE DEF none
<1>2. SumOf(none) = NoUsage
  BY <1>1, NothingUsed
<1> QED BY <1>1, <1>2 DEF UsageRow

LEMMA MovedRows ==
    ASSUME NEW rows \in [Authors -> Nat], NEW a \in Authors, NEW n \in {-1, 0, 1}
    PROVE  Moved(rows, a, n) \in [Authors -> Nat] /\ SumWith(rows, a, n) \in UsageRow
<1>1. (IF rows[a] + n < 0 THEN 0 ELSE rows[a] + n) \in Nat
  OBVIOUS
<1>2. Moved(rows, a, n) \in [Authors -> Nat]
  BY <1>1 DEF Moved
<1> QED BY <1>2 DEF SumWith, UsageRow

LEMMA Idle ==
    /\ NotWriting \in Writer /\ NotWriting.phase = "none" /\ NotWriting.flags = {}
    /\ NotScoring \in Scorer /\ NotScoring.phase = "none" /\ NotScoring.claimed = {} /\ NotScoring.left = <<>>
    /\ \A t \in TagIds : NotWriting.net[t] = 0
<1>1. [t \in TagIds |-> NoUsage] \in [TagIds -> UsageRow]
  BY NoUsageIsARow
<1>2. <<>> \in Seq(Adjustment) /\ <<>> \in Seq(TagIds)
  OBVIOUS
<1> QED BY <1>1, <1>2 DEF NotWriting, NotScoring, Writer, Scorer

\* A transaction keeps its sums while nobody else touches the rows it has locked.
LEMMA WriterUndisturbed ==
    ASSUME NEW w, NEW x, NEW old, NEW a, NEW locks, NEW rows, NEW newLocks, NEW newRows,
           x \in Writer, TaggerFits(w, x, old, a, locks, rows),
           \A t \in TagIds : locks[t] = w => newLocks[t] = w /\ newRows[t] = rows[t]
    PROVE  TaggerFits(w, x, old, a, newLocks, newRows)
<1> SUFFICES ASSUME x.phase # "none" PROVE LocksFit(w, x, old, newLocks) /\ SumsFit(x, old, a, newRows)
  BY DEF TaggerFits
<1>1. PlanFits(x, old) /\ LocksFit(w, x, old, locks) /\ SumsFit(x, old, a, rows)
  BY DEF TaggerFits
<1>2. x.phase = "sum" => Head(x.plan) \in Adjustment /\ Head(x.plan)[1] \in TagIds
  <2> SUFFICES ASSUME x.phase = "sum" PROVE Head(x.plan) \in Adjustment /\ Head(x.plan)[1] \in TagIds
    OBVIOUS
  <2>1. x.plan \in Seq(Adjustment) /\ x.plan # <<>>
    BY <1>1 DEF Writer, PlanFits
  <2>2. Head(x.plan) \in Adjustment
    BY <2>1
  <2> QED BY <2>2 DEF Adjustment
<1>3. LocksFit(w, x, old, newLocks)
  BY <1>1, <1>2 DEF LocksFit
<1>4. SumsFit(x, old, a, newRows)
  BY <1>1 DEF SumsFit, LocksFit
<1> QED BY <1>3, <1>4

LEMMA StartedFits ==
    ASSUME NEW w, NEW old \in SUBSET TagIds, NEW new \in SUBSET TagIds, NEW a, NEW locks, NEW rows, NEW x,
           x = [NotWriting EXCEPT !.phase = "lock", !.plan = Adjustments(old, new), !.to = new]
    PROVE  x \in Writer /\ x.phase = "lock" /\ x.flags = {} /\ TaggerFits(w, x, old, a, locks, rows)
<1>1. PICK p \in Seq(Adjustment) : p = Adjustments(old, new)
  BY AdjustmentsAreOnce
<1>2. Once(p) /\ \A t \in TagIds : (<<t, -1>> \in ToSet(p) <=> t \in old) /\ (<<t, 1>> \in ToSet(p) <=> t \in new)
  BY <1>1, AdjustmentsAreOnce
<1>3. x \in Writer /\ x.phase = "lock" /\ x.flags = {} /\ x.plan = p /\ x.to = new /\ x.net = NotWriting.net
  BY <1>1, Idle DEF Writer, NotWriting
<1>4. Ahead(x) = ToSet(p)
  BY <1>3 DEF Ahead
<1>5. \A t \in TagIds : ~ Came(x, t) /\ ~ Went(x, old, t)
  BY <1>2, <1>3, <1>4 DEF Came, Went
<1>6. \A t \in TagIds : NetOf(x, old, t) = 0 /\ x.net[t] = 0
  BY <1>3, <1>5, Idle DEF NetOf
<1>7. PlanFits(x, old)
  BY <1>2, <1>3, <1>5, <1>6 DEF PlanFits, Touched
<1> QED BY <1>3, <1>5, <1>7 DEF TaggerFits, LocksFit, SumsFit, Touched

\* The adjustment that a transaction is at.
LEMMA AtStep ==
    ASSUME NEW x \in Writer, NEW old \in SUBSET TagIds, PlanFits(x, old), x.plan # <<>>
    PROVE  \E t \in TagIds, k \in {-1, 1} :
              /\ Head(x.plan) = <<t, k>> /\ Head(x.plan)[1] = t /\ Head(x.plan)[2] = k
              /\ (k = -1 => t \in old) /\ (k = 1 => t \in x.to)
<1>1. x.plan \in Seq(Adjustment) /\ Once(x.plan)
  BY DEF Writer, PlanFits
<1>2. Head(x.plan) \in ToSet(x.plan) /\ Head(x.plan) \in Adjustment
  BY <1>1, PlanGoesOn
<1>3. PICK t \in TagIds, k \in {-1, 1} : Head(x.plan) = <<t, k>>
  BY <1>2 DEF Adjustment
<1>4. (k = -1 => t \in old) /\ (k = 1 => t \in x.to)
  BY <1>2, <1>3 DEF PlanFits
<1> QED BY <1>3, <1>4

LEMMA LockedFits ==
    ASSUME NEW w, NEW x \in Writer, NEW old \in SUBSET TagIds, NEW a, NEW locks, NEW rows, NEW y \in Writer, NEW newLocks, NEW t \in TagIds,
           TaggerFits(w, x, old, a, locks, rows), x.phase = "lock", x.plan # <<>>, t = Head(x.plan)[1],
           y.phase = "sum", y.plan = x.plan, y.to = x.to, y.net = x.net, y.flags = x.flags, y.stored = x.stored,
           newLocks[t] = w, \A u \in TagIds : locks[u] = w => newLocks[u] = w
    PROVE  TaggerFits(w, y, old, a, newLocks, rows)
<1>1. PlanFits(x, old) /\ LocksFit(w, x, old, locks) /\ SumsFit(x, old, a, rows)
  BY DEF TaggerFits
<1>5. Ahead(y) = Ahead(x)
  BY DEF Ahead
<1>6. \A u \in TagIds : /\ Came(y, u) <=> Came(x, u)
                        /\ Went(y, old, u) <=> Went(x, old, u)
                        /\ NetOf(y, old, u) = NetOf(x, old, u)
                        /\ Touched(y, old, u) <=> Touched(x, old, u)
  BY <1>5 DEF Came, Went, NetOf, Touched
<1>7. PlanFits(y, old)
  BY <1>1, <1>6 DEF PlanFits
<1>8. LocksFit(w, y, old, newLocks)
  BY <1>1, <1>6 DEF LocksFit
<1>9. SumsFit(y, old, a, rows)
  BY <1>1, <1>6 DEF SumsFit
<1> QED BY <1>7, <1>8, <1>9 DEF TaggerFits

\* The next change of a row is never more than by one.
LEMMA NextNet ==
    ASSUME NEW x \in Writer, NEW old \in SUBSET TagIds, PlanFits(x, old), x.phase = "sum",
           NEW t \in TagIds, NEW k \in {-1, 1}, Head(x.plan) = <<t, k>>
    PROVE  x.net[t] + k \in {-1, 0, 1} /\ (k = 1 => ~ Came(x, t)) /\ (k = -1 => ~ Went(x, old, t))
<1>1. x.plan # <<>> /\ x.plan \in Seq(Adjustment) /\ Once(x.plan)
  BY DEF PlanFits, Writer
<1>2. <<t, k>> \in ToSet(x.plan)
  BY <1>1, PlanGoesOn
<1>3. Ahead(x) = ToSet(x.plan)
  BY DEF Ahead
<1>4. (k = 1 => ~ Came(x, t)) /\ (k = -1 => ~ Went(x, old, t))
  BY <1>2, <1>3 DEF Came, Went
<1>5. x.net[t] = NetOf(x, old, t)
  BY DEF PlanFits
<1>6. CASE k = 1
  BY <1>4, <1>5, <1>6 DEF NetOf
<1>7. CASE k = -1
  BY <1>4, <1>5, <1>7 DEF NetOf
<1> QED BY <1>4, <1>6, <1>7

LEMMA SummedFits ==
    ASSUME NEW w, NEW x \in Writer, NEW old \in SUBSET TagIds, NEW a, NEW locks, NEW rows, NEW y \in Writer,
           TaggerFits(w, x, old, a, locks, rows), x.phase = "sum",
           NEW t \in TagIds, NEW k \in {-1, 1}, NEW n, Head(x.plan) = <<t, k>>, n = x.net[t] + k,
           y.phase = "store", y.plan = x.plan, y.to = x.to, y.flags = x.flags,
           y.net[t] = n, y.stored[t] = SumWith(rows[t], a, n),
           \A u \in TagIds : u # t => y.net[u] = x.net[u] /\ y.stored[u] = x.stored[u]
    PROVE  TaggerFits(w, y, old, a, locks, rows)
<1>1. PlanFits(x, old) /\ LocksFit(w, x, old, locks) /\ SumsFit(x, old, a, rows)
  BY DEF TaggerFits
<1>0. x.plan # <<>> /\ x.plan \in Seq(Adjustment) /\ Once(x.plan)
  BY <1>1 DEF PlanFits, Writer
<1>3. <<t, k>> \in ToSet(x.plan) /\ ToSet(Tail(x.plan)) = ToSet(x.plan) \ {<<t, k>>}
  BY <1>0, PlanGoesOn
<1>2. (k = -1 => t \in old) /\ (k = 1 => t \in x.to)
  BY <1>1, <1>3 DEF PlanFits
<1>4. Ahead(x) = ToSet(x.plan)
  BY DEF Ahead
<1>6. Ahead(y) = ToSet(x.plan) \ {<<t, k>>}
  BY <1>3 DEF Ahead
<1>7. \A u \in TagIds : u # t => /\ Came(y, u) <=> Came(x, u)
                                 /\ Went(y, old, u) <=> Went(x, old, u)
  <2> SUFFICES ASSUME NEW u \in TagIds, u # t PROVE (<<u, 1>> \in Ahead(y) <=> <<u, 1>> \in Ahead(x)) /\ (<<u, -1>> \in Ahead(y) <=> <<u, -1>> \in Ahead(x))
    BY DEF Came, Went
  <2>1. <<u, 1>> # <<t, k>> /\ <<u, -1>> # <<t, k>>
    OBVIOUS
  <2> QED BY <1>4, <1>6, <2>1
<1>8. /\ k = 1 => ~ Came(x, t) /\ Came(y, t) /\ (Went(y, old, t) <=> Went(x, old, t))
      /\ k = -1 => ~ Went(x, old, t) /\ Went(y, old, t) /\ (Came(y, t) <=> Came(x, t))
  <2>1. CASE k = 1
    <3>1. <<t, 1>> \in Ahead(x) /\ <<t, 1>> \notin Ahead(y) /\ (<<t, -1>> \in Ahead(y) <=> <<t, -1>> \in Ahead(x))
      BY <1>3, <1>4, <1>6, <2>1
    <3> QED BY <1>2, <2>1, <3>1 DEF Came, Went
  <2>2. CASE k = -1
    <3>1. <<t, -1>> \in Ahead(x) /\ <<t, -1>> \notin Ahead(y) /\ (<<t, 1>> \in Ahead(y) <=> <<t, 1>> \in Ahead(x))
      BY <1>3, <1>4, <1>6, <2>2
    <3> QED BY <1>2, <2>2, <3>1 DEF Came, Went
  <2> QED BY <2>1, <2>2
<1>9. n = NetOf(y, old, t)
  <2>1. x.net[t] = NetOf(x, old, t)
    BY <1>1 DEF PlanFits
  <2>2. CASE k = 1
    BY <1>8, <2>1, <2>2 DEF NetOf
  <2>3. CASE k = -1
    BY <1>8, <2>1, <2>3 DEF NetOf
  <2> QED BY <2>2, <2>3
<1>10. Touched(y, old, t) /\ \A u \in TagIds : u # t => (Touched(y, old, u) <=> Touched(x, old, u)) /\ NetOf(y, old, u) = NetOf(x, old, u)
  BY <1>7, <1>8 DEF Touched, NetOf
<1>11. Head(y.plan)[1] = t /\ Head(x.plan)[1] = t
  OBVIOUS
<1>14. PlanFits(y, old)
  <2>1. ASSUME NEW u \in TagIds PROVE y.net[u] = NetOf(y, old, u)
    <3>1. x.net[u] = NetOf(x, old, u)
      BY <1>1 DEF PlanFits
    <3>2. CASE u = t
      BY <1>9, <3>2
    <3>3. CASE u # t
      BY <1>10, <3>1, <3>3
    <3> QED BY <3>2, <3>3
  <2>2. \A u \in TagIds : u \in y.flags => Touched(y, old, u)
    BY <1>1, <1>10 DEF PlanFits
  <2>3. \A u \in TagIds : Touched(y, old, u) => u \in y.flags \/ (y.phase \in {"store", "mark"} /\ u = Head(y.plan)[1])
    BY <1>1, <1>10, <1>11 DEF PlanFits
  <2> QED BY <1>0, <1>1, <2>1, <2>2, <2>3 DEF PlanFits
<1>15. LocksFit(w, y, old, locks)
  BY <1>1, <1>10, <1>11 DEF LocksFit
<1>16. SumsFit(y, old, a, rows)
  <2> SUFFICES ASSUME NEW u \in TagIds, Touched(y, old, u) PROVE y.stored[u] = SumWith(rows[u], a, y.net[u])
    BY DEF SumsFit
  <2>1. CASE u = t
    BY <2>1
  <2>2. CASE u # t
    BY <1>1, <1>10, <2>2 DEF SumsFit
  <2> QED BY <2>1, <2>2
<1> QED BY <1>14, <1>15, <1>16 DEF TaggerFits

LEMMA StoredFits ==
    ASSUME NEW w, NEW x \in Writer, NEW old \in SUBSET TagIds, NEW a, NEW locks, NEW rows, NEW y \in Writer, NEW newLocks,
           TaggerFits(w, x, old, a, locks, rows), x.phase = "store", y.phase = "mark", y.plan = x.plan, y.to = x.to, y.net = x.net, y.flags = x.flags, y.stored = x.stored,
           \A u \in TagIds : locks[u] = w => newLocks[u] = w
    PROVE  TaggerFits(w, y, old, a, newLocks, rows)
<1>1. PlanFits(x, old) /\ LocksFit(w, x, old, locks) /\ SumsFit(x, old, a, rows)
  BY DEF TaggerFits
<1>5. Ahead(y) = Ahead(x)
  BY DEF Ahead
<1>6. \A u \in TagIds : /\ Came(y, u) <=> Came(x, u)
                        /\ Went(y, old, u) <=> Went(x, old, u)
                        /\ NetOf(y, old, u) = NetOf(x, old, u)
                        /\ Touched(y, old, u) <=> Touched(x, old, u)
  BY <1>5 DEF Came, Went, NetOf, Touched
<1>7. PlanFits(y, old)
  BY <1>1, <1>6 DEF PlanFits
<1>8. LocksFit(w, y, old, newLocks)
  BY <1>1, <1>6 DEF LocksFit
<1>9. SumsFit(y, old, a, rows)
  BY <1>1, <1>6 DEF SumsFit
<1> QED BY <1>7, <1>8, <1>9 DEF TaggerFits

LEMMA MarkedFits ==
    ASSUME NEW w, NEW x \in Writer, NEW old \in SUBSET TagIds, NEW a, NEW locks, NEW rows, NEW y \in Writer, NEW t,
           TaggerFits(w, x, old, a, locks, rows), x.phase = "mark", t = Head(x.plan)[1],
           y.phase = "lock", y.plan = Tail(x.plan), y.to = x.to, y.flags = x.flags \cup {t}, y.net = x.net, y.stored = x.stored
    PROVE  TaggerFits(w, y, old, a, locks, rows)
<1>1. PlanFits(x, old) /\ LocksFit(w, x, old, locks) /\ SumsFit(x, old, a, rows)
  BY DEF TaggerFits
<1>0. x.plan # <<>> /\ x.plan \in Seq(Adjustment) /\ Once(x.plan)
  BY <1>1 DEF PlanFits, Writer
<1>2. PICK k \in {-1, 1} : /\ t \in TagIds /\ Head(x.plan) = <<t, k>> /\ (k = -1 => t \in old) /\ (k = 1 => t \in x.to)
  BY <1>0, <1>1, AtStep
<1>3. /\ Tail(x.plan) \in Seq(Adjustment) /\ Once(Tail(x.plan))
      /\ <<t, k>> \notin ToSet(Tail(x.plan)) /\ ToSet(Tail(x.plan)) \subseteq ToSet(x.plan)
  BY <1>0, <1>2, PlanGoesOn
<1>4. /\ y \in Writer /\ y.phase = "lock" /\ y.plan = Tail(x.plan) /\ y.to = x.to /\ y.flags = x.flags \cup {t}
      /\ y.net = x.net /\ y.stored = x.stored
  OBVIOUS
<1>5. Ahead(x) = ToSet(Tail(x.plan)) /\ Ahead(y) = Ahead(x)
  BY <1>4 DEF Ahead
<1>6. \A u \in TagIds : /\ Came(y, u) <=> Came(x, u)
                        /\ Went(y, old, u) <=> Went(x, old, u)
                        /\ NetOf(y, old, u) = NetOf(x, old, u)
                        /\ Touched(y, old, u) <=> Touched(x, old, u)
  BY <1>4, <1>5 DEF Came, Went, NetOf, Touched
<1>7. Touched(x, old, t)
  <2>1. CASE k = 1
    BY <1>2, <1>3, <1>5, <2>1 DEF Touched, Came
  <2>2. CASE k = -1
    BY <1>2, <1>3, <1>5, <2>2 DEF Touched, Went
  <2> QED BY <2>1, <2>2
<1>8. PlanFits(y, old)
  <2>1. \A u \in TagIds : (<<u, -1>> \in ToSet(y.plan) => u \in old) /\ (<<u, 1>> \in ToSet(y.plan) => u \in y.to)
    BY <1>1, <1>3, <1>4 DEF PlanFits
  <2>2. \A u \in TagIds : u \in y.flags => Touched(y, old, u)
    BY <1>1, <1>4, <1>6, <1>7 DEF PlanFits
  <2>6. \A u \in TagIds : Touched(y, old, u) => u \in y.flags
    BY <1>1, <1>4, <1>6 DEF PlanFits
  <2>3. \A u \in TagIds : Touched(y, old, u) => u \in y.flags \/ (y.phase \in {"store", "mark"} /\ u = Head(y.plan)[1])
    BY <2>6
  <2>4. \A u \in TagIds : y.net[u] = NetOf(y, old, u)
    BY <1>1, <1>4, <1>6 DEF PlanFits
  <2>5. Once(y.plan) /\ (y.phase # "lock" => y.plan # <<>>)
    BY <1>3, <1>4
  <2> QED BY <2>1, <2>2, <2>3, <2>4, <2>5 DEF PlanFits
<1>9. LocksFit(w, y, old, locks)
  BY <1>1, <1>4, <1>6 DEF LocksFit
<1>10. SumsFit(y, old, a, rows)
  BY <1>1, <1>4, <1>6 DEF SumsFit
<1> QED BY <1>2, <1>4, <1>8, <1>9, <1>10 DEF TaggerFits

UsesOf(by, tags, t, a) == {v \in Works : by[v] = a /\ t \in tags[v]}
Change(old, new, t) == (IF t \in new THEN 1 ELSE 0) - (IF t \in old THEN 1 ELSE 0)
Retagged(tags, w, new) == [v \in Works |-> IF v = w THEN new ELSE tags[v]]
CountOf(by, tags, t) == [a \in Authors |-> Cardinality(UsesOf(by, tags, t, a))]

LEMMA CountIsTyped == ASSUME NEW by, NEW tags, NEW t PROVE CountOf(by, tags, t) \in [Authors -> Nat]
<1>1. IsFiniteSet(Works)
  BY TagsAssumption
<1>2. \A a \in Authors : UsesOf(by, tags, t, a) \subseteq Works
  BY DEF UsesOf
<1>3. \A a \in Authors : Cardinality(UsesOf(by, tags, t, a)) \in Nat
  BY <1>1, <1>2, FS_Subset, FS_CardinalityType
<1> QED BY <1>3 DEF CountOf

\* What a commit adds to the rows of its author is what it changed of its status.
LEMMA CountMoves ==
    ASSUME NEW by \in [Works -> Authors], NEW tags \in [Works -> SUBSET TagIds], NEW w \in Works, NEW new \in SUBSET TagIds,
           NEW t \in TagIds, NEW after, after = Retagged(tags, w, new), NEW n,
           n = Change(tags[w], new, t)
    PROVE  CountOf(by, after, t) = Moved(CountOf(by, tags, t), by[w], n)
<1>1. \A v \in Works : after[v] = IF v = w THEN new ELSE tags[v]
  BY DEF Retagged
<1>2. \A a \in Authors : a # by[w] => UsesOf(by, after, t, a) = UsesOf(by, tags, t, a)
  BY <1>1 DEF UsesOf
<1>3. PICK c \in Authors : c = by[w]
  OBVIOUS
<1>4. PICK s \in SUBSET Works : s = UsesOf(by, tags, t, c)
  BY DEF UsesOf
<1>5. PICK r \in SUBSET Works : r = UsesOf(by, after, t, c)
  BY DEF UsesOf
<1>6. IsFiniteSet(s) /\ Cardinality(s) \in Nat
  BY TagsAssumption, FS_Subset, FS_CardinalityType
<1>7. (w \in s <=> t \in tags[w]) /\ (w \in r <=> t \in new) /\ s \ {w} = r \ {w}
  BY <1>1, <1>3, <1>4, <1>5 DEF UsesOf
<1>8. Cardinality(r) = IF Cardinality(s) + n < 0 THEN 0 ELSE Cardinality(s) + n
  <2>1. CASE (t \in new) <=> (t \in tags[w])
    <3>1. r = s /\ n = 0
      BY <1>7, <2>1 DEF Change
    <3> QED BY <1>6, <3>1
  <2>2. CASE t \in new /\ t \notin tags[w]
    <3>1. r = s \cup {w} /\ w \notin s /\ n = 1
      BY <1>7, <2>2 DEF Change
    <3>2. Cardinality(r) = Cardinality(s) + 1
      BY <1>6, <3>1, FS_AddElement
    <3> QED BY <1>6, <3>1, <3>2
  <2>3. CASE t \notin new /\ t \in tags[w]
    <3>1. r = s \ {w} /\ w \in s /\ n = -1
      BY <1>7, <2>3 DEF Change
    <3>2. Cardinality(r) = Cardinality(s) - 1 /\ Cardinality(s) # 0
      BY <1>6, <3>1, FS_RemoveElement, FS_EmptySet
    <3> QED BY <1>6, <3>1, <3>2
  <2> QED BY <2>1, <2>2, <2>3
<1>9. PICK f \in [Authors -> Nat] : f = CountOf(by, tags, t)
  BY CountIsTyped
<1>10. PICK g \in [Authors -> Nat] : g = CountOf(by, after, t)
  BY CountIsTyped
<1>11. f[c] = Cardinality(s) /\ g[c] = Cardinality(r) /\ \A a \in Authors : a # c => g[a] = f[a]
  BY <1>2, <1>3, <1>4, <1>5, <1>9, <1>10 DEF CountOf
<1>12. PICK h \in Nat : h = Cardinality(r) /\ h = IF f[c] + n < 0 THEN 0 ELSE f[c] + n
  BY <1>8, <1>11
<1>13. g = [f EXCEPT ![c] = h]
  BY <1>11, <1>12
<1>14. Moved(f, c, n) = [f EXCEPT ![c] = h]
  BY <1>12 DEF Moved
<1> QED BY <1>3, <1>9, <1>10, <1>13, <1>14

\* A step of the transaction of one status, or its rollback.
LEMMA WritingKeeps ==
    ASSUME UsageInv, NEW w \in Works, NEW y \in Writer, writing' = [writing EXCEPT ![w] = y],
           UNCHANGED <<author, tagged, actorUses, usage, marked, scoring, tagTrend>>,
           usageLock' \in [TagIds -> Works \cup {"scoring", Unlocked}],
           \A t \in TagIds : /\ usageLock'[t] \in {usageLock[t], w, Unlocked}
                             /\ usageLock[t] \in {w, Unlocked} \/ usageLock'[t] = usageLock[t]
                             /\ usageLock'[t] = w => y.phase # "none",
           TaggerFits(w, y, tagged[w], author[w], usageLock', actorUses),
           \A t \in scoring.claimed : t \notin y.flags
    PROVE  UsageInv'
<1>0. Unlocked \notin Works /\ "scoring" \notin Works /\ Unlocked # "scoring"
  BY TagsAssumption
<1>1. UsageTyped'
  BY DEF UsageInv, UsageTyped
<1>2. UsageFits'
  BY DEF UsageInv, UsageFits, CountedUses
<1>3. writing'[w] = y /\ \A v \in Works : v # w => writing'[v] = writing[v]
  BY DEF UsageInv, UsageTyped
<1>4. TaggersFit'
  <2> SUFFICES ASSUME NEW v \in Works PROVE TaggerFits(v, writing'[v], tagged[v], author[v], usageLock', actorUses)
    BY DEF TaggersFit
  <2>1. CASE v = w
    BY <1>3, <2>1
  <2>2. CASE v # w
    <3>1. writing[v] \in Writer /\ TaggerFits(v, writing[v], tagged[v], author[v], usageLock, actorUses)
      BY DEF UsageInv, UsageTyped, TaggersFit
    <3>2. \A t \in TagIds : usageLock[t] = v => usageLock'[t] = v /\ actorUses[t] = actorUses[t]
      BY <1>0, <2>2
    <3>3. TaggerFits(v, writing[v], tagged[v], author[v], usageLock', actorUses)
      BY <3>1, <3>2, WriterUndisturbed
    <3> QED BY <1>3, <2>2, <3>3
  <2> QED BY <2>1, <2>2
<1>5. ScoringFits'
  BY <1>3 DEF UsageInv, ScoringFits, ScorerFits
<1>6. UsageLocksFit'
  <2> SUFFICES ASSUME NEW t \in TagIds
               PROVE  /\ usageLock'[t] \in Works => writing'[usageLock'[t]].phase # "none"
                      /\ usageLock'[t] = "scoring" => scoring.phase # "none"
    BY DEF UsageLocksFit
  <2>1. /\ usageLock[t] \in Works => writing[usageLock[t]].phase # "none"
        /\ usageLock[t] = "scoring" => scoring.phase # "none"
    BY DEF UsageInv, UsageLocksFit
  <2>2. CASE usageLock'[t] = w
    BY <1>0, <1>3, <2>2
  <2>3. CASE usageLock'[t] = Unlocked
    BY <1>0, <2>3
  <2>4. CASE usageLock'[t] = usageLock[t] /\ usageLock'[t] # w
    BY <1>3, <2>1, <2>4
  <2> QED BY <2>2, <2>3, <2>4
<1>7. TrendsFit'
  BY DEF UsageInv, TrendsFit
<1> QED BY <1>1, <1>2, <1>4, <1>5, <1>6, <1>7 DEF UsageInv

LEMMA StartWritingKeeps ==
    ASSUME UsageInv, NEW w \in Works, NEW new \in SUBSET TagIds, StartWriting(w, new)
    PROVE  UsageInv'
<1>1. UsageTyped
  BY DEF UsageInv
<1>2. PICK y : y = [NotWriting EXCEPT !.phase = "lock", !.plan = Adjustments(tagged[w], new), !.to = new]
  OBVIOUS
<1>3. tagged[w] \in SUBSET TagIds
  BY <1>1 DEF UsageTyped
<1>4. y \in Writer /\ y.phase = "lock" /\ y.flags = {} /\ TaggerFits(w, y, tagged[w], author[w], usageLock, actorUses)
  BY <1>2, <1>3, StartedFits
<1>5. writing' = [writing EXCEPT ![w] = y] /\ usageLock' = usageLock /\ UNCHANGED <<author, tagged, actorUses, usage, marked, scoring, tagTrend>>
  BY <1>2 DEF StartWriting
<1>6. usageLock' \in [TagIds -> Works \cup {"scoring", Unlocked}]
  BY <1>1, <1>5 DEF UsageTyped
<1>7. TaggerFits(w, y, tagged[w], author[w], usageLock', actorUses)
  BY <1>4, <1>5
<1> QED BY <1>4, <1>5, <1>6, <1>7, WritingKeeps

LEMMA LockUsageKeeps ==
    ASSUME UsageInv, NEW w \in Works, LockUsage(w)
    PROVE  UsageInv'
<1>1. UsageTyped /\ TaggersFit /\ ScoringFits
  BY DEF UsageInv
<1>2. PICK x \in Writer : x = writing[w]
  BY <1>1 DEF UsageTyped
<1>3. TaggerFits(w, x, tagged[w], author[w], usageLock, actorUses) /\ tagged[w] \in SUBSET TagIds
  BY <1>1, <1>2 DEF TaggersFit, UsageTyped
<1>4. x.phase = "lock" /\ x.plan # <<>>
  BY <1>2 DEF LockUsage
<1>5. PlanFits(x, tagged[w])
  BY <1>3, <1>4 DEF TaggerFits
<1>6. PICK t \in TagIds : t = Head(x.plan)[1]
  BY <1>3, <1>4, <1>5, AtStep
<1>7. PICK y : y = [x EXCEPT !.phase = "sum"]
  OBVIOUS
<1>8. writing' = [writing EXCEPT ![w] = y] /\ usageLock' = [usageLock EXCEPT ![t] = w] /\ usageLock[t] \in {Unlocked, w}
      /\ UNCHANGED <<author, tagged, actorUses, usage, marked, scoring, tagTrend>>
  BY <1>1, <1>2, <1>6, <1>7 DEF LockUsage, Step, MayLock, UsageTyped
<1>9. y \in Writer /\ y.phase = "sum" /\ y.plan = x.plan /\ y.to = x.to /\ y.net = x.net /\ y.flags = x.flags /\ y.stored = x.stored
  BY <1>7 DEF Writer
<1>n. usageLock'[t] = w /\ \A u \in TagIds : usageLock[u] = w => usageLock'[u] = w
  BY <1>1, <1>8 DEF UsageTyped
<1>10. TaggerFits(w, y, tagged[w], author[w], usageLock', actorUses)
  BY <1>3, <1>4, <1>6, <1>9, <1>n, LockedFits
<1>11. usageLock' \in [TagIds -> Works \cup {"scoring", Unlocked}]
  BY <1>1, <1>8 DEF UsageTyped
<1>12. \A u \in TagIds : /\ usageLock'[u] \in {usageLock[u], w, Unlocked}
                         /\ usageLock[u] \in {w, Unlocked} \/ usageLock'[u] = usageLock[u]
                         /\ usageLock'[u] = w => y.phase # "none"
  BY <1>1, <1>8, <1>9 DEF UsageTyped
<1>13. \A u \in scoring.claimed : u \notin y.flags
  BY <1>1, <1>2, <1>9 DEF ScoringFits
<1> QED BY <1>8, <1>9, <1>10, <1>11, <1>12, <1>13, WritingKeeps

LEMMA SumUsageKeeps ==
    ASSUME UsageInv, NEW w \in Works, SumUsage(w)
    PROVE  UsageInv'
<1>1. UsageTyped /\ TaggersFit /\ ScoringFits
  BY DEF UsageInv
<1>2. PICK x \in Writer : x = writing[w]
  BY <1>1 DEF UsageTyped
<1>3. TaggerFits(w, x, tagged[w], author[w], usageLock, actorUses) /\ tagged[w] \in SUBSET TagIds
  BY <1>1, <1>2 DEF TaggersFit, UsageTyped
<1>4. x.phase = "sum"
  BY <1>2 DEF SumUsage
<1>5. PlanFits(x, tagged[w]) /\ x.plan # <<>>
  BY <1>3, <1>4 DEF TaggerFits, PlanFits
<1>6. PICK t \in TagIds, k \in {-1, 1} : Head(x.plan) = <<t, k>> /\ Head(x.plan)[1] = t /\ Head(x.plan)[2] = k
  BY <1>3, <1>5, AtStep
<1>7. PICK n \in {-1, 0, 1} : n = x.net[t] + k
  BY <1>3, <1>4, <1>5, <1>6, NextNet
<1>11. author[w] \in Authors /\ actorUses[t] \in [Authors -> Nat]
  BY <1>1 DEF UsageTyped
<1>s. PICK z \in UsageRow : z = SumWith(actorUses[t], author[w], n)
  BY <1>11, MovedRows
<1>z. z = SumOf(Adjusted(t, author[w], n))
  BY <1>s DEF SumWith, Moved, Adjusted
<1>a. PICK net \in [TagIds -> {-1, 0, 1}] : net = [x.net EXCEPT ![t] = n]
  BY DEF Writer
<1>b. PICK stored \in [TagIds -> UsageRow] : stored = [x.stored EXCEPT ![t] = z]
  BY DEF Writer
<1>8. PICK y : y = [x EXCEPT !.phase = "store", !.net = net, !.stored = stored]
  OBVIOUS
<1>9. writing' = [writing EXCEPT ![w] = y]
  <2>1. writing' = [writing EXCEPT ![w].phase = "store", ![w].net[t] = n, ![w].stored[t] = z]
    BY <1>2, <1>6, <1>7, <1>z DEF SumUsage, Step
  <2>2. writing' = [writing EXCEPT ![w] = [x EXCEPT !.phase = "store", !.net[t] = n, !.stored[t] = z]]
    BY <1>1, <1>2, <2>1 DEF UsageTyped
  <2>3. [x EXCEPT !.phase = "store", !.net[t] = n, !.stored[t] = z] = y
    BY <1>a, <1>b, <1>8 DEF Writer
  <2> QED BY <2>2, <2>3
<1>10. usageLock' = usageLock /\ UNCHANGED <<author, tagged, actorUses, usage, marked, scoring, tagTrend>>
  BY DEF SumUsage
<1>c. y \in Writer /\ y.phase = "store" /\ y.plan = x.plan /\ y.to = x.to /\ y.flags = x.flags /\ y.net = net /\ y.stored = stored
  BY <1>8 DEF Writer
<1>d. net[t] = n /\ stored[t] = z /\ \A u \in TagIds : u # t => net[u] = x.net[u] /\ stored[u] = x.stored[u]
  BY <1>a, <1>b DEF Writer
<1>e. y.net[t] = n /\ y.stored[t] = SumWith(actorUses[t], author[w], n) /\ \A u \in TagIds : u # t => y.net[u] = x.net[u] /\ y.stored[u] = x.stored[u]
  BY <1>c, <1>d, <1>s
<1>f. Head(x.plan) = <<t, k>>
  BY <1>6
<1>12. TaggerFits(w, y, tagged[w], author[w], usageLock, actorUses)
  BY <1>3, <1>4, <1>f, <1>7, <1>c, <1>e, SummedFits
<1>13. usageLock' \in [TagIds -> Works \cup {"scoring", Unlocked}]
  BY <1>1, <1>10 DEF UsageTyped
<1>14. TaggerFits(w, y, tagged[w], author[w], usageLock', actorUses)
  BY <1>10, <1>12
<1>15. \A u \in scoring.claimed : u \notin y.flags
  BY <1>1, <1>2, <1>c DEF ScoringFits
<1>16. \A u \in TagIds : /\ usageLock'[u] \in {usageLock[u], w, Unlocked}
                         /\ usageLock[u] \in {w, Unlocked} \/ usageLock'[u] = usageLock[u]
                         /\ usageLock'[u] = w => y.phase # "none"
  BY <1>c, <1>10
<1> QED BY <1>9, <1>10, <1>c, <1>13, <1>14, <1>15, <1>16, WritingKeeps

LEMMA StoreUsageKeeps ==
    ASSUME UsageInv, NEW w \in Works, StoreUsage(w)
    PROVE  UsageInv'
<1>1. UsageTyped /\ TaggersFit /\ ScoringFits
  BY DEF UsageInv
<1>2. PICK x \in Writer : x = writing[w]
  BY <1>1 DEF UsageTyped
<1>3. TaggerFits(w, x, tagged[w], author[w], usageLock, actorUses) /\ tagged[w] \in SUBSET TagIds
  BY <1>1, <1>2 DEF TaggersFit, UsageTyped
<1>4. x.phase = "store"
  BY <1>2 DEF StoreUsage
<1>5. PlanFits(x, tagged[w]) /\ x.plan # <<>>
  BY <1>3, <1>4 DEF TaggerFits, PlanFits
<1>6. PICK t \in TagIds : t = Head(x.plan)[1]
  BY <1>3, <1>5, AtStep
<1>7. PICK y : y = [x EXCEPT !.phase = "mark"]
  OBVIOUS
<1>8. writing' = [writing EXCEPT ![w] = y] /\ usageLock' = [usageLock EXCEPT ![t] = w] /\ usageLock[t] \in {Unlocked, w}
      /\ UNCHANGED <<author, tagged, actorUses, usage, marked, scoring, tagTrend>>
  BY <1>1, <1>2, <1>6, <1>7 DEF StoreUsage, Step, MayLock, UsageTyped
<1>9. y \in Writer /\ y.phase = "mark" /\ y.plan = x.plan /\ y.to = x.to /\ y.net = x.net /\ y.flags = x.flags /\ y.stored = x.stored
  BY <1>7 DEF Writer
<1>n. usageLock'[t] = w /\ \A u \in TagIds : usageLock[u] = w => usageLock'[u] = w
  BY <1>1, <1>8 DEF UsageTyped
<1>10. TaggerFits(w, y, tagged[w], author[w], usageLock', actorUses)
  BY <1>3, <1>4, <1>6, <1>9, <1>n, StoredFits
<1>11. usageLock' \in [TagIds -> Works \cup {"scoring", Unlocked}]
  BY <1>1, <1>8 DEF UsageTyped
<1>12. \A u \in TagIds : /\ usageLock'[u] \in {usageLock[u], w, Unlocked}
                         /\ usageLock[u] \in {w, Unlocked} \/ usageLock'[u] = usageLock[u]
                         /\ usageLock'[u] = w => y.phase # "none"
  BY <1>1, <1>8, <1>9 DEF UsageTyped
<1>13. \A u \in scoring.claimed : u \notin y.flags
  BY <1>1, <1>2, <1>9 DEF ScoringFits
<1> QED BY <1>8, <1>9, <1>10, <1>11, <1>12, <1>13, WritingKeeps

LEMMA MarkTagKeeps ==
    ASSUME UsageInv, NEW w \in Works, MarkTag(w)
    PROVE  UsageInv'
<1>1. UsageTyped /\ TaggersFit /\ ScoringFits
  BY DEF UsageInv
<1>2. PICK x \in Writer : x = writing[w]
  BY <1>1 DEF UsageTyped
<1>3. TaggerFits(w, x, tagged[w], author[w], usageLock, actorUses) /\ tagged[w] \in SUBSET TagIds
  BY <1>1, <1>2 DEF TaggersFit, UsageTyped
<1>4. x.phase = "mark"
  BY <1>2 DEF MarkTag
<1>5. PlanFits(x, tagged[w]) /\ x.plan # <<>> /\ x.plan \in Seq(Adjustment)
  BY <1>3, <1>4 DEF TaggerFits, PlanFits, Writer
<1>6. PICK t \in TagIds : t = Head(x.plan)[1]
  BY <1>3, <1>5, AtStep
<1>7. PICK p \in Seq(Adjustment) : p = Tail(x.plan)
  <2>1. Once(x.plan)
    BY <1>5 DEF PlanFits
  <2> QED BY <1>5, <2>1, PlanGoesOn
<1>f. PICK f \in SUBSET TagIds : f = x.flags \cup {t}
  BY DEF Writer
<1>8. PICK y : y = [x EXCEPT !.phase = "lock", !.plan = p, !.flags = f]
  OBVIOUS
<1>9. y \in Writer /\ y.phase = "lock" /\ y.plan = p /\ y.to = x.to /\ y.flags = f /\ y.net = x.net /\ y.stored = x.stored
  BY <1>8 DEF Writer
<1>10. writing' = [writing EXCEPT ![w] = y]
  <2>1. writing' = [writing EXCEPT ![w].phase = "lock", ![w].plan = Tail(writing[w].plan), ![w].flags = writing[w].flags \cup {Step(w)[1]}]
    BY <1>1, <1>2 DEF MarkTag, UsageTyped, Writer
  <2>2. writing' = [writing EXCEPT ![w].phase = "lock", ![w].plan = p, ![w].flags = f]
    BY <1>2, <1>6, <1>7, <1>f, <2>1 DEF Step
  <2> QED BY <1>1, <1>2, <1>8, <2>2 DEF UsageTyped
<1>11. t \notin scoring.claimed /\ usageLock' = usageLock /\ UNCHANGED <<author, tagged, actorUses, usage, marked, scoring, tagTrend>>
  BY <1>2, <1>6 DEF MarkTag, Step
<1>12. TaggerFits(w, y, tagged[w], author[w], usageLock, actorUses)
  BY <1>3, <1>4, <1>6, <1>7, <1>f, <1>9, MarkedFits
<1>13. usageLock' \in [TagIds -> Works \cup {"scoring", Unlocked}]
  BY <1>1, <1>11 DEF UsageTyped
<1>14. TaggerFits(w, y, tagged[w], author[w], usageLock', actorUses)
  BY <1>11, <1>12
<1>15. \A u \in scoring.claimed : u \notin y.flags
  BY <1>1, <1>2, <1>9, <1>11, <1>f DEF ScoringFits
<1>16. \A u \in TagIds : /\ usageLock'[u] \in {usageLock[u], w, Unlocked}
                         /\ usageLock[u] \in {w, Unlocked} \/ usageLock'[u] = usageLock[u]
                         /\ usageLock'[u] = w => y.phase # "none"
  BY <1>9, <1>11
<1> QED BY <1>9, <1>10, <1>11, <1>13, <1>14, <1>15, <1>16, WritingKeeps

LEMMA RollbackWritingKeeps ==
    ASSUME UsageInv, NEW w \in Works, RollbackWriting(w)
    PROVE  UsageInv'
<1>1. UsageTyped
  BY DEF UsageInv
<1>2. writing' = [writing EXCEPT ![w] = NotWriting] /\ usageLock' = Released(w)
      /\ UNCHANGED <<author, tagged, actorUses, usage, marked, scoring, tagTrend>>
  BY DEF RollbackWriting
<1>3. \A t \in TagIds : usageLock'[t] = IF usageLock[t] = w THEN Unlocked ELSE usageLock[t]
  BY <1>2 DEF Released
<1>4. usageLock' \in [TagIds -> Works \cup {"scoring", Unlocked}]
  BY <1>1, <1>2 DEF Released, UsageTyped
<1>5. w # Unlocked
  BY TagsAssumption
<1>6. TaggerFits(w, NotWriting, tagged[w], author[w], usageLock', actorUses)
  BY Idle DEF TaggerFits
<1>7. \A t \in TagIds : /\ usageLock'[t] \in {usageLock[t], w, Unlocked}
                        /\ usageLock[t] \in {w, Unlocked} \/ usageLock'[t] = usageLock[t]
                        /\ usageLock'[t] = w => NotWriting.phase # "none"
  BY <1>3, <1>5
<1>8. NotWriting \in Writer /\ \A t \in scoring.claimed : t \notin NotWriting.flags
  BY Idle
<1> QED BY <1>2, <1>4, <1>6, <1>7, <1>8, WritingKeeps

\* The commit of a transaction, whose plan is done.
LEMMA CommitWritingKeeps ==
    ASSUME UsageInv, NEW w \in Works, CommitWriting(w)
    PROVE  UsageInv'
<1>0. Unlocked \notin Works /\ "scoring" \notin Works /\ Unlocked # "scoring"
  BY TagsAssumption
<1>1. UsageTyped /\ UsageFits /\ TaggersFit /\ ScoringFits /\ UsageLocksFit /\ TrendsFit
  BY DEF UsageInv
<1>2. PICK x \in Writer : x = writing[w]
  BY <1>1 DEF UsageTyped
<1>o. PICK old \in SUBSET TagIds : old = tagged[w]
  BY <1>1 DEF UsageTyped
<1>a. PICK a \in Authors : a = author[w]
  BY <1>1 DEF UsageTyped
<1>3. TaggerFits(w, x, old, a, usageLock, actorUses)
  BY <1>1, <1>2, <1>o, <1>a DEF TaggersFit
<1>4. x.phase = "lock" /\ x.plan = <<>>
  BY <1>2 DEF CommitWriting
<1>5. PlanFits(x, old) /\ LocksFit(w, x, old, usageLock) /\ SumsFit(x, old, a, actorUses)
  BY <1>3, <1>4 DEF TaggerFits
<1>6. x.to \in SUBSET TagIds /\ x.flags \in SUBSET TagIds /\ x.net \in [TagIds -> {-1, 0, 1}] /\ x.stored \in [TagIds -> UsageRow]
  BY DEF Writer
<1>7. Ahead(x) = {}
  BY <1>4 DEF Ahead, ToSet
<1>8. \A t \in TagIds : /\ Touched(x, old, t) <=> t \in x.to \cup old
                        /\ NetOf(x, old, t) = (IF t \in x.to THEN 1 ELSE 0) - (IF t \in old THEN 1 ELSE 0)
  BY <1>7 DEF Touched, NetOf, Came, Went
<1>9. /\ \A t \in TagIds : t \in x.flags <=> t \in x.to \cup old
      /\ \A t \in TagIds : x.net[t] = (IF t \in x.to THEN 1 ELSE 0) - (IF t \in old THEN 1 ELSE 0)
      /\ \A t \in x.flags : usageLock[t] = w /\ x.stored[t] = SumWith(actorUses[t], a, x.net[t])
  BY <1>4, <1>5, <1>6, <1>8 DEF PlanFits, LocksFit, SumsFit
<1>10. /\ tagged' = [tagged EXCEPT ![w] = x.to]
       /\ actorUses' = [t \in TagIds |-> Moved(actorUses[t], a, x.net[t])]
       /\ usage' = [t \in TagIds |-> IF t \in x.flags THEN x.stored[t] ELSE usage[t]]
       /\ marked' = marked \cup x.flags /\ usageLock' = Released(w) /\ writing' = [writing EXCEPT ![w] = NotWriting]
       /\ UNCHANGED <<author, scoring, tagTrend>>
  BY <1>2, <1>a DEF CommitWriting, Adjusted, Moved
<1>11. \A t \in TagIds : usageLock'[t] = IF usageLock[t] = w THEN Unlocked ELSE usageLock[t]
  BY <1>10 DEF Released
<1>12. \A t \in TagIds : actorUses'[t] = Moved(actorUses[t], a, x.net[t])
  BY <1>10
<1>13. \A t \in TagIds : actorUses[t] \in [Authors -> Nat] /\ actorUses'[t] \in [Authors -> Nat]
  <2> TAKE t \in TagIds
  <2>1. actorUses[t] \in [Authors -> Nat] /\ x.net[t] \in {-1, 0, 1}
    BY <1>1, <1>6 DEF UsageTyped
  <2>2. Moved(actorUses[t], a, x.net[t]) \in [Authors -> Nat]
    BY <2>1, MovedRows
  <2> QED BY <1>12, <2>1, <2>2
<1>14. \A t \in TagIds : t \notin x.flags => actorUses'[t] = actorUses[t]
  <2> SUFFICES ASSUME NEW t \in TagIds, t \notin x.flags PROVE Moved(actorUses[t], a, x.net[t]) = actorUses[t]
    BY <1>12
  <2>1. x.net[t] = 0
    BY <1>9
  <2> QED BY <1>13, <2>1 DEF Moved
<1>15. UsageTyped'
  <2>1. tagged' \in [Works -> SUBSET TagIds] /\ marked' \in SUBSET TagIds
    BY <1>1, <1>6, <1>10 DEF UsageTyped
  <2>2. actorUses' \in [TagIds -> [Authors -> Nat]]
    BY <1>10, <1>13
  <2>3. usage' \in [TagIds -> UsageRow]
    BY <1>1, <1>6, <1>10 DEF UsageTyped
  <2>4. usageLock' \in [TagIds -> Works \cup {"scoring", Unlocked}]
    BY <1>1, <1>10 DEF UsageTyped, Released
  <2>5. writing' \in [Works -> Writer]
    BY <1>1, <1>10, Idle DEF UsageTyped
  <2>6. author' \in [Works -> Authors] /\ scoring' \in Scorer
    BY <1>1, <1>10 DEF UsageTyped
  <2> QED BY <2>1, <2>2, <2>3, <2>4, <2>5, <2>6 DEF UsageTyped
<1>16. UsageFits'
  <2> SUFFICES ASSUME NEW t \in TagIds PROVE actorUses'[t] = CountedUses(t)' /\ usage'[t] = SumOf(actorUses'[t])
    BY DEF UsageFits, SumOf
  <2>1. CountedUses(t) = CountOf(author, tagged, t) /\ CountedUses(t)' = CountOf(author, tagged', t)
    BY <1>10 DEF CountedUses, CountOf, UsesOf
  <2>2. CountOf(author, tagged', t) = Moved(CountOf(author, tagged, t), a, x.net[t])
    <3>1. author \in [Works -> Authors] /\ tagged \in [Works -> SUBSET TagIds]
      BY <1>1 DEF UsageTyped
    <3>2. PICK new \in SUBSET TagIds : new = x.to
      BY <1>6
    <3>3. PICK n : n = x.net[t]
      OBVIOUS
    <3>4. PICK after : after = tagged' /\ after = [tagged EXCEPT ![w] = new]
      BY <1>10, <3>2
    <3>5. n = Change(tagged[w], new, t)
      BY <1>9, <1>o, <3>2, <3>3 DEF Change
    <3>7. after = Retagged(tagged, w, new)
      BY <3>1, <3>4 DEF Retagged
    <3>6. CountOf(author, after, t) = Moved(CountOf(author, tagged, t), author[w], n)
      BY <3>1, <3>5, <3>7, CountMoves
    <3> QED BY <1>a, <3>3, <3>4, <3>6
  <2>3. actorUses[t] = CountedUses(t) /\ usage[t] = SumOf(actorUses[t])
    BY <1>1 DEF UsageFits
  <2>4. actorUses'[t] = CountedUses(t)'
    BY <1>12, <2>1, <2>2, <2>3
  <2>5. CASE t \in x.flags
    <3>1. usage'[t] = x.stored[t] /\ x.stored[t] = SumWith(actorUses[t], a, x.net[t])
      BY <1>9, <1>10, <2>5
    <3> QED BY <1>12, <2>4, <3>1 DEF SumWith
  <2>6. CASE t \notin x.flags
    <3>1. usage'[t] = usage[t]
      BY <1>10, <2>6
    <3> QED BY <1>14, <2>3, <2>4, <2>6, <3>1
  <2> QED BY <2>5, <2>6
<1>17. writing'[w] = NotWriting /\ \A v \in Works : v # w => writing'[v] = writing[v] /\ tagged'[v] = tagged[v]
  BY <1>1, <1>10 DEF UsageTyped
<1>18. TaggersFit'
  <2> SUFFICES ASSUME NEW v \in Works PROVE TaggerFits(v, writing'[v], tagged'[v], author[v], usageLock', actorUses')
    BY <1>10 DEF TaggersFit
  <2>1. CASE v = w
    BY <1>17, <2>1, Idle DEF TaggerFits
  <2>2. CASE v # w
    <3>1. writing[v] \in Writer /\ TaggerFits(v, writing[v], tagged[v], author[v], usageLock, actorUses)
      BY <1>1 DEF UsageTyped, TaggersFit
    <3>2. \A t \in TagIds : usageLock[t] = v => usageLock'[t] = v /\ actorUses'[t] = actorUses[t]
      BY <1>9, <1>11, <1>14, <2>2
    <3>3. TaggerFits(v, writing[v], tagged[v], author[v], usageLock', actorUses')
      BY <3>1, <3>2, WriterUndisturbed
    <3> QED BY <1>17, <2>2, <3>3
  <2> QED BY <2>1, <2>2
<1>19. ScoringFits'
  <2>1. \A t \in scoring.claimed : t \in TagIds /\ t \notin x.flags
    BY <1>1, <1>2 DEF ScoringFits, UsageTyped, Scorer
  <2>2. \A t \in scoring.claimed : actorUses'[t] = actorUses[t]
    BY <1>14, <2>1
  <2>3. ScorerFits(scoring, actorUses')
    <3>1. ScorerFits(scoring, actorUses) /\ scoring.left \in Seq(TagIds)
      BY <1>1 DEF ScoringFits, UsageTyped, Scorer
    <3>2. scoring.phase = "store" => Head(scoring.left) \in scoring.claimed
      <4> SUFFICES ASSUME scoring.phase = "store" PROVE Head(scoring.left) \in scoring.claimed
        OBVIOUS
      <4>1. scoring.left # <<>> /\ ToSet(scoring.left) \subseteq scoring.claimed
        BY <3>1 DEF ScorerFits
      <4>2. Head(scoring.left) = scoring.left[1] /\ 1 \in DOMAIN scoring.left
        BY <3>1, <4>1
      <4> QED BY <4>1, <4>2 DEF ToSet
    <3> QED BY <2>2, <3>1, <3>2 DEF ScorerFits
  <2>4. \A v \in Works, t \in scoring.claimed : t \notin writing'[v].flags
    BY <1>1, <1>17, Idle DEF ScoringFits
  <2> QED BY <1>10, <2>3, <2>4 DEF ScoringFits
<1>20. UsageLocksFit'
  <2> SUFFICES ASSUME NEW t \in TagIds
               PROVE  /\ usageLock'[t] \in Works => writing'[usageLock'[t]].phase # "none"
                      /\ usageLock'[t] = "scoring" => scoring.phase # "none"
    BY <1>10 DEF UsageLocksFit
  <2>1. /\ usageLock[t] \in Works => writing[usageLock[t]].phase # "none"
        /\ usageLock[t] = "scoring" => scoring.phase # "none"
    BY <1>1 DEF UsageLocksFit
  <2>2. CASE usageLock[t] = w
    BY <1>0, <1>11, <2>2
  <2>3. CASE usageLock[t] # w
    BY <1>11, <1>17, <2>1, <2>3
  <2> QED BY <2>2, <2>3
<1>21. TrendsFit'
  <2> SUFFICES ASSUME NEW t \in TagIds, tagTrend[t].peak > 0, usage'[t] = NoUsage, t \notin x.flags PROVE t \in marked
    BY <1>10 DEF TrendsFit, NoUsage
  <2>1. usage'[t] = usage[t]
    BY <1>10
  <2> QED BY <1>1, <2>1 DEF TrendsFit
<1> QED BY <1>15, <1>16, <1>18, <1>19, <1>20, <1>21 DEF UsageInv

\* A step of the refresh of trends that writes no usage.
LEMMA ScoringKeeps ==
    ASSUME UsageInv, NEW s \in Scorer, scoring' = s, UNCHANGED <<author, tagged, actorUses, usage, writing, tagTrend>>,
           usageLock' \in [TagIds -> Works \cup {"scoring", Unlocked}], marked' \in SUBSET TagIds, marked \subseteq marked',
           \A t \in TagIds : /\ usageLock'[t] \in {usageLock[t], "scoring", Unlocked}
                             /\ usageLock[t] \in {"scoring", Unlocked} \/ usageLock'[t] = usageLock[t]
                             /\ usageLock'[t] = "scoring" => s.phase # "none",
           ScorerFits(s, actorUses), \A w \in Works, t \in s.claimed : t \notin writing[w].flags
    PROVE  UsageInv'
<1>0. Unlocked \notin Works /\ "scoring" \notin Works /\ Unlocked # "scoring"
  BY TagsAssumption
<1>1. UsageTyped'
  BY DEF UsageInv, UsageTyped
<1>2. UsageFits'
  BY DEF UsageInv, UsageFits, CountedUses
<1>4. TaggersFit'
  <2> SUFFICES ASSUME NEW v \in Works PROVE TaggerFits(v, writing[v], tagged[v], author[v], usageLock', actorUses)
    BY DEF TaggersFit
  <2>1. writing[v] \in Writer /\ TaggerFits(v, writing[v], tagged[v], author[v], usageLock, actorUses)
    BY DEF UsageInv, UsageTyped, TaggersFit
  <2>2. \A t \in TagIds : usageLock[t] = v => usageLock'[t] = v /\ actorUses[t] = actorUses[t]
    BY <1>0
  <2> QED BY <2>1, <2>2, WriterUndisturbed
<1>5. ScoringFits'
  BY DEF UsageInv, ScoringFits, ScorerFits
<1>6. UsageLocksFit'
  <2> SUFFICES ASSUME NEW t \in TagIds
               PROVE  /\ usageLock'[t] \in Works => writing[usageLock'[t]].phase # "none"
                      /\ usageLock'[t] = "scoring" => s.phase # "none"
    BY DEF UsageLocksFit
  <2>1. usageLock[t] \in Works => writing[usageLock[t]].phase # "none"
    BY DEF UsageInv, UsageLocksFit
  <2> QED BY <1>0, <2>1
<1>7. TrendsFit'
  BY DEF UsageInv, TrendsFit
<1> QED BY <1>1, <1>2, <1>4, <1>5, <1>6, <1>7 DEF UsageInv

\* The list of a refresh goes on like a plan.
LEMMA LeftGoesOn ==
    ASSUME NEW q \in Seq(TagIds), q # <<>>
    PROVE  /\ Head(q) \in ToSet(q) /\ ToSet(q) \subseteq TagIds /\ Tail(q) \in Seq(TagIds)
           /\ ToSet(Tail(q)) \subseteq ToSet(q) /\ ToSet(q) \ {Head(q)} \subseteq ToSet(Tail(q))
<1>1. PICK n \in Nat : n = Len(q) /\ n > 0 /\ DOMAIN q = 1..n
  OBVIOUS
<1>2. Head(q) = q[1] /\ 1 \in 1..n
  BY <1>1
<1>3. Tail(q) \in Seq(TagIds) /\ Len(Tail(q)) = n - 1 /\ \A i \in 1..(n - 1) : Tail(q)[i] = q[i + 1]
  BY <1>1
<1>4. DOMAIN Tail(q) = 1..(n - 1) /\ \A i \in 1..(n - 1) : i + 1 \in 1..n
  BY <1>1, <1>3
<1>6. \A i \in 1..n : i # 1 => i - 1 \in 1..(n - 1) /\ q[i] = Tail(q)[i - 1]
  BY <1>1, <1>3
<1>8. ToSet(q) = {q[i] : i \in 1..n} /\ ToSet(Tail(q)) = {Tail(q)[i] : i \in 1..(n - 1)}
  BY <1>1, <1>4 DEF ToSet
<1>9. ToSet(Tail(q)) \subseteq ToSet(q)
  BY <1>3, <1>4, <1>8
<1>10. ToSet(q) \ {Head(q)} \subseteq ToSet(Tail(q))
  BY <1>2, <1>6, <1>8
<1>11. Head(q) \in ToSet(q) /\ ToSet(q) \subseteq TagIds
  BY <1>1, <1>2, <1>8
<1> QED BY <1>3, <1>9, <1>10, <1>11

LEMMA ClaimTagsKeeps == ASSUME UsageInv, ClaimTags PROVE UsageInv'
<1>1. UsageTyped
  BY DEF UsageInv
<1>2. PICK all \in SUBSET TagIds : all = marked \cup {t \in TagIds : tagTrend[t].peak > 0}
  BY <1>1 DEF UsageTyped
<1>3. PICK free \in SUBSET TagIds : free = {t \in all : \A w \in Works : t \notin writing[w].flags}
  OBVIOUS
<1>4. PICK q \in Seq(TagIds) : q = Ordered(free) /\ ToSet(q) = free
  <2>0. PICK n \in Nat : n = Cardinality(free)
    BY OrderedLists
  <2>1. PICK f \in [1..n -> free] : f = Ordered(free) /\ \A t \in free : \E i \in 1..n : f[i] = t
    BY <2>0, OrderedLists
  <2>2. f \in Seq(TagIds)
    BY <2>1
  <2>3. ToSet(f) = free
    BY <2>1 DEF ToSet
  <2> QED BY <2>1, <2>2, <2>3
<1>5. PICK s : s = [NotScoring EXCEPT !.phase = "sum", !.claimed = free, !.left = q]
  OBVIOUS
<1>6. s \in Scorer /\ s.phase = "sum" /\ s.claimed = free /\ s.left = q
  BY <1>5, Idle DEF Scorer
<1>7. scoring' = s /\ marked' = all /\ UNCHANGED <<author, tagged, actorUses, usage, writing, tagTrend, usageLock>>
  BY <1>2, <1>3, <1>4, <1>5 DEF ClaimTags
<1>8. ScorerFits(s, actorUses)
  BY <1>4, <1>6 DEF ScorerFits
<1>9. usageLock' \in [TagIds -> Works \cup {"scoring", Unlocked}] /\ marked \subseteq marked' /\ marked' \in SUBSET TagIds
  BY <1>1, <1>2, <1>7 DEF UsageTyped
<1>10. \A w \in Works, t \in s.claimed : t \notin writing[w].flags
  BY <1>3, <1>6
<1>11. \A t \in TagIds : /\ usageLock'[t] \in {usageLock[t], "scoring", Unlocked}
                         /\ usageLock[t] \in {"scoring", Unlocked} \/ usageLock'[t] = usageLock[t]
                         /\ usageLock'[t] = "scoring" => s.phase # "none"
  BY <1>6, <1>7
<1> QED BY <1>6, <1>7, <1>8, <1>9, <1>10, <1>11, ScoringKeeps

LEMMA SumTagKeeps == ASSUME UsageInv, SumTag PROVE UsageInv'
<1>1. UsageTyped /\ ScoringFits
  BY DEF UsageInv
<1>2. PICK o \in Scorer : o = scoring
  BY <1>1 DEF UsageTyped
<1>3. o.phase = "sum" /\ o.left # <<>> /\ o.left \in Seq(TagIds) /\ ScorerFits(o, actorUses)
  BY <1>1, <1>2 DEF SumTag, Scorer, ScoringFits
<1>4. PICK t \in TagIds : t = Head(o.left)
  BY <1>3, LeftGoesOn
<1>5. PICK z \in UsageRow : z = SumOf(actorUses[t])
  BY <1>1 DEF UsageTyped, UsageRow
<1>6. PICK stored \in [TagIds -> UsageRow] : stored = [o.stored EXCEPT ![t] = z]
  BY DEF Scorer
<1>7. PICK s : s = [o EXCEPT !.phase = "store", !.stored = stored]
  OBVIOUS
<1>8. s \in Scorer /\ s.phase = "store" /\ s.claimed = o.claimed /\ s.left = o.left /\ s.stored = stored
  BY <1>7 DEF Scorer
<1>9. scoring' = s
  <2>1. scoring' = [o EXCEPT !.phase = "store", !.stored[t] = z]
    BY <1>2, <1>4, <1>5 DEF SumTag
  <2>2. [o EXCEPT !.phase = "store", !.stored[t] = z] = s
    BY <1>6, <1>7 DEF Scorer
  <2> QED BY <2>1, <2>2
<1>10. stored[t] = z /\ \A u \in TagIds : u # t => stored[u] = o.stored[u]
  BY <1>6 DEF Scorer
<1>11. ScorerFits(s, actorUses)
  <2>1. s.claimed \subseteq TagIds
    BY <1>8 DEF Scorer
  <2>2. s.phase = "store" => s.left # <<>> /\ s.stored[Head(s.left)] = SumOf(actorUses[Head(s.left)])
    BY <1>3, <1>4, <1>5, <1>8, <1>10
  <2>3. ToSet(s.left) \subseteq s.claimed
    BY <1>3, <1>8 DEF ScorerFits
  <2>4. \A u \in s.claimed : u \notin ToSet(s.left) => s.stored[u] = SumOf(actorUses[u])
    BY <1>3, <1>4, <1>5, <1>8, <1>10, <2>1 DEF ScorerFits
  <2> QED BY <2>2, <2>3, <2>4 DEF ScorerFits
<1>12. UNCHANGED <<author, tagged, actorUses, usage, writing, tagTrend, usageLock, marked>>
  BY DEF SumTag
<1>13. usageLock' \in [TagIds -> Works \cup {"scoring", Unlocked}] /\ marked \subseteq marked' /\ marked' \in SUBSET TagIds
  BY <1>1, <1>12 DEF UsageTyped
<1>14. \A w \in Works, u \in s.claimed : u \notin writing[w].flags
  BY <1>1, <1>2, <1>8 DEF ScoringFits
<1>15. \A u \in TagIds : /\ usageLock'[u] \in {usageLock[u], "scoring", Unlocked}
                         /\ usageLock[u] \in {"scoring", Unlocked} \/ usageLock'[u] = usageLock[u]
                         /\ usageLock'[u] = "scoring" => s.phase # "none"
  BY <1>8, <1>12
<1> QED BY <1>8, <1>9, <1>11, <1>12, <1>13, <1>14, <1>15, ScoringKeeps

LEMMA StoreTagKeeps == ASSUME UsageInv, StoreTag PROVE UsageInv'
<1>1. UsageTyped /\ ScoringFits
  BY DEF UsageInv
<1>2. PICK o \in Scorer : o = scoring
  BY <1>1 DEF UsageTyped
<1>3. o.phase = "store" /\ o.left \in Seq(TagIds) /\ ScorerFits(o, actorUses)
  BY <1>1, <1>2 DEF StoreTag, Scorer, ScoringFits
<1>l. o.left # <<>>
  BY <1>3 DEF ScorerFits
<1>4. PICK t \in TagIds : t = Head(o.left)
  BY <1>3, <1>l, LeftGoesOn
<1>5. PICK q \in Seq(TagIds) : q = Tail(o.left)
  BY <1>3, <1>l, LeftGoesOn
<1>6. ToSet(q) \subseteq ToSet(o.left) /\ ToSet(o.left) \ {t} \subseteq ToSet(q)
  BY <1>3, <1>l, <1>4, <1>5, LeftGoesOn
<1>7. PICK s : s = [o EXCEPT !.phase = "sum", !.left = q]
  OBVIOUS
<1>8. s \in Scorer /\ s.phase = "sum" /\ s.claimed = o.claimed /\ s.left = q /\ s.stored = o.stored
  BY <1>7 DEF Scorer
<1>9. scoring' = s
  <2>1. scoring' = [o EXCEPT !.phase = "sum", !.left = Tail(o.left)]
    BY <1>2 DEF StoreTag, Scorer
  <2> QED BY <1>5, <1>7, <2>1
<1>10. ScorerFits(s, actorUses)
  <2>1. ToSet(s.left) \subseteq s.claimed
    BY <1>3, <1>6, <1>8 DEF ScorerFits
  <2>2. ASSUME NEW u \in s.claimed, u \notin ToSet(s.left) PROVE s.stored[u] = SumOf(actorUses[u])
    <3>1. CASE u = t
      BY <1>3, <1>4, <1>8, <3>1 DEF ScorerFits
    <3>2. CASE u # t
      BY <1>3, <1>6, <1>8, <2>2, <3>2 DEF ScorerFits
    <3> QED BY <3>1, <3>2
  <2> QED BY <1>8, <2>1, <2>2 DEF ScorerFits
<1>11. usageLock[t] \in {Unlocked, "scoring"} /\ usageLock' = [usageLock EXCEPT ![t] = "scoring"]
       /\ UNCHANGED <<author, tagged, actorUses, usage, writing, tagTrend, marked>>
  BY <1>2, <1>4 DEF StoreTag, MayLock
<1>12. usageLock' \in [TagIds -> Works \cup {"scoring", Unlocked}] /\ marked \subseteq marked' /\ marked' \in SUBSET TagIds
  BY <1>1, <1>11 DEF UsageTyped
<1>13. \A w \in Works, u \in s.claimed : u \notin writing[w].flags
  BY <1>1, <1>2, <1>8 DEF ScoringFits
<1>14. \A u \in TagIds : /\ usageLock'[u] \in {usageLock[u], "scoring", Unlocked}
                         /\ usageLock[u] \in {"scoring", Unlocked} \/ usageLock'[u] = usageLock[u]
                         /\ usageLock'[u] = "scoring" => s.phase # "none"
  BY <1>1, <1>8, <1>11 DEF UsageTyped
<1> QED BY <1>8, <1>9, <1>10, <1>11, <1>12, <1>13, <1>14, ScoringKeeps

LEMMA RollbackScoringKeeps == ASSUME UsageInv, RollbackScoring PROVE UsageInv'
<1>1. UsageTyped
  BY DEF UsageInv
<1>2. scoring' = NotScoring /\ usageLock' = Released("scoring") /\ UNCHANGED <<author, tagged, actorUses, usage, writing, tagTrend, marked>>
  BY DEF RollbackScoring
<1>3. \A t \in TagIds : usageLock'[t] = IF usageLock[t] = "scoring" THEN Unlocked ELSE usageLock[t]
  BY <1>2 DEF Released
<1>4. usageLock' \in [TagIds -> Works \cup {"scoring", Unlocked}] /\ marked \subseteq marked' /\ marked' \in SUBSET TagIds
  BY <1>1, <1>2 DEF Released, UsageTyped
<1>5. "scoring" # Unlocked
  BY TagsAssumption
<1>6. ScorerFits(NotScoring, actorUses)
  <2>1. ToSet(<<>>) = {}
    BY DEF ToSet
  <2> QED BY <2>1, Idle DEF ScorerFits
<1>7. NotScoring \in Scorer /\ \A w \in Works, t \in NotScoring.claimed : t \notin writing[w].flags
  BY Idle
<1>8. \A t \in TagIds : /\ usageLock'[t] \in {usageLock[t], "scoring", Unlocked}
                        /\ usageLock[t] \in {"scoring", Unlocked} \/ usageLock'[t] = usageLock[t]
                        /\ usageLock'[t] = "scoring" => NotScoring.phase # "none"
  BY <1>3, <1>5
<1> QED BY <1>2, <1>4, <1>6, <1>7, <1>8, ScoringKeeps

LEMMA CommitScoringKeeps == ASSUME UsageInv, CommitScoring PROVE UsageInv'
<1>0. Unlocked \notin Works /\ "scoring" \notin Works /\ Unlocked # "scoring"
  BY TagsAssumption
<1>1. UsageTyped /\ UsageFits /\ TaggersFit /\ ScoringFits /\ UsageLocksFit /\ TrendsFit
  BY DEF UsageInv
<1>2. PICK o \in Scorer : o = scoring
  BY <1>1 DEF UsageTyped
<1>3. o.left = <<>> /\ ScorerFits(o, actorUses) /\ o.claimed \in SUBSET TagIds /\ o.stored \in [TagIds -> UsageRow]
  BY <1>1, <1>2 DEF CommitScoring, Scorer, ScoringFits
<1>4. \A t \in o.claimed : o.stored[t] = SumOf(actorUses[t])
  <2>1. ToSet(<<>>) = {}
    BY DEF ToSet
  <2> QED BY <1>3, <2>1 DEF ScorerFits
<1>5. usage' = [t \in TagIds |-> IF t \in o.claimed THEN o.stored[t] ELSE usage[t]]
      /\ marked' = marked \ o.claimed /\ usageLock' = Released("scoring") /\ scoring' = NotScoring
      /\ UNCHANGED <<author, tagged, actorUses, writing>>
  BY <1>2 DEF CommitScoring
<1>6. usage' = usage
  BY <1>1, <1>4, <1>5 DEF UsageFits, UsageTyped
<1>7. \A t \in TagIds : usageLock'[t] = IF usageLock[t] = "scoring" THEN Unlocked ELSE usageLock[t]
  BY <1>5 DEF Released
<1>8. UsageTyped'
  <2>1. usageLock' \in [TagIds -> Works \cup {"scoring", Unlocked}]
    BY <1>1, <1>5 DEF UsageTyped, Released
  <2> QED BY <1>1, <1>5, <1>6, <2>1, Idle DEF UsageTyped
<1>9. UsageFits'
  BY <1>1, <1>5, <1>6 DEF UsageFits, CountedUses
<1>10. TaggersFit'
  <2> SUFFICES ASSUME NEW v \in Works PROVE TaggerFits(v, writing[v], tagged[v], author[v], usageLock', actorUses)
    BY <1>5 DEF TaggersFit
  <2>1. writing[v] \in Writer /\ TaggerFits(v, writing[v], tagged[v], author[v], usageLock, actorUses)
    BY <1>1 DEF UsageTyped, TaggersFit
  <2>2. \A t \in TagIds : usageLock[t] = v => usageLock'[t] = v /\ actorUses[t] = actorUses[t]
    BY <1>0, <1>7
  <2> QED BY <2>1, <2>2, WriterUndisturbed
<1>11. ScoringFits'
  <2>1. ToSet(<<>>) = {}
    BY DEF ToSet
  <2> QED BY <1>5, <2>1, Idle DEF ScoringFits, ScorerFits
<1>12. UsageLocksFit'
  BY <1>0, <1>1, <1>5, <1>7 DEF UsageLocksFit
<1>13. TrendsFit'
  <2> SUFFICES ASSUME NEW t \in TagIds, tagTrend'[t].peak > 0, usage'[t] = NoUsage PROVE t \in marked'
    BY DEF TrendsFit, NoUsage
  <2>1. CASE t \in o.claimed
    <3>1. tagTrend'[t] = NewTrend(t, o.stored[t])
      BY <1>2, <2>1 DEF CommitScoring
    <3>2. o.stored[t] = NoUsage
      BY <1>5, <2>1
    <3>3. NewTrend(t, o.stored[t]) = [peak |-> 0, at |-> 1]
      BY <3>2 DEF NewTrend
    <3> QED BY <3>1, <3>3
  <2>2. CASE t \notin o.claimed
    <3>1. tagTrend'[t] = tagTrend[t]
      BY <1>2, <2>2 DEF CommitScoring
    <3> QED BY <1>1, <1>5, <1>6, <2>2, <3>1 DEF TrendsFit
  <2> QED BY <2>1, <2>2
<1> QED BY <1>8, <1>9, <1>10, <1>11, <1>12, <1>13 DEF UsageInv

LEMMA UsageSame == ASSUME UsageInv, UNCHANGED <<author, tagged, actorUses, usage, usageLock, marked, writing, scoring, tagTrend>> PROVE UsageInv'
<1>1. UsageTyped' /\ UsageFits'
  BY DEF UsageInv, UsageTyped, UsageFits, CountedUses
<1>2. TaggersFit'
  BY DEF UsageInv, TaggersFit
<1>3. ScoringFits' /\ UsageLocksFit' /\ TrendsFit'
  BY DEF UsageInv, ScoringFits, UsageLocksFit, TrendsFit
<1> QED BY <1>1, <1>2, <1>3 DEF UsageInv

(* Pins and featured tags *)

Told == [op : {"Add", "Remove"}, kind : Kinds, item : Pinnable]
More(q, m) == Append(q, m)
IsAbout(m, k, i) == m.kind = k /\ m.item = i
LastOf(q, k, i) == SelectLastInSeq(q, LAMBDA m : m.kind = k /\ m.item = i)
Of(q, k, i) == {j \in 1..Len(q) : q[j].kind = k /\ q[j].item = i}

\* The last of a list of activities, of which another is appended.
LEMMA LastOfMore ==
    ASSUME NEW q \in Seq(Told), NEW m \in Told, NEW k, NEW i, NEW r, r = More(q, m)
    PROVE  /\ LastOf(q, k, i) \in 0..Len(q)
           /\ (IsAbout(m, k, i) => LastOf(r, k, i) = Len(q) + 1)
           /\ (~ IsAbout(m, k, i) => LastOf(r, k, i) = LastOf(q, k, i))
<1>1. PICK n \in Nat : n = Len(q)
  OBVIOUS
<1>2. r \in Seq(Told) /\ Len(r) = n + 1 /\ r[n + 1] = m /\ \A j \in 1..n : r[j] = q[j]
  BY <1>1 DEF More
<1>3. LastOf(q, k, i) = IF Of(q, k, i) # {} THEN Max(Of(q, k, i)) ELSE 0
  BY DEF LastOf, SelectLastInSeq, Of
<1>4. LastOf(r, k, i) = IF Of(r, k, i) # {} THEN Max(Of(r, k, i)) ELSE 0
  BY DEF LastOf, SelectLastInSeq, Of
<1>5. PICK s \in SUBSET (1..n) : s = Of(q, k, i)
  BY <1>1 DEF Of
<1>6. ASSUME NEW U \in SUBSET (1..(n + 1)), U # {} PROVE Max(U) \in U /\ \A y \in U : Max(U) >= y
  <2>1. IsFiniteSet(1..(n + 1))
    BY FS_Interval
  <2>2. IsFiniteSet(U)
    BY <2>1, FS_Subset
  <2>5. U \in SUBSET Nat
    OBVIOUS
  <2>3. PICK x \in U : \A y \in U : y <= x
    BY <1>6, <2>2, <2>5, GreatestNumber
  <2>4. \A y \in U : x >= y
    BY <2>3, <2>5
  <2> QED BY <2>3, <2>4 DEF Max
<1>7. s # {} => Max(s) \in s
  BY <1>6
<1>8. LastOf(q, k, i) \in 0..n
  BY <1>3, <1>5, <1>7
<1>9. ASSUME m.kind = k /\ m.item = i PROVE LastOf(r, k, i) = n + 1
  <2>1. PICK U \in SUBSET (1..(n + 1)) : U = Of(r, k, i)
    BY <1>2 DEF Of
  <2>2. n + 1 \in U
    BY <1>2, <1>9, <2>1 DEF Of
  <2>3. Max(U) \in U /\ Max(U) >= n + 1
    BY <1>6, <2>2
  <2>5. PICK x \in 1..(n + 1) : x = Max(U)
    BY <2>3
  <2>4. Max(U) = n + 1
    BY <2>3, <2>5
  <2> QED BY <1>4, <2>1, <2>2, <2>4
<1>10. ASSUME ~ (m.kind = k /\ m.item = i) PROVE LastOf(r, k, i) = LastOf(q, k, i)
  <2>1. \A j \in 1..(n + 1) : j \in 1..n \/ j = n + 1
    OBVIOUS
  <2>2. \A j \in 1..n : j \in 1..(n + 1) /\ r[j] = q[j]
    BY <1>2
  <2>3. Of(r, k, i) = {j \in 1..(n + 1) : r[j].kind = k /\ r[j].item = i} /\ Of(q, k, i) = {j \in 1..n : q[j].kind = k /\ q[j].item = i}
    BY <1>1, <1>2 DEF Of
  <2>4. Of(r, k, i) = Of(q, k, i)
    BY <1>2, <1>10, <2>1, <2>2, <2>3
  <2> QED BY <1>3, <1>4, <2>4
<1> QED BY <1>1, <1>8, <1>9, <1>10 DEF IsAbout

LEMMA NoneTold == ASSUME NEW k, NEW i PROVE LastOf(<<>>, k, i) = 0
<1>1. Of(<<>>, k, i) = {}
  BY DEF Of
<1>2. LastOf(<<>>, k, i) = IF Of(<<>>, k, i) # {} THEN Max(Of(<<>>, k, i)) ELSE 0
  BY DEF LastOf, SelectLastInSeq, Of
<1> QED BY <1>1, <1>2

PinRequest == [phase : {"none", "row", "count", "insert"}, kind : Kinds, item : Pinnable \cup {Unlocked}, room : BOOLEAN]
PinsTyped ==
    /\ pinned \in [Kinds -> SUBSET Pinnable] /\ pinLock \in [Kinds -> Pinners \cup {Unlocked}]
    /\ workLock \in [Pinnable -> Pinners \cup {Unlocked}] /\ alive \in SUBSET Pinnable
    /\ pinner \in [Pinners -> PinRequest] /\ toldPins \in Seq(Told)

\* A request x of r has the lock of the account; past its row it has that too,
\* and room, once found, stays.
HasLocks(r, x) ==
    x.phase # "none" =>
        /\ x.item \in Pinnable /\ pinLock[x.kind] = r
        /\ x.phase \in {"count", "insert"} /\ x.kind = "pin" => x.item \in alive /\ workLock[x.item] = r
HasRoom(x) == x.phase = "insert" /\ x.room => x.item \in pinned[x.kind] \/ Cardinality(pinned[x.kind]) < PinLimit
RequestsFit == \A r \in Pinners : HasLocks(r, pinner[r]) /\ HasRoom(pinner[r])
PinLocksFit == \A k \in Kinds : pinLock[k] # Unlocked => pinner[pinLock[k]].phase # "none"
PinnedFit == pinned["pin"] \subseteq alive /\ \A k \in Kinds : Cardinality(pinned[k]) <= PinLimit
ToldFits(q, held, k, i) == i \in held <=> LastOf(q, k, i) > 0 /\ q[LastOf(q, k, i)].op = "Add"
FollowersFit == \A k \in Kinds, i \in Pinnable : (k = "pin" => i \in alive) => ToldFits(toldPins, pinned[k], k, i)
PinsInv == PinsTyped /\ RequestsFit /\ PinLocksFit /\ PinnedFit /\ FollowersFit

LEMMA NoRequest == NoPinner \in PinRequest /\ NoPinner.phase = "none"
BY DEF NoPinner, PinRequest, Kinds

\* Requests for one collection exclude each other.
LEMMA OneRequest ==
    ASSUME PinsInv, NEW r \in Pinners, NEW k \in Kinds, pinLock[k] # r, pinner[r].phase # "none"
    PROVE  pinner[r].kind # k
BY DEF PinsInv, RequestsFit, HasLocks

LEMMA ToldNow ==
    ASSUME NEW q \in Seq(Told), NEW m \in Told, NEW k, NEW i, IsAbout(m, k, i), NEW held, i \in held <=> m.op = "Add"
    PROVE  More(q, m) \in Seq(Told) /\ ToldFits(More(q, m), held, k, i)
<1>0. More(q, m) \in Seq(Told)
  BY DEF More
<1>1. PICK r \in Seq(Told) : r = More(q, m)
  BY <1>0
<1>2. PICK n \in Nat : n = Len(q)
  OBVIOUS
<1>3. r[n + 1] = m
  BY <1>1, <1>2 DEF More
<1>4. LastOf(r, k, i) = n + 1
  BY <1>1, <1>2, LastOfMore
<1>5. n + 1 > 0
  OBVIOUS
<1>6. ToldFits(r, held, k, i)
  BY <1>3, <1>4, <1>5 DEF ToldFits
<1> QED BY <1>1, <1>6

LEMMA ToldElse ==
    ASSUME NEW q \in Seq(Told), NEW m \in Told, NEW k, NEW i, ~ IsAbout(m, k, i), NEW held, NEW new,
           i \in new <=> i \in held, ToldFits(q, held, k, i)
    PROVE  ToldFits(More(q, m), new, k, i)
<1>0. More(q, m) \in Seq(Told)
  BY DEF More
<1>1. PICK r \in Seq(Told) : r = More(q, m)
  BY <1>0
<1>2. PICK n \in Nat : n = Len(q)
  OBVIOUS
<1>3. \A j \in 1..n : r[j] = q[j]
  BY <1>1, <1>2 DEF More
<1>4. PICK p \in 0..n : p = LastOf(q, k, i)
  BY <1>1, <1>2, LastOfMore
<1>5. LastOf(r, k, i) = p
  BY <1>1, <1>4, LastOfMore
<1>6. p > 0 => p \in 1..n
  BY <1>4
<1>7. p > 0 => r[p] = q[p]
  BY <1>3, <1>6
<1>8. ToldFits(r, new, k, i)
  BY <1>4, <1>5, <1>7 DEF ToldFits
<1> QED BY <1>1, <1>8

\* A step of another leaves request s its locks and the room that it has found.
KeepsRequest(s) ==
    /\ \A k \in Kinds : pinLock[k] = s => /\ pinLock'[k] = s
                                         /\ \/ pinned'[k] = pinned[k]
                                            \/ k = "pin" /\ \E i \in Pinnable : workLock[i] # s /\ pinned'[k] = pinned[k] \ {i}
    /\ \A i \in Pinnable : workLock[i] = s => workLock'[i] = s /\ (i \in alive => i \in alive')

LEMMA RequestUndisturbed ==
    ASSUME PinsInv, NEW s \in Pinners, NEW x \in PinRequest, x = pinner[s],
           KeepsRequest(s)
    PROVE  HasLocks(s, x)' /\ HasRoom(x)'
<1>1. HasLocks(s, x) /\ HasRoom(x) /\ PinsTyped
  BY DEF PinsInv, RequestsFit
<1>2. HasLocks(s, x)'
  BY <1>1 DEF HasLocks, PinRequest, KeepsRequest
<1>3. HasRoom(x)'
  <2> SUFFICES ASSUME x.phase = "insert", x.room PROVE x.item \in pinned'[x.kind] \/ Cardinality(pinned'[x.kind]) < PinLimit
    BY DEF HasRoom
  <2>0. PICK k \in Kinds : k = x.kind
    BY DEF PinRequest
  <2>1. pinLock[k] = s /\ (k = "pin" => workLock[x.item] = s) /\ x.item \in Pinnable
    BY <1>1, <2>0 DEF HasLocks
  <2>2. x.item \in pinned[k] \/ Cardinality(pinned[k]) < PinLimit
    BY <1>1, <2>0 DEF HasRoom
  <2>3. CASE pinned'[k] = pinned[k]
    BY <2>0, <2>2, <2>3
  <2>4. ASSUME k = "pin", NEW i \in Pinnable, workLock[i] # s, pinned'[k] = pinned[k] \ {i}
        PROVE  x.item \in pinned'[k] \/ Cardinality(pinned'[k]) < PinLimit
    <3>1. x.item # i
      BY <2>1, <2>4
    <3>2. IsFiniteSet(pinned[k])
      BY <1>1, TagsAssumption, FS_Subset DEF PinsTyped
    <3>3. Cardinality(pinned'[k]) <= Cardinality(pinned[k]) /\ Cardinality(pinned'[k]) \in Nat /\ Cardinality(pinned[k]) \in Nat
      <4>1. pinned'[k] \subseteq pinned[k]
        BY <2>4
      <4>2. IsFiniteSet(pinned'[k])
        BY <3>2, <4>1, FS_Subset
      <4> QED BY <3>2, <4>1, <4>2, FS_Subset, FS_CardinalityType
    <3> QED BY <2>2, <2>4, <3>1, <3>3, TagsAssumption
  <2> QED BY <2>0, <2>1, <2>3, <2>4 DEF KeepsRequest
<1> QED BY <1>2, <1>3

LEMMA StartPinKeeps ==
    ASSUME PinsInv, NEW r \in Pinners, NEW k \in Kinds, NEW i \in Pinnable, StartPin(r, k, i)
    PROVE  PinsInv'
<1>0. PinsTyped /\ Unlocked \notin Pinners
  BY TagsAssumption DEF PinsInv
<1>1. PICK y \in PinRequest : y = [phase |-> "row", kind |-> k, item |-> i, room |-> FALSE]
  BY DEF PinRequest
<1>2. y.phase = "row" /\ y.kind = k /\ y.item = i
  BY <1>1
<1>3. /\ pinner[r].phase = "none" /\ pinLock[k] = Unlocked
      /\ pinLock' = [pinLock EXCEPT ![k] = r] /\ pinner' = [pinner EXCEPT ![r] = y]
      /\ UNCHANGED <<pinned, workLock, alive, toldPins>>
  BY <1>1 DEF StartPin
<1>4. pinner'[r] = y /\ \A s \in Pinners : s # r => pinner'[s] = pinner[s]
  BY <1>0, <1>3 DEF PinsTyped
<1>5. pinLock'[k] = r /\ \A l \in Kinds : l # k => pinLock'[l] = pinLock[l]
  BY <1>0, <1>3 DEF PinsTyped
<1>6. PinsTyped'
  BY <1>0, <1>3 DEF PinsTyped
<1>7. RequestsFit'
  <2> SUFFICES ASSUME NEW s \in Pinners, NEW x, x = pinner'[s] PROVE HasLocks(s, x)' /\ HasRoom(x)'
    BY DEF RequestsFit
  <2>1. CASE s = r
    <3>1. x = y
      BY <1>4, <2>1
    <3> QED BY <1>2, <1>5, <2>1, <3>1 DEF HasLocks, HasRoom
  <2>2. CASE s # r
    <3>1. x = pinner[s] /\ x \in PinRequest
      BY <1>0, <1>4, <2>2 DEF PinsTyped
    <3>2. \A l \in Kinds : pinLock[l] = s => pinLock'[l] = s /\ pinned'[l] = pinned[l]
      BY <1>0, <1>3, <1>5
    <3>3. KeepsRequest(s)
      BY <1>3, <3>2 DEF KeepsRequest
    <3> QED BY <3>1, <3>3, RequestUndisturbed
  <2> QED BY <2>1, <2>2
<1>8. PinLocksFit'
  <2> SUFFICES ASSUME NEW l \in Kinds, pinLock'[l] # Unlocked PROVE pinner'[pinLock'[l]].phase # "none"
    BY DEF PinLocksFit
  <2>1. CASE l = k
    BY <1>2, <1>4, <1>5, <2>1
  <2>2. CASE l # k
    <3>1. pinLock[l] # Unlocked /\ pinLock[l] \in Pinners /\ pinner[pinLock[l]].phase # "none"
      BY <1>0, <1>5, <2>2 DEF PinsTyped, PinsInv, PinLocksFit
    <3> QED BY <1>3, <1>4, <1>5, <2>2, <3>1
  <2> QED BY <2>1, <2>2
<1>9. PinnedFit' /\ FollowersFit'
  BY <1>3 DEF PinsInv, PinnedFit, FollowersFit
<1> QED BY <1>6, <1>7, <1>8, <1>9 DEF PinsInv

\* A request ends, and lets go of its locks.
LEMMA DoneEnds ==
    ASSUME PinsInv, NEW r \in Pinners, PinDone(r), alive' = alive, \A l \in Kinds : pinLock[l] # r => pinned'[l] = pinned[l]
    PROVE  /\ pinner' \in [Pinners -> PinRequest] /\ pinLock' \in [Kinds -> Pinners \cup {Unlocked}]
           /\ workLock' \in [Pinnable -> Pinners \cup {Unlocked}] /\ RequestsFit' /\ PinLocksFit'
<1>0. PinsTyped /\ Unlocked \notin Pinners
  BY TagsAssumption DEF PinsInv
<1>1. /\ pinner' = [pinner EXCEPT ![r] = NoPinner]
      /\ pinLock' = [k \in Kinds |-> IF pinLock[k] = r THEN Unlocked ELSE pinLock[k]]
      /\ workLock' = [i \in Pinnable |-> IF workLock[i] = r THEN Unlocked ELSE workLock[i]]
  BY DEF PinDone
<1>2. pinner' \in [Pinners -> PinRequest]
  BY <1>0, <1>1, NoRequest DEF PinsTyped
<1>3. pinLock' \in [Kinds -> Pinners \cup {Unlocked}] /\ workLock' \in [Pinnable -> Pinners \cup {Unlocked}]
  BY <1>0, <1>1 DEF PinsTyped
<1>4. pinner'[r] = NoPinner /\ \A s \in Pinners : s # r => pinner'[s] = pinner[s]
  BY <1>0, <1>1 DEF PinsTyped
<1>5. \A k \in Kinds : pinLock'[k] = IF pinLock[k] = r THEN Unlocked ELSE pinLock[k]
  BY <1>1
<1>6. \A i \in Pinnable : workLock'[i] = IF workLock[i] = r THEN Unlocked ELSE workLock[i]
  BY <1>1
<1>7. RequestsFit'
  <2> SUFFICES ASSUME NEW s \in Pinners, NEW x, x = pinner'[s] PROVE HasLocks(s, x)' /\ HasRoom(x)'
    BY DEF RequestsFit
  <2>1. CASE s = r
    BY <1>4, <2>1, NoRequest DEF HasLocks, HasRoom
  <2>2. CASE s # r
    <3>1. x = pinner[s] /\ x \in PinRequest
      BY <1>0, <1>4, <2>2 DEF PinsTyped
    <3>2. \A l \in Kinds : pinLock[l] = s => pinLock'[l] = s /\ pinned'[l] = pinned[l]
      BY <1>5, <2>2
    <3>3. \A i \in Pinnable : workLock[i] = s => workLock'[i] = s /\ (i \in alive => i \in alive')
      BY <1>6, <2>2
    <3>4. KeepsRequest(s)
      BY <3>2, <3>3 DEF KeepsRequest
    <3> QED BY <3>1, <3>4, RequestUndisturbed
  <2> QED BY <2>1, <2>2
<1>8. PinLocksFit'
  <2> SUFFICES ASSUME NEW l \in Kinds, pinLock'[l] # Unlocked PROVE pinner'[pinLock'[l]].phase # "none"
    BY DEF PinLocksFit
  <2>1. pinLock[l] # r /\ pinLock'[l] = pinLock[l] /\ pinLock[l] \in Pinners
    BY <1>0, <1>5 DEF PinsTyped
  <2>2. pinner[pinLock[l]].phase # "none"
    BY <2>1 DEF PinsInv, PinLocksFit
  <2> QED BY <1>4, <2>1, <2>2
<1> QED BY <1>2, <1>3, <1>7, <1>8

LEMMA DoneKeeps ==
    ASSUME PinsInv, NEW r \in Pinners, PinDone(r), UNCHANGED <<alive, pinned, toldPins>>
    PROVE  PinsInv'
<1>1. /\ pinner' \in [Pinners -> PinRequest] /\ pinLock' \in [Kinds -> Pinners \cup {Unlocked}]
      /\ workLock' \in [Pinnable -> Pinners \cup {Unlocked}] /\ RequestsFit' /\ PinLocksFit'
  BY DoneEnds
<1>2. PinsTyped'
  BY <1>1 DEF PinsInv, PinsTyped
<1>3. PinnedFit' /\ FollowersFit'
  BY DEF PinsInv, PinnedFit, FollowersFit
<1> QED BY <1>1, <1>2, <1>3 DEF PinsInv

\* A request goes on, and changes nothing that others have locked.
LEMMA GoesOnKeeps ==
    ASSUME PinsInv, NEW r \in Pinners, NEW y \in PinRequest, pinner[r].phase # "none", y.phase # "none",
           pinner' = [pinner EXCEPT ![r] = y], UNCHANGED <<pinned, pinLock, alive, toldPins>>,
           workLock' \in [Pinnable -> Pinners \cup {Unlocked}], \A i \in Pinnable : workLock[i] # Unlocked => workLock'[i] = workLock[i],
           HasLocks(r, y)', HasRoom(y)
    PROVE  PinsInv'
<1>0. PinsTyped /\ Unlocked \notin Pinners
  BY TagsAssumption DEF PinsInv
<1>1. pinner'[r] = y /\ \A s \in Pinners : s # r => pinner'[s] = pinner[s]
  BY <1>0 DEF PinsTyped
<1>2. PinsTyped'
  BY <1>0 DEF PinsTyped
<1>3. RequestsFit'
  <2> SUFFICES ASSUME NEW s \in Pinners, NEW x, x = pinner'[s] PROVE HasLocks(s, x)' /\ HasRoom(x)'
    BY DEF RequestsFit
  <2>1. CASE s = r
    <3>1. x = y
      BY <1>1, <2>1
    <3> QED BY <2>1, <3>1 DEF HasRoom
  <2>2. CASE s # r
    <3>1. x = pinner[s] /\ x \in PinRequest
      BY <1>0, <1>1, <2>2 DEF PinsTyped
    <3>2. KeepsRequest(s)
      BY <1>0 DEF KeepsRequest
    <3> QED BY <3>1, <3>2, RequestUndisturbed
  <2> QED BY <2>1, <2>2
<1>4. PinLocksFit'
  <2> SUFFICES ASSUME NEW l \in Kinds, pinLock[l] # Unlocked PROVE pinner'[pinLock[l]].phase # "none"
    BY DEF PinLocksFit
  <2>1. pinLock[l] \in Pinners /\ pinner[pinLock[l]].phase # "none"
    BY <1>0 DEF PinsTyped, PinsInv, PinLocksFit
  <2> QED BY <1>1, <2>1
<1>5. PinnedFit' /\ FollowersFit'
  BY DEF PinsInv, PinnedFit, FollowersFit
<1> QED BY <1>2, <1>3, <1>4, <1>5 DEF PinsInv

LEMMA LockPinnedKeeps == ASSUME PinsInv, NEW r \in Pinners, LockPinned(r) PROVE PinsInv'
<1>0. PinsTyped /\ Unlocked \notin Pinners
  BY TagsAssumption DEF PinsInv
<1>1. PICK x \in PinRequest : x = pinner[r]
  BY <1>0 DEF PinsTyped
<1>2. x.phase = "row" /\ (x.kind = "pin" => workLock[x.item] = Unlocked) /\ UNCHANGED <<pinned, alive, toldPins>>
  BY <1>1 DEF LockPinned
<1>3. HasLocks(r, x)
  BY <1>1 DEF PinsInv, RequestsFit
<1>4. x.item \in Pinnable /\ pinLock[x.kind] = r /\ x.kind \in Kinds
  BY <1>2, <1>3 DEF HasLocks, PinRequest
<1>5. CASE x.kind = "tag" \/ x.item \in alive
  <2>1. /\ workLock' = (IF x.kind = "pin" THEN [workLock EXCEPT ![x.item] = r] ELSE workLock)
        /\ pinner' = [pinner EXCEPT ![r].phase = "count"] /\ pinLock' = pinLock
    BY <1>1, <1>5 DEF LockPinned
  <2>2. PICK y : y = [x EXCEPT !.phase = "count"]
    OBVIOUS
  <2>3. y \in PinRequest /\ y.phase = "count" /\ y.kind = x.kind /\ y.item = x.item
    BY <2>2 DEF PinRequest
  <2>4. pinner' = [pinner EXCEPT ![r] = y]
    BY <1>0, <1>1, <2>1, <2>2 DEF PinsTyped
  <2>5. workLock' \in [Pinnable -> Pinners \cup {Unlocked}]
    BY <1>0, <2>1 DEF PinsTyped
  <2>6. \A i \in Pinnable : workLock[i] # Unlocked => workLock'[i] = workLock[i]
    BY <1>0, <1>2, <1>4, <2>1 DEF PinsTyped
  <2>7. y.kind = "pin" => workLock'[y.item] = r /\ y.item \in alive
    BY <1>0, <1>4, <1>5, <2>1, <2>3 DEF PinsTyped
  <2>8. HasLocks(r, y)'
    BY <1>2, <1>4, <2>1, <2>3, <2>7 DEF HasLocks
  <2>9. HasRoom(y)
    BY <2>3 DEF HasRoom
  <2>10. pinner[r].phase # "none" /\ y.phase # "none"
    BY <1>1, <1>2, <2>3
  <2> QED BY <1>2, <2>1, <2>3, <2>4, <2>5, <2>6, <2>8, <2>9, <2>10, GoesOnKeeps
<1>6. CASE ~ (x.kind = "tag" \/ x.item \in alive)
  <2>1. PinDone(r)
    BY <1>1, <1>6 DEF LockPinned
  <2> QED BY <1>2, <2>1, DoneKeeps
<1> QED BY <1>5, <1>6

LEMMA CountPinsKeeps == ASSUME PinsInv, NEW r \in Pinners, CountPins(r) PROVE PinsInv'
<1>0. PinsTyped /\ Unlocked \notin Pinners
  BY TagsAssumption DEF PinsInv
<1>1. PICK x \in PinRequest : x = pinner[r]
  BY <1>0 DEF PinsTyped
<1>2. x.phase = "count" /\ UNCHANGED <<pinned, pinLock, workLock, alive, toldPins>>
  BY <1>1 DEF CountPins
<1>3. HasLocks(r, x)
  BY <1>1 DEF PinsInv, RequestsFit
<1>4. PICK b \in BOOLEAN : b = (x.item \in pinned[x.kind] \/ Cardinality(pinned[x.kind]) < PinLimit)
  OBVIOUS
<1>5. pinner' = [pinner EXCEPT ![r].phase = "insert", ![r].room = b]
  BY <1>1, <1>4 DEF CountPins
<1>6. PICK y : y = [x EXCEPT !.phase = "insert", !.room = b]
  OBVIOUS
<1>7. y \in PinRequest /\ y.phase = "insert" /\ y.kind = x.kind /\ y.item = x.item /\ y.room = b
  BY <1>6 DEF PinRequest
<1>8. pinner' = [pinner EXCEPT ![r] = y]
  BY <1>0, <1>1, <1>5, <1>6 DEF PinsTyped
<1>9. HasLocks(r, y)'
  BY <1>2, <1>3, <1>7 DEF HasLocks
<1>10. HasRoom(y)
  BY <1>4, <1>7 DEF HasRoom
<1>11. workLock' \in [Pinnable -> Pinners \cup {Unlocked}] /\ \A i \in Pinnable : workLock[i] # Unlocked => workLock'[i] = workLock[i]
  BY <1>0, <1>2 DEF PinsTyped
<1>12. pinner[r].phase # "none" /\ y.phase # "none"
  BY <1>1, <1>2, <1>7
<1> QED BY <1>2, <1>7, <1>8, <1>9, <1>10, <1>11, <1>12, GoesOnKeeps

\* What a step that tells the followers makes of the collections.
LEMMA TellKeeps ==
    ASSUME PinsInv, NEW k \in Kinds, NEW i \in Pinnable, NEW op \in {"Add", "Remove"}, NEW new \in SUBSET Pinnable,
           pinned' = [pinned EXCEPT ![k] = new], Tell(op, k, i), alive' = alive, k = "pin" => i \in alive,
           i \in new <=> op = "Add", new \ {i} = pinned[k] \ {i}, Cardinality(new) <= PinLimit
    PROVE  pinned' \in [Kinds -> SUBSET Pinnable] /\ toldPins' \in Seq(Told) /\ PinnedFit' /\ FollowersFit'
<1>0. PinsTyped /\ PinnedFit /\ FollowersFit /\ toldPins \in Seq(Told)
  BY DEF PinsInv, PinsTyped
<1>1. PICK m \in Told : m = [op |-> op, kind |-> k, item |-> i]
  BY DEF Told
<1>2. m.op = op /\ m.kind = k /\ m.item = i
  BY <1>1
<1>3. toldPins' = More(toldPins, m)
  BY <1>1 DEF Tell, More
<1>4. pinned' \in [Kinds -> SUBSET Pinnable] /\ pinned'[k] = new /\ \A l \in Kinds : l # k => pinned'[l] = pinned[l]
  BY <1>0 DEF PinsTyped
<1>5. IsAbout(m, k, i) /\ (i \in new <=> m.op = "Add")
  BY <1>2 DEF IsAbout
<1>6. More(toldPins, m) \in Seq(Told) /\ ToldFits(More(toldPins, m), new, k, i)
  BY <1>0, <1>5, ToldNow
<1>7. PinnedFit'
  BY <1>0, <1>4 DEF PinnedFit, Kinds
<1>8. FollowersFit'
  <2> SUFFICES ASSUME NEW l \in Kinds, NEW j \in Pinnable, l = "pin" => j \in alive
               PROVE  ToldFits(More(toldPins, m), pinned'[l], l, j)
    BY <1>3 DEF FollowersFit
  <2>1. ToldFits(toldPins, pinned[l], l, j)
    BY <1>0 DEF FollowersFit
  <2>2. CASE l = k /\ j = i
    BY <1>4, <1>6, <2>2
  <2>3. CASE ~ (l = k /\ j = i)
    <3>1. ~ IsAbout(m, l, j)
      BY <1>2, <2>3 DEF IsAbout
    <3>2. j \in pinned'[l] <=> j \in pinned[l]
      BY <1>4, <2>3
    <3> QED BY <1>0, <2>1, <3>1, <3>2, ToldElse
  <2> QED BY <2>2, <2>3
<1> QED BY <1>3, <1>4, <1>6, <1>7, <1>8

LEMMA InsertPinKeeps == ASSUME PinsInv, NEW r \in Pinners, InsertPin(r) PROVE PinsInv'
<1>0. PinsTyped /\ Unlocked \notin Pinners /\ PinLimit \in Nat
  BY TagsAssumption DEF PinsInv
<1>1. PICK x \in PinRequest : x = pinner[r]
  BY <1>0 DEF PinsTyped
<1>2. x.phase = "insert" /\ PinDone(r) /\ alive' = alive
  BY <1>1 DEF InsertPin
<1>3. HasLocks(r, x) /\ HasRoom(x)
  BY <1>1 DEF PinsInv, RequestsFit
<1>4. PICK k \in Kinds, i \in Pinnable : k = x.kind /\ i = x.item
  BY <1>2, <1>3 DEF HasLocks, PinRequest
<1>5. pinLock[k] = r /\ (k = "pin" => i \in alive)
  BY <1>2, <1>3, <1>4 DEF HasLocks
<1>6. CASE x.room /\ i \notin pinned[k]
  <2>1. PICK new \in SUBSET Pinnable : new = pinned[k] \cup {i}
    BY <1>0 DEF PinsTyped
  <2>2. pinned' = [pinned EXCEPT ![k] = new] /\ Tell("Add", k, i)
    BY <1>1, <1>4, <1>6, <2>1 DEF InsertPin
  <2>3. Cardinality(pinned[k]) < PinLimit
    BY <1>2, <1>3, <1>4, <1>6 DEF HasRoom
  <2>4. Cardinality(new) <= PinLimit
    <3>1. IsFiniteSet(pinned[k])
      BY <1>0, TagsAssumption, FS_Subset DEF PinsTyped
    <3>2. Cardinality(new) = Cardinality(pinned[k]) + 1 /\ Cardinality(pinned[k]) \in Nat
      BY <1>6, <2>1, <3>1, FS_AddElement, FS_CardinalityType
    <3> QED BY <1>0, <2>3, <3>2
  <2>5. (i \in new <=> "Add" = "Add") /\ new \ {i} = pinned[k] \ {i}
    BY <2>1
  <2>6. pinned' \in [Kinds -> SUBSET Pinnable] /\ toldPins' \in Seq(Told) /\ PinnedFit' /\ FollowersFit'
    BY <1>2, <1>5, <2>2, <2>4, <2>5, TellKeeps
  <2>7. \A l \in Kinds : pinLock[l] # r => pinned'[l] = pinned[l]
    BY <1>0, <1>5, <2>2 DEF PinsTyped
  <2>8. /\ pinner' \in [Pinners -> PinRequest] /\ pinLock' \in [Kinds -> Pinners \cup {Unlocked}]
        /\ workLock' \in [Pinnable -> Pinners \cup {Unlocked}] /\ RequestsFit' /\ PinLocksFit'
    BY <1>2, <2>7, DoneEnds
  <2>9. PinsTyped'
    BY <1>0, <1>2, <2>6, <2>8 DEF PinsTyped
  <2> QED BY <2>6, <2>8, <2>9 DEF PinsInv
<1>7. CASE ~ (x.room /\ i \notin pinned[k])
  <2>1. UNCHANGED <<pinned, toldPins>>
    BY <1>1, <1>4, <1>7 DEF InsertPin
  <2> QED BY <1>2, <2>1, DoneKeeps
<1> QED BY <1>6, <1>7

LEMMA UnpinKeeps == ASSUME PinsInv, NEW k \in Kinds, NEW i \in Pinnable, Unpin(k, i) PROVE PinsInv'
<1>0. PinsTyped /\ Unlocked \notin Pinners /\ PinLimit \in Nat /\ PinnedFit
  BY TagsAssumption DEF PinsInv
<1>1. PICK new \in SUBSET Pinnable : new = pinned[k] \ {i}
  BY <1>0 DEF PinsTyped
<1>2. /\ pinLock[k] = Unlocked /\ (k = "pin" => i \in alive) /\ pinned' = [pinned EXCEPT ![k] = new] /\ Tell("Remove", k, i)
      /\ UNCHANGED <<pinLock, workLock, alive, pinner>>
  BY <1>0, <1>1 DEF Unpin, PinsTyped
<1>3. Cardinality(new) <= PinLimit
  <2>1. IsFiniteSet(pinned[k])
    BY <1>0, TagsAssumption, FS_Subset DEF PinsTyped
  <2>2. IsFiniteSet(new) /\ Cardinality(new) <= Cardinality(pinned[k]) /\ Cardinality(new) \in Nat /\ Cardinality(pinned[k]) \in Nat
    BY <1>1, <2>1, FS_Subset, FS_CardinalityType
  <2>3. Cardinality(pinned[k]) <= PinLimit
    BY <1>0 DEF PinnedFit
  <2> QED BY <1>0, <2>2, <2>3
<1>4. (i \in new <=> "Remove" = "Add") /\ new \ {i} = pinned[k] \ {i}
  BY <1>1
<1>5. pinned' \in [Kinds -> SUBSET Pinnable] /\ toldPins' \in Seq(Told) /\ PinnedFit' /\ FollowersFit'
  BY <1>2, <1>3, <1>4, TellKeeps
<1>6. PinsTyped'
  BY <1>0, <1>2, <1>5 DEF PinsTyped
<1>7. RequestsFit'
  <2> SUFFICES ASSUME NEW s \in Pinners, NEW x, x = pinner'[s] PROVE HasLocks(s, x)' /\ HasRoom(x)'
    BY DEF RequestsFit
  <2>1. x = pinner[s] /\ x \in PinRequest
    BY <1>0, <1>2 DEF PinsTyped
  <2>2. \A l \in Kinds : pinLock[l] = s => pinned'[l] = pinned[l]
    BY <1>0, <1>2 DEF PinsTyped
  <2>3. KeepsRequest(s)
    BY <1>2, <2>2 DEF KeepsRequest
  <2> QED BY <2>1, <2>3, RequestUndisturbed
<1>8. PinLocksFit'
  BY <1>2 DEF PinsInv, PinLocksFit
<1> QED BY <1>5, <1>6, <1>7, <1>8 DEF PinsInv

LEMMA DeletePinnedKeeps == ASSUME PinsInv, NEW i \in Pinnable, DeletePinned(i) PROVE PinsInv'
<1>0. PinsTyped /\ Unlocked \notin Pinners /\ PinLimit \in Nat /\ PinnedFit /\ FollowersFit /\ "pin" \in Kinds
  BY TagsAssumption DEF PinsInv, Kinds
<1>2. /\ workLock[i] = Unlocked /\ alive' = alive \ {i} /\ pinned' = [pinned EXCEPT !["pin"] = pinned["pin"] \ {i}]
      /\ UNCHANGED <<pinLock, workLock, pinner, toldPins>>
  BY <1>0 DEF DeletePinned, PinsTyped
<1>3. pinned'["pin"] = pinned["pin"] \ {i} /\ \A k \in Kinds : k # "pin" => pinned'[k] = pinned[k]
  BY <1>0, <1>2 DEF PinsTyped
<1>4. PinsTyped'
  BY <1>0, <1>2 DEF PinsTyped
<1>5. PinnedFit'
  <2>1. IsFiniteSet(pinned["pin"])
    BY <1>0, TagsAssumption, FS_Subset DEF PinsTyped
  <2>2. IsFiniteSet(pinned'["pin"]) /\ Cardinality(pinned'["pin"]) <= Cardinality(pinned["pin"])
    BY <1>3, <2>1, FS_Subset
  <2>3. Cardinality(pinned'["pin"]) \in Nat /\ Cardinality(pinned["pin"]) \in Nat
    BY <2>1, <2>2, FS_CardinalityType
  <2>4. Cardinality(pinned["pin"]) <= PinLimit /\ pinned["pin"] \subseteq alive
    BY <1>0 DEF PinnedFit
  <2>5. Cardinality(pinned'["pin"]) <= PinLimit
    BY <1>0, <2>2, <2>3, <2>4
  <2> QED BY <1>0, <1>2, <1>3, <2>4, <2>5 DEF PinnedFit
<1>6. FollowersFit'
  <2> SUFFICES ASSUME NEW l \in Kinds, NEW j \in Pinnable, l = "pin" => j \in alive'
               PROVE  ToldFits(toldPins, pinned'[l], l, j)
    BY <1>2 DEF FollowersFit
  <2>1. ToldFits(toldPins, pinned[l], l, j)
    BY <1>0, <1>2 DEF FollowersFit
  <2>2. j \in pinned'[l] <=> j \in pinned[l]
    BY <1>2, <1>3
  <2> QED BY <2>1, <2>2 DEF ToldFits
<1>7. RequestsFit'
  <2> SUFFICES ASSUME NEW s \in Pinners, NEW x, x = pinner'[s] PROVE HasLocks(s, x)' /\ HasRoom(x)'
    BY DEF RequestsFit
  <2>1. x = pinner[s] /\ x \in PinRequest
    BY <1>0, <1>2 DEF PinsTyped
  <2>2. workLock[i] # s
    BY <1>0, <1>2
  <2>3. KeepsRequest(s)
    BY <1>2, <1>3, <2>2 DEF KeepsRequest
  <2> QED BY <2>1, <2>3, RequestUndisturbed
<1>8. PinLocksFit'
  BY <1>2 DEF PinsInv, PinLocksFit
<1> QED BY <1>4, <1>5, <1>6, <1>7, <1>8 DEF PinsInv

LEMMA PinsSame == ASSUME PinsInv, UNCHANGED <<pinned, pinLock, workLock, alive, pinner, toldPins>> PROVE PinsInv'
<1>1. PinsTyped' /\ PinLocksFit' /\ PinnedFit' /\ FollowersFit'
  BY DEF PinsInv, PinsTyped, PinLocksFit, PinnedFit, FollowersFit
<1>2. RequestsFit'
  BY DEF PinsInv, RequestsFit, HasLocks, HasRoom
<1> QED BY <1>1, <1>2 DEF PinsInv

(* The collections of a remote actor *)

PinActivity == [op : {"Add", "Remove"}, item : Pinnable]
Refresh == [kind : Kinds, busy : BOOLEAN, items : SUBSET Pinnable]
CachesInv ==
    /\ theirPins \in SUBSET Pinnable /\ pinMail \subseteq PinActivity
    /\ pinCache \in Seq(Pinnable) /\ Len(pinCache) <= PinLimit
    /\ pinFetch \in Refresh /\ Cardinality(pinFetch.items) <= PinLimit

LEMMA TrimmedFits == ASSUME NEW q \in Seq(Pinnable) PROVE Trimmed(q) \in Seq(Pinnable) /\ Len(Trimmed(q)) <= PinLimit
<1>0. PinLimit \in Nat
  BY TagsAssumption
<1>1. PICK n \in Nat : n = IF Len(q) < PinLimit THEN Len(q) ELSE PinLimit
  BY <1>0
<1>2. n <= Len(q) /\ n <= PinLimit
  BY <1>0, <1>1
<1>3. Trimmed(q) = SubSeq(q, 1, n)
  BY <1>1 DEF Trimmed
<1>4. SubSeq(q, 1, n) \in Seq(Pinnable) /\ Len(SubSeq(q, 1, n)) = n
  BY <1>2
<1> QED BY <1>2, <1>3, <1>4

LEMMA RemoveFirstFits ==
    ASSUME NEW q \in Seq(Pinnable), NEW i
    PROVE  RemoveFirst(q, i) \in Seq(Pinnable) /\ Len(RemoveFirst(q, i)) <= Len(q)
<1> DEFINE At == {j \in 1..Len(q) : q[j] = i}
<1>1. CASE ~ \E j \in 1..Len(q) : q[j] = i
  BY <1>1 DEF RemoveFirst
<1>2. CASE \E j \in 1..Len(q) : q[j] = i
  <2>1. RemoveFirst(q, i) = RemoveAt(q, Min(At)) /\ At # {}
    BY <1>2 DEF RemoveFirst, SelectInSeq
  <2>2. At \in SUBSET Nat /\ At \in SUBSET (1..Len(q))
    OBVIOUS
  <2> HIDE DEF At
  <2>3. PICK x \in At : \A y \in At : x <= y
    BY <2>1, <2>2, LeastNumber
  <2>4. Min(At) \in At
    BY <2>3 DEF Min
  <2>5. PICK p \in 1..Len(q) : p = Min(At)
    BY <2>2, <2>4
  <2>6. PICK n \in Nat : n = Len(q) /\ p \in 1..n
    BY <2>5
  <2>7. SubSeq(q, 1, p - 1) \in Seq(Pinnable) /\ Len(SubSeq(q, 1, p - 1)) = p - 1
    BY <2>6
  <2>8. SubSeq(q, p + 1, n) \in Seq(Pinnable) /\ Len(SubSeq(q, p + 1, n)) = n - p
    BY <2>6
  <2>9. PICK s \in Seq(Pinnable), t \in Seq(Pinnable) : s = SubSeq(q, 1, p - 1) /\ t = SubSeq(q, p + 1, n)
    BY <2>7, <2>8
  <2>10. RemoveFirst(q, i) = s \o t
    BY <2>1, <2>5, <2>6, <2>9 DEF RemoveAt
  <2>11. s \o t \in Seq(Pinnable) /\ Len(s \o t) = Len(s) + Len(t)
    OBVIOUS
  <2>12. Len(s) = p - 1 /\ Len(t) = n - p
    BY <2>7, <2>8, <2>9
  <2>13. Len(s \o t) <= n
    BY <2>6, <2>11, <2>12
  <2> QED BY <2>6, <2>10, <2>11, <2>13
<1> QED BY <1>1, <1>2

LEMMA FeaturedActivityKeeps == ASSUME CachesInv, NEW m \in pinMail, FeaturedActivity(m) PROVE CachesInv'
<1>0. m \in PinActivity /\ m.item \in Pinnable /\ pinCache \in Seq(Pinnable) /\ Len(pinCache) <= PinLimit /\ PinLimit \in Nat
  BY TagsAssumption DEF CachesInv, PinActivity
<1>1. PICK i \in Pinnable : i = m.item
  BY <1>0
<1>2. PICK q \in Seq(Pinnable) : q = RemoveFirst(pinCache, i) /\ Len(q) <= Len(pinCache)
  BY <1>0, RemoveFirstFits
<1>3. <<i>> \o q \in Seq(Pinnable) /\ <<i>> \o pinCache \in Seq(Pinnable)
  BY <1>0
<1>4. Len(q) <= PinLimit
  BY <1>0, <1>2
<1>5. pinCache' \in {q, Trimmed(pinCache), Trimmed(<<i>> \o pinCache), Trimmed(<<i>> \o q)}
  <2>1. CASE ApplyPinActivity(m)
    BY <1>1, <1>2, <2>1 DEF ApplyPinActivity
  <2>2. CASE ApplyTagActivity(m)
    BY <1>1, <1>2, <2>2 DEF ApplyTagActivity
  <2> QED BY <2>1, <2>2 DEF FeaturedActivity
<1>6. pinCache' \in Seq(Pinnable) /\ Len(pinCache') <= PinLimit
  <2>1. Trimmed(pinCache) \in Seq(Pinnable) /\ Len(Trimmed(pinCache)) <= PinLimit
    BY <1>0, TrimmedFits
  <2>2. Trimmed(<<i>> \o pinCache) \in Seq(Pinnable) /\ Len(Trimmed(<<i>> \o pinCache)) <= PinLimit
    BY <1>3, TrimmedFits
  <2>3. Trimmed(<<i>> \o q) \in Seq(Pinnable) /\ Len(Trimmed(<<i>> \o q)) <= PinLimit
    BY <1>3, TrimmedFits
  <2> QED BY <1>4, <1>5, <2>1, <2>2, <2>3, Zenon
<1>7. pinMail' \subseteq pinMail /\ theirPins' = theirPins /\ pinFetch' = pinFetch
  BY DEF FeaturedActivity, ApplyPinActivity, ApplyTagActivity
<1> QED BY <1>6, <1>7 DEF CachesInv

LEMMA TheyChangeKeeps == ASSUME CachesInv, NEW i \in Pinnable, TheyPin(i) \/ TheyUnpin(i) PROVE CachesInv'
<1>1. theirPins' \in SUBSET Pinnable /\ pinCache' = pinCache /\ pinFetch' = pinFetch
  BY DEF CachesInv, TheyPin, TheyUnpin
<1>2. [op |-> "Add", item |-> i] \in PinActivity /\ [op |-> "Remove", item |-> i] \in PinActivity
  BY DEF PinActivity
<1>3. pinMail' \subseteq PinActivity
  BY <1>2 DEF CachesInv, TheyPin, TheyUnpin
<1> QED BY <1>1, <1>3 DEF CachesInv

LEMMA FetchKeeps == ASSUME CachesInv, FetchCollection PROVE CachesInv'
<1>0. PinLimit \in Nat /\ IsFiniteSet(Pinnable) /\ theirPins \in SUBSET Pinnable /\ pinFetch \in Refresh
  BY TagsAssumption DEF CachesInv
<1>1. PICK items \in SUBSET theirPins :
         /\ Cardinality(items) = (IF Cardinality(theirPins) < PinLimit THEN Cardinality(theirPins) ELSE PinLimit)
         /\ pinFetch' = [pinFetch EXCEPT !.busy = TRUE, !.items = items]
  BY DEF FetchCollection
<1>2. Cardinality(theirPins) \in Nat
  BY <1>0, FS_Subset, FS_CardinalityType
<1>3. Cardinality(items) <= PinLimit
  BY <1>0, <1>1, <1>2
<1>4. pinFetch' \in Refresh /\ pinFetch'.items = items
  BY <1>0, <1>1 DEF Refresh
<1>5. UNCHANGED <<theirPins, pinCache, pinMail>>
  BY DEF FetchCollection
<1> QED BY <1>3, <1>4, <1>5 DEF CachesInv

LEMMA ReplaceKeeps == ASSUME CachesInv, ReplaceCollection PROVE CachesInv'
<1>0. PinLimit \in Nat /\ IsFiniteSet(Pinnable) /\ pinFetch \in Refresh /\ Cardinality(pinFetch.items) <= PinLimit
  BY TagsAssumption DEF CachesInv
<1>1. PICK s \in SUBSET Pinnable : s = pinFetch.items
  BY <1>0 DEF Refresh
<1>2. PICK n \in Nat : n = Cardinality(s)
  BY <1>0, FS_Subset, FS_CardinalityType
<1>3. PICK q \in [1..n -> s] : pinCache' = q
  BY <1>1, <1>2 DEF ReplaceCollection, SetToSeqs
<1>4. q \in Seq(Pinnable) /\ Len(q) = n
  BY <1>3
<1>5. pinFetch' \in Refresh /\ pinFetch'.items = {}
  BY <1>0 DEF ReplaceCollection, Refresh
<1>6. Cardinality({}) = 0
  BY FS_EmptySet
<1>7. theirPins' = theirPins /\ pinMail' = pinMail
  BY DEF ReplaceCollection
<1>8. Len(q) <= PinLimit /\ Cardinality(pinFetch'.items) <= PinLimit
  BY <1>0, <1>1, <1>2, <1>4, <1>5, <1>6
<1> QED BY <1>3, <1>4, <1>5, <1>7, <1>8 DEF CachesInv

LEMMA CachesSame == ASSUME CachesInv, UNCHANGED <<theirPins, pinCache, pinMail, pinFetch>> PROVE CachesInv'
BY DEF CachesInv

TagsInv == UsageInv /\ PinsInv /\ CachesInv

LEMMA TagsStart == TagsInit => TagsInv
<1> SUFFICES ASSUME TagsInit PROVE TagsInv
  OBVIOUS
<1>1. /\ author \in [Works -> Authors] /\ tagged = [w \in Works |-> {}]
      /\ actorUses = [t \in TagIds |-> [a \in Authors |-> 0]] /\ usage = [t \in TagIds |-> NoUsage]
      /\ usageLock = [t \in TagIds |-> Unlocked] /\ marked = {} /\ writing = [w \in Works |-> NotWriting]
      /\ scoring = NotScoring /\ tagTrend = [t \in TagIds |-> [peak |-> 0, at |-> 1]]
  BY DEF TagsInit
<1>2. PICK zero \in [Authors -> Nat] : zero = [a \in Authors |-> 0]
  OBVIOUS
<1>3. SumOf(zero) = NoUsage
  BY <1>2, NothingUsed
<1>4. UsageTyped
  <2>1. actorUses \in [TagIds -> [Authors -> Nat]]
    BY <1>1, <1>2
  <2>2. usage \in [TagIds -> UsageRow]
    BY <1>1, NoUsageIsARow
  <2>3. writing \in [Works -> Writer] /\ scoring \in Scorer
    BY <1>1, Idle
  <2> QED BY <1>1, <2>1, <2>2, <2>3 DEF UsageTyped
<1>5. UsageFits
  <2> SUFFICES ASSUME NEW t \in TagIds PROVE actorUses[t] = CountedUses(t) /\ usage[t] = SumOf(actorUses[t])
    BY DEF UsageFits
  <2>1. \A a \in Authors : {w \in Works : author[w] = a /\ t \in tagged[w]} = {}
    BY <1>1
  <2>2. Cardinality({}) = 0
    BY FS_EmptySet
  <2>3. CountedUses(t) = [a \in Authors |-> 0]
    BY <2>1, <2>2 DEF CountedUses
  <2> QED BY <1>1, <1>2, <1>3, <2>3
<1>6. TaggersFit
  BY <1>1, Idle DEF TaggersFit, TaggerFits
<1>7. ScoringFits
  <2>1. ToSet(<<>>) = {}
    BY DEF ToSet
  <2> QED BY <1>1, <2>1, Idle DEF ScoringFits, ScorerFits
<1>8. UsageLocksFit
  BY <1>1, TagsAssumption DEF UsageLocksFit
<1>9. TrendsFit
  BY <1>1 DEF TrendsFit
<1>10. PinsInv
  <2>0. Unlocked \notin Pinners /\ PinLimit \in Nat /\ Cardinality({}) = 0
    BY TagsAssumption, FS_EmptySet
  <2>1. /\ pinned = [k \in Kinds |-> {}] /\ pinLock = [k \in Kinds |-> Unlocked]
        /\ workLock = [i \in Pinnable |-> Unlocked] /\ alive = Pinnable /\ pinner = [r \in Pinners |-> NoPinner] /\ toldPins = <<>>
    BY DEF TagsInit
  <2>2. PinsTyped
    <3>1. <<>> \in Seq(Told)
      OBVIOUS
    <3> QED BY <2>1, <3>1, NoRequest DEF PinsTyped
  <2>3. RequestsFit
    BY <2>1, NoRequest DEF RequestsFit, HasLocks, HasRoom
  <2>4. PinLocksFit
    BY <2>1 DEF PinLocksFit
  <2>5. PinnedFit
    BY <2>0, <2>1 DEF PinnedFit, Kinds
  <2>6. FollowersFit
    BY <2>1, NoneTold DEF FollowersFit, ToldFits
  <2> QED BY <2>2, <2>3, <2>4, <2>5, <2>6 DEF PinsInv
<1>11. CachesInv
  <2>1. theirPins = {} /\ pinCache = <<>> /\ pinMail = {} /\ \E k \in Kinds : pinFetch = [kind |-> k, busy |-> FALSE, items |-> {}]
    BY DEF TagsInit
  <2>2. pinFetch \in Refresh /\ pinFetch.items = {}
    BY <2>1 DEF Refresh
  <2>3. PinLimit \in Nat /\ Cardinality({}) = 0
    BY TagsAssumption, FS_EmptySet
  <2>4. pinCache \in Seq(Pinnable) /\ Len(pinCache) = 0
    BY <2>1
  <2> QED BY <2>1, <2>2, <2>3, <2>4 DEF CachesInv
<1> QED BY <1>4, <1>5, <1>6, <1>7, <1>8, <1>9, <1>10, <1>11 DEF TagsInv, UsageInv

LEMMA TagUsageStep == ASSUME TagsInv, TagUsageNext PROVE TagsInv'
<1>1. UsageInv /\ PinsInv /\ CachesInv
  BY DEF TagsInv
<1>2. UNCHANGED pin_vars
  <2>1. ASSUME NEW w \in Works, NEW new, StartWriting(w, new) PROVE UNCHANGED pin_vars
    BY <2>1 DEF StartWriting
  <2>2. ASSUME NEW w \in Works, LockUsage(w) \/ SumUsage(w) \/ StoreUsage(w) \/ MarkTag(w) \/ CommitWriting(w) \/ RollbackWriting(w)
        PROVE  UNCHANGED pin_vars
    BY <2>2 DEF LockUsage, SumUsage, StoreUsage, MarkTag, CommitWriting, RollbackWriting
  <2>3. CASE ClaimTags \/ SumTag \/ StoreTag \/ CommitScoring \/ RollbackScoring \/ NextDay
    BY <2>3 DEF ClaimTags, SumTag, StoreTag, CommitScoring, RollbackScoring, NextDay
  <2> QED BY <2>1, <2>2, <2>3 DEF TagUsageNext, TagNewStatus, RetagStatus, UntagDeleted
<1>3. PinsInv' /\ CachesInv'
  <2>1. UNCHANGED <<pinned, pinLock, workLock, alive, pinner, toldPins>> /\ UNCHANGED <<theirPins, pinCache, pinMail, pinFetch>>
    BY <1>2 DEF pin_vars
  <2> QED BY <1>1, <2>1, PinsSame, CachesSame
<1>4. UsageInv'
  <2>1. ASSUME NEW w \in Works, NEW new \in SUBSET TagIds, StartWriting(w, new) PROVE UsageInv'
    BY <1>1, <2>1, StartWritingKeeps
  <2>2. ASSUME NEW w \in Works, LockUsage(w) PROVE UsageInv'
    BY <1>1, <2>2, LockUsageKeeps
  <2>3. ASSUME NEW w \in Works, SumUsage(w) PROVE UsageInv'
    BY <1>1, <2>3, SumUsageKeeps
  <2>4. ASSUME NEW w \in Works, StoreUsage(w) PROVE UsageInv'
    BY <1>1, <2>4, StoreUsageKeeps
  <2>5. ASSUME NEW w \in Works, MarkTag(w) PROVE UsageInv'
    BY <1>1, <2>5, MarkTagKeeps
  <2>6. ASSUME NEW w \in Works, CommitWriting(w) PROVE UsageInv'
    BY <1>1, <2>6, CommitWritingKeeps
  <2>7. ASSUME NEW w \in Works, RollbackWriting(w) PROVE UsageInv'
    BY <1>1, <2>7, RollbackWritingKeeps
  <2>8. CASE ClaimTags
    BY <1>1, <2>8, ClaimTagsKeeps
  <2>9. CASE SumTag
    BY <1>1, <2>9, SumTagKeeps
  <2>10. CASE StoreTag
    BY <1>1, <2>10, StoreTagKeeps
  <2>11. CASE CommitScoring
    BY <1>1, <2>11, CommitScoringKeeps
  <2>12. CASE RollbackScoring
    BY <1>1, <2>12, RollbackScoringKeeps
  <2>13. CASE NextDay
    BY <1>1, <2>13, UsageSame DEF NextDay
  <2>14. {} \in SUBSET TagIds
    OBVIOUS
  <2> QED BY <2>1, <2>2, <2>3, <2>4, <2>5, <2>6, <2>7, <2>8, <2>9, <2>10, <2>11, <2>12, <2>13, <2>14
          DEF TagUsageNext, TagNewStatus, RetagStatus, UntagDeleted
<1> QED BY <1>3, <1>4 DEF TagsInv

LEMMA PinsStep == ASSUME TagsInv, PinsNext PROVE TagsInv'
<1>1. UsageInv /\ PinsInv /\ CachesInv
  BY DEF TagsInv
<1>2. UNCHANGED usage_vars /\ UNCHANGED <<theirPins, pinCache, pinMail, pinFetch>>
  BY DEF PinsNext, PinStatus, FeatureTag, StartPin, LockPinned, CountPins, InsertPin, DeletePinned, UnpinStatus, UnfeatureTag, Unpin
<1>3. UsageInv'
  BY <1>1, <1>2, UsageSame DEF usage_vars
<1>4. CachesInv'
  BY <1>1, <1>2, CachesSame
<1>5. PinsInv'
  <2>0. "pin" \in Kinds /\ "tag" \in Kinds
    BY DEF Kinds
  <2>1. ASSUME NEW r \in Pinners, NEW k \in Kinds, NEW i \in Pinnable, StartPin(r, k, i) PROVE PinsInv'
    BY <1>1, <2>1, StartPinKeeps
  <2>2. ASSUME NEW r \in Pinners, LockPinned(r) PROVE PinsInv'
    BY <1>1, <2>2, LockPinnedKeeps
  <2>3. ASSUME NEW r \in Pinners, CountPins(r) PROVE PinsInv'
    BY <1>1, <2>3, CountPinsKeeps
  <2>4. ASSUME NEW r \in Pinners, InsertPin(r) PROVE PinsInv'
    BY <1>1, <2>4, InsertPinKeeps
  <2>5. ASSUME NEW i \in Pinnable, DeletePinned(i) PROVE PinsInv'
    BY <1>1, <2>5, DeletePinnedKeeps
  <2>6. ASSUME NEW k \in Kinds, NEW i \in Pinnable, Unpin(k, i) PROVE PinsInv'
    BY <1>1, <2>6, UnpinKeeps
  <2> QED BY <2>0, <2>1, <2>2, <2>3, <2>4, <2>5, <2>6 DEF PinsNext, PinStatus, FeatureTag, UnpinStatus, UnfeatureTag
<1> QED BY <1>3, <1>4, <1>5 DEF TagsInv

LEMMA CollectionsStep == ASSUME TagsInv, CollectionsNext PROVE TagsInv'
<1>1. UsageInv /\ PinsInv /\ CachesInv
  BY DEF TagsInv
<1>2. UNCHANGED usage_vars /\ UNCHANGED <<pinned, pinLock, workLock, alive, pinner, toldPins>>
  BY DEF CollectionsNext, TheyPin, TheyUnpin, FeaturedActivity, ApplyPinActivity, ApplyTagActivity,
         RefreshFeatured, RefreshFeaturedTags, FetchCollection, ReplacePins, ReplaceFeaturedTags, ReplaceCollection
<1>3. UsageInv'
  BY <1>1, <1>2, UsageSame DEF usage_vars
<1>4. PinsInv'
  BY <1>1, <1>2, PinsSame
<1>5. CachesInv'
  <2>1. ASSUME NEW i \in Pinnable, TheyPin(i) \/ TheyUnpin(i) PROVE CachesInv'
    BY <1>1, <2>1, TheyChangeKeeps
  <2>2. ASSUME NEW m \in pinMail, FeaturedActivity(m) PROVE CachesInv'
    BY <1>1, <2>2, FeaturedActivityKeeps
  <2>3. CASE FetchCollection
    BY <1>1, <2>3, FetchKeeps
  <2>4. CASE ReplaceCollection
    BY <1>1, <2>4, ReplaceKeeps
  <2> QED BY <2>1, <2>2, <2>3, <2>4 DEF CollectionsNext, RefreshFeatured, RefreshFeaturedTags, ReplacePins, ReplaceFeaturedTags
<1> QED BY <1>3, <1>4, <1>5 DEF TagsInv

LEMMA TagsInvIsEnough == TagsInv => TagsSafe
<1> SUFFICES ASSUME TagsInv PROVE TagsSafe
  OBVIOUS
<1>1. TagsTypeOK
  BY DEF TagsInv, UsageInv, UsageTyped, UsageLocksFit, PinsInv, PinsTyped, PinLocksFit, TagsTypeOK
<1>2. UsageIsTrue
  <2>1. UsageFits /\ TrendsFit
    BY DEF TagsInv, UsageInv
  <2> QED BY <2>1 DEF UsageFits, TrendsFit, CountedUses, UsageIsTrue
<1>3. PinsAreTrue
  <2>1. PinnedFit /\ FollowersFit /\ Len(pinCache) <= PinLimit
    BY DEF TagsInv, PinsInv, CachesInv
  <2>2. \A k \in Kinds, i \in Pinnable : LastTold(k, i) = LastOf(toldPins, k, i)
    BY DEF LastTold, LastOf
  <2> QED BY <2>1, <2>2 DEF PinnedFit, FollowersFit, ToldFits, PinsAreTrue
<1> QED BY <1>1, <1>2, <1>3 DEF TagsSafe

\* Whatever transactions of statuses and the refresh of trends interleave, are
\* rolled back or commit, and whatever requests to pin race, the daily usage of
\* a tag is that of the statuses whenever its row is free, a tag without a use
\* that still trends will be scored again, and no account has more pins or
\* featured tags than the limit, none of a deleted status, and none that its
\* followers were not told of last; the caches of remote collections are
\* within their bound.
THEOREM TagsAreSafe == TagsSpec => []TagsSafe
<1>1. TagsInit => TagsInv
  BY TagsStart
<1>2. TagsInv /\ [TagUsageNext \/ PinsNext \/ CollectionsNext]_<<usage_vars, pin_vars>> => TagsInv'
  <2> SUFFICES ASSUME TagsInv, [TagUsageNext \/ PinsNext \/ CollectionsNext]_<<usage_vars, pin_vars>> PROVE TagsInv'
    OBVIOUS
  <2>1. CASE TagUsageNext
    BY <2>1, TagUsageStep
  <2>2. CASE PinsNext
    BY <2>2, PinsStep
  <2>3. CASE CollectionsNext
    BY <2>3, CollectionsStep
  <2>4. CASE UNCHANGED <<usage_vars, pin_vars>>
    BY <2>4, UsageSame, PinsSame, CachesSame DEF TagsInv, usage_vars, pin_vars
  <2> QED BY <2>1, <2>2, <2>3, <2>4
<1>3. TagsInv => TagsSafe
  BY TagsInvIsEnough
<1> QED BY <1>1, <1>2, <1>3, PTL DEF TagsSpec
=============================================================================
