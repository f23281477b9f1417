----------------------------- MODULE Signatures -----------------------------
(***************************************************************************)
(* What a signature stands for: legacy HTTP signatures, RFC 9421 message    *)
(* signatures and the integrity proofs of forwarded activities.  A message  *)
(* is signed, parts of it change and time passes on its way, and the server *)
(* verifies what arrives with the key whose id it names.  Bytes, hashes and *)
(* header syntax are left out: a signature fails exactly when a part its    *)
(* base is built from has changed.                                          *)
(***************************************************************************)
EXTENDS Naturals

CONSTANTS
    Skew,       \* CLOCK_SKEW
    MaxAge      \* bound on the time on the way

ASSUME SignaturesAssumption == Skew \in Nat /\ MaxAge \in Nat /\ Skew < MaxAge

\* Parts of a request, and of an activity with a proof ("context" is the part
\* of its contexts that the proof names, "tail" what follows it, "options" the
\* proof without its value)
RequestParts == {"target", "host", "date", "digest", "body"}
ActivityParts == {"body", "context", "tail", "options"}

VARIABLES
    mail,       \* [format, alg, keyAlg, holder, covers, scoped, expires] as it was signed
    altered,    \* parts that have changed since
    age,
    verdict

signature_vars == <<mail, altered, age, verdict>>

NoMail == [format |-> "none", alg |-> "none", keyAlg |-> "rsa", holder |-> TRUE, covers |-> {}, scoped |-> FALSE, expires |-> FALSE, own |-> FALSE]

SignaturesInit == mail = NoMail /\ altered = {} /\ age = 0 /\ verdict = "none"

\* Every value is of its type.
SignaturesTypeOK ==
    /\ mail.format \in {"none", "legacy", "rfc9421", "proof"} /\ altered \subseteq RequestParts \cup ActivityParts
    /\ age \in 0..MaxAge /\ verdict \in {"none", "accepted", "refused"}
-----------------------------------------------------------------------------
(* Signing *)

SignLegacyPost == [NoMail EXCEPT !.format = "legacy", !.covers = {"target", "host", "date", "digest"}, !.own = TRUE]

\* The time is a parameter of the signature.
SignRfc9421Post == [NoMail EXCEPT !.format = "rfc9421", !.alg = "rsa", !.covers = {"target", "digest"}, !.own = TRUE]

\* integrity::sign: the proof names all contexts of the document, the last of
\* which add_context puts there.
SignProof == [NoMail EXCEPT !.format = "proof", !.keyAlg = "ed25519", !.scoped = TRUE, !.own = TRUE]

\* sign_post and prove_local_activity
SignOurs ==
    /\ mail = NoMail /\ mail' \in {SignLegacyPost, SignRfc9421Post, SignProof}
    /\ UNCHANGED <<altered, age, verdict>>

\* What another server may have signed, in each format
TheirMails ==
    {m \in [format : {"legacy", "rfc9421", "proof"}, alg : {"none", "rsa", "ed25519"}, keyAlg : {"rsa", "ed25519"},
            holder : BOOLEAN, covers : SUBSET {"target", "host", "date", "digest"},
            scoped : BOOLEAN, expires : BOOLEAN, own : {FALSE}] :
        /\ m.format = "proof" => m.covers = {}
        /\ m.format # "proof" => ~ m.scoped /\ ~ m.expires
        /\ m.format # "rfc9421" => m.alg = "none"}

SignTheirs ==
    /\ mail = NoMail /\ mail' \in TheirMails
    /\ UNCHANGED <<altered, age, verdict>>

Alter(p) ==
    /\ mail # NoMail /\ verdict = "none" /\ p \in (IF mail.format = "proof" THEN ActivityParts ELSE RequestParts) \ altered
    /\ altered' = altered \cup {p} /\ UNCHANGED <<mail, age, verdict>>

Delay ==
    /\ mail # NoMail /\ verdict = "none" /\ age < MaxAge /\ age' = age + 1
    /\ UNCHANGED <<mail, altered, verdict>>
-----------------------------------------------------------------------------
(* Verification of a request *)

\* check_system_time, of the date that arrives
InTime == "date" \in altered \/ age <= Skew

\* validate_content_digest, and the Digest header of the legacy format
DigestMatches == ("body" \in altered) = ("digest" \in altered)

\* verify_legacy: what the signature must cover
LegacyRequired == {"target", "host", "date", "digest"}

\* verify_legacy, verify_legacy_bytes: only an RSA key signs this format.
VerifyLegacy ==
    /\ mail.keyAlg = "rsa" /\ InTime /\ LegacyRequired \subseteq mail.covers
    /\ DigestMatches /\ mail.holder /\ altered \cap mail.covers = {}

\* parse_rfc9421, verify_rfc9421_key: an algorithm that is named is the key's.
AlgorithmAgrees == mail.alg \in {"none", mail.keyAlg}

\* signature_base ends with the parameters, the time among them.
BaseParts == mail.covers \cup {"date"}

\* verify_rfc9421_parsed; verify_key_bytes
VerifyRfc9421 ==
    /\ AlgorithmAgrees /\ InTime /\ {"target", "digest"} \subseteq mail.covers
    /\ DigestMatches /\ mail.holder /\ altered \cap BaseParts = {}

\* verify_actor_key
VerifyActorKey == IF mail.format = "rfc9421" THEN VerifyRfc9421 ELSE VerifyLegacy
-----------------------------------------------------------------------------
(* Verification of a proof *)

\* prepare: a proof that expires does so Skew after it was made.
NotExpired == mail.expires => age <= Skew

\* validate_context: the contexts of the proof are the first of the document.
ContextsAgree == mail.scoped => "context" \notin altered

\* hash_data: the contexts of the proof stand in for those of the document.
HashedParts == {"body", "options"} \cup (IF mail.scoped THEN {} ELSE {"context", "tail"})

VerifyProof ==
    /\ NotExpired /\ ContextsAgree /\ mail.keyAlg = "ed25519" /\ mail.holder
    /\ altered \cap HashedParts = {}

Verify ==
    /\ mail # NoMail /\ verdict = "none"
    /\ verdict' = IF (IF mail.format = "proof" THEN VerifyProof ELSE VerifyActorKey) THEN "accepted" ELSE "refused"
    /\ UNCHANGED <<mail, altered, age>>

SignaturesNext == SignOurs \/ SignTheirs \/ Delay \/ Verify \/ \E p \in RequestParts \cup ActivityParts : Alter(p)

SignaturesSpec == SignaturesInit /\ [][SignaturesNext]_signature_vars
-----------------------------------------------------------------------------
\* What is accepted is what the holder of the key signed, for the address it
\* arrives at and not long ago; and what this server signs, a server that
\* verifies as it does accepts, however the formats are mixed.
AcceptedIsAsSigned ==
    /\ verdict = "accepted" => /\ mail.holder /\ "body" \notin altered /\ "target" \notin altered
                               /\ mail.format = "proof" \/ age <= Skew
    /\ mail.own /\ altered = {} /\ age <= Skew => verdict # "refused"

\* All three formats protect what they are meant to.
SignaturesSafe == SignaturesTypeOK /\ AcceptedIsAsSigned
=============================================================================
