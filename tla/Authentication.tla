--------------------------- MODULE Authentication ---------------------------
(***************************************************************************)
(* How the inbox authenticates a delivery: the cache of remote actors says  *)
(* whose key it was signed with, the signature what was signed.  The two    *)
(* share no state and run side by side.                                     *)
(***************************************************************************)
EXTENDS RemoteActors, Signatures

AuthenticationSpec == RemoteActorsSpec /\ SignaturesSpec

\* SenderIsProved and AcceptedIsAsSigned: what the inbox takes in the name of an
\* actor was signed with a key that this actor's server gave as the actor's, and
\* arrives as it was signed, while documents and keys change between the checks and requests are
\* altered, redirected or held back on their way.
OnlyProvedIsAccepted == RemoteActorsSafe /\ SignaturesSafe
=============================================================================
