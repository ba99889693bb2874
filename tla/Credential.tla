----------------------------- MODULE Credential -----------------------------
(***************************************************************************)
(* The credential a store crate presents (dynamic-config-store-core,        *)
(* credential.rs, and the sessions of Consul, Vault, Firestore and Git):    *)
(* one Cached cell shared by every caller of a source, and a call that is   *)
(* tried a second time with a new credential after the store refused the    *)
(* first.                                                                   *)
(*                                                                         *)
(* Credentials are numbered in the order they were issued; 0 is the one the *)
(* program supplied itself.  Time is what it does to a held credential: it  *)
(* goes stale, within REFRESH_WITHIN of its expiry, and the store stops     *)
(* accepting it.                                                            *)
(***************************************************************************)
EXTENDS Integers, FiniteSets

CONSTANTS Callers,
          MaxCalls,     \* bound: calls a caller makes
          MaxTurns      \* bound: times a credential ages or is revoked

NoOne == "no one"

ASSUME CredentialAssumption ==
    {MaxCalls, MaxTurns} \subseteq Nat /\ NoOne \notin Callers

VARIABLES auth,      \* [at, kind], as the program configured it
          cell,      \* Cached.held: [number, stale, renewable], or NoHeld
          locked,    \* who holds Cached's mutex, or NoOne
          accepted,  \* the credentials the store accepts
          allowed,   \* the store's policy lets the identity read the key
          issued,    \* credentials issued so far
          call,      \* per caller: [at, presents, refused, tries, made]
          turns,     \* agings and revocations so far
          agings,    \* credentials that went stale while held
          drops      \* invalidations that dropped something

credentialVars == <<auth, cell, locked, accepted, allowed, issued, call,
                    turns, agings, drops>>

NoHeld == [number |-> 0, stale |-> TRUE, renewable |-> FALSE]
Idle == [at |-> "idle", presents |-> 0, refused |-> -1, tries |-> 0,
         made |-> 0]

-----------------------------------------------------------------------------
\* What each crate can be given.  Vault's six login methods differ in what
\* they send; all of them prove who the caller is again at every login.
ConsulAuth == [at : {"consul"}, kind : {"anonymous", "token", "login"}]
VaultAuth == [at : {"vault"}, kind : {"token", "login"}]
FirestoreAuth == [at : {"firestore"},
                  kind : {"emulator", "access_token", "metadata"}]
GitAuth == [at : {"git"}, kind : {"constant", "per_fetch", "expiring"}]

Auths == ConsulAuth \union VaultAuth \union FirestoreAuth \union GitAuth

\* can_relogin, can_refresh, is_replaceable: whether a refusal is worth a
\* second attempt.
ConsulRelogs == auth.at = "consul" /\ auth.kind = "login"
VaultRelogs == auth.at = "vault" /\ auth.kind = "login"
FirestoreRefreshes == auth.at = "firestore" /\ auth.kind = "metadata"
GitReplaces == auth.at = "git" /\ auth.kind \in {"per_fetch", "expiring"}

CredentialInit ==
    /\ auth \in Auths
    /\ cell = NoHeld /\ locked = NoOne
    /\ accepted = {0}
    /\ allowed \in BOOLEAN
    /\ issued = 0
    /\ call = [c \in Callers |-> Idle]
    /\ turns = 0 /\ agings = 0 /\ drops = 0

Moved(c, to) == call' = [call EXCEPT ![c].at = to]
Ended(c) ==
    call' = [call EXCEPT ![c] = [Idle EXCEPT !.made = call[c].made]]

\* A read of the source: consul, vault and firestore get, git attempt.
BeginCall(c) ==
    /\ call[c].at = "idle" /\ call[c].made < MaxCalls
    /\ call' = [call EXCEPT ![c] = [Idle EXCEPT !.at = "get", !.tries = 1,
                                                !.made = call[c].made + 1]]
    /\ UNCHANGED <<auth, cell, locked, accepted, allowed, issued, turns,
                   agings, drops>>

\* Cached::get: a held credential that is not stale, or the mutex kept for
\* obtaining one.
Cached(c) ==
    /\ locked = NoOne
    /\ IF cell # NoHeld /\ ~cell.stale
       THEN /\ call' = [call EXCEPT ![c].at = "send",
                                    ![c].presents = cell.number]
            /\ UNCHANGED locked
       ELSE /\ locked' = c
            /\ Moved(c, "obtain")

\* A credential of the program's own is presented as it is.
AsSupplied(c) ==
    /\ call' = [call EXCEPT ![c].at = "send", ![c].presents = 0]
    /\ UNCHANGED locked

ConsulToken(c) ==
    auth.at = "consul" /\ IF ConsulRelogs THEN Cached(c) ELSE AsSupplied(c)
VaultToken(c) ==
    auth.at = "vault" /\ IF VaultRelogs THEN Cached(c) ELSE AsSupplied(c)
FirestoreBearer(c) ==
    /\ auth.at = "firestore"
    /\ IF FirestoreRefreshes THEN Cached(c) ELSE AsSupplied(c)
\* Git's constant credential goes through the cell too, and never expires.
GitCurrent(c) == auth.at = "git" /\ Cached(c)

Get(c) ==
    /\ call[c].at = "get"
    /\ \/ ConsulToken(c) \/ VaultToken(c) \/ FirestoreBearer(c)
       \/ GitCurrent(c)
    /\ UNCHANGED <<auth, cell, accepted, allowed, issued, turns, agings,
                   drops>>

Keep(c, number, stale, renewable) ==
    /\ cell' = [number |-> number, stale |-> stale, renewable |-> renewable]
    /\ agings' = IF stale THEN agings + 1 ELSE agings
    /\ locked' = NoOne
    /\ call' = [call EXCEPT ![c].at = "send", ![c].presents = number]

\* Vault's Session renews what says it is renewable.
VaultRenew(c) ==
    /\ call[c].at = "obtain" /\ auth.at = "vault"
    /\ cell # NoHeld /\ cell.renewable
    /\ cell.number \in accepted
    /\ \E stale, renewable \in BOOLEAN :
           /\ stale => turns < MaxTurns
           /\ turns' = IF stale THEN turns + 1 ELSE turns
           /\ Keep(c, cell.number, stale, renewable)
    /\ UNCHANGED <<auth, accepted, allowed, issued, drops>>

\* Issued: a time to live that is missing, zero or too large is no expiry,
\* one shorter than the margin is stale at once.
Issued(c, stale, renewable) ==
    /\ call[c].at = "obtain"
    /\ issued' = issued + 1
    /\ accepted' = accepted \union {issued'}
    /\ Keep(c, issued', stale, renewable)
    /\ UNCHANGED <<auth, allowed, drops>>

\* Bound: credentials that are born stale.
Aged(stale) ==
    /\ stale => turns < MaxTurns
    /\ turns' = IF stale THEN turns + 1 ELSE turns

ConsulLogin(c) ==
    /\ auth.at = "consul"
    /\ \E stale \in BOOLEAN : Aged(stale) /\ Issued(c, stale, FALSE)

\* Also what a failed renewal falls back to.
VaultLogin(c) ==
    /\ auth.at = "vault"
    /\ \E stale, renewable \in BOOLEAN :
           Aged(stale) /\ Issued(c, stale, renewable)

FirestoreMint(c) ==
    /\ auth.at = "firestore"
    /\ \E stale \in BOOLEAN : Aged(stale) /\ Issued(c, stale, FALSE)

\* A closure run for every fetch is issued for no time at all.
GitObtain(c) ==
    /\ auth.at = "git"
    /\ CASE auth.kind = "constant" ->
                Issued(c, FALSE, FALSE) /\ UNCHANGED turns
         [] auth.kind = "per_fetch" ->
                Issued(c, TRUE, FALSE) /\ UNCHANGED turns
         [] auth.kind = "expiring" ->
                \E stale \in BOOLEAN : Aged(stale) /\ Issued(c, stale, FALSE)

\* What was held survives a failed obtain; the call does not.
ObtainFails(c) ==
    /\ call[c].at = "obtain"
    /\ locked' = NoOne
    /\ Ended(c)
    /\ UNCHANGED <<auth, cell, accepted, allowed, issued, turns, agings,
                   drops>>

\* The request, refused for the credential or for the policy, and whether
\* it is worth the second attempt.  Firestore tells a dead token (401) from
\* a policy (403) and tries again only for the first; the others take
\* either answer for a dead credential.
Refused(c) == call[c].presents \notin accepted \/ ~allowed

Sent(c, again) ==
    /\ call[c].at = "send"
    /\ IF Refused(c) /\ again /\ call[c].tries = 1
       THEN call' = [call EXCEPT ![c].at = "drop",
                                 ![c].refused = call[c].presents]
       ELSE Ended(c)
    /\ UNCHANGED <<auth, cell, locked, accepted, allowed, issued, turns,
                   agings, drops>>

ConsulCall(c) == auth.at = "consul" /\ Sent(c, ConsulRelogs)
VaultGet(c) == auth.at = "vault" /\ Sent(c, VaultRelogs)
FirestoreGet(c) ==
    /\ auth.at = "firestore"
    /\ Sent(c, FirestoreRefreshes /\ call[c].presents \notin accepted)
GitOnce(c) == auth.at = "git" /\ Sent(c, GitReplaces)

\* Mutant: the second attempt drops only what looks stale.
InvalidateStale(c) ==
    /\ call[c].at = "drop" /\ locked = NoOne
    /\ cell' = IF cell.stale THEN NoHeld ELSE cell
    /\ drops' = IF cell # NoHeld /\ cell.stale THEN drops + 1 ELSE drops
    /\ call' = [call EXCEPT ![c].at = "get", ![c].tries = 2]
    /\ UNCHANGED <<auth, locked, accepted, allowed, issued, turns, agings>>

\* invalidate, whatever the cell holds by now, and the second attempt.
Invalidate(c) ==
    /\ call[c].at = "drop" /\ locked = NoOne
    /\ cell' = NoHeld
    /\ drops' = IF cell # NoHeld THEN drops + 1 ELSE drops
    /\ call' = [call EXCEPT ![c].at = "get", ![c].tries = 2]
    /\ UNCHANGED <<auth, locked, accepted, allowed, issued, turns, agings>>

Ages ==
    /\ turns < MaxTurns /\ cell # NoHeld /\ ~cell.stale
    /\ auth.kind # "constant"
    /\ cell' = [cell EXCEPT !.stale = TRUE]
    /\ turns' = turns + 1 /\ agings' = agings + 1
    /\ UNCHANGED <<auth, locked, accepted, allowed, issued, call, drops>>

Revoked ==
    /\ turns < MaxTurns
    /\ accepted # {}
    /\ accepted' = {}
    /\ turns' = turns + 1
    /\ UNCHANGED <<auth, cell, locked, allowed, issued, call, agings, drops>>

CallerNext(c) ==
    \/ BeginCall(c) \/ Get(c) \/ VaultRenew(c) \/ ObtainFails(c)
    \/ ConsulLogin(c) \/ VaultLogin(c) \/ FirestoreMint(c) \/ GitObtain(c)
    \/ ConsulCall(c) \/ VaultGet(c) \/ FirestoreGet(c) \/ GitOnce(c)
    \/ Invalidate(c)

CredentialNext == (\E c \in Callers : CallerNext(c)) \/ Ages \/ Revoked

CredentialSpec == CredentialInit /\ [][CredentialNext]_credentialVars

-----------------------------------------------------------------------------
CredentialTypeOK ==
    /\ auth \in Auths
    /\ cell \in [number : Nat, stale : BOOLEAN, renewable : BOOLEAN]
    /\ locked \in Callers \union {NoOne}
    /\ allowed \in BOOLEAN
    /\ {issued, turns, agings, drops} \subseteq Nat
    /\ accepted \subseteq 0..issued
    /\ call \in [Callers -> [at : {"idle", "get", "obtain", "send", "drop"},
                             presents : Nat, refused : Int,
                             tries : 0..2, made : Nat]]

\* The second attempt of a call presents a credential issued after the one
\* that was refused, whichever caller obtained it and whatever the other
\* callers renewed, dropped or stored in between.
RetryPresentsANewerOne ==
    \A c \in Callers :
        (call[c].at = "send" /\ call[c].tries = 2) =>
            call[c].presents > call[c].refused

\* Callers that find the credential gone or stale together obtain once
\* between them: a login follows the first use, an ageing or an
\* invalidation, never another caller's arrival.
OneLoginPerLoss == issued <= 1 + agings + drops

\* A refused credential is replaced, by one login for all who noticed.
LossIsRepairedOnce == RetryPresentsANewerOne /\ OneLoginPerLoss

=============================================================================
