---------------------------- MODULE StoresProofs ----------------------------
(***************************************************************************)
(* Proofs about the store crates: the credentials they share, the documents *)
(* they make of several keys, the material they speak with, the working     *)
(* directory of Git and the watch loops, for any number of callers, keys,   *)
(* texts, writes, faults and bytes.                                        *)
(***************************************************************************)
EXTENDS StoreWatch, Credential, Documents, Material, GitWorking,
        FiniteSetTheorems, SequenceTheorems, WellFoundedInduction, TLAPS

(* Credentials.  That a loss is repaired once rests on counting: every        *)
(* credential issued, but a fresh one in the cell, was lost.                   *)

\* A crate that gets another credential for one that was refused.
Replaceable == ConsulRelogs \/ VaultRelogs \/ FirestoreRefreshes \/ GitReplaces

\* Numbers are handed out in order, and nobody presents one not issued yet.
NumbersAreIssued ==
    /\ cell.number <= issued
    /\ cell = NoHeld \/ cell.number > 0
    /\ \A c \in Callers : call[c].presents <= issued /\ call[c].refused <= issued

\* The mutex is held by the caller that obtains, and only for want of a fresh
\* credential.
MutexIsObtaining ==
    /\ \A c \in Callers : call[c].at = "obtain" <=> locked = c
    /\ locked # NoOne => cell.stale

\* From the invalidation on, the cell does not hold what was refused.
RefusedIsGone ==
    \A c \in Callers :
        /\ call[c].at = "drop" \/ call[c].tries = 2 => Replaceable
        /\ call[c].tries = 2 /\ call[c].at \in {"get", "obtain"} =>
               cell = NoHeld \/ cell.number > call[c].refused

\* Each credential issued but a fresh one in the cell was lost.
LossesPayForLogins ==
    issued <= agings + drops + (IF cell.stale THEN 0 ELSE 1)

\* The inductive invariant of the credentials.
CredentialInv ==
    /\ CredentialTypeOK /\ NumbersAreIssued /\ MutexIsObtaining /\ RefusedIsGone
    /\ LossesPayForLogins /\ RetryPresentsANewerOne

\* Nobody calls, nothing was issued.
LEMMA CredentialInitInv == ASSUME CredentialInit PROVE CredentialInv
  BY CredentialAssumption
  DEF CredentialInit, CredentialInv, CredentialTypeOK, NumbersAreIssued, MutexIsObtaining,
      RefusedIsGone, LossesPayForLogins, RetryPresentsANewerOne, NoHeld, Idle

\* A call under way.
CallShape == [at : {"idle", "get", "obtain", "send", "drop"}, presents : Nat,
              refused : Int, tries : 0..2, made : Nat]

\* What a caller's step leaves of the cell: the same credential, none, or one
\* issued now.
CellMoves ==
    \/ cell' = NoHeld
    \/ cell'.number = cell.number /\ (cell = NoHeld <=> cell' = NoHeld)
    \/ cell'.number = issued + 1

\* What a caller's step may do to its own record.
RecordIsSound(r) ==
    /\ r \in CallShape
    /\ r.presents <= issued' /\ r.refused <= issued'
    /\ r.at = "drop" \/ r.tries = 2 => Replaceable
    /\ r.tries = 2 /\ r.at \in {"get", "obtain"} => cell' = NoHeld \/ cell'.number > r.refused
    /\ r.tries = 2 /\ r.at = "send" => r.presents > r.refused

\* How the mutex moves with it.
MutexMoves(c, r) ==
    \/ locked' = locked /\ (r.at = "obtain" <=> call[c].at = "obtain")
    \/ locked = NoOne /\ locked' = c /\ r.at = "obtain"
    \/ locked = c /\ locked' = NoOne /\ r.at # "obtain"

\* A step of one caller whose record, mutex and cell move as above.
LEMMA CallerStepInv ==
  ASSUME CredentialInv, NEW c \in Callers, NEW r,
         call' = [call EXCEPT ![c] = r], RecordIsSound(r), MutexMoves(c, r), CellMoves,
         auth' = auth, allowed' = allowed, {turns', agings', drops'} \subseteq Nat,
         accepted' \subseteq 0..issued', issued' \in {issued, issued + 1},
         cell' \in [number : Nat, stale : BOOLEAN, renewable : BOOLEAN],
         cell'.number <= issued', cell' = NoHeld \/ cell'.number > 0,
         cell'.number = issued + 1 => issued' = issued + 1,
         locked' # NoOne => cell'.stale, LossesPayForLogins'
  PROVE  CredentialInv'
<1>. USE CredentialAssumption
<1>. USE DEF CredentialInv
<1>1. /\ call' \in [Callers -> CallShape] /\ call'[c] = r
      /\ \A d \in Callers : d # c => call'[d] = call[d]
  BY DEF CredentialTypeOK, CallShape, RecordIsSound
<1>2. issued \in Nat /\ issued' \in Nat /\ issued <= issued'
  BY DEF CredentialTypeOK
<1>3. locked' \in Callers \union {NoOne}
  BY DEF MutexMoves, CredentialTypeOK
<1>4. CredentialTypeOK'
  BY <1>1, <1>2, <1>3 DEF CredentialTypeOK, CallShape
<1>5. NumbersAreIssued'
  BY <1>1, <1>2 DEF NumbersAreIssued, RecordIsSound, CredentialTypeOK
<1>6. MutexIsObtaining'
  BY <1>1 DEF MutexIsObtaining, MutexMoves
<1>r. Replaceable' = Replaceable
  BY DEF Replaceable, ConsulRelogs, VaultRelogs, FirestoreRefreshes, GitReplaces
<1>7. RefusedIsGone'
  <2>. SUFFICES ASSUME NEW d \in Callers
                PROVE  /\ call'[d].at = "drop" \/ call'[d].tries = 2 => Replaceable
                       /\ call'[d].tries = 2 /\ call'[d].at \in {"get", "obtain"} =>
                              cell' = NoHeld \/ cell'.number > call'[d].refused
    BY <1>r DEF RefusedIsGone
  <2>1. CASE d = c
    BY <2>1, <1>1 DEF RecordIsSound
  <2>2. CASE d # c
    <3>1. call'[d] = call[d] /\ call[d].refused \in Int /\ call[d].refused <= issued
      BY <2>2, <1>1 DEF NumbersAreIssued, CredentialTypeOK
    <3>. QED BY <3>1, <1>2 DEF RefusedIsGone, CellMoves, CredentialTypeOK
  <2>. QED BY <2>1, <2>2
<1>8. RetryPresentsANewerOne'
  BY <1>1 DEF RetryPresentsANewerOne, RecordIsSound
<1>. QED BY <1>4, <1>5, <1>6, <1>7, <1>8

\* A login, of any crate.
LEMMA IssuedInv ==
  ASSUME CredentialInv, NEW c \in Callers, NEW stale \in BOOLEAN, NEW renewable \in BOOLEAN,
         Issued(c, stale, renewable), turns' \in Nat
  PROVE  CredentialInv'
<1>. DEFINE n == issued + 1
            r == [call[c] EXCEPT !.at = "send", !.presents = n]
<1>1. /\ call[c] \in CallShape /\ call[c].at = "obtain" /\ call[c].refused <= issued
      /\ call[c].tries = 2 => Replaceable
      /\ locked = c /\ c # NoOne /\ cell.stale /\ issued \in Nat
  BY CredentialAssumption
  DEF Issued, CredentialInv, CredentialTypeOK, CallShape, MutexIsObtaining, NumbersAreIssued, RefusedIsGone
<1>2. /\ r \in CallShape /\ r.at = "send" /\ r.presents = issued + 1
      /\ r.refused = call[c].refused /\ r.tries = call[c].tries
  <2>1. n \in Nat
    BY <1>1
  <2>2. r \in CallShape /\ r.at = "send" /\ r.presents = n
        /\ r.refused = call[c].refused /\ r.tries = call[c].tries
    <3>. HIDE DEF n
    <3>. QED BY <1>1, <2>1 DEF CallShape
  <2>. QED BY <2>2
<1>3. /\ call' = [call EXCEPT ![c] = r]
      /\ issued' = issued + 1 /\ accepted' = accepted \union {issued + 1}
      /\ cell' = [number |-> issued + 1, stale |-> stale, renewable |-> renewable]
      /\ locked' = NoOne /\ auth' = auth /\ allowed' = allowed /\ drops' = drops
      /\ agings' = IF stale THEN agings + 1 ELSE agings
  BY DEF Issued, Keep, CredentialInv, CredentialTypeOK
<1>. HIDE DEF r
<1>4. /\ cell' \in [number : Nat, stale : BOOLEAN, renewable : BOOLEAN]
      /\ cell'.number = issued + 1 /\ cell'.stale = stale
  BY <1>1, <1>3
<1>5. accepted' \subseteq 0..issued' /\ {turns', agings', drops'} \subseteq Nat
  <2>1. accepted \subseteq 0..issued /\ turns' \in Nat /\ agings \in Nat /\ drops \in Nat
    BY DEF CredentialInv, CredentialTypeOK
  <2>2. 0..issued \subseteq 0..(issued + 1) /\ issued + 1 \in 0..(issued + 1)
    BY <1>1
  <2>3. accepted' \subseteq 0..issued'
    BY <1>3, <2>1, <2>2
  <2>4. agings' \in Nat /\ drops' \in Nat
    BY <1>3, <2>1
  <2>. QED BY <2>1, <2>3, <2>4
<1>6. LossesPayForLogins'
  BY <1>1, <1>3, <1>4 DEF CredentialInv, CredentialTypeOK, LossesPayForLogins
<1>7. call[c].refused \in Int
  BY <1>1 DEF CallShape
<1>8. RecordIsSound(r)
  BY <1>1, <1>2, <1>3, <1>7 DEF RecordIsSound
<1>9. MutexMoves(c, r) /\ CellMoves
  BY <1>1, <1>2, <1>3, <1>4 DEF MutexMoves, CellMoves
<1>10. cell'.number <= issued' /\ cell'.number > 0
  BY <1>1, <1>3, <1>4
<1>. QED BY <1>3, <1>4, <1>5, <1>6, <1>8, <1>9, <1>10, CallerStepInv

\* Each step of a caller, and of the world that refuses or ages a credential.
LEMMA CredentialStepInv ==
  ASSUME CredentialInv, [CredentialNext]_credentialVars PROVE CredentialInv'
<1>. USE CredentialAssumption
<1>0. CASE UNCHANGED credentialVars
  BY <1>0 DEF CredentialInv, credentialVars, CredentialTypeOK, NumbersAreIssued, MutexIsObtaining,
      RefusedIsGone, LossesPayForLogins, RetryPresentsANewerOne, Replaceable,
      ConsulRelogs, VaultRelogs, FirestoreRefreshes, GitReplaces
\* Steps that leave the cell alone.
<1>s. ASSUME NEW c \in Callers, NEW r, call' = [call EXCEPT ![c] = r], RecordIsSound(r),
             MutexMoves(c, r), locked' # NoOne => cell.stale,
             UNCHANGED <<auth, cell, accepted, allowed, issued, turns, agings, drops>>
      PROVE  CredentialInv'
  <2>1. /\ CellMoves /\ LossesPayForLogins' /\ issued' \in {issued, issued + 1}
        /\ {turns', agings', drops'} \subseteq Nat
        /\ accepted' \subseteq 0..issued'
    BY <1>s DEF CellMoves, CredentialInv, CredentialTypeOK, LossesPayForLogins
  <2>2. /\ cell' \in [number : Nat, stale : BOOLEAN, renewable : BOOLEAN]
        /\ cell'.number <= issued' /\ (cell' = NoHeld \/ cell'.number > 0)
        /\ cell'.number # issued + 1
    BY <1>s DEF CredentialInv, CredentialTypeOK, NumbersAreIssued
  <2>. QED BY <1>s, <2>1, <2>2, CallerStepInv
<1>1. ASSUME NEW c \in Callers, CallerNext(c) PROVE CredentialInv'
  <2>. DEFINE me == call[c]
  <2>c. /\ me \in CallShape /\ me.presents <= issued /\ me.refused <= issued /\ issued \in Nat
        /\ me.presents \in Nat /\ me.refused \in Int
        /\ me.at = "drop" \/ me.tries = 2 => Replaceable
        /\ me.tries = 2 /\ me.at \in {"get", "obtain"} => cell = NoHeld \/ cell.number > me.refused
        /\ me.at = "obtain" <=> locked = c
        /\ locked # NoOne => cell.stale
        /\ cell \in [number : Nat, stale : BOOLEAN, renewable : BOOLEAN]
        /\ cell.number <= issued /\ (cell = NoHeld \/ cell.number > 0)
        /\ locked \in Callers \union {NoOne} /\ c # NoOne
    BY DEF CredentialInv, CredentialTypeOK, CallShape, NumbersAreIssued, RefusedIsGone, MutexIsObtaining
  <2>i. Idle \in CallShape /\ Idle.at = "idle" /\ Idle.presents = 0 /\ Idle.refused = -1 /\ Idle.tries = 0
    BY DEF Idle, CallShape
  <2>e. ASSUME Ended(c),
               (me.at # "obtain" /\ locked' = locked) \/ (locked = c /\ locked' = NoOne),
               UNCHANGED <<auth, cell, accepted, allowed, issued, turns, agings, drops>>
        PROVE  CredentialInv'
    <3>. DEFINE r == [Idle EXCEPT !.made = call[c].made]
    <3>1. r \in CallShape /\ r.at = "idle" /\ r.presents = 0 /\ r.refused = -1 /\ r.tries = 0
      BY <2>i, <2>c DEF CallShape
    <3>2. call' = [call EXCEPT ![c] = r]
      BY <2>e DEF Ended
    <3>. HIDE DEF r, me
    <3>3. RecordIsSound(r)
      BY <3>1, <2>e, <2>c DEF RecordIsSound
    <3>4. MutexMoves(c, r)
      BY <3>1, <2>e, <2>c DEF MutexMoves, me
    <3>. QED BY <3>2, <3>3, <3>4, <2>c, <2>e, <1>s
  <2>1. CASE BeginCall(c)
    <3>. DEFINE r == [Idle EXCEPT !.at = "get", !.tries = 1, !.made = call[c].made + 1]
    <3>0. call[c].made + 1 \in Nat /\ 1 \in 0..2
      BY <2>c DEF CallShape
    <3>1. r \in CallShape /\ r.at = "get" /\ r.presents = 0 /\ r.refused = -1 /\ r.tries = 1
      BY <2>i, <3>0 DEF CallShape
    <3>2. /\ call' = [call EXCEPT ![c] = r] /\ call[c].at = "idle"
          /\ UNCHANGED <<auth, cell, locked, accepted, allowed, issued, turns, agings, drops>>
      BY <2>1 DEF BeginCall
    <3>. HIDE DEF r
    <3>3. RecordIsSound(r) /\ MutexMoves(c, r)
      BY <3>1, <3>2, <2>c DEF RecordIsSound, MutexMoves
    <3>. QED BY <3>2, <3>3, <2>c, <1>s
  <2>2. CASE Get(c)
    <3>1. /\ me.at = "get"
          /\ \/ Cached(c)
             \/ ~Replaceable /\ AsSupplied(c)
          /\ UNCHANGED <<auth, cell, accepted, allowed, issued, turns, agings, drops>>
      <4>1. CASE auth.at = "consul"
        BY <2>2, <4>1 DEF Get, ConsulToken, VaultToken, FirestoreBearer, GitCurrent, Replaceable,
                  ConsulRelogs, VaultRelogs, FirestoreRefreshes, GitReplaces
      <4>2. CASE auth.at = "vault"
        BY <2>2, <4>2 DEF Get, ConsulToken, VaultToken, FirestoreBearer, GitCurrent, Replaceable,
                  ConsulRelogs, VaultRelogs, FirestoreRefreshes, GitReplaces
      <4>3. CASE auth.at = "firestore"
        BY <2>2, <4>3 DEF Get, ConsulToken, VaultToken, FirestoreBearer, GitCurrent, Replaceable,
                  ConsulRelogs, VaultRelogs, FirestoreRefreshes, GitReplaces
      <4>4. CASE auth.at = "git"
        BY <2>2, <4>4 DEF Get, ConsulToken, VaultToken, FirestoreBearer, GitCurrent
      <4>. QED BY <2>2, <4>1, <4>2, <4>3, <4>4 DEF Get, ConsulToken, VaultToken, FirestoreBearer, GitCurrent
    <3>2. ASSUME NEW n \in Nat, n <= issued, me.tries = 2 => n > me.refused, locked' = locked,
                 call' = [call EXCEPT ![c].at = "send", ![c].presents = n]
          PROVE  CredentialInv'
      <4>. DEFINE r == [call[c] EXCEPT !.at = "send", !.presents = n]
      <4>1. /\ r \in CallShape /\ r.at = "send" /\ r.presents = n
            /\ r.refused = me.refused /\ r.tries = me.tries
        BY <2>c DEF CallShape
      <4>2. call' = [call EXCEPT ![c] = r]
        BY <3>2
      <4>. HIDE DEF r, me
      <4>3. RecordIsSound(r)
        BY <4>1, <3>1, <3>2, <2>c DEF RecordIsSound
      <4>4. MutexMoves(c, r)
        BY <4>1, <3>1, <3>2 DEF MutexMoves, me
      <4>. QED BY <3>1, <3>2, <4>2, <4>3, <4>4, <2>c, <1>s
    <3>3. CASE Cached(c) /\ cell # NoHeld /\ ~cell.stale
      <4>1. cell.number \in Nat
        BY <2>c
      <4>. QED BY <3>1, <3>2, <3>3, <4>1, <2>c DEF Cached
    <3>4. CASE Cached(c) /\ ~(cell # NoHeld /\ ~cell.stale)
      <4>. DEFINE r == [call[c] EXCEPT !.at = "obtain"]
      <4>1. /\ r \in CallShape /\ r.at = "obtain" /\ r.presents = me.presents
            /\ r.refused = me.refused /\ r.tries = me.tries
        BY <2>c DEF CallShape
      <4>2. call' = [call EXCEPT ![c] = r] /\ locked = NoOne /\ locked' = c
        BY <3>4 DEF Cached, Moved
      <4>3. cell.stale
        BY <3>4 DEF NoHeld
      <4>. HIDE DEF r, me
      <4>4. RecordIsSound(r)
        BY <4>1, <3>1, <2>c DEF RecordIsSound
      <4>5. MutexMoves(c, r)
        BY <4>1, <4>2 DEF MutexMoves
      <4>. QED BY <3>1, <4>2, <4>3, <4>4, <4>5, <1>s
    <3>5. CASE ~Replaceable /\ AsSupplied(c)
      <4>1. 0 \in Nat /\ 0 <= issued /\ me.tries # 2
        BY <3>5, <2>c
      <4>2. locked' = locked /\ call' = [call EXCEPT ![c].at = "send", ![c].presents = 0]
        BY <3>5 DEF AsSupplied
      <4>. QED BY <3>2, <4>1, <4>2
    <3>. QED BY <3>1, <3>3, <3>4, <3>5
  <2>3. CASE VaultRenew(c)
    <3>1. PICK stale \in BOOLEAN, renewable \in BOOLEAN :
             /\ turns' = IF stale THEN turns + 1 ELSE turns
             /\ Keep(c, cell.number, stale, renewable)
      BY <2>3 DEF VaultRenew
    <3>2. /\ me.at = "obtain" /\ cell # NoHeld
          /\ UNCHANGED <<auth, accepted, allowed, issued, drops>>
      BY <2>3 DEF VaultRenew
    <3>. DEFINE r == [call[c] EXCEPT !.at = "send", !.presents = cell.number]
    <3>3. /\ r \in CallShape /\ r.at = "send" /\ r.presents = cell.number
          /\ r.refused = me.refused /\ r.tries = me.tries
      BY <2>c DEF CallShape
    <3>4. /\ call' = [call EXCEPT ![c] = r]
          /\ cell' = [number |-> cell.number, stale |-> stale, renewable |-> renewable]
          /\ agings' = IF stale THEN agings + 1 ELSE agings
          /\ locked' = NoOne
      BY <3>1 DEF Keep
    <3>. HIDE DEF r, me
    <3>5. /\ cell' \in [number : Nat, stale : BOOLEAN, renewable : BOOLEAN]
          /\ cell'.number = cell.number /\ cell'.stale = stale /\ cell.number \in Nat
      BY <2>c, <3>4
    <3>6. cell.number > 0 /\ cell' # NoHeld
      BY <2>c, <3>2, <3>5 DEF NoHeld
    <3>7. accepted' \subseteq 0..issued' /\ {turns', agings', drops'} \subseteq Nat
      BY <3>1, <3>2, <3>4 DEF CredentialInv, CredentialTypeOK
    <3>8. LossesPayForLogins'
      BY <3>2, <3>4, <3>5, <2>c DEF CredentialInv, CredentialTypeOK, LossesPayForLogins, me
    <3>9. RecordIsSound(r)
      BY <2>c, <3>2, <3>3, <3>5, <3>6 DEF RecordIsSound
    <3>10. MutexMoves(c, r) /\ CellMoves
      BY <2>c, <3>2, <3>3, <3>4, <3>5, <3>6 DEF MutexMoves, CellMoves
    <3>11. cell'.number <= issued' /\ cell'.number > 0 /\ cell'.number # issued + 1
      BY <2>c, <3>2, <3>5, <3>6
    <3>. QED BY <3>2, <3>4, <3>5, <3>7, <3>8, <3>9, <3>10, <3>11, CallerStepInv
  <2>5. CASE ConsulLogin(c) \/ VaultLogin(c) \/ FirestoreMint(c) \/ GitObtain(c)
    <3>1. turns \in Nat
      BY DEF CredentialInv, CredentialTypeOK
    <3>2. CASE ConsulLogin(c)
      <4>1. PICK stale \in BOOLEAN : Aged(stale) /\ Issued(c, stale, FALSE)
        BY <3>2 DEF ConsulLogin
      <4>2. turns' \in Nat
        BY <3>1, <4>1 DEF Aged
      <4>. QED BY <4>1, <4>2, IssuedInv
    <3>3. CASE VaultLogin(c)
      BY <3>1, <3>3, IssuedInv DEF VaultLogin, Aged
    <3>4. CASE FirestoreMint(c)
      <4>1. PICK stale \in BOOLEAN : Aged(stale) /\ Issued(c, stale, FALSE)
        BY <3>4 DEF FirestoreMint
      <4>2. turns' \in Nat
        BY <3>1, <4>1 DEF Aged
      <4>. QED BY <4>1, <4>2, IssuedInv
    <3>5. CASE GitObtain(c)
      <4>1. auth.kind \in {"constant", "per_fetch", "expiring"}
        BY <3>5 DEF GitObtain, CredentialInv, CredentialTypeOK, Auths, ConsulAuth, VaultAuth,
                    FirestoreAuth, GitAuth
      <4>2. PICK stale \in BOOLEAN : Issued(c, stale, FALSE) /\ (UNCHANGED turns \/ Aged(stale))
        BY <3>5, <4>1 DEF GitObtain
      <4>3. turns' \in Nat
        BY <3>1, <4>2 DEF Aged
      <4>. QED BY <4>2, <4>3, IssuedInv
    <3>. QED BY <2>5, <3>2, <3>3, <3>4, <3>5
  <2>6. CASE ObtainFails(c)
    BY <2>6, <2>e, <2>c DEF ObtainFails
  <2>7. ASSUME NEW again, Sent(c, again), again => Replaceable PROVE CredentialInv'
    <3>1. CASE Refused(c) /\ again /\ call[c].tries = 1
      <4>. DEFINE r == [call[c] EXCEPT !.at = "drop", !.refused = call[c].presents]
      <4>1. /\ r \in CallShape /\ r.at = "drop" /\ r.presents = me.presents
            /\ r.refused = me.presents /\ r.tries = 1
        <5>1. call[c] \in CallShape /\ call[c].presents \in Int /\ call[c].tries = 1
          BY <3>1, <2>c
        <5>. QED BY <5>1 DEF CallShape
      <4>2. /\ call' = [call EXCEPT ![c] = r] /\ me.at = "send"
            /\ UNCHANGED <<auth, cell, locked, accepted, allowed, issued, turns, agings, drops>>
        BY <2>7, <3>1 DEF Sent
      <4>. HIDE DEF r, me
      <4>3. RecordIsSound(r)
        BY <4>1, <4>2, <3>1, <2>7, <2>c DEF RecordIsSound
      <4>4. MutexMoves(c, r)
        BY <4>1, <4>2 DEF MutexMoves, me
      <4>. QED BY <4>2, <4>3, <4>4, <2>c, <1>s
    <3>2. CASE ~(Refused(c) /\ again /\ call[c].tries = 1)
      <4>1. Ended(c)
        BY <3>2, <2>7 DEF Sent
      <4>2. me.at # "obtain" /\ locked' = locked
        BY <2>7 DEF Sent
      <4>3. UNCHANGED <<auth, cell, accepted, allowed, issued, turns, agings, drops>>
        BY <2>7 DEF Sent
      <4>. QED BY <2>e, <4>1, <4>2, <4>3
    <3>. QED BY <3>1, <3>2
  <2>8. CASE ConsulCall(c) \/ VaultGet(c) \/ FirestoreGet(c) \/ GitOnce(c)
    <3>1. CASE ConsulCall(c)
      BY <3>1, <2>7 DEF ConsulCall, Replaceable
    <3>2. CASE VaultGet(c)
      BY <3>2, <2>7 DEF VaultGet, Replaceable
    <3>3. CASE FirestoreGet(c)
      BY <3>3, <2>7 DEF FirestoreGet, Replaceable
    <3>4. CASE GitOnce(c)
      BY <3>4, <2>7 DEF GitOnce, Replaceable
    <3>. QED BY <2>8, <3>1, <3>2, <3>3, <3>4
  <2>9. CASE Invalidate(c)
    <3>. DEFINE r == [call[c] EXCEPT !.at = "get", !.tries = 2]
    <3>1. /\ r \in CallShape /\ r.at = "get" /\ r.presents = me.presents
          /\ r.refused = me.refused /\ r.tries = 2
      <4>1. call[c] \in CallShape /\ 2 \in 0..2
        BY <2>c
      <4>. QED BY <4>1 DEF CallShape
    <3>2. /\ call' = [call EXCEPT ![c] = r] /\ me.at = "drop" /\ locked = NoOne /\ cell' = NoHeld
          /\ drops' = IF cell # NoHeld THEN drops + 1 ELSE drops
          /\ UNCHANGED <<auth, locked, accepted, allowed, issued, turns, agings>>
      BY <2>9 DEF Invalidate
    <3>. HIDE DEF r
    <3>3. NoHeld \in [number : Nat, stale : BOOLEAN, renewable : BOOLEAN] /\ NoHeld.number = 0 /\ NoHeld.stale
      BY DEF NoHeld
    <3>4. accepted' \subseteq 0..issued' /\ {turns', agings', drops'} \subseteq Nat
      BY <3>2 DEF CredentialInv, CredentialTypeOK
    <3>5. LossesPayForLogins'
      BY <3>2, <3>3 DEF CredentialInv, CredentialTypeOK, LossesPayForLogins
    <3>6. RecordIsSound(r)
      BY <2>c, <3>1, <3>2 DEF RecordIsSound
    <3>7. MutexMoves(c, r) /\ CellMoves
      BY <3>1, <3>2 DEF MutexMoves, CellMoves
    <3>8. cell'.number <= issued' /\ cell'.number # issued + 1
      BY <2>c, <3>2, <3>3
    <3>. QED BY <3>2, <3>3, <3>4, <3>5, <3>6, <3>7, <3>8, CallerStepInv
  <2>. QED BY <1>1, <2>1, <2>2, <2>3, <2>5, <2>6, <2>8, <2>9 DEF CallerNext
<1>2. CASE Ages
  <2>1. /\ cell' = [cell EXCEPT !.stale = TRUE] /\ cell # NoHeld /\ ~cell.stale
        /\ turns' = turns + 1 /\ agings' = agings + 1
        /\ UNCHANGED <<auth, locked, accepted, allowed, issued, call, drops>>
    BY <1>2 DEF Ages
  <2>2. /\ cell' \in [number : Nat, stale : BOOLEAN, renewable : BOOLEAN]
        /\ cell'.number = cell.number /\ cell'.stale
    BY <2>1 DEF CredentialInv, CredentialTypeOK
  <2>3. Replaceable' = Replaceable
    BY <2>1 DEF Replaceable, ConsulRelogs, VaultRelogs, FirestoreRefreshes, GitReplaces
  <2>4. CredentialTypeOK' /\ LossesPayForLogins'
    BY <2>1, <2>2 DEF CredentialInv, CredentialTypeOK, LossesPayForLogins
  <2>5. NumbersAreIssued' /\ MutexIsObtaining' /\ RefusedIsGone' /\ RetryPresentsANewerOne'
    BY <2>1, <2>2, <2>3 DEF CredentialInv, NumbersAreIssued, MutexIsObtaining, RefusedIsGone,
        RetryPresentsANewerOne
  <2>. QED BY <2>4, <2>5 DEF CredentialInv
<1>3. CASE Revoked
  <2>1. Replaceable' = Replaceable
    BY <1>3 DEF Revoked, Replaceable, ConsulRelogs, VaultRelogs, FirestoreRefreshes, GitReplaces
  <2>. QED BY <1>3, <2>1 DEF Revoked, CredentialInv, CredentialTypeOK, NumbersAreIssued, MutexIsObtaining,
        RefusedIsGone, LossesPayForLogins, RetryPresentsANewerOne
<1>. QED BY <1>0, <1>1, <1>2, <1>3 DEF CredentialNext

\* For any number of callers, losses and refusals: a call that tries again
\* presents a credential newer than the one refused, and logins are paid for by
\* losses, so callers that find the same credential gone share one login
\* (Cached::get, Cached::invalidate and the retries of the crates).
THEOREM LossIsRepairedOnceCorrect == CredentialSpec => []LossIsRepairedOnce
<1>1. ASSUME CredentialInv PROVE LossIsRepairedOnce
  BY <1>1 DEF CredentialInv, LossIsRepairedOnce, LossesPayForLogins, OneLoginPerLoss, CredentialTypeOK
<1>. QED BY <1>1, CredentialInitInv, CredentialStepInv, PTL DEF CredentialSpec

-----------------------------------------------------------------------------

(* TLS material. *)

\* An address that material goes with, or that is not looked at.
GoesWithTheAddress ==
    Encrypted \/ is_empty(given.tls) \/ given.at \in AddressUnread

\* A client that does what MaterialUsedOrRefused asks of a request.
UsesWhatWasGiven(x) ==
    /\ x.presents = (given.tls.client # "none")
    /\ x.trusts = (CASE given.tls.ca # "none" -> "the given"
                     [] given.tls.ca = "none" /\ given.at = "s3" -> "nobody"
                     [] OTHER -> "the platform")

\* The inductive invariant of the material.
MaterialInv ==
    /\ given \in [at : {"consul", "vault", "firestore", "redis", "nats", "s3", "etcd", "git"},
                  tls : Tls, secure : BOOLEAN, agent : BOOLEAN, picky : BOOLEAN]
    /\ \/ client \in {NotBuilt, Refusing}
       \/ GoesWithTheAddress /\ UsesWhatWasGiven(client)
    /\ \/ spoke = Silent
       \/ GoesWithTheAddress /\ ~Encrypted /\ spoke = InPlain
       \/ UsesWhatWasGiven(spoke)

\* Whatever the file holds, a crate makes a client of what it was given or none.
LEMMA ClientOrRefusal ==
  ASSUME MaterialInv
  PROVE  TlsClient = Refusing \/ (GoesWithTheAddress /\ UsesWhatWasGiven(TlsClient))
<1>1. given.tls \in Tls /\ given.at \in {"consul", "vault", "firestore", "redis", "nats", "s3", "etcd", "git"}
      /\ given.secure \in BOOLEAN /\ given.picky \in BOOLEAN
  BY DEF MaterialInv
<1>2. \/ Built(given.tls) = Refusing
      \/ /\ Built(given.tls).presents = (given.tls.client # "none")
         /\ Built(given.tls).trusts = IF given.tls.ca = "none" THEN "the platform" ELSE "the given"
  BY DEF Built, Trusting
<1>3. ASSUME given.at # "s3" \/ given.tls.ca # "none"
      PROVE  Built(given.tls) = Refusing \/ UsesWhatWasGiven(Built(given.tls))
  BY <1>2, <1>3 DEF UsesWhatWasGiven
<1>a. given.secure => GoesWithTheAddress
  BY DEF GoesWithTheAddress, Encrypted
<1>b. is_empty(given.tls) => GoesWithTheAddress
  BY DEF GoesWithTheAddress
<1>c. given.at \in {"consul", "vault", "firestore", "s3"} => GoesWithTheAddress
  BY DEF GoesWithTheAddress, AddressUnread
<1>4. CASE given.at \in {"consul", "vault", "firestore"}
  BY <1>3, <1>4, <1>c DEF TlsClient, ConsulTls, VaultTls, FirestoreTls
<1>5. CASE given.at = "redis"
  BY <1>3, <1>5, <1>a DEF TlsClient, RedisTls
<1>6. CASE given.at = "nats"
  <2>1. GoesWithTheAddress
    BY <1>6 DEF GoesWithTheAddress, Encrypted
  <2>. QED BY <1>3, <1>6, <2>1 DEF TlsClient, NatsTls
<1>7. CASE given.at = "s3"
  <2>1. TlsClient = S3Tls
    BY <1>7 DEF TlsClient
  <2>2. CASE given.tls.client # "none"
    BY <2>1, <2>2 DEF S3Tls
  <2>3. CASE given.tls.client = "none" /\ given.tls.ca = "none"
    <3>. DEFINE x == [NotBuilt EXCEPT !.built = TRUE, !.trusts = "nobody"]
    <3>1. TlsClient = x
      BY <2>1, <2>3 DEF S3Tls
    <3>2. x.presents = FALSE /\ x.trusts = "nobody"
      BY DEF NotBuilt
    <3>. HIDE DEF x
    <3>. QED BY <1>7, <1>c, <2>3, <3>1, <3>2 DEF UsesWhatWasGiven
  <2>4. CASE given.tls.client = "none" /\ given.tls.ca # "none"
    BY <1>3, <1>7, <1>c, <2>1, <2>4 DEF S3Tls
  <2>. QED BY <2>2, <2>3, <2>4
<1>8. CASE given.at = "etcd"
  <2>1. ~given.picky => GoesWithTheAddress
    BY <1>8 DEF GoesWithTheAddress, AddressUnread
  <2>. QED BY <1>1, <1>3, <1>8, <1>a, <2>1 DEF TlsClient, EtcdTls
<1>9. CASE given.at = "git"
  BY <1>1, <1>3, <1>9, <1>a, <1>b DEF TlsClient, GitTls
<1>. QED BY <1>1, <1>4, <1>5, <1>6, <1>7, <1>8, <1>9

\* A call builds a client, uses the one that was kept or is refused.
LEMMA MaterialStepInv == ASSUME MaterialInv, [MaterialNext]_materialVars PROVE MaterialInv'
<1>0. CASE UNCHANGED <<given, client, spoke>>
  BY <1>0 DEF MaterialInv, UsesWhatWasGiven, GoesWithTheAddress, Encrypted, AddressUnread
<1>1. CASE Call
  <2>. DEFINE now == IF client = NotBuilt THEN TlsClient ELSE client
  <2>1. /\ client' = KeptClient(now) /\ given' = given
        /\ \/ spoke' = Silent
           \/ now # Refusing /\ Encrypted /\ spoke' = now
           \/ now # Refusing /\ ~Encrypted /\ spoke' = InPlain
    BY <1>1 DEF Call
  <2>2. now = Refusing \/ (GoesWithTheAddress /\ UsesWhatWasGiven(now))
    BY ClientOrRefusal DEF MaterialInv
  <2>. HIDE DEF now
  <2>3. KeptClient(now) \in {NotBuilt, now}
    BY DEF KeptClient, ConsulAgent, GitClient, VaultAgent, FirestoreAgent, Constructed
  <2>4. \/ spoke' = Silent
        \/ GoesWithTheAddress /\ ~Encrypted /\ spoke' = InPlain
        \/ UsesWhatWasGiven(spoke')
    BY <2>1, <2>2
  <2>5. client' \in {NotBuilt, Refusing} \/ (GoesWithTheAddress /\ UsesWhatWasGiven(client'))
    BY <2>1, <2>2, <2>3
  <2>6. GoesWithTheAddress' = GoesWithTheAddress /\ Encrypted' = Encrypted
    BY <2>1 DEF GoesWithTheAddress, Encrypted, AddressUnread
  <2>. QED BY <2>1, <2>4, <2>5, <2>6 DEF MaterialInv, UsesWhatWasGiven
<1>. QED BY <1>0, <1>1 DEF MaterialNext, materialVars, DiskChanges

\* Whatever happens to the files between two calls, a request that goes out with
\* TLS trusts and presents what the crate was given, and one that goes out
\* without it goes to an address without TLS, beside material only for the
\* crates that do not look at the address.
THEOREM MaterialUsedOrRefusedCorrect == MaterialSpec => []MaterialUsedOrRefused
<1>1. ASSUME MaterialInit PROVE MaterialInv
  BY <1>1 DEF MaterialInit, MaterialInv
<1>2. ASSUME MaterialInv PROVE MaterialUsedOrRefused
  BY <1>2 DEF MaterialInv, MaterialUsedOrRefused, UsesWhatWasGiven, GoesWithTheAddress, Encrypted
<1>. QED BY <1>1, <1>2, MaterialStepInv, PTL DEF MaterialSpec

-----------------------------------------------------------------------------

(* Induction over a set of numbers, since an induction hypothesis cannot be a *)
(* parameter here.                                                             *)

\* A set of numbers has a smallest one.
LEMMA SmallestNat ==
  ASSUME NEW T \in SUBSET Nat, T # {}
  PROVE  \E m \in T : \A n \in T : m <= n
<1>. DEFINE R == {ss \in Nat \X Nat : ss[1] < ss[2]}
<1>1. IsWellFoundedOn(R, Nat)
  BY NatLessThanWellFounded DEF OpToRel
<1>2. \A m, n \in T : <<n, m>> \in R <=> n < m
  OBVIOUS
<1>. HIDE DEF R
<1>3. PICK m \in T : \A n \in T : ~(<<n, m>> \in R)
  BY <1>1, WFMin
<1>4. ASSUME NEW n \in T PROVE m <= n
  <2>1. n \in Nat /\ m \in Nat
    OBVIOUS
  <2>2. ~(n < m)
    BY <1>2, <1>3
  <2>. QED BY <2>1, <2>2
<1>. QED BY <1>4

\* Induction, for a set of numbers.
LEMMA NatInductionOnSet ==
  ASSUME NEW S, 0 \in S, \A n \in Nat : n \in S => n + 1 \in S
  PROVE  \A n \in Nat : n \in S
<1>. SUFFICES ASSUME Nat \ S # {} PROVE FALSE
  OBVIOUS
<1>1. PICK m \in Nat \ S : \A n \in Nat \ S : m <= n
  BY SmallestNat
<1>2. m # 0 /\ m - 1 \in Nat /\ m - 1 \notin Nat \ S
  BY <1>1
<1>. QED BY <1>1, <1>2

-----------------------------------------------------------------------------

(* The working directory of Git. *)

\* What a tree lists.
Entries == [kind : STRING, size : Nat]

\* What a read has loaded and whether it goes on.
Budgets == [bytes : 0..max_bytes, refused : BOOLEAN]
Untouched == [bytes |-> 0, refused |-> FALSE]

\* One more entry stays within the bound.
LEMMA OneMoreBounded ==
  ASSUME NEW file \in Entries, NEW budget \in Budgets PROVE read_blob(file, budget) \in Budgets
<1>1. file.size \in Nat /\ max_bytes \in Nat /\ budget.bytes \in 0..max_bytes
  BY GitAssumption DEF Entries, Budgets
<1>2. [budget EXCEPT !.refused = TRUE] \in Budgets
  BY DEF Budgets
<1>3. budget.bytes + file.size <= max_bytes => [budget EXCEPT !.bytes = @ + file.size] \in Budgets
  BY <1>1 DEF Budgets
<1>4. budget.bytes + file.size > max_bytes \/ budget.bytes + file.size <= max_bytes
  BY <1>1
<1>. QED BY <1>2, <1>3, <1>4 DEF read_blob

\* The function that read_documents reads its result from exists.
LEMMA LoadedIsRecursive ==
  ASSUME NEW files \in Seq(Entries), NEW len, len = Len(files)
  PROVE  \E sums : /\ sums = [n \in 0..len |-> IF n = 0 THEN Untouched ELSE read_blob(files[n], sums[n - 1])]
<1>. DEFINE Fits(g, n) == g = [k \in 0..n |-> IF k = 0 THEN Untouched ELSE read_blob(files[k], g[k - 1])]
            S == {n \in Nat : \E g : Fits(g, n)}
<1>1. 0 \in S
  <2>1. Fits([k \in 0..0 |-> Untouched], 0)
    OBVIOUS
  <2>. QED BY <2>1
<1>2. ASSUME NEW n \in Nat, n \in S PROVE n + 1 \in S
  <2>1. PICK g : Fits(g, n)
    BY <1>2
  <2>. DEFINE h == [k \in 0..(n + 1) |-> IF k <= n THEN g[k] ELSE read_blob(files[k], g[k - 1])]
  <2>2. \A k \in 0..n : g[k] = IF k = 0 THEN Untouched ELSE read_blob(files[k], g[k - 1])
    BY <2>1
  <2>3. \A k \in 0..n : h[k] = g[k]
    OBVIOUS
  <2>4. ASSUME NEW k \in 0..(n + 1)
        PROVE  h[k] = IF k = 0 THEN Untouched ELSE read_blob(files[k], h[k - 1])
    <3>1. CASE k = 0
      BY <3>1, <2>2, <2>3
    <3>2. CASE k # 0
      <4>1. k - 1 \in 0..n /\ h[k - 1] = g[k - 1]
        BY <3>2, <2>3
      <4>2. CASE k <= n
        <5>1. k \in 0..n
          BY <4>2
        <5>. QED BY <3>2, <4>1, <5>1, <2>2, <2>3
      <4>3. CASE ~(k <= n)
        BY <3>2, <4>1, <4>3
      <4>. QED BY <4>2, <4>3
    <3>. QED BY <3>1, <3>2
  <2>5. h = [k \in 0..(n + 1) |-> h[k]]
    OBVIOUS
  <2>. HIDE DEF h
  <2>6. Fits(h, n + 1)
    BY <2>4, <2>5
  <2>. QED BY <2>6
<1>3. len \in S
  <2>. HIDE DEF S
  <2>1. len \in Nat
    OBVIOUS
  <2>. QED BY <1>1, <1>2, <2>1, NatInductionOnSet
<1>. QED BY <1>3

\* read_documents loads no more than max_bytes, whatever the commit holds.
THEOREM LoadedIsBounded ==
  ASSUME NEW files \in Seq(Entries) PROVE read_documents(files) \in Budgets
<1>. DEFINE len == Len(files)
            sums == CHOOSE f : f = [n \in 0..len |->
                      IF n = 0 THEN Untouched ELSE read_blob(files[n], f[n - 1])]
<1>1. read_documents(files) = sums[len]
  BY DEF read_documents, Untouched
<1>2. sums = [n \in 0..len |-> IF n = 0 THEN Untouched ELSE read_blob(files[n], sums[n - 1])]
  BY LoadedIsRecursive
<1>l. len \in Nat
  OBVIOUS
<1>. HIDE DEF sums
<1>. DEFINE S == {n \in Nat : n <= len => sums[n] \in Budgets}
<1>3. 0 \in S
  <2>1. Untouched \in Budgets
    BY GitAssumption DEF Untouched, Budgets
  <2>. QED BY <1>2, <1>l, <2>1
<1>4. ASSUME NEW n \in Nat, n \in S PROVE n + 1 \in S
  <2>. SUFFICES ASSUME n + 1 <= len PROVE sums[n + 1] \in Budgets
    OBVIOUS
  <2>1. n + 1 \in 1..len /\ n + 1 # 0 /\ n + 1 \in 0..len /\ (n + 1) - 1 = n
    BY <1>l
  <2>2. sums[n + 1] = read_blob(files[n + 1], sums[n])
    BY <1>2, <2>1
  <2>3. sums[n] \in Budgets
    BY <1>4, <2>1
  <2>4. files[n + 1] \in Entries
    BY <2>1
  <2>. QED BY <2>2, <2>3, <2>4, OneMoreBounded
<1>5. len \in S
  <2>. HIDE DEF S
  <2>. QED BY <1>3, <1>4, <1>l, NatInductionOnSet
<1>. QED BY <1>1, <1>5

\* What reader, directory and branch hold.
GitShape ==
    /\ foreign \in BOOLEAN /\ cut \in BOOLEAN
    /\ dir \in [repo : BOOLEAN, marker : BOOLEAN, packs : SUBSET Nat,
                needs : UNION {[d -> SUBSET Nat] : d \in SUBSET Nat}]
    /\ branch \in Seq(Trees) /\ Len(branch) > 0
    /\ reader \in [at : {"rest", "compact", "empty", "open", "mark", "negotiate",
                         "receive", "read"},
                   want : BOOLEAN, commit : Nat]
    /\ reader.at \in {"receive", "read"} => reader.commit \in 1..Len(branch)
    /\ reader.at \in {"mark", "negotiate", "receive", "read"} => dir.repo

\* A directory of the program's own is not marked, so nothing empties it.
ForeignIsUnmarked ==
    foreign => /\ dir.repo /\ 0 \in dir.packs /\ ~dir.marker
               /\ reader.at \notin {"empty", "mark"}

\* What is this crate's is marked, but while it is being emptied or made; a
\* transfer is added only to what compact left within the bound.
OwnIsBounded ==
    (~foreign /\ ~cut) =>
        /\ reader.at \notin {"empty", "mark"} => (dir.repo => dir.marker)
        /\ reader.at # "empty" => (~dir.repo => dir.packs = {})
        /\ compact_after > 0 =>
               /\ Cardinality(dir.packs) <= compact_after + 1
               /\ reader.at \in {"open", "mark", "negotiate", "receive"} =>
                      Cardinality(dir.packs) <= compact_after

\* The inductive invariant of the working directory.
GitInv ==
    /\ GitShape /\ ForeignIsUnmarked /\ OwnIsBounded
    /\ IsFiniteSet(dir.packs)
    /\ cost \in 0..max_bytes

\* A directory, and a read under way.
DirShape == [repo : BOOLEAN, marker : BOOLEAN, packs : SUBSET Nat,
             needs : UNION {[d -> SUBSET Nat] : d \in SUBSET Nat}]
ReaderShape == [at : {"rest", "compact", "empty", "open", "mark", "negotiate", "receive", "read"},
                want : BOOLEAN, commit : Nat]

\* An absent directory, and one that is somebody else's.
LEMMA GitInitInv == ASSUME GitInit PROVE GitInv
<1>. DEFINE own == [Nothing EXCEPT !.repo = TRUE, !.packs = {0}, !.needs = [c \in {0} |-> {0}]]
<1>1. Nothing \in DirShape /\ ~Nothing.repo /\ ~Nothing.marker /\ Nothing.packs = {}
  <2>1. [c \in {} |-> {}] \in UNION {[d -> SUBSET Nat] : d \in SUBSET Nat}
    <3>1. [c \in {} |-> {}] \in [{} -> SUBSET Nat] /\ {} \in SUBSET Nat
      OBVIOUS
    <3>. QED BY <3>1
  <2>. QED BY <2>1 DEF Nothing, DirShape
<1>2. own \in DirShape /\ own.repo /\ ~own.marker /\ own.packs = {0}
  <2>1. [c \in {0} |-> {0}] \in UNION {[d -> SUBSET Nat] : d \in SUBSET Nat}
    <3>1. [c \in {0} |-> {0}] \in [{0} -> SUBSET Nat] /\ {0} \in SUBSET Nat
      OBVIOUS
    <3>. QED BY <3>1
  <2>2. {0} \in SUBSET Nat
    OBVIOUS
  <2>. QED BY <1>1, <2>1, <2>2 DEF DirShape
<1>3. dir = (IF foreign THEN own ELSE Nothing) /\ foreign \in BOOLEAN /\ cut = FALSE /\ cost = 0
  BY DEF GitInit
<1>. HIDE DEF own
<1>4. branch \in Seq(Trees) /\ Len(branch) > 0
  <2>1. PICK t \in Trees : branch = <<t>>
    BY DEF GitInit
  <2>. QED BY <2>1
<1>5. reader \in ReaderShape /\ reader.at = "rest"
  BY DEF GitInit, AtRest, ReaderShape
<1>6. GitShape
  BY <1>1, <1>2, <1>3, <1>4, <1>5 DEF GitShape, DirShape, ReaderShape
<1>7. IsFiniteSet({}) /\ Cardinality({}) = 0 /\ IsFiniteSet({0})
  BY FS_EmptySet, FS_Singleton
<1>8. ForeignIsUnmarked
  BY <1>2, <1>3, <1>5 DEF ForeignIsUnmarked
<1>9. OwnIsBounded
  <2>. SUFFICES ASSUME ~foreign PROVE OwnIsBounded
    BY DEF OwnIsBounded
  <2>1. dir.packs = {} /\ ~dir.repo /\ Cardinality(dir.packs) = 0 /\ compact_after \in Nat
    BY <1>1, <1>3, <1>7, GitAssumption
  <2>. QED BY <2>1, <1>5 DEF OwnIsBounded
<1>10. IsFiniteSet(dir.packs)
  BY <1>1, <1>2, <1>3, <1>7
<1>. QED BY <1>3, <1>6, <1>8, <1>9, <1>10, GitAssumption DEF GitInv

\* Each step of a read, a crash and a commit upstream.
LEMMA GitStepInv == ASSUME GitInv, [GitNext]_gitVars PROVE GitInv'
<1>. USE DEF GitInv
<1>t. /\ dir \in DirShape /\ reader \in ReaderShape /\ IsFiniteSet(dir.packs)
      /\ Cardinality(dir.packs) \in Nat /\ dir.packs \in SUBSET Nat
      /\ compact_after \in Nat /\ max_bytes \in Nat
      /\ foreign \in BOOLEAN /\ cut \in BOOLEAN /\ branch \in Seq(Trees)
  BY GitAssumption, FS_CardinalityType DEF GitShape, DirShape, ReaderShape
<1>e. dir.packs = {} => Cardinality(dir.packs) = 0
  BY FS_EmptySet
<1>r. AtRest \in ReaderShape /\ AtRest.at = "rest"
  BY DEF AtRest, ReaderShape
\* Steps that only move the reader.
<1>m. ASSUME reader' \in ReaderShape,
             reader'.at \in {"receive", "read"} => reader'.commit \in 1..Len(branch),
             reader'.at \in {"mark", "negotiate", "receive", "read"} => dir.repo,
             UNCHANGED <<foreign, dir, branch>>, cost' \in 0..max_bytes, cut' \in BOOLEAN,
             foreign => reader'.at \notin {"empty", "mark"},
             ~cut' => /\ ~cut
                      /\ reader.at \in {"empty", "mark"} => reader'.at = reader.at
                      /\ reader'.at \in {"open", "mark", "negotiate", "receive"} =>
                            \/ reader.at \in {"open", "mark", "negotiate", "receive"}
                            \/ dir.marker => Cardinality(dir.packs) <= compact_after
                            \/ compact_after = 0
      PROVE  GitInv'
  <2>1. GitShape'
    BY <1>m, <1>t DEF GitShape, DirShape, ReaderShape
  <2>2. ForeignIsUnmarked'
    BY <1>m DEF ForeignIsUnmarked
  <2>4. OwnIsBounded'
    <3>. SUFFICES ASSUME ~foreign, ~cut' PROVE OwnIsBounded'
      BY <1>m DEF OwnIsBounded
    <3>. DEFINE count == Cardinality(dir.packs)
    <3>1. Cardinality(dir.packs)' = count /\ dir' = dir /\ ~cut
      BY <1>m
    <3>2. reader'.at \notin {"empty", "mark"} => (dir.repo => dir.marker)
      BY <1>m, <3>1 DEF OwnIsBounded, ReaderShape
    <3>3. reader'.at # "empty" => (~dir.repo => dir.packs = {})
      BY <1>m, <3>1 DEF OwnIsBounded, ReaderShape
    <3>4. compact_after > 0 => count <= compact_after + 1
      BY <3>1 DEF OwnIsBounded
    <3>5. ASSUME compact_after > 0, reader'.at \in {"open", "mark", "negotiate", "receive"}
          PROVE  count <= compact_after
      <4>1. CASE reader.at \in {"open", "mark", "negotiate", "receive"}
        BY <3>1, <3>5, <4>1 DEF OwnIsBounded
      <4>2. CASE ~(reader.at \in {"open", "mark", "negotiate", "receive"})
        <5>1. reader.at # "empty"
          BY <1>m, <3>1, <3>5
        <5>2. dir.marker => count <= compact_after
          BY <1>m, <3>1, <3>5, <4>2, <1>t
        <5>3. ~dir.marker => dir.packs = {}
          BY <3>1, <4>2, <5>1 DEF OwnIsBounded
        <5>. QED BY <5>2, <5>3, <1>e, <1>t
      <4>. QED BY <4>1, <4>2
    <3>. HIDE DEF count
    <3>. QED BY <3>1, <3>2, <3>3, <3>4, <3>5, <1>m DEF OwnIsBounded
  <2>. QED BY <2>1, <2>2, <2>4, <1>m, <1>t
<1>0. CASE UNCHANGED gitVars
  BY <1>0, <1>t DEF gitVars, GitShape, ForeignIsUnmarked, OwnIsBounded
<1>1. CASE CommitPushed
  <2>1. PICK t \in Trees : branch' = Append(branch, t)
    BY <1>1 DEF CommitPushed
  <2>2. branch' \in Seq(Trees) /\ Len(branch') = Len(branch) + 1 /\ Len(branch) \in Nat
    BY <2>1, <1>t
  <2>3. UNCHANGED <<foreign, dir, reader, cost, mishaps, cut>>
    BY <1>1 DEF CommitPushed
  <2>4. GitShape'
    BY <2>2, <2>3 DEF GitShape
  <2>5. ForeignIsUnmarked' /\ OwnIsBounded'
    BY <2>3 DEF ForeignIsUnmarked, OwnIsBounded
  <2>. QED BY <2>3, <2>4, <2>5
<1>2. CASE BeginOnce
  <2>1. /\ reader' \in ReaderShape /\ reader'.at = "compact" /\ reader.at = "rest"
        /\ UNCHANGED <<foreign, dir, branch, cut>> /\ cost' \in 0..max_bytes
    BY <1>2, <1>t DEF BeginOnce, ReaderShape
  <2>. QED BY <2>1, <1>m, <1>t
<1>3. CASE Compact
  <2>1. PICK to \in {"empty", "open"} :
            /\ reader' = [reader EXCEPT !.at = to]
            /\ to = "empty" => dir.marker
            /\ to = "open" => \/ compact_after = 0 \/ ~dir.marker
                              \/ Cardinality(dir.packs) <= compact_after
    BY <1>3, <1>t DEF Compact, Goes
  <2>2. reader' \in ReaderShape /\ reader'.at = to /\ reader.at = "compact"
    BY <2>1, <1>3, <1>t DEF Compact, ReaderShape
  <2>3. UNCHANGED <<foreign, dir, branch, cost, mishaps, cut>>
    BY <1>3 DEF Compact
  <2>4. foreign => to # "empty"
    BY <2>1 DEF ForeignIsUnmarked
  <2>. QED BY <2>1, <2>2, <2>3, <2>4, <1>m, <1>t
<1>4. CASE Empty
  <2>0. reader.at = "empty" /\ UNCHANGED <<foreign, branch, cost, mishaps, cut>> /\ ~foreign
    BY <1>4, <1>t DEF Empty, ForeignIsUnmarked
  <2>1. /\ dir' \in DirShape /\ dir'.packs \subseteq dir.packs
    <3>1. CASE dir' = [dir EXCEPT !.marker = FALSE]
      BY <3>1, <1>t DEF DirShape
    <3>2. CASE dir' = [dir EXCEPT !.repo = FALSE]
      BY <3>2, <1>t DEF DirShape
    <3>3. ASSUME NEW c \in dir.packs, dir' = [dir EXCEPT !.packs = @ \ {c}]
          PROVE  dir' \in DirShape /\ dir'.packs \subseteq dir.packs
      BY <3>3, <1>t DEF DirShape
    <3>. QED BY <1>4, <3>1, <3>2, <3>3 DEF Empty
  <2>2. IsFiniteSet(dir'.packs) /\ Cardinality(dir'.packs) <= Cardinality(dir.packs)
        /\ Cardinality(dir'.packs) \in Nat
    BY <2>1, <1>t, FS_Subset, FS_CardinalityType
  <2>3. PICK to \in {"open", "empty"} :
            /\ reader' = [reader EXCEPT !.at = to]
            /\ to = "open" => ~dir'.marker /\ ~dir'.repo /\ dir'.packs = {}
    BY <1>4 DEF Empty, Goes
  <2>4. reader' \in ReaderShape /\ reader'.at = to
    BY <2>3, <1>t DEF ReaderShape
  <2>5. GitShape'
    BY <2>0, <2>1, <2>4 DEF GitShape, DirShape, ReaderShape
  <2>6. OwnIsBounded'
    <3>1. dir'.packs = {} => Cardinality(dir'.packs) = 0
      BY FS_EmptySet
    <3>2. (~cut /\ compact_after > 0) => Cardinality(dir'.packs) <= compact_after + 1
      BY <2>0, <2>2, <1>t DEF OwnIsBounded
    <3>. QED BY <2>0, <2>2, <2>3, <2>4, <3>1, <3>2, <1>t DEF OwnIsBounded
  <2>. QED BY <2>0, <2>2, <2>5, <2>6 DEF ForeignIsUnmarked
<1>5. CASE Open
  <2>0. reader.at = "open" /\ UNCHANGED <<foreign, branch, cost, mishaps, cut>>
    BY <1>5 DEF Open
  <2>1. CASE dir.repo /\ Goes("negotiate") /\ UNCHANGED dir
    <3>1. reader' \in ReaderShape /\ reader'.at = "negotiate"
      BY <2>1, <1>t DEF Goes, ReaderShape
    <3>. QED BY <2>0, <2>1, <3>1, <1>m, <1>t
  <2>2. CASE ~dir.repo /\ Goes("mark") /\ dir' = [dir EXCEPT !.repo = TRUE]
    <3>1. reader' \in ReaderShape /\ reader'.at = "mark"
      BY <2>2, <1>t DEF Goes, ReaderShape
    <3>2. dir' \in DirShape /\ dir'.repo /\ dir'.packs = dir.packs
      BY <2>2, <1>t DEF DirShape
    <3>3. GitShape'
      BY <2>0, <3>1, <3>2 DEF GitShape, DirShape, ReaderShape
    <3>4. ForeignIsUnmarked' /\ OwnIsBounded'
      BY <2>0, <2>2, <3>1, <3>2, <1>t DEF ForeignIsUnmarked, OwnIsBounded
    <3>. QED BY <2>0, <3>2, <3>3, <3>4, <1>t
  <2>3. CASE reader' = AtRest /\ UNCHANGED dir
    BY <2>0, <2>3, <1>r, <1>m, <1>t
  <2>. QED BY <1>5, <2>1, <2>2, <2>3 DEF Open
<1>6. CASE Mark
  <2>0. reader.at = "mark" /\ UNCHANGED <<foreign, branch, cost, mishaps, cut>> /\ ~foreign
        /\ dir.repo
    BY <1>6, <1>t DEF Mark, ForeignIsUnmarked, GitShape
  <2>1. reader' \in ReaderShape /\ reader'.at = "negotiate"
    BY <1>6, <1>t DEF Mark, Goes, ReaderShape
  <2>2. dir' \in DirShape /\ dir'.marker /\ dir'.packs = dir.packs /\ dir'.repo = dir.repo
    BY <1>6, <1>t DEF Mark, DirShape
  <2>3. GitShape'
    BY <2>0, <2>1, <2>2 DEF GitShape, DirShape, ReaderShape
  <2>4. ForeignIsUnmarked' /\ OwnIsBounded'
    BY <2>0, <2>1, <2>2, <1>t DEF ForeignIsUnmarked, OwnIsBounded
  <2>. QED BY <2>0, <2>2, <2>3, <2>4, <1>t
<1>7. CASE Negotiate
  <2>0. reader.at = "negotiate" /\ UNCHANGED <<foreign, dir, branch, cost, mishaps, cut>> /\ dir.repo
    BY <1>7 DEF Negotiate, GitShape
  <2>b. Tip \in Nat /\ (Tip > 0 => Tip \in 1..Len(branch))
    BY <1>t DEF Tip
  <2>1. CASE reader' = AtRest
    BY <2>0, <2>1, <1>r, <1>m, <1>t
  <2>2. CASE reader' # AtRest
    <3>1. PICK to \in {"read", "receive"} : reader' = [reader EXCEPT !.commit = Tip, !.at = to]
      BY <1>7, <2>2 DEF Negotiate
    <3>2. reader' \in ReaderShape /\ reader'.at = to /\ reader'.commit = Tip
      BY <3>1, <2>b, <1>t DEF ReaderShape
    <3>3. Tip > 0
      BY DEF GitShape, Tip
    <3>. QED BY <2>0, <2>b, <3>2, <3>3, <1>m, <1>t DEF Tip
  <2>. QED BY <2>1, <2>2
<1>8. CASE ReceivePack
  <2>. DEFINE packs == dir.packs \union {reader.commit}
              more == [c \in DOMAIN dir.needs \union {reader.commit} |->
                          IF c = reader.commit THEN packs ELSE dir.needs[c]]
  <2>0. /\ reader.at = "receive" /\ UNCHANGED <<foreign, branch, cost, mishaps, cut>>
        /\ dir' = [dir EXCEPT !.packs = packs, !.needs = more]
        /\ reader' = [reader EXCEPT !.at = "read"] /\ dir.repo
    BY <1>8 DEF ReceivePack, Goes, GitShape
  <2>1. reader.commit \in Nat /\ packs \in SUBSET Nat
    BY <1>t DEF ReaderShape
  <2>2. more \in UNION {[d -> SUBSET Nat] : d \in SUBSET Nat}
    <3>1. PICK d \in SUBSET Nat : dir.needs \in [d -> SUBSET Nat]
      BY <1>t DEF DirShape
    <3>2. d \union {reader.commit} \in SUBSET Nat /\ more \in [d \union {reader.commit} -> SUBSET Nat]
      BY <2>1, <3>1
    <3>. QED BY <3>2
  <2>. HIDE DEF more
  <2>3. dir' \in DirShape /\ dir'.packs = packs /\ dir'.repo = dir.repo /\ dir'.marker = dir.marker
    BY <2>0, <2>1, <2>2, <1>t DEF DirShape
  <2>4. reader' \in ReaderShape /\ reader'.at = "read" /\ reader'.commit = reader.commit
    BY <2>0, <1>t DEF ReaderShape
  <2>5. IsFiniteSet(packs) /\ Cardinality(packs) <= Cardinality(dir.packs) + 1
        /\ Cardinality(packs) \in Nat
    <3>1. IsFiniteSet(packs) /\ (Cardinality(packs) = Cardinality(dir.packs)
                                 \/ Cardinality(packs) = Cardinality(dir.packs) + 1)
      BY <1>t, FS_AddElement
    <3>. QED BY <3>1, <1>t
  <2>6. GitShape'
    BY <2>0, <2>3, <2>4 DEF GitShape, DirShape, ReaderShape
  <2>7. ForeignIsUnmarked'
    BY <2>0, <2>3, <2>4 DEF ForeignIsUnmarked
  <2>8. OwnIsBounded'
    <3>1. Cardinality(dir.packs)' = Cardinality(packs)
      BY <2>3
    <3>2. (~foreign /\ ~cut /\ compact_after > 0) => Cardinality(packs) <= compact_after + 1
      BY <2>0, <2>5, <1>t DEF OwnIsBounded
    <3>. HIDE DEF packs
    <3>. QED BY <2>0, <2>3, <2>4, <3>1, <3>2 DEF OwnIsBounded
  <2>. QED BY <2>0, <2>3, <2>5, <2>6, <2>7, <2>8
<1>9. CASE ReadDocuments
  <2>0. reader.at = "read" /\ UNCHANGED <<foreign, dir, branch, mishaps, cut>> /\ reader' = AtRest
    BY <1>9 DEF ReadDocuments
  <2>1. branch[reader.commit] \in Trees
    BY <2>0, <1>t DEF GitShape
  <2>2. read_documents(branch[reader.commit]).bytes \in 0..max_bytes
    BY <2>1, GitAssumption, LoadedIsBounded DEF Entries, Budgets
  <2>3. cost' \in 0..max_bytes
    BY <1>9, <2>2, <1>t DEF ReadDocuments
  <2>. QED BY <2>0, <2>3, <1>r, <1>m, <1>t
<1>10. CASE Mishap
  <2>1. /\ UNCHANGED <<foreign, dir, branch, cost>> /\ reader' = AtRest
        /\ cut' = (cut \/ reader.at \in {"empty", "mark"})
    BY <1>10 DEF Mishap
  <2>. QED BY <2>1, <1>r, <1>m, <1>t
<1>. QED BY <1>0, <1>1, <1>2, <1>3, <1>4, <1>5, <1>6, <1>7, <1>8, <1>9, <1>10 DEF GitNext

\* The program's own repository is never emptied, this crate's directory stays
\* within its bound and a read within max_bytes.
THEOREM CacheIsKeptCorrect == GitSpec => []CacheIsKept
<1>1. ASSUME GitInv PROVE CacheIsKept
  BY <1>1, GitAssumption DEF GitInv, ForeignIsUnmarked, OwnIsBounded, CacheIsKept
<1>. QED BY <1>1, GitInitInv, GitStepInv, PTL DEF GitSpec

-----------------------------------------------------------------------------

(* Documents of several keys.  The order of a prefix's keys decides nothing    *)
(* because what documents that do not clash have together is one tree          *)
(* (UnionIsUnique), and folding them, in any order, makes it (FoldOfAPrefix).  *)

\* To be under is a strict order.
LEMMA UnderOrder ==
  ASSUME NEW Names
  PROVE  /\ \A p \in PathsOf(Names) : ~Under(p, p)
         /\ \A p, q \in PathsOf(Names) : Under(p, q) => ~Under(q, p)
         /\ \A p, q, r \in PathsOf(Names) : Under(p, q) /\ Under(q, r) => Under(p, r)
<1>1. \A p \in PathsOf(Names) : p \in Seq(Names) /\ Len(p) \in Nat /\ Len(p) >= 1
  <2>1. \A p \in Seq(Names) : p # <<>> => Len(p) # 0
    BY EmptySeq
  <2>. QED BY <2>1, LenProperties DEF PathsOf
<1>2. \A p \in PathsOf(Names) : ~Under(p, p)
  BY <1>1 DEF Under
<1>3. \A p, q \in PathsOf(Names) : Under(p, q) => ~Under(q, p)
  BY <1>1 DEF Under
<1>4. ASSUME NEW p \in PathsOf(Names), NEW q \in PathsOf(Names), NEW r \in PathsOf(Names),
             Under(p, q), Under(q, r)
      PROVE  Under(p, r)
  <2>1. /\ Len(q) < Len(p) /\ SubSeq(p, 1, Len(q)) = q
        /\ Len(r) < Len(q) /\ SubSeq(q, 1, Len(r)) = r
    BY <1>4 DEF Under
  <2>2. /\ 1 \in 1..Len(p) /\ Len(q) \in 1..Len(p)
        /\ 1 \in 1..(Len(q) - 1 + 1) /\ Len(r) \in 1..(Len(q) - 1 + 1)
        /\ 1 + 1 - 1 = 1 /\ 1 + Len(r) - 1 = Len(r) /\ Len(r) < Len(p)
    BY <1>1, <2>1
  <2>3. SubSeq(SubSeq(p, 1, Len(q)), 1, Len(r)) = SubSeq(p, 1 + 1 - 1, 1 + Len(r) - 1)
    BY <1>1, <2>2, SubSeqOfSubSeq
  <2>. QED BY <2>1, <2>2, <2>3 DEF Under
<1>. QED BY <1>2, <1>3, <1>4

\* Somewhere the two trees meet, and one is no table there.
Clash(a, b) ==
    \E p \in DOMAIN a, q \in DOMAIN b : Touch(p, q) /\ ~MeetInTables(a, p, b, q)

\* overlapping_paths finds something when the two clash, and neither comes first.
LEMMA ClashIsOverlap ==
  ASSUME NEW a, NEW b
  PROVE  /\ OverlappingPaths(a, b) # {} <=> Clash(a, b)
         /\ Clash(a, b) <=> Clash(b, a)
<1>. DEFINE meets == {y \in (DOMAIN a) \X (DOMAIN b) :
                          Touch(y[1], y[2]) /\ ~MeetInTables(a, y[1], b, y[2])}
            at(x) == IF Len(x[1]) < Len(x[2]) THEN x[1] ELSE x[2]
<1>1. OverlappingPaths(a, b) = {at(x) : x \in meets}
  BY DEF OverlappingPaths
<1>2. meets # {} <=> Clash(a, b)
  <2>1. ASSUME NEW y \in meets PROVE Clash(a, b)
    BY DEF Clash
  <2>2. ASSUME NEW p \in DOMAIN a, NEW q \in DOMAIN b, Touch(p, q), ~MeetInTables(a, p, b, q)
        PROVE  <<p, q>> \in meets
    BY <2>2
  <2>. QED BY <2>1, <2>2 DEF Clash
<1>3. OverlappingPaths(a, b) # {} <=> meets # {}
  <2>. HIDE DEF meets, at
  <2>. QED BY <1>1
<1>4. Clash(a, b) <=> Clash(b, a)
  BY DEF Clash, Touch, MeetInTables
<1>. QED BY <1>2, <1>3, <1>4

\* t is what the trees D[i], i \in I, have together: every leaf, but for an empty
\* table where another has something inside it.
InUnion(p, D, I) ==
    \E i \in I : /\ p \in DOMAIN D[i]
                 /\ D[i][p] = EmptyTable =>
                       \A j \in I : \A q \in DOMAIN D[j] : ~Under(q, p)

\* t is such a tree.
IsUnion(t, D, I) ==
    /\ t = [p \in DOMAIN t |-> t[p]]
    /\ \A p : p \in DOMAIN t <=> InUnion(p, D, I)
    /\ \A i \in I : \A p \in DOMAIN t : p \in DOMAIN D[i] => t[p] = D[i][p]

\* Every leaf of one of the trees is in t, or something inside it is.
Covered(t, D, I) ==
    \A i \in I : \A p \in DOMAIN D[i] : \E r \in DOMAIN t : r = p \/ Under(r, p)

\* No two of them clash.
Apart(D, I) == \A i, j \in I : i # j => ~Clash(D[i], D[j])

\* There is only one such tree.
LEMMA UnionIsUnique ==
  ASSUME NEW s, NEW t, NEW D, NEW I, IsUnion(s, D, I), IsUnion(t, D, I)
  PROVE  s = t
<1>1. DOMAIN s = DOMAIN t
  BY DEF IsUnion
<1>2. ASSUME NEW p \in DOMAIN t PROVE s[p] = t[p]
  <2>1. PICK i \in I : p \in DOMAIN D[i]
    BY DEF IsUnion, InUnion
  <2>. QED BY <1>1, <2>1 DEF IsUnion
<1>. QED BY <1>1, <1>2 DEF IsUnion

\* No leaf of it is inside another.
LEMMA UnionIsTree ==
  ASSUME NEW Names, NEW D, NEW I, \A i \in I : IsTree(D[i], Names), Apart(D, I),
         NEW t, IsUnion(t, D, I)
  PROVE  IsTree(t, Names)
<1>1. DOMAIN t \subseteq PathsOf(Names)
  BY DEF IsUnion, InUnion, IsTree
<1>2. ASSUME NEW p \in DOMAIN t, NEW r \in DOMAIN t, Under(p, r) PROVE FALSE
  <2>1. PICK i \in I : p \in DOMAIN D[i]
    BY DEF IsUnion, InUnion
  <2>2. PICK j \in I : r \in DOMAIN D[j] /\ D[j][r] # EmptyTable
    BY <1>2, <2>1 DEF IsUnion, InUnion
  <2>3. i # j
    BY <1>2, <2>1, <2>2 DEF IsTree
  <2>4. p # r /\ ~Under(r, p)
    BY <1>1, <1>2, UnderOrder
  <2>5. Clash(D[i], D[j])
    BY <1>2, <2>1, <2>2, <2>4 DEF Clash, Touch, MeetInTables
  <2>. QED BY <2>3, <2>5 DEF Apart
<1>. QED BY <1>1, <1>2 DEF IsTree, IsUnion

\* One more tree clashes with what the others have together when it clashes
\* with one of them.
LEMMA UnionClashes ==
  ASSUME NEW Names, NEW D, NEW I, \A i \in I : IsTree(D[i], Names),
         NEW t, IsUnion(t, D, I), Covered(t, D, I), NEW d, IsTree(d, Names)
  PROVE  Clash(t, d) <=> \E i \in I : Clash(D[i], d)
<1>1. ASSUME Clash(t, d) PROVE \E i \in I : Clash(D[i], d)
  <2>1. PICK p \in DOMAIN t, q \in DOMAIN d : Touch(p, q) /\ ~MeetInTables(t, p, d, q)
    BY <1>1 DEF Clash
  <2>2. PICK i \in I : p \in DOMAIN D[i] /\ t[p] = D[i][p]
    BY DEF IsUnion, InUnion
  <2>. QED BY <2>1, <2>2 DEF Clash, MeetInTables
<1>2. ASSUME NEW i \in I, Clash(D[i], d) PROVE Clash(t, d)
  <2>1. PICK p \in DOMAIN D[i], q \in DOMAIN d : Touch(p, q) /\ ~MeetInTables(D[i], p, d, q)
    BY <1>2 DEF Clash
  <2>2. CASE p \in DOMAIN t
    <3>1. t[p] = D[i][p]
      BY <2>2 DEF IsUnion
    <3>. QED BY <2>1, <2>2, <3>1 DEF Clash, MeetInTables
  <2>3. CASE p \notin DOMAIN t
    <3>1. D[i][p] = EmptyTable
      BY <2>3 DEF IsUnion, InUnion
    <3>2. PICK r \in DOMAIN t : Under(r, p)
      BY <2>3 DEF Covered
    <3>3. (p = q \/ Under(p, q)) /\ d[q] # EmptyTable
      BY <2>1, <3>1 DEF Touch, MeetInTables
    <3>4. p \in PathsOf(Names) /\ q \in PathsOf(Names) /\ r \in PathsOf(Names)
      BY DEF IsTree, IsUnion, InUnion
    <3>5. Under(r, q) /\ r # q /\ ~Under(q, r)
      BY <3>2, <3>3, <3>4, UnderOrder
    <3>. QED BY <3>3, <3>5 DEF Clash, Touch, MeetInTables
  <2>. QED BY <2>2, <2>3
<1>. QED BY <1>1, <1>2

\* Merging one more tree that clashes with none of them.
LEMMA MergeIsUnion ==
  ASSUME NEW Names, NEW D, NEW I, NEW m, m \notin I,
         \A i \in I \union {m} : IsTree(D[i], Names), Apart(D, I \union {m}),
         NEW t, IsUnion(t, D, I), Covered(t, D, I)
  PROVE  /\ IsUnion(MergeTrees(t, D[m]), D, I \union {m})
         /\ Covered(MergeTrees(t, D[m]), D, I \union {m})
<1>. DEFINE d == D[m]
            J == I \union {m}
            kept == {p \in DOMAIN t :
                        \A q \in DOMAIN d :
                            Touch(p, q) => Under(p, q) /\ d[q] = EmptyTable}
            laid == {q \in DOMAIN d :
                        ~(d[q] = EmptyTable /\ \E p \in DOMAIN t : Under(p, q))}
            u == MergeTrees(t, d)
<1>1. u = [p \in kept \union laid |-> IF p \in laid THEN d[p] ELSE t[p]]
  BY DEF MergeTrees
<1>2. /\ u = [p \in DOMAIN u |-> u[p]] /\ DOMAIN u = kept \union laid
      /\ \A p \in laid : u[p] = d[p]
      /\ \A p \in kept \ laid : u[p] = t[p]
  BY <1>1
<1>3. /\ IsTree(t, Names) /\ IsTree(d, Names)
      /\ \A i \in I : IsTree(D[i], Names)
  <2>1. Apart(D, I)
    BY DEF Apart
  <2>. QED BY <2>1, UnionIsTree
<1>4. ~Clash(t, d) /\ \A i \in I : ~Clash(D[i], d)
  <2>1. \A i \in I : ~Clash(D[i], d)
    BY DEF Apart
  <2>. QED BY <1>3, <2>1, UnionClashes
<1>5. \A p \in DOMAIN t : \E i \in I : p \in DOMAIN D[i] /\ t[p] = D[i][p]
  BY DEF IsUnion, InUnion
<1>6. DOMAIN t \subseteq PathsOf(Names) /\ DOMAIN d \subseteq PathsOf(Names)
      /\ \A i \in J : DOMAIN D[i] \subseteq PathsOf(Names)
  BY <1>3 DEF IsTree
<1>. HIDE DEF u, d
<1>7. ASSUME NEW p \in DOMAIN u PROVE InUnion(p, D, J)
  <2>1. CASE p \in laid
    <3>1. ASSUME d[p] = EmptyTable, NEW j \in J, NEW q \in DOMAIN D[j], Under(q, p) PROVE FALSE
      <4>1. CASE j = m
        BY <2>1, <3>1, <4>1, <1>3 DEF IsTree, d
      <4>2. CASE j \in I
        <5>1. PICK r \in DOMAIN t : r = q \/ Under(r, q)
          BY <4>2 DEF Covered
        <5>2. Under(r, p)
          BY <3>1, <5>1, <2>1, <1>6, UnderOrder
        <5>. QED BY <2>1, <3>1, <5>2
      <4>. QED BY <4>1, <4>2
    <3>. QED BY <2>1, <3>1 DEF InUnion, d
  <2>2. CASE p \in kept
    <3>1. PICK i \in I : /\ p \in DOMAIN D[i]
                         /\ D[i][p] = EmptyTable =>
                               \A j \in I : \A q \in DOMAIN D[j] : ~Under(q, p)
      BY <2>2 DEF IsUnion, InUnion
    <3>2. \A q \in DOMAIN d : ~Under(q, p)
      BY <2>2, <1>6, UnderOrder DEF Touch
    <3>. QED BY <3>1, <3>2 DEF InUnion, d
  <2>. QED BY <2>1, <2>2, <1>2
<1>8. ASSUME NEW p, InUnion(p, D, J) PROVE p \in DOMAIN u
  <2>0. PICK i \in J : /\ p \in DOMAIN D[i]
                       /\ D[i][p] = EmptyTable =>
                             \A j \in J : \A q \in DOMAIN D[j] : ~Under(q, p)
    BY <1>8 DEF InUnion
  <2>1. CASE i = m
    <3>1. d[p] = EmptyTable => \A q \in DOMAIN t : ~Under(q, p)
      BY <2>0, <2>1, <1>5 DEF d
    <3>2. p \in laid
      BY <2>0, <2>1, <3>1 DEF d
    <3>. QED BY <3>2, <1>2
  <2>2. CASE i \in I
    <3>1. p \in DOMAIN t
      BY <2>0, <2>2 DEF IsUnion, InUnion
    <3>2. t[p] = D[i][p]
      BY <3>1, <2>0, <2>2 DEF IsUnion
    <3>3. CASE p \in DOMAIN d
      <4>1. MeetInTables(t, p, d, p)
        BY <3>1, <3>3, <1>4 DEF Clash, Touch
      <4>2. t[p] = EmptyTable
        BY <4>1, <3>1, <1>6, UnderOrder DEF MeetInTables
      <4>3. \A q \in DOMAIN t : ~Under(q, p)
        BY <4>2, <3>2, <2>0, <1>5
      <4>4. p \in laid
        BY <4>3, <3>3
      <4>. QED BY <4>4, <1>2
    <3>4. CASE p \notin DOMAIN d
      <4>1. ASSUME NEW q \in DOMAIN d, Touch(p, q) PROVE Under(p, q) /\ d[q] = EmptyTable
        <5>1. MeetInTables(t, p, d, q)
          BY <4>1, <3>1, <1>4 DEF Clash
        <5>2. ~(Under(q, p) /\ t[p] = EmptyTable)
          BY <3>2, <2>0 DEF d
        <5>. QED BY <5>1, <5>2, <3>4 DEF MeetInTables
      <4>2. p \in kept
        BY <4>1, <3>1
      <4>. QED BY <4>2, <1>2
    <3>. QED BY <3>3, <3>4
  <2>. QED BY <2>1, <2>2
<1>9. ASSUME NEW i \in J, NEW p \in DOMAIN u, p \in DOMAIN D[i] PROVE u[p] = D[i][p]
  <2>1. CASE i = m
    <3>1. p \in laid
      <4>1. p \in DOMAIN d /\ Touch(p, p) /\ ~Under(p, p)
        BY <1>9, <2>1, <1>6, UnderOrder DEF d, Touch
      <4>. QED BY <4>1, <1>2
    <3>. QED BY <3>1, <2>1, <1>2 DEF d
  <2>2. CASE i \in I /\ p \in laid
    <3>1. MeetInTables(D[i], p, d, p) /\ ~Under(p, p)
      BY <1>9, <2>2, <1>4, <1>6, UnderOrder DEF Clash, Touch
    <3>. QED BY <3>1, <2>2, <1>2 DEF MeetInTables
  <2>3. CASE i \in I /\ p \notin laid
    <3>1. p \in kept \ laid
      BY <2>3, <1>2
    <3>2. u[p] = t[p] /\ p \in DOMAIN t
      BY <3>1, <1>2
    <3>. QED BY <3>2, <1>9, <2>3 DEF IsUnion
  <2>. QED BY <2>1, <2>2, <2>3
<1>10. ASSUME NEW r \in DOMAIN t PROVE \E s \in DOMAIN u : s = r \/ Under(s, r)
  <2>1. CASE r \in kept
    BY <2>1, <1>2
  <2>2. CASE r \notin kept
    <3>1. PICK q \in DOMAIN d : Touch(r, q) /\ ~(Under(r, q) /\ d[q] = EmptyTable)
      BY <2>2
    <3>2. MeetInTables(t, r, d, q)
      BY <3>1, <1>4 DEF Clash
    <3>3. q = r \/ Under(q, r)
      BY <3>1, <3>2 DEF MeetInTables
    <3>4. \A p \in DOMAIN t : ~Under(p, q)
      <4>1. ASSUME NEW p \in DOMAIN t, Under(p, q) PROVE FALSE
        <5>1. Under(p, r)
          BY <4>1, <3>3, <1>6, UnderOrder
        <5>. QED BY <5>1, <1>3 DEF IsTree
      <4>. QED BY <4>1
    <3>5. q \in laid
      BY <3>4
    <3>. QED BY <3>3, <3>5, <1>2
  <2>. QED BY <2>1, <2>2
<1>11. ASSUME NEW i \in J, NEW p \in DOMAIN D[i] PROVE \E s \in DOMAIN u : s = p \/ Under(s, p)
  <2>1. ASSUME NEW r \in DOMAIN t, r = p \/ Under(r, p) PROVE \E s \in DOMAIN u : s = p \/ Under(s, p)
    <3>1. PICK s \in DOMAIN u : s = r \/ Under(s, r)
      BY <1>10
    <3>2. s \in PathsOf(Names)
      BY <1>2, <1>6
    <3>. QED BY <2>1, <3>1, <3>2, <1>6, UnderOrder
  <2>2. CASE i \in I
    BY <2>1, <2>2 DEF Covered
  <2>3. CASE i = m /\ p \in laid
    BY <2>3, <1>2
  <2>4. CASE i = m /\ p \notin laid
    BY <2>1, <2>4 DEF d
  <2>. QED BY <2>2, <2>3, <2>4
<1>12. IsUnion(u, D, J)
  BY <1>2, <1>7, <1>8, <1>9 DEF IsUnion
<1>13. Covered(u, D, J)
  BY <1>11 DEF Covered
<1>. QED BY <1>12, <1>13 DEF u, d

\* One step of folded, and the running result.
FoldOne(documents, kind, n, sofar) ==
    IF sofar = Failed THEN Failed
    ELSE IF /\ kind = "Refused"
            /\ OverlappingPaths(sofar, documents[n]) # {}
    THEN Failed
    ELSE MergeTrees(sofar, documents[n])

\* folds is the running result of folded.
IsFold(folds, documents, kind, len) ==
    folds = [n \in 1..len |-> IF n = 1 THEN documents[1]
                           ELSE FoldOne(documents, kind, n, folds[n - 1])]

\* There is a running result.
LEMMA FoldIsRecursive ==
  ASSUME NEW documents, NEW kind, NEW len \in Nat
  PROVE  \E folds : IsFold(folds, documents, kind, len)
<1>. DEFINE S == {n \in Nat : \E g : IsFold(g, documents, kind, n)}
            one(k, b) == FoldOne(documents, kind, k, b)
<1>1. 0 \in S
  <2>1. IsFold([k \in 1..0 |-> documents], documents, kind, 0)
    BY DEF IsFold
  <2>. QED BY <2>1
<1>2. ASSUME NEW n \in Nat, n \in S PROVE n + 1 \in S
  <2>1. PICK g : IsFold(g, documents, kind, n)
    BY <1>2
  <2>. DEFINE h == [k \in 1..(n + 1) |->
                       IF k = n + 1 THEN (IF k = 1 THEN documents[1] ELSE one(k, g[n]))
                       ELSE g[k]]
  <2>2. g = [k \in 1..n |-> IF k = 1 THEN documents[1] ELSE one(k, g[k - 1])]
    BY <2>1 DEF IsFold
  <2>. HIDE DEF one
  <2>3. \A k \in 1..n : g[k] = IF k = 1 THEN documents[1] ELSE one(k, g[k - 1])
    BY <2>2
  <2>4. \A k \in 1..n : h[k] = g[k]
    OBVIOUS
  <2>5. h[n + 1] = IF n + 1 = 1 THEN documents[1] ELSE one(n + 1, g[n])
    OBVIOUS
  <2>6. h = [k \in 1..(n + 1) |-> h[k]]
    OBVIOUS
  <2>. HIDE DEF h
  <2>7. ASSUME NEW k \in 1..(n + 1)
        PROVE  h[k] = IF k = 1 THEN documents[1] ELSE one(k, h[k - 1])
    <3>1. CASE k = n + 1
      <4>1. k # 1 => n \in 1..n /\ k - 1 = n
        BY <3>1
      <4>. QED BY <3>1, <4>1, <2>4, <2>5
    <3>2. CASE k # n + 1
      <4>1. k \in 1..n /\ (k # 1 => k - 1 \in 1..n)
        BY <3>2
      <4>. QED BY <4>1, <2>3, <2>4
    <3>. QED BY <3>1, <3>2
  <2>8. h = [k \in 1..(n + 1) |-> IF k = 1 THEN documents[1] ELSE one(k, h[k - 1])]
    BY <2>6, <2>7
  <2>9. IsFold(h, documents, kind, n + 1)
    BY <2>8 DEF IsFold, one
  <2>. QED BY <2>9
<1>3. len \in S
  <2>. HIDE DEF S
  <2>. QED BY <1>1, <1>2, NatInductionOnSet
<1>. QED BY <1>3

\* folded returns the last of it.
LEMMA FoldedIsTheLast ==
  ASSUME NEW documents, NEW kind, Len(documents) \in Nat,
         \A i \in 1..Len(documents) : documents[i] # Garbage
  PROVE  \E folds : /\ IsFold(folds, documents, kind, Len(documents))
                 /\ Folded(documents, kind) = folds[Len(documents)]
<1>. DEFINE folds == CHOOSE f : IsFold(f, documents, kind, Len(documents))
<1>1. IsFold(folds, documents, kind, Len(documents))
  BY FoldIsRecursive
<1>2. Folded(documents, kind) = folds[Len(documents)]
  BY DEF Folded, IsFold, FoldOne
<1>. QED BY <1>1, <1>2

\* The first n texts all parse.
TreesUpTo(D, n, Names) == \A i \in 1..n : IsTree(D[i], Names)

\* The running result is an error from the first clash on, and what the
\* documents have together before.
FoldIsUnion(folds, D, len) ==
    \A n \in 1..len :
        /\ Apart(D, 1..n) => IsUnion(folds[n], D, 1..n) /\ Covered(folds[n], D, 1..n)
        /\ ~Apart(D, 1..n) => folds[n] = Failed

\* What the fold of a prefix is: an error when two documents clash, and what
\* they have together otherwise.
LEMMA FoldOfAPrefix ==
  ASSUME NEW Names, NEW documents, NEW len \in Nat, TreesUpTo(documents, len, Names),
         NEW folds, IsFold(folds, documents, "Refused", len)
  PROVE  FoldIsUnion(folds, documents, len)
<1>. SUFFICES \A n \in 1..len :
           /\ Apart(documents, 1..n) => /\ IsUnion(folds[n], documents, 1..n)
                                        /\ Covered(folds[n], documents, 1..n)
           /\ ~Apart(documents, 1..n) => folds[n] = Failed
  BY DEF FoldIsUnion
<1>t. \A i \in 1..len : IsTree(documents[i], Names)
  BY DEF TreesUpTo
<1>. DEFINE Right(n) ==
              /\ Apart(documents, 1..n) => /\ IsUnion(folds[n], documents, 1..n)
                                           /\ Covered(folds[n], documents, 1..n)
              /\ ~Apart(documents, 1..n) => folds[n] = Failed
            S == {n \in Nat : n \in 1..len => Right(n)}
<1>0. \A n \in 1..len : folds[n] = IF n = 1 THEN documents[1]
                                ELSE FoldOne(documents, "Refused", n, folds[n - 1])
  BY DEF IsFold
<1>1. 0 \in S
  OBVIOUS
<1>2. ASSUME NEW n \in Nat, n \in S PROVE n + 1 \in S
  <2>. SUFFICES ASSUME n + 1 \in 1..len PROVE Right(n + 1)
    OBVIOUS
  <2>1. CASE n = 0
    <3>1. folds[1] = documents[1] /\ IsTree(documents[1], Names) /\ 1..(n + 1) = {1}
      BY <1>0, <1>t, <2>1
    <3>2. Apart(documents, {1})
      BY DEF Apart
    <3>3. IsUnion(documents[1], documents, {1})
      BY <3>1 DEF IsUnion, InUnion, IsTree
    <3>4. Covered(documents[1], documents, {1})
      BY DEF Covered
    <3>. QED BY <2>1, <3>1, <3>2, <3>3, <3>4
  <2>2. CASE n # 0
    <3>. DEFINE I == 1..n  m == n + 1  t == folds[n]  d == documents[m]
    <3>1. /\ n \in 1..len /\ m \in 1..len /\ m # 1 /\ m - 1 = n /\ m \notin I
          /\ 1..(n + 1) = I \union {m} /\ 1 \in I
          /\ \A i \in I \union {m} : i \in 1..len
      BY <2>2
    <3>2. Right(n)
      BY <1>2, <3>1
    <3>3. folds[m] = FoldOne(documents, "Refused", m, t)
      BY <1>0, <3>1
    <3>4. \A i \in I \union {m} : IsTree(documents[i], Names)
      BY <1>t, <3>1
    <3>. HIDE DEF I, m
    <3>5. CASE ~Apart(documents, I)
      <4>1. t = Failed
        BY <3>2, <3>5 DEF I
      <4>2. ~Apart(documents, I \union {m})
        BY <3>5 DEF Apart
      <4>3. folds[m] = Failed
        BY <3>3, <4>1 DEF FoldOne
      <4>. QED BY <3>1, <4>2, <4>3 DEF m
    <3>6. CASE Apart(documents, I)
      <4>1. IsUnion(t, documents, I) /\ Covered(t, documents, I)
        BY <3>2, <3>6 DEF I
      <4>2. t # Failed
        <5>1. \A p \in DOMAIN t : p # <<>>
          BY <3>4, <4>1 DEF IsUnion, InUnion, IsTree, PathsOf
        <5>2. DOMAIN Failed = {<<>>}
          BY DEF Failed
        <5>. QED BY <5>1, <5>2
      <4>3. Clash(t, d) <=> \E i \in I : Clash(documents[i], d)
        BY <3>4, <4>1, UnionClashes
      <4>4. OverlappingPaths(t, d) # {} <=> Clash(t, d)
        BY ClashIsOverlap
      <4>5. CASE Clash(t, d)
        <5>1. folds[m] = Failed
          BY <3>3, <4>2, <4>4, <4>5 DEF FoldOne
        <5>2. ~Apart(documents, I \union {m})
          BY <3>1, <4>3, <4>5 DEF Apart
        <5>. QED BY <3>1, <5>1, <5>2 DEF m
      <4>6. CASE ~Clash(t, d)
        <5>1. folds[m] = MergeTrees(t, d)
          BY <3>3, <4>2, <4>4, <4>6 DEF FoldOne
        <5>2. Apart(documents, I \union {m})
          <6>1. \A i \in I : ~Clash(documents[i], d) /\ ~Clash(d, documents[i])
            BY <4>3, <4>6, ClashIsOverlap
          <6>. QED BY <3>1, <3>6, <6>1 DEF Apart
        <5>3. /\ IsUnion(MergeTrees(t, d), documents, I \union {m})
              /\ Covered(MergeTrees(t, d), documents, I \union {m})
          BY <3>1, <3>4, <4>1, <5>2, MergeIsUnion
        <5>. QED BY <3>1, <5>1, <5>2, <5>3 DEF m
      <4>. QED BY <4>5, <4>6
    <3>. QED BY <3>5, <3>6
  <2>. QED BY <2>1, <2>2
<1>3. \A n \in Nat : n \in S
  <2>. HIDE DEF S
  <2>. QED BY <1>1, <1>2, NatInductionOnSet
<1>. QED BY <1>3

\* An order names every place once.
LEMMA OrdersAreOnto ==
  ASSUME NEW n \in Nat, NEW o \in Orders(n)
  PROVE  /\ o \in [1..n -> 1..n]
         /\ \A i, j \in 1..n : o[i] = o[j] => i = j
         /\ \A j \in 1..n : \E i \in 1..n : o[i] = j
<1>1. o \in [1..n -> 1..n] /\ \A i, j \in 1..n : o[i] = o[j] => i = j
  BY DEF Orders
<1>2. o \in Injection(1..n, 1..n)
  BY <1>1 DEF Injection, IsInjective
<1>3. IsFiniteSet(1..n)
  BY FS_Interval
<1>4. o \in Surjection(1..n, 1..n)
  BY <1>2, <1>3, FS_Injection
<1>5. \A j \in 1..n : \E i \in 1..n : o[i] = j
  BY <1>4 DEF Surjection
<1>. QED BY <1>1, <1>5

\* What documents have together does not depend on their order.
LEMMA OrderDoesNotMatter ==
  ASSUME NEW D, NEW n \in Nat, NEW o \in Orders(n),
         NEW E, \A i \in 1..n : E[i] = D[o[i]]
  PROVE  /\ Apart(E, 1..n) <=> Apart(D, 1..n)
         /\ \A t : IsUnion(t, E, 1..n) <=> IsUnion(t, D, 1..n)
<1>. DEFINE I == 1..n
<1>1. /\ \A i \in I : o[i] \in I /\ E[i] = D[o[i]]
      /\ \A i, j \in I : o[i] = o[j] => i = j
      /\ \A j \in I : \E i \in I : o[i] = j
  <2>1. /\ o \in [1..n -> 1..n]
        /\ \A i, j \in 1..n : o[i] = o[j] => i = j
        /\ \A j \in 1..n : \E i \in 1..n : o[i] = j
    BY OrdersAreOnto
  <2>2. \A i \in I : o[i] \in I
    BY <2>1
  <2>. QED BY <2>1, <2>2
<1>. HIDE DEF I
<1>2. \A j \in I : \E i \in I : o[i] = j /\ D[j] = E[i]
  BY <1>1
<1>3. Apart(E, I) <=> Apart(D, I)
  <2>1. ASSUME Apart(D, I) PROVE Apart(E, I)
    BY <2>1, <1>1 DEF Apart
  <2>2. ASSUME Apart(E, I), NEW i \in I, NEW j \in I, i # j PROVE ~Clash(D[i], D[j])
    <3>1. PICK k \in I : o[k] = i /\ D[i] = E[k]
      BY <1>2
    <3>2. PICK l \in I : o[l] = j /\ D[j] = E[l]
      BY <1>2
    <3>3. k # l
      BY <3>1, <3>2, <2>2
    <3>. QED BY <3>1, <3>2, <3>3, <2>2 DEF Apart
  <2>. QED BY <2>1, <2>2 DEF Apart
<1>4. \A p : InUnion(p, E, I) <=> InUnion(p, D, I)
  <2>1. ASSUME NEW p, InUnion(p, E, I) PROVE InUnion(p, D, I)
    <3>1. PICK i \in I : /\ p \in DOMAIN E[i]
                         /\ E[i][p] = EmptyTable =>
                               \A j \in I : \A q \in DOMAIN E[j] : ~Under(q, p)
      BY <2>1 DEF InUnion
    <3>2. E[i][p] = EmptyTable => \A j \in I : \A q \in DOMAIN D[j] : ~Under(q, p)
      BY <3>1, <1>2
    <3>. QED BY <3>1, <3>2, <1>1 DEF InUnion
  <2>2. ASSUME NEW p, InUnion(p, D, I) PROVE InUnion(p, E, I)
    <3>1. PICK j \in I : /\ p \in DOMAIN D[j]
                         /\ D[j][p] = EmptyTable =>
                               \A k \in I : \A q \in DOMAIN D[k] : ~Under(q, p)
      BY <2>2 DEF InUnion
    <3>2. PICK i \in I : D[j] = E[i]
      BY <1>2
    <3>3. E[i][p] = EmptyTable => \A k \in I : \A q \in DOMAIN E[k] : ~Under(q, p)
      BY <3>1, <3>2, <1>1
    <3>. QED BY <3>1, <3>2, <3>3 DEF InUnion
  <2>. QED BY <2>1, <2>2
<1>5. ASSUME NEW t
      PROVE  (\A i \in I : \A p \in DOMAIN t : p \in DOMAIN E[i] => t[p] = E[i][p])
         <=> (\A i \in I : \A p \in DOMAIN t : p \in DOMAIN D[i] => t[p] = D[i][p])
  <2>1. ASSUME \A i \in I : \A p \in DOMAIN t : p \in DOMAIN E[i] => t[p] = E[i][p],
               NEW j \in I, NEW p \in DOMAIN t, p \in DOMAIN D[j]
        PROVE  t[p] = D[j][p]
    <3>1. PICK i \in I : D[j] = E[i]
      BY <1>2
    <3>. QED BY <2>1, <3>1
  <2>2. ASSUME \A i \in I : \A p \in DOMAIN t : p \in DOMAIN D[i] => t[p] = D[i][p],
               NEW j \in I, NEW p \in DOMAIN t, p \in DOMAIN E[j]
        PROVE  t[p] = E[j][p]
    <3>1. o[j] \in I /\ E[j] = D[o[j]]
      BY <1>1
    <3>. QED BY <2>2, <3>1
  <2>. QED BY <2>1, <2>2
<1>6. \A t : IsUnion(t, E, I) <=> IsUnion(t, D, I)
  BY <1>4, <1>5 DEF IsUnion
<1>. QED BY <1>3, <1>6 DEF I

\* E is D in another order.
Reorders(E, D, n, o) == \A i \in 1..n : E[i] = D[o[i]]

\* They parse or they do not.
TextsUpTo(D, n, Names) == \A i \in 1..n : D[i] = Garbage \/ IsTree(D[i], Names)

\* Under a prefix two orders of the same documents give one result.
LEMMA SameDocuments ==
  ASSUME NEW Names, NEW n \in Nat, NEW o \in Orders(n),
         NEW D, Len(D) = n, NEW E, Len(E) = n,
         TextsUpTo(D, n, Names), Reorders(E, D, n, o)
  PROVE  Merged(E, "Refused") = Merged(D, "Refused")
<1>0. /\ \A i \in 1..n : o[i] \in 1..n /\ E[i] = D[o[i]]
      /\ \A j \in 1..n : \E i \in 1..n : o[i] = j
  <2>1. o \in [1..n -> 1..n] /\ \A j \in 1..n : \E i \in 1..n : o[i] = j
    BY OrdersAreOnto
  <2>. QED BY <2>1 DEF Reorders
<1>1. \A j \in 1..n : \E i \in 1..n : D[j] = E[i]
  <2>1. ASSUME NEW j \in 1..n PROVE \E i \in 1..n : D[j] = E[i]
    <3>1. PICK i \in 1..n : o[i] = j
      BY <1>0
    <3>. QED BY <3>1, <1>0
  <2>. QED BY <2>1
<1>3. CASE n = 0
  BY <1>3 DEF Merged
<1>4. CASE n = 1
  <2>1. 1 \in 1..n /\ E[1] = D[1]
    BY <1>0, <1>4
  <2>. QED BY <2>1, <1>4 DEF Merged
<1>5. CASE n \notin {0, 1}
  <2>1. Merged(E, "Refused") = Folded(E, "Refused") /\ Merged(D, "Refused") = Folded(D, "Refused")
    BY <1>5 DEF Merged
  <2>2. CASE \E i \in 1..n : D[i] = Garbage
    <3>1. PICK j \in 1..n : D[j] = Garbage
      BY <2>2
    <3>2. \E i \in 1..n : E[i] = Garbage
      BY <3>1, <1>1
    <3>3. Folded(D, "Refused") = Failed
      BY <2>2 DEF Folded
    <3>4. Folded(E, "Refused") = Failed
      BY <3>2 DEF Folded
    <3>. QED BY <2>1, <3>3, <3>4
  <2>3. CASE \A i \in 1..n : D[i] # Garbage
    <3>1. \A i \in 1..n : E[i] # Garbage
      BY <2>3, <1>0
    <3>2. /\ \A i \in 1..n : IsTree(D[i], Names)
          /\ \A i \in 1..n : IsTree(E[i], Names)
      BY <2>3, <1>0 DEF TextsUpTo
    <3>3. PICK folds : IsFold(folds, D, "Refused", n) /\ Folded(D, "Refused") = folds[n]
      <4>1. Len(D) \in Nat /\ \A i \in 1..Len(D) : D[i] # Garbage
        BY <2>3
      <4>2. \E folds : IsFold(folds, D, "Refused", Len(D)) /\ Folded(D, "Refused") = folds[Len(D)]
        BY <4>1, FoldedIsTheLast
      <4>. QED BY <4>2
    <3>4. PICK others : IsFold(others, E, "Refused", n) /\ Folded(E, "Refused") = others[n]
      <4>1. Len(E) \in Nat /\ \A i \in 1..Len(E) : E[i] # Garbage
        BY <3>1
      <4>2. \E others : IsFold(others, E, "Refused", Len(E)) /\ Folded(E, "Refused") = others[Len(E)]
        BY <4>1, FoldedIsTheLast
      <4>. QED BY <4>2
    <3>5. n \in 1..n
      BY <1>5
    <3>6. /\ Apart(D, 1..n) => IsUnion(folds[n], D, 1..n)
          /\ ~Apart(D, 1..n) => folds[n] = Failed
      <4>1. TreesUpTo(D, n, Names)
        BY <3>2 DEF TreesUpTo
      <4>2. FoldIsUnion(folds, D, n)
        BY <4>1, <3>3, FoldOfAPrefix
      <4>. QED BY <4>2, <3>5 DEF FoldIsUnion
    <3>7. /\ Apart(E, 1..n) => IsUnion(others[n], E, 1..n)
          /\ ~Apart(E, 1..n) => others[n] = Failed
      <4>1. TreesUpTo(E, n, Names)
        BY <3>2 DEF TreesUpTo
      <4>2. FoldIsUnion(others, E, n)
        BY <4>1, <3>4, FoldOfAPrefix
      <4>. QED BY <4>2, <3>5 DEF FoldIsUnion
    <3>8. /\ Apart(E, 1..n) <=> Apart(D, 1..n)
          /\ \A t : IsUnion(t, E, 1..n) <=> IsUnion(t, D, 1..n)
      <4>1. \A i \in 1..n : E[i] = D[o[i]]
        BY <1>0
      <4>. QED BY <4>1, OrderDoesNotMatter
    <3>9. folds[n] = others[n]
      <4>1. CASE Apart(D, 1..n)
        <5>1. IsUnion(folds[n], D, 1..n) /\ IsUnion(others[n], D, 1..n)
          BY <3>6, <3>7, <3>8, <4>1
        <5>. QED BY <5>1, UnionIsUnique
      <4>2. CASE ~Apart(D, 1..n)
        BY <3>6, <3>7, <3>8, <4>2
      <4>. QED BY <4>1, <4>2
    <3>. QED BY <2>1, <3>3, <3>4, <3>9
  <2>. QED BY <2>2, <2>3
<1>. QED BY <1>3, <1>4, <1>5

\* Under a prefix the result is the same in every order.
LEMMA MergedInAnyOrder ==
  ASSUME NEW Names, NEW documents \in Seq(Texts),
         \A t \in Texts : t = Garbage \/ IsTree(t, Names),
         NEW o \in Orders(Len(documents))
  PROVE  Merged([i \in 1..Len(documents) |-> documents[o[i]]], "Refused")
           = Merged(documents, "Refused")
<1>. DEFINE ordered == [i \in 1..Len(documents) |-> documents[o[i]]]
<1>1. PICK n \in Nat : n = Len(documents)
  BY LenProperties
<1>2. documents \in [1..n -> Texts] /\ o \in [1..n -> 1..n]
  BY <1>1, LenProperties, OrdersAreOnto
<1>3. ordered \in [1..n -> Texts] /\ DOMAIN ordered = 1..n
      /\ \A i \in 1..n : ordered[i] = documents[o[i]]
  BY <1>1, <1>2
<1>. HIDE DEF ordered
<1>4. Len(ordered) = n
  <2>1. ordered \in Seq(Texts)
    BY <1>1, <1>3, SeqDef
  <2>. QED BY <1>1, <1>3, <2>1, LenProperties
<1>5. \A i \in 1..n : documents[i] = Garbage \/ IsTree(documents[i], Names)
  BY <1>2
<1>6. o \in Orders(n) /\ TextsUpTo(documents, n, Names) /\ Reorders(ordered, documents, n, o)
  BY <1>1, <1>3, <1>5 DEF TextsUpTo, Reorders
<1>7. Merged(ordered, "Refused") = Merged(documents, "Refused")
  BY <1>1, <1>4, <1>6, SameDocuments
<1>. QED BY <1>7 DEF ordered

\* One step of agreed_format, and the running answer.
FormatStep(format, sofar) ==
    CASE format = "none" -> sofar
      [] format # "none" /\ sofar = "none" -> format
      [] OTHER -> IF sofar = format THEN format ELSE "disagree"

\* g is the running answer of agreed_format.
IsAgreed(g, formats, len) ==
    g = [n \in 0..len |-> IF n = 0 THEN "none" ELSE FormatStep(formats[n], g[n - 1])]

\* The formats a name may end in.
FormatNames == {"none", "json", "yaml"}

\* What the names agree on, whatever their order.
AgreedIs(v, formats, I) ==
    /\ v = "none" <=> \A i \in I : formats[i] = "none"
    /\ v = "disagree" <=> \E i, j \in I : /\ formats[i] # "none" /\ formats[j] # "none"
                                          /\ formats[i] # formats[j]
    /\ v \notin {"none", "disagree"} => \E i \in I : formats[i] = v

\* There is a running answer.
LEMMA AgreedIsRecursive ==
  ASSUME NEW formats, NEW len \in Nat
  PROVE  \E g : IsAgreed(g, formats, len)
<1>. DEFINE S == {n \in Nat : \E g : IsAgreed(g, formats, n)}
            one(k, b) == FormatStep(formats[k], b)
<1>1. 0 \in S
  <2>1. IsAgreed([k \in 0..0 |-> "none"], formats, 0)
    BY DEF IsAgreed
  <2>. QED BY <2>1
<1>2. ASSUME NEW n \in Nat, n \in S PROVE n + 1 \in S
  <2>1. PICK g : IsAgreed(g, formats, n)
    BY <1>2
  <2>. DEFINE h == [k \in 0..(n + 1) |-> IF k = n + 1 THEN one(k, g[n]) ELSE g[k]]
  <2>2. g = [k \in 0..n |-> IF k = 0 THEN "none" ELSE one(k, g[k - 1])]
    BY <2>1 DEF IsAgreed
  <2>. HIDE DEF one
  <2>3. \A k \in 0..n : g[k] = IF k = 0 THEN "none" ELSE one(k, g[k - 1])
    BY <2>2
  <2>4. /\ \A k \in 0..n : h[k] = g[k]
        /\ h[n + 1] = one(n + 1, g[n])
        /\ h = [k \in 0..(n + 1) |-> h[k]]
    OBVIOUS
  <2>. HIDE DEF h
  <2>5. ASSUME NEW k \in 0..(n + 1)
        PROVE  h[k] = IF k = 0 THEN "none" ELSE one(k, h[k - 1])
    <3>1. CASE k = n + 1
      <4>1. k # 0 /\ k - 1 = n /\ n \in 0..n
        BY <3>1
      <4>. QED BY <3>1, <4>1, <2>4
    <3>2. CASE k # n + 1
      <4>1. k \in 0..n /\ (k # 0 => k - 1 \in 0..n)
        BY <3>2
      <4>. QED BY <4>1, <2>3, <2>4
    <3>. QED BY <3>1, <3>2
  <2>6. h = [k \in 0..(n + 1) |-> IF k = 0 THEN "none" ELSE one(k, h[k - 1])]
    BY <2>4, <2>5
  <2>7. IsAgreed(h, formats, n + 1)
    BY <2>6 DEF IsAgreed, one
  <2>. QED BY <2>7
<1>3. len \in S
  <2>. HIDE DEF S
  <2>. QED BY <1>1, <1>2, NatInductionOnSet
<1>. QED BY <1>3

\* What agreed_format answers.
LEMMA AgreedFormatIs ==
  ASSUME NEW formats, NEW n \in Nat, Len(formats) = n,
         \A i \in 1..n : formats[i] \in FormatNames
  PROVE  AgreedIs(AgreedFormat(formats), formats, 1..n)
<1>. DEFINE g == CHOOSE f : IsAgreed(f, formats, n)
            S == {k \in Nat : k \in 0..n => AgreedIs(g[k], formats, 1..k)}
<1>1. IsAgreed(g, formats, n)
  BY AgreedIsRecursive
<1>2. AgreedFormat(formats) = g[n]
  BY DEF AgreedFormat, IsAgreed, FormatStep
<1>. HIDE DEF g
<1>3. \A k \in 0..n : g[k] = IF k = 0 THEN "none" ELSE FormatStep(formats[k], g[k - 1])
  BY <1>1 DEF IsAgreed
<1>4. 0 \in S
  <2>1. 0 \in 0..n /\ g[0] = "none" /\ 1..0 = {}
    BY <1>3
  <2>. QED BY <2>1 DEF AgreedIs
<1>5. ASSUME NEW k \in Nat, k \in S PROVE k + 1 \in S
  <2>. SUFFICES ASSUME k + 1 \in 0..n PROVE AgreedIs(g[k + 1], formats, 1..(k + 1))
    OBVIOUS
  <2>. DEFINE I == 1..k  m == k + 1
  <2>1. /\ k \in 0..n /\ m \in 0..n /\ m \in 1..n /\ m # 0 /\ m - 1 = k
        /\ 1..(k + 1) = I \union {m} /\ \A i \in I \union {m} : i \in 1..n
    OBVIOUS
  <2>2. AgreedIs(g[k], formats, I)
    BY <1>5, <2>1
  <2>3. g[m] = FormatStep(formats[m], g[k])
    BY <1>3, <2>1
  <2>4. \A i \in I \union {m} : formats[i] \in FormatNames
    BY <2>1
  <2>. HIDE DEF I, m
  <2>5. CASE formats[m] = "none"
    <3>1. g[m] = g[k]
      BY <2>3, <2>5 DEF FormatStep
    <3>2. AgreedIs(g[k], formats, I \union {m})
      BY <2>2, <2>5 DEF AgreedIs
    <3>. QED BY <3>1, <3>2, <2>1 DEF m
  <2>6. CASE formats[m] # "none" /\ g[k] = "none"
    <3>1. g[m] = formats[m]
      BY <2>3, <2>6 DEF FormatStep
    <3>2. \A i \in I : formats[i] = "none"
      BY <2>2, <2>6 DEF AgreedIs
    <3>3. formats[m] # "disagree"
      BY <2>4 DEF FormatNames
    <3>4. AgreedIs(formats[m], formats, I \union {m})
      BY <3>2, <3>3, <2>6 DEF AgreedIs
    <3>. QED BY <3>1, <3>4, <2>1 DEF m
  <2>7. CASE formats[m] # "none" /\ g[k] # "none" /\ g[k] = formats[m]
    <3>1. g[m] = formats[m]
      BY <2>3, <2>7 DEF FormatStep
    <3>2. formats[m] # "disagree"
      BY <2>4 DEF FormatNames
    <3>3. \A i \in I : formats[i] = "none" \/ formats[i] = formats[m]
      BY <3>2, <2>2, <2>7 DEF AgreedIs
    <3>4. AgreedIs(formats[m], formats, I \union {m})
      BY <3>2, <3>3, <2>7 DEF AgreedIs
    <3>. QED BY <3>1, <3>4, <2>1 DEF m
  <2>8. CASE formats[m] # "none" /\ g[k] # "none" /\ g[k] # formats[m]
    <3>1. g[m] = "disagree"
      BY <2>3, <2>8 DEF FormatStep
    <3>2. \E i \in I : formats[i] # "none" /\ formats[i] # formats[m]
      BY <2>2, <2>8 DEF AgreedIs
    <3>3. \E i, j \in I \union {m} : /\ formats[i] # "none" /\ formats[j] # "none"
                                     /\ formats[i] # formats[j]
      BY <3>2, <2>8
    <3>4. AgreedIs("disagree", formats, I \union {m})
      BY <3>3 DEF AgreedIs
    <3>. QED BY <3>1, <3>4, <2>1 DEF m
  <2>. QED BY <2>5, <2>6, <2>7, <2>8
<1>6. n \in S
  <2>. HIDE DEF S
  <2>. QED BY <1>4, <1>5, NatInductionOnSet
<1>. QED BY <1>2, <1>6

\* The names agree on the same format in every order.
LEMMA AgreedInAnyOrder ==
  ASSUME NEW n \in Nat, NEW o \in Orders(n), NEW formats \in [1..n -> FormatNames]
  PROVE  AgreedFormat([i \in 1..n |-> formats[o[i]]]) = AgreedFormat(formats)
<1>. DEFINE other == [i \in 1..n |-> formats[o[i]]]
<1>1. o \in [1..n -> 1..n] /\ \A j \in 1..n : \E i \in 1..n : o[i] = j
  BY OrdersAreOnto
<1>2. /\ other \in [1..n -> FormatNames]
      /\ \A i \in 1..n : o[i] \in 1..n /\ other[i] = formats[o[i]]
  BY <1>1
<1>. HIDE DEF other
<1>3. \A j \in 1..n : \E i \in 1..n : formats[j] = other[i]
  <2>1. ASSUME NEW j \in 1..n PROVE \E i \in 1..n : formats[j] = other[i]
    <3>1. PICK i \in 1..n : o[i] = j
      BY <1>1
    <3>. QED BY <3>1, <1>2
  <2>. QED BY <2>1
<1>4. Len(formats) = n /\ Len(other) = n
  <2>1. formats \in Seq(FormatNames) /\ other \in Seq(FormatNames)
    BY <1>2, SeqDef
  <2>. QED BY <1>2, <2>1, LenProperties
<1>5. /\ AgreedIs(AgreedFormat(formats), formats, 1..n)
      /\ AgreedIs(AgreedFormat(other), other, 1..n)
  <2>1. /\ \A i \in 1..n : formats[i] \in FormatNames
        /\ \A i \in 1..n : other[i] \in FormatNames
    BY <1>2
  <2>. QED BY <1>4, <2>1, AgreedFormatIs
<1>. DEFINE v == AgreedFormat(formats)  x == AgreedFormat(other)  I == 1..n
<1>6. AgreedIs(v, formats, I) /\ AgreedIs(x, other, I)
  BY <1>5
<1>7. /\ \A i \in I : o[i] \in I /\ other[i] = formats[o[i]]
      /\ \A j \in I : \E i \in I : formats[j] = other[i]
  BY <1>2, <1>3
<1>. HIDE DEF v, x, I
<1>8. v = "none" <=> x = "none"
  BY <1>6, <1>7 DEF AgreedIs
<1>9. v = "disagree" <=> x = "disagree"
  <2>1. (\E i, j \in I : /\ formats[i] # "none" /\ formats[j] # "none"
                         /\ formats[i] # formats[j])
        <=> \E i, j \in I : /\ other[i] # "none" /\ other[j] # "none"
                            /\ other[i] # other[j]
    <3>1. ASSUME NEW i \in I, NEW j \in I, formats[i] # "none", formats[j] # "none",
                 formats[i] # formats[j]
          PROVE  \E k, l \in I : other[k] # "none" /\ other[l] # "none" /\ other[k] # other[l]
      <4>1. PICK k \in I : formats[i] = other[k]
        BY <1>7
      <4>2. PICK l \in I : formats[j] = other[l]
        BY <1>7
      <4>. QED BY <3>1, <4>1, <4>2
    <3>2. ASSUME NEW i \in I, NEW j \in I, other[i] # "none", other[j] # "none",
                 other[i] # other[j]
          PROVE  \E k, l \in I : /\ formats[k] # "none" /\ formats[l] # "none"
                                 /\ formats[k] # formats[l]
      <4>1. o[i] \in I /\ o[j] \in I /\ other[i] = formats[o[i]] /\ other[j] = formats[o[j]]
        BY <1>7
      <4>. QED BY <3>2, <4>1
    <3>. QED BY <3>1, <3>2
  <2>. QED BY <1>6, <2>1 DEF AgreedIs
<1>10. CASE v \notin {"none", "disagree"}
  <2>1. PICK i \in I : formats[i] = v
    BY <1>6, <1>10 DEF AgreedIs
  <2>2. PICK j \in I : other[j] = x
    BY <1>6, <1>8, <1>9, <1>10 DEF AgreedIs
  <2>3. o[j] \in I /\ formats[o[j]] = x
    BY <2>2, <1>7
  <2>. QED BY <2>1, <2>3, <1>6, <1>8, <1>9, <1>10 DEF AgreedIs, v, x, other
<1>. QED BY <1>8, <1>9, <1>10 DEF v, x, other

\* Every leaf of t is the one of the last document that has something there.
HeldByTheLast(t, p, D, i, n) ==
    /\ p \in DOMAIN D[i] /\ D[i][p] = t[p]
    /\ \A j \in (i + 1)..n : \A q \in DOMAIN D[j] :
          Touch(p, q) => MeetInTables(D[i], p, D[j], q)

\* So for every leaf.
LastWins(t, D, n) == \A p \in DOMAIN t : \E i \in 1..n : HeldByTheLast(t, p, D, i, n)

\* In a list, the fold of a prefix is such a tree.
LEMMA LastWinsInAFold ==
  ASSUME NEW D, NEW len \in Nat, NEW folds, IsFold(folds, D, "LaterWins", len)
  PROVE  \A n \in 1..len : folds[n] # Failed => LastWins(folds[n], D, n)
<1>. DEFINE S == {n \in Nat : n \in 1..len => (folds[n] # Failed => LastWins(folds[n], D, n))}
<1>1. \A n \in 1..len : folds[n] = IF n = 1 THEN D[1] ELSE FoldOne(D, "LaterWins", n, folds[n - 1])
  BY DEF IsFold
<1>2. 0 \in S
  OBVIOUS
<1>3. ASSUME NEW n \in Nat, n \in S PROVE n + 1 \in S
  <2>. SUFFICES ASSUME n + 1 \in 1..len, folds[n + 1] # Failed PROVE LastWins(folds[n + 1], D, n + 1)
    OBVIOUS
  <2>1. CASE n = 0
    <3>1. folds[1] = D[1] /\ n + 1 = 1
      BY <1>1, <2>1
    <3>2. ASSUME NEW p \in DOMAIN D[1] PROVE \E i \in 1..1 : HeldByTheLast(D[1], p, D, i, 1)
      <4>1. 1 \in 1..1 /\ (1 + 1)..1 = {}
        OBVIOUS
      <4>2. HeldByTheLast(D[1], p, D, 1, 1)
        BY <4>1 DEF HeldByTheLast
      <4>. QED BY <4>1, <4>2
    <3>. QED BY <3>1, <3>2 DEF LastWins
  <2>2. CASE n # 0
    <3>. DEFINE m == n + 1  t == folds[n]  d == D[m]
                kept == {p \in DOMAIN t :
                            \A q \in DOMAIN d :
                                Touch(p, q) => Under(p, q) /\ d[q] = EmptyTable}
                laid == {q \in DOMAIN d :
                            ~(d[q] = EmptyTable /\ \E p \in DOMAIN t : Under(p, q))}
    <3>1. n \in 1..len /\ m \in 1..len /\ m # 1 /\ m - 1 = n
      BY <2>2
    <3>2. folds[m] = FoldOne(D, "LaterWins", m, t)
      BY <1>1, <3>1
    <3>3. t # Failed /\ folds[m] = MergeTrees(t, d)
      BY <3>2 DEF FoldOne
    <3>4. LastWins(t, D, n)
      BY <1>3, <3>1, <3>3
    <3>5. folds[m] = [p \in kept \union laid |-> IF p \in laid THEN d[p] ELSE t[p]]
      BY <3>3 DEF MergeTrees
    <3>6. /\ DOMAIN folds[m] = kept \union laid
          /\ \A p \in laid : folds[m][p] = d[p]
          /\ \A p \in kept \ laid : folds[m][p] = t[p]
      BY <3>5
    <3>7. ASSUME NEW p \in laid PROVE \E i \in 1..m : HeldByTheLast(folds[m], p, D, i, m)
      <4>1. m \in 1..m /\ (m + 1)..m = {}
        OBVIOUS
      <4>2. p \in DOMAIN D[m] /\ D[m][p] = folds[m][p]
        BY <3>6, <3>7
      <4>. HIDE DEF m
      <4>3. HeldByTheLast(folds[m], p, D, m, m)
        BY <4>1, <4>2 DEF HeldByTheLast
      <4>. QED BY <4>1, <4>3
    <3>8. ASSUME NEW p \in kept \ laid PROVE \E i \in 1..m : HeldByTheLast(folds[m], p, D, i, m)
      <4>1. PICK i \in 1..n : HeldByTheLast(t, p, D, i, n)
        BY <3>4 DEF LastWins
      <4>2. /\ p \in DOMAIN D[i] /\ D[i][p] = t[p] /\ folds[m][p] = t[p]
            /\ \A j \in (i + 1)..n : \A q \in DOMAIN D[j] :
                  Touch(p, q) => MeetInTables(D[i], p, D[j], q)
        BY <3>6, <4>1 DEF HeldByTheLast
      <4>3. \A q \in DOMAIN d : Touch(p, q) => MeetInTables(D[i], p, d, q)
        <5>1. \A q \in DOMAIN d : Touch(p, q) => Under(p, q) /\ d[q] = EmptyTable
          BY <3>8
        <5>. QED BY <5>1 DEF MeetInTables
      <4>4. i \in 1..m /\ \A j \in (i + 1)..m : j = m \/ j \in (i + 1)..n
        OBVIOUS
      <4>5. ASSUME NEW j \in (i + 1)..m, NEW q \in DOMAIN D[j], Touch(p, q)
            PROVE  MeetInTables(D[i], p, D[j], q)
        <5>1. CASE j = m
          BY <4>3, <4>5, <5>1
        <5>2. CASE j \in (i + 1)..n
          BY <4>2, <4>5, <5>2
        <5>. QED BY <4>4, <5>1, <5>2
      <4>. HIDE DEF m
      <4>6. HeldByTheLast(folds[m], p, D, i, m)
        BY <4>2, <4>5 DEF HeldByTheLast
      <4>. QED BY <4>4, <4>6
    <3>9. LastWins(folds[m], D, m)
      <4>. HIDE DEF m, kept, laid
      <4>. QED BY <3>6, <3>7, <3>8 DEF LastWins
    <3>. QED BY <3>9
  <2>. QED BY <2>1, <2>2
<1>4. \A n \in Nat : n \in S
  <2>. HIDE DEF S
  <2>. QED BY <1>2, <1>3, NatInductionOnSet
<1>. QED BY <1>4

\* In a list, the last document that has something somewhere has its way.
LEMMA LastWinsInAList ==
  ASSUME NEW D, NEW n \in Nat, Len(D) = n, n > 1, Merged(D, "LaterWins") # Failed
  PROVE  LastWins(Merged(D, "LaterWins"), D, n)
<1>1. Merged(D, "LaterWins") = Folded(D, "LaterWins")
  BY DEF Merged
<1>2. \A i \in 1..Len(D) : D[i] # Garbage
  BY <1>1 DEF Folded
<1>3. \E folds : IsFold(folds, D, "LaterWins", Len(D)) /\ Folded(D, "LaterWins") = folds[Len(D)]
  BY <1>2, FoldedIsTheLast
<1>4. PICK folds : IsFold(folds, D, "LaterWins", n) /\ Folded(D, "LaterWins") = folds[n]
  BY <1>3
<1>5. \A k \in 1..n : folds[k] # Failed => LastWins(folds[k], D, k)
  BY <1>4, LastWinsInAFold
<1>. QED BY <1>1, <1>4, <1>5

\* Where a document clashes with what the earlier ones have together, one of
\* them has something.
LEMMA ClashingPathIsHeld ==
  ASSUME NEW a, NEW b, NEW path \in OverlappingPaths(a, b), NEW Names,
         DOMAIN a \subseteq PathsOf(Names), DOMAIN b \subseteq PathsOf(Names)
  PROVE  \E p \in DOMAIN a : p = path \/ Under(p, path)
<1>. DEFINE meets == {y \in (DOMAIN a) \X (DOMAIN b) :
                          Touch(y[1], y[2]) /\ ~MeetInTables(a, y[1], b, y[2])}
            at(x) == IF Len(x[1]) < Len(x[2]) THEN x[1] ELSE x[2]
<1>1. OverlappingPaths(a, b) = {at(x) : x \in meets}
  BY DEF OverlappingPaths
<1>2. PICK x \in meets : path = at(x)
  <2>. HIDE DEF meets, at
  <2>. QED BY <1>1
<1>3. /\ x[1] \in DOMAIN a /\ x[2] \in DOMAIN b
      /\ x[1] = x[2] \/ Under(x[1], x[2]) \/ Under(x[2], x[1])
  BY DEF Touch
<1>4. CASE Len(x[1]) < Len(x[2])
  BY <1>2, <1>3, <1>4
<1>5. CASE ~(Len(x[1]) < Len(x[2]))
  <2>1. path = x[2] /\ ~Under(x[2], x[1])
    BY <1>2, <1>5 DEF Under
  <2>. QED BY <1>3, <2>1
<1>. QED BY <1>4, <1>5

\* collision blames the last of the earlier documents that has something there.
LEMMA SomeoneIsBlamed ==
  ASSUME NEW D, NEW n \in Nat, NEW path, NEW k \in 1..(n - 1),
         NEW p \in DOMAIN D[k], p = path \/ Under(p, path)
  PROVE  Blamed(D, n, path) # 0
<1>. DEFINE holders == {i \in 1..(n - 1) :
                           \E r \in DOMAIN D[i] : r = path \/ Under(r, path)}
            back == {n - i : i \in holders}
<1>1. k \in holders
  OBVIOUS
<1>2. back \in SUBSET Nat /\ back # {}
  <2>1. \A i \in holders : n - i \in Nat
    OBVIOUS
  <2>. HIDE DEF holders
  <2>. QED BY <1>1, <2>1
<1>3. PICK m \in back : \A j \in back : m <= j
  <2>. HIDE DEF back
  <2>. QED BY <1>2, SmallestNat
<1>4. PICK i \in holders : m = n - i
  BY <1>3
<1>5. \A j \in holders : j <= i
  <2>1. ASSUME NEW j \in holders PROVE j <= i
    <3>1. n - j \in back
      <4>. HIDE DEF holders
      <4>. QED OBVIOUS
    <3>2. n - i <= n - j
      BY <3>1, <1>3, <1>4
    <3>. QED BY <3>2
  <2>. QED BY <2>1
<1>6. Blamed(D, n, path) = CHOOSE l \in holders : \A j \in holders : j <= l
  <2>1. holders # {}
    <3>. HIDE DEF holders
    <3>. QED BY <1>1
  <2>. QED BY <2>1 DEF Blamed
<1>7. Blamed(D, n, path) \in holders
  <2>. HIDE DEF holders
  <2>. QED BY <1>4, <1>5, <1>6
<1>. QED BY <1>7

\* What the documents before the last have together, when they do not clash.
LEMMA BeforeIsHeld ==
  ASSUME NEW Names, NEW D, NEW n \in Nat, Len(D) = n, n > 0,
         TreesUpTo(D, n, Names), Merged(D, "Refused") # Failed
  PROVE  \A p \in DOMAIN Merged(D, "Refused") : \E i \in 1..n : p \in DOMAIN D[i]
<1>1. \A i \in 1..n : D[i] # Garbage
  <2>1. DOMAIN Garbage = {<<>>}
    BY DEF Garbage
  <2>. QED BY <2>1 DEF TreesUpTo, IsTree, PathsOf
<1>2. CASE n = 1
  <2>1. Merged(D, "Refused") = D[1]
    BY <1>2 DEF Merged
  <2>. QED BY <2>1, <1>2
<1>3. CASE n # 1
  <2>1. Merged(D, "Refused") = Folded(D, "Refused")
    BY <1>3 DEF Merged
  <2>2. \E folds : IsFold(folds, D, "Refused", Len(D)) /\ Folded(D, "Refused") = folds[Len(D)]
    BY <1>1, FoldedIsTheLast
  <2>3. PICK folds : IsFold(folds, D, "Refused", n) /\ Folded(D, "Refused") = folds[n]
    BY <2>2
  <2>4. FoldIsUnion(folds, D, n)
    BY <2>3, FoldOfAPrefix
  <2>5. IsUnion(folds[n], D, 1..n)
    BY <2>1, <2>3, <2>4 DEF FoldIsUnion
  <2>. QED BY <2>1, <2>3, <2>5 DEF IsUnion, InUnion
<1>. QED BY <1>2, <1>3

\* For any number of keys and whatever they hold: under a prefix no order decides
\* whether the document is refused, what it is or the format the names agree on; in a
\* list every leaf is the last holder's; and a refusal finds a key to blame (merged,
\* folded, collision and agreed_format of documents.rs).
THEOREM OrderDecidesOnlyInListsHolds ==
  ASSUME texts \in Seq(Texts)
  PROVE  OrderDecidesOnlyInLists
<1>0. PICK Names : \A t \in Texts : t = Garbage \/ IsTree(t, Names)
  BY TextsAssumption
<1>. DEFINE result == Merged(texts, "LaterWins")
            before(n) == SubSeq(texts, 1, n - 1)
<1>1. PICK n \in Nat : n = Len(texts)
  BY LenProperties
<1>2. texts \in [1..n -> Texts]
  BY <1>1, LenProperties
<1>3. \A i \in 1..n : texts[i] = Garbage \/ IsTree(texts[i], Names)
  BY <1>0, <1>2
<1>4. ASSUME NEW o \in Orders(n)
      PROVE  /\ Merged([i \in 1..n |-> texts[o[i]]], "Refused") = Merged(texts, "Refused")
             /\ \A formats \in [1..n -> {"none", "json", "yaml"}] :
                    AgreedFormat([i \in 1..n |-> formats[o[i]]]) = AgreedFormat(formats)
  <2>1. Merged([i \in 1..n |-> texts[o[i]]], "Refused") = Merged(texts, "Refused")
    BY <1>0, <1>1, <1>4, MergedInAnyOrder
  <2>2. \A formats \in [1..n -> FormatNames] :
          AgreedFormat([i \in 1..n |-> formats[o[i]]]) = AgreedFormat(formats)
    BY <1>4, AgreedInAnyOrder
  <2>. QED BY <2>1, <2>2 DEF FormatNames
<1>5. ASSUME n > 1, result # Failed, NEW p \in DOMAIN result
      PROVE  \E i \in 1..n :
                 /\ p \in DOMAIN texts[i] /\ texts[i][p] = result[p]
                 /\ \A j \in (i + 1)..n : \A q \in DOMAIN texts[j] :
                       Touch(p, q) => MeetInTables(texts[i], p, texts[j], q)
  <2>1. LastWins(result, texts, n)
    BY <1>1, <1>5, LastWinsInAList
  <2>. HIDE DEF result
  <2>2. PICK i \in 1..n : HeldByTheLast(result, p, texts, i, n)
    BY <1>5, <2>1 DEF LastWins
  <2>. QED BY <2>2 DEF HeldByTheLast
<1>6. ASSUME n > 1, Merged(before(n), "Refused") # Failed,
             \A i \in 1..n : texts[i] # Garbage,
             NEW path \in OverlappingPaths(Merged(before(n), "Refused"), texts[n])
      PROVE  Blamed(texts, n, path) # 0
  <2>. DEFINE b == before(n)  t == Merged(b, "Refused")
  <2>1. n \in 1..n /\ n - 1 \in Nat /\ n - 1 > 0 /\ \A i \in 1..(n - 1) : i \in 1..n
    BY <1>6
  <2>2. \A i \in 1..n : IsTree(texts[i], Names)
    BY <1>3, <1>6
  <2>3. Len(b) = n - 1 /\ \A i \in 1..(n - 1) : b[i] = texts[i]
    BY <1>1, <2>1, SubSeqProperties
  <2>. HIDE DEF b
  <2>4. TreesUpTo(b, n - 1, Names)
    BY <2>1, <2>2, <2>3 DEF TreesUpTo
  <2>5. \A p \in DOMAIN t : \E i \in 1..(n - 1) : p \in DOMAIN b[i]
    BY <1>6, <2>1, <2>3, <2>4, BeforeIsHeld DEF b
  <2>6. DOMAIN t \subseteq PathsOf(Names) /\ DOMAIN texts[n] \subseteq PathsOf(Names)
    BY <2>1, <2>2, <2>4, <2>5 DEF TreesUpTo, IsTree
  <2>. HIDE DEF t
  <2>7. path \in OverlappingPaths(t, texts[n])
    BY <1>6 DEF t, b
  <2>8. PICK p \in DOMAIN t : p = path \/ Under(p, path)
    BY <2>6, <2>7, ClashingPathIsHeld
  <2>9. PICK i \in 1..(n - 1) : p \in DOMAIN texts[i]
    BY <2>3, <2>5
  <2>. QED BY <2>8, <2>9, SomeoneIsBlamed
<1>. QED BY <1>1, <1>4, <1>5, <1>6 DEF OrderDecidesOnlyInLists

\* The keys of every source of the suite hold such texts.
THEOREM OrderDecidesOnlyInListsCorrect == DocumentsSpec => []OrderDecidesOnlyInLists
<1>1. DocumentsInit => texts \in Seq(Texts)
  <2>. SUFFICES ASSUME DocumentsInit PROVE texts \in Seq(Texts)
    OBVIOUS
  <2>1. PICK n \in 0..MostTexts : texts \in [1..n -> Texts]
    BY DEF DocumentsInit
  <2>2. n \in Nat
    BY TextsAssumption
  <2>. QED BY <2>1, <2>2, SeqDef
<1>2. texts \in Seq(Texts) /\ [UNCHANGED texts]_texts => (texts \in Seq(Texts))'
  OBVIOUS
<1>3. texts \in Seq(Texts) => OrderDecidesOnlyInLists
  BY OrderDecidesOnlyInListsHolds
<1>. QED BY <1>1, <1>2, <1>3, PTL DEF DocumentsSpec

-----------------------------------------------------------------------------

(* The watch loops.  That every delivery is news rests on what a loop compares *)
(* with (ComparesWithTheLatest) or resumes from (StreamIsAhead).               *)

\* The fields of a watch.
Fields == {"index", "last", "priming", "seen", "tag", "next", "resume",
           "recoveries", "notes", "broken"}
\* The loop is past the door and has not ended.
Running == pc \in {"idle", "reading", "deliver"}
\* The stores that push.
Streams == {"etcd", "nats"}

\* What store, handle and loop hold.
StoreShape ==
    /\ source \in Sources
    /\ hist \in Seq([MyKeys -> Values \union {Absent}]) /\ Len(hist) > 0
    /\ handle \in {"held", "stopped", "detached"}
    /\ pc \in {"fetch", "door", "establish", "idle", "reading", "deliver", "ended"}
    /\ DOMAIN w = Fields /\ w = [f \in Fields |-> w[f]]
    /\ w.next \in Nat /\ w.resume \in Nat
    /\ told.rev \in Nat /\ doc.rev \in Nat
    /\ late \in Nat

\* Only what the crate agrees to watch is read after the door, and before it
\* nothing was delivered.
PastTheDoor ==
    /\ Running \/ pc = "establish" => shape \in Watchable(store)
    /\ pc \in {"fetch", "door", "establish"} => told.rev = 0 /\ late = 0 /\ w.resume = 0

\* The last call after a stop leaves the loop where it looks at the flag.
LastCallIsLast ==
    late # 0 => late = 1 /\ handle = "stopped" /\ pc \in {"idle", "ended"}

\* What was delivered, fetched or is on its way is a state of the store.
DocumentsAreStates ==
    /\ told.rev # 0 => told.rev \in 1..Revision /\ told.content = hist[told.rev]
    /\ pc = "deliver" => doc.rev \in 1..Revision /\ doc.content = hist[doc.rev]
    /\ (fetched # NothingRead /\ shape \in Watchable(store)) =>
           \E i \in 1..Revision : fetched = hist[i]

\* Two crates may deliver the same revision twice.
MayRepeat == store = "s3" \/ (store = "redis" /\ shape = "one")

\* What a loop compares with is the store's latest.
UpToDate ==
    /\ store \in {"vault", "firestore", "git"} => w.seen = Tag
    /\ store = "consul" \/ (store = "redis" /\ shape = "several") => w.last = Current

\* As long as the program has the latest revision, or has it on its way, the
\* loop compares with that.
ComparesWithTheLatest ==
    /\ pc = "deliver" => told.rev <= doc.rev /\ (told.rev < doc.rev \/ MayRepeat)
    /\ (/\ Running /\ store \notin Streams
        /\ told.rev = Revision \/ (pc = "deliver" /\ doc.rev = Revision)) => UpToDate
    /\ pc = "reading" /\ store \in {"vault", "git"} => told.rev < Revision

\* A stream is past what was delivered, and so is the place it resumes from.
StreamIsAhead ==
    Running /\ store \in Streams =>
        /\ w.next \in 1..(Revision + 1) /\ told.rev < w.next
        /\ pc = "deliver" => doc.rev < w.next
        /\ w.resume # 0 =>
               /\ store = "etcd"
               /\ w.resume \in 1..(Revision + 1) /\ told.rev < w.resume
               /\ pc = "deliver" => doc.rev < w.resume
        /\ pc = "reading" => w.next > 1 /\ told.rev < w.next - 1 /\ w.resume = w.next

\* The inductive invariant of a watch.
WatchedInv ==
    /\ StoreShape /\ PastTheDoor /\ LastCallIsLast /\ DocumentsAreStates
    /\ ComparesWithTheLatest /\ StreamIsAhead

\* A record of a watch's fields.
FieldsOf(r) == DOMAIN r = Fields /\ r = [f \in Fields |-> r[f]]

\* What a crate agrees to watch it reads in one answer.
LEMMA WatchedAtOnce ==
  ASSUME source \in Sources, shape \in Watchable(store)
  PROVE  Reads = "at once" /\ Round = Current
<1>1. store \in {"consul", "etcd", "redis", "nats", "vault", "s3", "firestore", "git"}
  BY DEF Sources, store, ConsulSources, EtcdSources, RedisSources, NatsSources, VaultSources,
         S3Sources, FirestoreSources, GitSources
<1>2. Reads = "at once"
  <2>1. CASE store = "consul"
    <3>1. Watchable(store) = ConsulWatched /\ Reads = ConsulReads[shape]
      BY <2>1 DEF Watchable, Reads
    <3>2. ConsulReads["one"] = "at once" /\ ConsulReads["prefix"] = "at once"
      BY DEF ConsulReads
    <3>. QED BY <3>1, <3>2 DEF ConsulWatched
  <2>2. CASE store = "etcd"
    <3>1. Watchable(store) = EtcdWatched /\ Reads = EtcdReads[shape]
      BY <2>2 DEF Watchable, Reads
    <3>2. EtcdReads["one"] = "at once" /\ EtcdReads["prefix"] = "at once"
      BY DEF EtcdReads
    <3>. QED BY <3>1, <3>2 DEF EtcdWatched
  <2>3. CASE store = "redis"
    <3>1. Watchable(store) = RedisWatched /\ Reads = RedisReads[shape]
      BY <2>3 DEF Watchable, Reads
    <3>2. RedisReads["one"] = "at once" /\ RedisReads["several"] = "at once"
      BY DEF RedisReads
    <3>. QED BY <3>1, <3>2 DEF RedisWatched
  <2>4. CASE store = "nats"
    <3>1. Watchable(store) = NatsWatched /\ Reads = NatsReads[shape]
      BY <2>4 DEF Watchable, Reads
    <3>2. NatsReads["one"] = "at once"
      BY DEF NatsReads
    <3>. QED BY <3>1, <3>2 DEF NatsWatched
  <2>5. CASE store = "vault"
    <3>1. Watchable(store) = VaultWatched /\ Reads = VaultReads[shape]
      BY <2>5 DEF Watchable, Reads
    <3>2. VaultReads["one"] = "at once"
      BY DEF VaultReads
    <3>. QED BY <3>1, <3>2 DEF VaultWatched
  <2>6. CASE store = "s3"
    <3>1. Watchable(store) = S3Watched /\ Reads = S3Reads[shape]
      BY <2>6 DEF Watchable, Reads
    <3>2. S3Reads["one"] = "at once"
      BY DEF S3Reads
    <3>. QED BY <3>1, <3>2 DEF S3Watched
  <2>7. CASE store = "firestore"
    <3>1. Watchable(store) = FirestoreWatched /\ Reads = FirestoreReads[shape]
      BY <2>7 DEF Watchable, Reads
    <3>2. FirestoreReads["one"] = "at once"
      BY DEF FirestoreReads
    <3>. QED BY <3>1, <3>2 DEF FirestoreWatched
  <2>8. CASE store = "git"
    <3>1. Watchable(store) = GitWatched /\ Reads = GitReads[shape]
      BY <2>8 DEF Watchable, Reads
    <3>2. GitReads["one"] = "at once" /\ GitReads["several"] = "at once" /\ GitReads["prefix"] = "at once"
      BY DEF GitReads
    <3>. QED BY <3>1, <3>2 DEF GitWatched
  <2>. QED BY <1>1, <2>1, <2>2, <2>3, <2>4, <2>5, <2>6, <2>7, <2>8
<1>3. ~Listing
  BY <1>2 DEF Listing, ListsFirst
<1>4. Round = Current
  BY <1>2, <1>3 DEF Round
<1>. QED BY <1>2, <1>4

\* A watch just built.
LEMMA StoreInitInv == ASSUME StoreWatchInit PROVE WatchedInv
<1>1. FieldsOf(w) /\ w.next = 0 /\ w.resume = 0
  BY DEF StoreWatchInit, NewWatch, FieldsOf, Fields
<1>2. MyKeys \subseteq Keys
  BY StoreAssumption DEF MyKeys, Keys, First
<1>3. hist \in Seq([MyKeys -> Values \union {Absent}]) /\ Len(hist) = 1
  <2>. DEFINE c == [k \in MyKeys |-> Initial[k]]
  <2>1. c \in [MyKeys -> Values \union {Absent}]
    BY <1>2, StoreAssumption
  <2>2. hist = <<c>>
    BY DEF StoreWatchInit
  <2>. HIDE DEF c
  <2>. QED BY <2>1, <2>2
<1>4. told.rev = 0 /\ doc.rev = 0
  BY DEF StoreWatchInit, NoDoc
<1>5. StoreShape
  <2>1. /\ source \in Sources /\ handle = "held" /\ pc = "fetch" /\ late = 0
    BY DEF StoreWatchInit
  <2>. QED BY <1>1, <1>3, <1>4, <2>1 DEF StoreShape, FieldsOf
<1>6. PastTheDoor /\ LastCallIsLast /\ DocumentsAreStates /\ ComparesWithTheLatest /\ StreamIsAhead
  BY <1>1, <1>4 DEF StoreWatchInit, PastTheDoor, LastCallIsLast, DocumentsAreStates,
      ComparesWithTheLatest, StreamIsAhead, Running
<1>. QED BY <1>5, <1>6 DEF WatchedInv

\* A step of the loop between the door and the callback: what is to be shown of
\* it is where it goes, and with what.
GoesOn ==
    /\ UNCHANGED <<source, hist, handle, told, late, fetched>>
    /\ FieldsOf(w') /\ w'.next \in Nat /\ w'.resume \in Nat
    /\ pc \in {"establish", "idle", "reading"}
    /\ pc' \in {"idle", "reading", "deliver", "ended"}
    /\ pc = "idle" /\ pc' # "ended" => handle # "stopped"
    /\ doc'.rev \in Nat

\* What goes to the callback is a state of the store, and no older than the last.
DeliversNews ==
    pc' = "deliver" =>
        /\ doc'.rev \in 1..Revision /\ doc'.content = hist[doc'.rev]
        /\ told.rev <= doc'.rev /\ (told.rev < doc'.rev \/ MayRepeat)

\* What the loop compares with stays the latest.
StaysCurrent ==
    store \notin Streams =>
        /\ (/\ pc' # "ended"
            /\ told.rev = Revision \/ (pc' = "deliver" /\ doc'.rev = Revision)) =>
               /\ store \in {"vault", "firestore", "git"} => w'.seen = Tag
               /\ store = "consul" \/ (store = "redis" /\ shape = "several") => w'.last = Current
        /\ pc' = "reading" /\ store \in {"vault", "git"} => told.rev < Revision

\* Such a step keeps the invariant.
LEMMA GoesOnInv ==
  ASSUME WatchedInv, GoesOn, DeliversNews, StaysCurrent, StreamIsAhead'
  PROVE  WatchedInv'
<1>. USE DEF WatchedInv
<1>0. store' = store /\ shape' = shape /\ Revision' = Revision /\ Current' = Current
      /\ MyKeys' = MyKeys /\ MayRepeat' = MayRepeat /\ Tag' = Tag
      /\ (shape \in Watchable(store))' = (shape \in Watchable(store))
      /\ Revision \in Nat
  BY DEF GoesOn, store, shape, Revision, Current, MyKeys, MayRepeat, Tag, LastPut, StoreShape,
      Watchable
<1>1. StoreShape'
  BY <1>0 DEF GoesOn, StoreShape, FieldsOf
<1>2. PastTheDoor'
  BY <1>0 DEF GoesOn, PastTheDoor, Running
<1>3. LastCallIsLast'
  BY <1>0 DEF GoesOn, LastCallIsLast
<1>4. DocumentsAreStates'
  BY <1>0 DEF GoesOn, DeliversNews, DocumentsAreStates
<1>5. ComparesWithTheLatest'
  <2>1. pc' = "deliver" => told.rev <= doc'.rev /\ (told.rev < doc'.rev \/ MayRepeat)
    BY DEF DeliversNews
  <2>2. (pc' = "reading" /\ store \in {"vault", "git"}) => told.rev < Revision
    BY DEF StaysCurrent, Streams
  <2>3. ASSUME Running', store \notin Streams,
               told.rev = Revision \/ (pc' = "deliver" /\ doc'.rev = Revision)
        PROVE  UpToDate'
    <3>1. pc' # "ended"
      BY <2>3 DEF Running
    <3>2. /\ store \in {"vault", "firestore", "git"} => w'.seen = Tag
          /\ store = "consul" \/ (store = "redis" /\ shape = "several") => w'.last = Current
      BY <2>3, <3>1 DEF StaysCurrent
    <3>. QED BY <3>2, <1>0 DEF UpToDate
  <2>4. told' = told
    BY DEF GoesOn
  <2>. QED BY <2>1, <2>2, <2>3, <2>4, <1>0 DEF ComparesWithTheLatest
<1>. QED BY <1>1, <1>2, <1>3, <1>4, <1>5

\* Steps that leave the loop where it is: the network and the program.
LEMMA OthersInv ==
  ASSUME WatchedInv, UNCHANGED <<source, hist, told, doc, pc, late, fetched>>,
         FieldsOf(w'), w'.next = w.next, w'.resume = w.resume, w'.seen = w.seen, w'.last = w.last,
         handle' \in {"held", "stopped", "detached"}, handle = "stopped" => handle' = handle
  PROVE  WatchedInv'
<1>. USE DEF WatchedInv
<1>0. store' = store /\ shape' = shape /\ Revision' = Revision /\ Current' = Current
      /\ MyKeys' = MyKeys /\ MayRepeat' = MayRepeat /\ Tag' = Tag
      /\ (shape \in Watchable(store))' = (shape \in Watchable(store)) /\ Running' = Running
  BY DEF store, shape, Revision, Current, MyKeys, MayRepeat, Tag, LastPut, Watchable, Running
<1>1. StoreShape'
  BY <1>0 DEF StoreShape, FieldsOf
<1>2. PastTheDoor' /\ LastCallIsLast' /\ DocumentsAreStates' /\ StreamIsAhead'
  BY <1>0 DEF PastTheDoor, LastCallIsLast, DocumentsAreStates, StreamIsAhead
<1>3. UpToDate' = UpToDate
  BY <1>0 DEF UpToDate
<1>4. ComparesWithTheLatest'
  BY <1>0, <1>3 DEF ComparesWithTheLatest
<1>. QED BY <1>1, <1>2, <1>4

\* Other clients write: what was delivered is not the latest any more.
LEMMA WriteInv == ASSUME WatchedInv, Write PROVE WatchedInv'
<1>. USE DEF WatchedInv
<1>1. PICK k \in MyKeys, v \in Values \union {Absent} :
         /\ hist' = Append(hist, [Current EXCEPT ![k] = v])
         /\ w' = IF store = "redis" /\ Subscribed
                 THEN [w EXCEPT !.notes = Append(@, IF v = Absent THEN "del" ELSE "set")]
                 ELSE w
  BY DEF Write
<1>2. UNCHANGED <<source, handle, pc, doc, fetched, told, late>>
  BY DEF Write, watcherVars
<1>3. store' = store /\ shape' = shape /\ MyKeys' = MyKeys /\ MayRepeat' = MayRepeat
      /\ (shape \in Watchable(store))' = (shape \in Watchable(store)) /\ Running' = Running
  BY <1>2 DEF store, shape, MyKeys, MayRepeat, Watchable, Running
<1>4. FieldsOf(w') /\ w'.next = w.next /\ w'.resume = w.resume
  <2>1. CASE w' = w
    BY <2>1 DEF StoreShape, FieldsOf
  <2>2. CASE w' # w
    <3>1. PICK n : w' = [w EXCEPT !.notes = n]
      BY <1>1, <2>2
    <3>. QED BY <3>1 DEF StoreShape, FieldsOf, Fields
  <2>. QED BY <2>1, <2>2
<1>5. [Current EXCEPT ![k] = v] \in [MyKeys -> Values \union {Absent}]
  <2>1. Current \in [MyKeys -> Values \union {Absent}]
    BY DEF StoreShape, Current, Revision
  <2>. QED BY <2>1
<1>. DEFINE c == [Current EXCEPT ![k] = v]
<1>. HIDE DEF c
<1>6. /\ hist' \in Seq([MyKeys -> Values \union {Absent}])
      /\ Revision' = Revision + 1 /\ Revision \in Nat
      /\ \A i \in 1..Revision : hist'[i] = hist[i]
  <2>1. hist' = Append(hist, c) /\ c \in [MyKeys -> Values \union {Absent}]
    BY <1>1, <1>5 DEF c
  <2>. QED BY <2>1 DEF StoreShape, Revision
<1>7. StoreShape'
  BY <1>2, <1>3, <1>4, <1>6 DEF StoreShape, FieldsOf, Revision
<1>8. PastTheDoor' /\ LastCallIsLast'
  BY <1>2, <1>3, <1>4 DEF PastTheDoor, LastCallIsLast
<1>9. DocumentsAreStates'
  <2>1. told.rev \in 1..Revision => told.rev \in 1..Revision' /\ hist'[told.rev] = hist[told.rev]
    BY <1>6
  <2>2. doc.rev \in 1..Revision => doc.rev \in 1..Revision' /\ hist'[doc.rev] = hist[doc.rev]
    BY <1>6
  <2>3. (\E i \in 1..Revision : fetched = hist[i]) => \E i \in 1..Revision' : fetched = hist'[i]
    BY <1>6
  <2>. QED BY <1>2, <1>3, <2>1, <2>2, <2>3 DEF DocumentsAreStates
<1>10. told.rev < Revision' /\ (pc = "deliver" => doc.rev < Revision')
  BY <1>6 DEF DocumentsAreStates, StoreShape
<1>11. ComparesWithTheLatest'
  <2>1. told'.rev # Revision' /\ ~(pc' = "deliver" /\ doc'.rev = Revision')
    BY <1>2, <1>6, <1>10 DEF StoreShape
  <2>. QED BY <1>2, <1>3, <1>10, <2>1 DEF ComparesWithTheLatest
<1>12. StreamIsAhead'
  BY <1>2, <1>3, <1>4, <1>6 DEF StreamIsAhead, StoreShape
<1>. QED BY <1>7, <1>8, <1>9, <1>11, <1>12

\* The network, the tokens and the handle.
LEMMA EnvironmentInv ==
  ASSUME WatchedInv, Outage \/ Recover \/ ExpireToken \/ Stop PROVE WatchedInv'
<1>1. UNCHANGED <<source, hist, told, doc, pc, late, fetched>>
  BY DEF Outage, Recover, ExpireToken, Stop, watcherVars
<1>2. FieldsOf(w') /\ w'.next = w.next /\ w'.resume = w.resume /\ w'.seen = w.seen /\ w'.last = w.last
  <2>1. CASE w' = w
    BY <2>1 DEF WatchedInv, StoreShape, FieldsOf
  <2>2. CASE Outage
    <3>1. PICK b : w' = [w EXCEPT !.broken = b]
      BY <2>2 DEF Outage
    <3>. QED BY <3>1 DEF WatchedInv, StoreShape, FieldsOf, Fields
  <2>. QED BY <2>1, <2>2 DEF Recover, ExpireToken, Stop
<1>3. handle' \in {"held", "stopped", "detached"} /\ (handle = "stopped" => handle' = handle)
  BY DEF WatchedInv, StoreShape, Outage, Recover, ExpireToken, Stop
<1>. QED BY <1>1, <1>2, <1>3, OthersInv

\* The steps every watch takes.
LEMMA CommonInv ==
  ASSUME WatchedInv, Fetch \/ Door \/ Begin \/ Stopped \/ Deliver PROVE WatchedInv'
<1>. USE DEF WatchedInv
<1>0. UNCHANGED <<source, hist, handle, w>>
  BY DEF Fetch, Door, Begin, Stopped, Deliver, storeVars
<1>1. store' = store /\ shape' = shape /\ Revision' = Revision /\ Current' = Current
      /\ MyKeys' = MyKeys /\ MayRepeat' = MayRepeat /\ Tag' = Tag /\ UpToDate' = UpToDate
      /\ (shape \in Watchable(store))' = (shape \in Watchable(store))
      /\ Revision \in Nat
  BY <1>0 DEF store, shape, Revision, Current, MyKeys, MayRepeat, Tag, LastPut, Watchable,
      UpToDate, StoreShape
<1>2. CASE Fetch
  <2>1. pc = "fetch" /\ pc' \in {"fetch", "door"} /\ UNCHANGED <<doc, told, late>>
    BY <1>2 DEF Fetch, Quiet
  <2>2. fetched' = fetched \/ fetched' = Round
    BY <1>2 DEF Fetch
  <2>3. StoreShape' /\ PastTheDoor' /\ LastCallIsLast' /\ ComparesWithTheLatest' /\ StreamIsAhead'
    BY <1>0, <1>1, <2>1 DEF StoreShape, PastTheDoor, LastCallIsLast, ComparesWithTheLatest,
        StreamIsAhead, Running
  <2>4. DocumentsAreStates'
    <3>1. ASSUME shape \in Watchable(store), fetched' = Round
          PROVE  \E i \in 1..Revision : fetched' = hist[i]
      <4>1. fetched' = hist[Revision]
        BY <3>1, WatchedAtOnce DEF StoreShape, Current
      <4>2. Revision \in 1..Revision
        BY DEF StoreShape, Revision
      <4>. QED BY <4>1, <4>2
    <3>. QED BY <1>0, <1>1, <2>1, <2>2, <3>1 DEF DocumentsAreStates
  <2>. QED BY <2>3, <2>4
<1>3. CASE Door
  <2>1. /\ pc = "door" /\ UNCHANGED <<doc, told, late, fetched>>
        /\ pc' = "ended" \/ (pc' = "establish" /\ shape \in Watchable(store))
    BY <1>3 DEF Door, Quiet, End
  <2>. QED
    BY <1>0, <1>1, <2>1 DEF StoreShape, PastTheDoor, LastCallIsLast, ComparesWithTheLatest,
        StreamIsAhead, DocumentsAreStates, Running
<1>4. CASE Begin
  <2>1. /\ pc = "establish" /\ pc' = "idle" /\ UNCHANGED <<doc, told, late, fetched>>
        /\ store \in {"consul", "vault", "s3", "firestore", "git"}
    BY <1>4 DEF Begin, Quiet
  <2>2. told.rev = 0 /\ told.rev # Revision /\ store \notin Streams
    BY <2>1 DEF PastTheDoor, StoreShape, Revision, Streams
  <2>. QED
    BY <1>0, <1>1, <2>1, <2>2 DEF StoreShape, PastTheDoor, LastCallIsLast, ComparesWithTheLatest,
        StreamIsAhead, DocumentsAreStates, Running
<1>5. CASE Stopped
  <2>1. /\ pc \in {"idle", "reading"} /\ pc' = "ended" /\ UNCHANGED <<doc, told, late, fetched>>
    BY <1>5 DEF Stopped, End
  <2>. QED
    BY <1>0, <1>1, <2>1 DEF StoreShape, PastTheDoor, LastCallIsLast, ComparesWithTheLatest,
        StreamIsAhead, DocumentsAreStates, Running
<1>6. CASE Deliver
  <2>1. /\ pc = "deliver" /\ doc'.rev = 0 /\ UNCHANGED fetched
        /\ \/ told' = doc /\ pc' = "idle"
           \/ told' = told /\ pc' = "ended"
    BY <1>6 DEF Deliver, NoDoc
  <2>2. late = 0 /\ (late' = 0 \/ (late' = 1 /\ handle = "stopped"))
    BY <1>6, <2>1 DEF LastCallIsLast, Deliver, keep_going
  <2>3. StoreShape' /\ PastTheDoor' /\ LastCallIsLast' /\ DocumentsAreStates'
    BY <1>0, <1>1, <2>1, <2>2 DEF StoreShape, PastTheDoor, LastCallIsLast, DocumentsAreStates, Running
  <2>4. ComparesWithTheLatest'
    BY <1>0, <1>1, <2>1 DEF ComparesWithTheLatest, Running
  <2>5. StreamIsAhead'
    BY <1>0, <1>1, <2>1 DEF StreamIsAhead, Running
  <2>. QED BY <2>3, <2>4, <2>5
<1>. QED BY <1>2, <1>3, <1>4, <1>5, <1>6

\* The watch is over.
LEMMA EndedInv ==
  ASSUME WatchedInv, UNCHANGED <<source, hist, handle, fetched>>,
         FieldsOf(w'), w'.next \in Nat, w'.resume \in Nat,
         pc \in {"establish", "idle", "reading"},
         Over \/ (\E why1 : End(why1) /\ UNCHANGED doc)
  PROVE  WatchedInv'
<1>1. pc' = "ended" /\ UNCHANGED <<told, late, doc>>
  BY DEF Over, ReportedAndOver, End
<1>2. GoesOn
  BY <1>1 DEF GoesOn, WatchedInv, StoreShape
<1>3. DeliversNews /\ StaysCurrent /\ StreamIsAhead'
  BY <1>1 DEF DeliversNews, StaysCurrent, StreamIsAhead, Running
<1>. QED BY <1>2, <1>3, GoesOnInv

\* The loop goes round once more with what it had.
LEMMA RoundAgainInv ==
  ASSUME WatchedInv, UNCHANGED <<source, hist, handle, fetched, w>>,
         pc \in {"idle", "reading"}, pc = "idle" => keep_going,
         Report \/ Silently
  PROVE  WatchedInv'
<1>1. pc' = "idle" /\ UNCHANGED <<told, late, doc>>
  BY DEF Report, Reported, Silently, Quiet
<1>2. GoesOn
  BY <1>1 DEF GoesOn, WatchedInv, StoreShape, FieldsOf, keep_going
<1>0. store' = store /\ Revision' = Revision /\ (pc \in {"idle", "reading"} => Running)
  BY DEF store, Revision, Running
<1>3. DeliversNews /\ StreamIsAhead'
  BY <1>0, <1>1 DEF DeliversNews, StreamIsAhead, Running, WatchedInv
<1>4. StaysCurrent
  BY <1>0, <1>1 DEF StaysCurrent, WatchedInv, ComparesWithTheLatest, UpToDate, Running
<1>. QED BY <1>2, <1>3, <1>4, GoesOnInv

\* A blocking query of Consul.
LEMMA ConsulInv == ASSUME WatchedInv, ConsulQueryFails \/ ConsulAnswered PROVE WatchedInv'
<1>1. CASE ConsulQueryFails
  BY <1>1, RoundAgainInv DEF ConsulQueryFails, storeVars
<1>2. CASE ConsulAnswered
  <2>. DEFINE known == [w EXCEPT !.index = IF index < @ THEN 0 ELSE index]
  <2>0. /\ store = "consul" /\ pc = "idle" /\ keep_going
        /\ UNCHANGED <<source, hist, handle, fetched>>
    BY <1>2 DEF ConsulAnswered, storeVars
  <2>1. FieldsOf(known) /\ known.next = w.next /\ known.resume = w.resume /\ known.last = w.last
        /\ w.next \in Nat /\ w.resume \in Nat
    BY DEF WatchedInv, StoreShape, FieldsOf, Fields
  <2>. DEFINE known2 == [known EXCEPT !.last = Current, !.priming = FALSE]
  <2>2. \/ Over /\ w' = known
        \/ Report /\ w' = known
        \/ /\ w' = known2
           /\ \/ Silently
              \/ w.last # Current /\ ToCallback(Current, Revision)
    BY <1>2 DEF ConsulAnswered
  <2>. HIDE DEF known
  <2>3. FieldsOf(known2) /\ known2.next = w.next /\ known2.resume = w.resume /\ known2.last = Current
    BY <2>1 DEF FieldsOf, Fields
  <2>. HIDE DEF known2
  <2>4. CASE Over /\ w' = known
    BY <2>0, <2>1, <2>4, EndedInv
  <2>s. store' = store /\ store \notin Streams /\ Revision \in Nat /\ Revision > 0
    BY <2>0 DEF store, Streams, Revision, WatchedInv, StoreShape
  <2>h. handle # "stopped"
    BY <2>0 DEF keep_going
  <2>5. CASE Silently /\ w' = known2
    <3>1. pc' = "idle" /\ UNCHANGED <<told, late, doc>>
      BY <2>5 DEF Silently, Quiet
    <3>2. GoesOn
      BY <2>0, <2>h, <2>1, <2>3, <2>5, <3>1 DEF GoesOn, WatchedInv, StoreShape
    <3>3. DeliversNews /\ StreamIsAhead'
      BY <2>s, <3>1 DEF DeliversNews, StreamIsAhead
    <3>4. StaysCurrent
      BY <2>0, <2>3, <2>5, <3>1 DEF StaysCurrent
    <3>. QED BY <3>2, <3>3, <3>4, GoesOnInv
  <2>6. CASE w' = known2 /\ w.last # Current /\ ToCallback(Current, Revision)
    <3>1. pc' = "deliver" /\ UNCHANGED <<told, late>> /\ doc'.rev = Revision /\ doc'.content = Current
      BY <2>6 DEF ToCallback, Quiet
    <3>2. GoesOn
      BY <2>0, <2>h, <2>s, <2>1, <2>3, <2>6, <3>1 DEF GoesOn
    <3>3. told.rev # Revision /\ told.rev <= Revision /\ told.rev \in Nat
      BY <2>0, <2>s, <2>6 DEF WatchedInv, ComparesWithTheLatest, UpToDate, Running, DocumentsAreStates,
                        StoreShape
    <3>4. DeliversNews /\ StreamIsAhead'
      BY <2>s, <3>1, <3>3 DEF DeliversNews, StreamIsAhead, Current
    <3>5. StaysCurrent
      BY <2>0, <2>3, <2>6, <3>1 DEF StaysCurrent
    <3>. QED BY <3>2, <3>4, <3>5, GoesOnInv
  <2>7. CASE Report /\ w' = known
    <3>1. pc' = "idle" /\ UNCHANGED <<told, late, doc>>
      BY <2>7 DEF Report, Reported, Quiet
    <3>2. GoesOn
      BY <2>0, <2>h, <2>1, <2>7, <3>1 DEF GoesOn, WatchedInv, StoreShape
    <3>3. DeliversNews /\ StreamIsAhead'
      BY <2>s, <3>1 DEF DeliversNews, StreamIsAhead
    <3>4. StaysCurrent
      BY <2>0, <2>1, <2>7, <3>1 DEF StaysCurrent, WatchedInv, ComparesWithTheLatest, UpToDate,
          Running
    <3>. QED BY <3>2, <3>3, <3>4, GoesOnInv
  <2>. QED BY <2>2, <2>4, <2>5, <2>6, <2>7
<1>. QED BY <1>1, <1>2

\* A delivery from a stream: the revision it stands at, which is past the last
\* one delivered.
LEMMA StreamDelivers ==
  ASSUME WatchedInv, store \in Streams, GoesOn, NEW rev \in 1..Revision, pc \in {"idle", "reading"},
         ToCallback(hist[rev], rev), told.rev < rev, rev < w'.next, w'.next <= Revision + 1,
         w'.resume # 0 => store = "etcd" /\ w'.resume \in 1..(Revision + 1) /\ rev < w'.resume
  PROVE  WatchedInv'
<1>0. store' = store /\ Revision' = Revision /\ Revision \in Nat /\ told.rev \in Nat
      /\ w'.next \in Nat /\ w'.resume \in Nat
  BY DEF GoesOn, store, Revision, WatchedInv, StoreShape
<1>1. pc' = "deliver" /\ UNCHANGED <<told, late>> /\ doc'.rev = rev /\ doc'.content = hist[rev]
  BY DEF ToCallback, Quiet
<1>2. DeliversNews /\ StaysCurrent
  BY <1>0, <1>1 DEF DeliversNews, StaysCurrent
<1>3. StreamIsAhead'
  BY <1>0, <1>1 DEF StreamIsAhead
<1>. QED BY <1>2, <1>3, GoesOnInv

\* The stream of etcd, its compaction and its recovery.
LEMMA EtcdInv ==
  ASSUME WatchedInv, EtcdEstablish \/ EtcdMessage \/ EtcdRange \/ EtcdTokenExpired \/ StreamEnds
  PROVE  WatchedInv'
<1>. USE DEF Streams
<1>0. /\ UNCHANGED <<source, hist, handle, fetched>> /\ FieldsOf(w)
      /\ w.next \in Nat /\ w.resume \in Nat /\ Revision \in Nat /\ Revision > 0
      /\ told.rev \in Nat /\ doc.rev \in Nat
  BY DEF EtcdEstablish, EtcdMessage, EtcdRange, EtcdTokenExpired, StreamEnds, storeVars,
      WatchedInv, StoreShape, FieldsOf, Revision
<1>s. store' = store /\ Revision' = Revision
  BY <1>0 DEF store, Revision
\* A stream that is opened.
<1>o. ASSUME NEW from \in Nat, NEW n, EtcdOpen(from, n)
      PROVE  /\ FieldsOf(w') /\ w'.resume = w.resume
             /\ w'.next = IF from = 0 THEN Revision + 1 ELSE from
  BY <1>0, <1>o DEF EtcdOpen, FieldsOf, Fields
<1>1. CASE EtcdEstablish
  <2>0. store = "etcd" /\ pc = "establish" /\ w.resume = 0 /\ told.rev = 0
    BY <1>1 DEF EtcdEstablish, WatchedInv, PastTheDoor
  <2>1. CASE EtcdOpen(0, 0) /\ Established /\ doc' = doc
    <3>1. FieldsOf(w') /\ w'.resume = 0 /\ w'.next = Revision + 1
      BY <1>o, <2>0, <2>1
    <3>2. pc' = "idle" /\ UNCHANGED <<told, late>>
      BY <2>1 DEF Established, Quiet
    <3>3. GoesOn
      BY <1>0, <2>0, <2>1, <3>1, <3>2 DEF GoesOn
    <3>4. DeliversNews /\ StaysCurrent
      BY <2>0, <3>2 DEF DeliversNews, StaysCurrent
    <3>5. StreamIsAhead'
      BY <1>0, <1>s, <2>0, <3>1, <3>2 DEF StreamIsAhead
    <3>. QED BY <3>3, <3>4, <3>5, GoesOnInv
  <2>2. CASE CannotRefresh /\ UNCHANGED w
    BY <1>0, <2>0, <2>2, EndedInv DEF CannotRefresh
  <2>. QED BY <1>1, <2>1, <2>2 DEF EtcdEstablish
<1>2. CASE EtcdMessage
  <2>0. /\ store = "etcd" /\ pc = "idle" /\ keep_going /\ w.next <= Revision
        /\ w' = [w EXCEPT !.next = @ + 1, !.resume = w.next + 1, !.recoveries = 0]
        /\ \/ pc' = "reading" /\ UNCHANGED <<doc, failing>> /\ Quiet
           \/ Silently \/ Over \/ ToCallback(hist[w.next], w.next)
    BY <1>2 DEF EtcdMessage
  <2>1. FieldsOf(w') /\ w'.next = w.next + 1 /\ w'.resume = w.next + 1
    BY <1>0, <2>0 DEF FieldsOf, Fields
  <2>2. w.next \in 1..Revision /\ told.rev < w.next
    BY <1>0, <2>0 DEF WatchedInv, StreamIsAhead, Running
  <2>3. CASE (pc' = "reading" /\ UNCHANGED doc /\ Quiet) \/ Silently
    <3>1. pc' \in {"reading", "idle"} /\ UNCHANGED <<told, late, doc>>
      BY <2>3 DEF Silently, Quiet
    <3>2. GoesOn
      BY <1>0, <2>0, <2>1, <3>1 DEF GoesOn, keep_going
    <3>3. DeliversNews /\ StaysCurrent
      BY <2>0, <3>1 DEF DeliversNews, StaysCurrent
    <3>4. StreamIsAhead'
      BY <1>0, <1>s, <2>0, <2>1, <2>2, <3>1 DEF StreamIsAhead
    <3>. QED BY <3>2, <3>3, <3>4, GoesOnInv
  <2>4. CASE Over
    BY <1>0, <2>0, <2>1, <2>4, EndedInv
  <2>5. CASE ToCallback(hist[w.next], w.next)
    <3>1. GoesOn
      BY <1>0, <2>0, <2>1, <2>5 DEF GoesOn, ToCallback, Quiet, keep_going
    <3>2. /\ w.next < w'.next /\ w'.next <= Revision + 1
          /\ w'.resume \in 1..(Revision + 1) /\ w.next < w'.resume
      BY <1>0, <2>1, <2>2
    <3>. QED BY <2>0, <2>2, <2>5, <3>1, <3>2, StreamDelivers
  <2>. QED BY <2>0, <2>3, <2>4, <2>5
<1>3. CASE EtcdRange
  <2>0. /\ store = "etcd" /\ pc = "reading" /\ UNCHANGED w
        /\ Silently \/ Over \/ ToCallback(hist[w.next - 1], w.next - 1)
    BY <1>3 DEF EtcdRange, CannotRefresh
  <2>1. /\ w.next > 1 /\ w.next <= Revision + 1 /\ told.rev < w.next - 1 /\ w.resume = w.next
    BY <1>0, <2>0 DEF WatchedInv, StreamIsAhead, Running
  <2>2. CASE Silently
    BY <1>0, <2>0, <2>2, RoundAgainInv
  <2>3. CASE Over
    BY <1>0, <2>0, <2>3, EndedInv
  <2>4. CASE ToCallback(hist[w.next - 1], w.next - 1)
    <3>. DEFINE rev == w.next - 1
    <3>1. rev \in 1..Revision /\ told.rev < rev /\ rev < w'.next /\ w'.next <= Revision + 1
          /\ w'.resume \in 1..(Revision + 1) /\ rev < w'.resume /\ ToCallback(hist[rev], rev)
          /\ rev \in Nat
      BY <1>0, <2>0, <2>1, <2>4
    <3>. HIDE DEF rev
    <3>2. GoesOn
      BY <1>0, <2>0, <3>1 DEF GoesOn, ToCallback, Quiet
    <3>. QED BY <2>0, <3>1, <3>2, StreamDelivers
  <2>. QED BY <2>0, <2>2, <2>3, <2>4
<1>4. CASE EtcdTokenExpired
  <2>0. store = "etcd" /\ pc = "idle" /\ keep_going
    BY <1>4 DEF EtcdTokenExpired
  <2>1. CASE EtcdOpen(w.resume, 1) /\ Silently
    <3>1. FieldsOf(w') /\ w'.resume = w.resume /\ w'.next = IF w.resume = 0 THEN Revision + 1 ELSE w.resume
      BY <1>0, <1>o, <2>1
    <3>2. pc' = "idle" /\ UNCHANGED <<told, late, doc>>
      BY <2>1 DEF Silently, Quiet
    <3>3. told.rev <= Revision
      BY <1>0 DEF WatchedInv, DocumentsAreStates
    <3>4. w.resume # 0 => w.resume \in 1..(Revision + 1) /\ told.rev < w.resume
      BY <2>0 DEF WatchedInv, StreamIsAhead, Running
    <3>5. w'.next \in 1..(Revision + 1) /\ told.rev < w'.next /\ w'.next \in Nat
      BY <1>0, <3>1, <3>3, <3>4
    <3>6. GoesOn
      BY <1>0, <2>0, <3>1, <3>2, <3>5 DEF GoesOn, keep_going
    <3>7. DeliversNews /\ StaysCurrent
      BY <2>0, <3>2 DEF DeliversNews, StaysCurrent
    <3>8. StreamIsAhead'
      BY <1>0, <1>s, <2>0, <3>1, <3>2, <3>4, <3>5 DEF StreamIsAhead
    <3>. QED BY <3>6, <3>7, <3>8, GoesOnInv
  <2>2. CASE CannotRefresh /\ UNCHANGED w
    BY <1>0, <2>0, <2>2, EndedInv DEF CannotRefresh
  <2>. QED BY <1>4, <2>1, <2>2 DEF EtcdTokenExpired
<1>5. CASE StreamEnds
  BY <1>0, <1>5, EndedInv DEF StreamEnds
<1>. QED BY <1>1, <1>2, <1>3, <1>4, <1>5

\* The stream of NATS.
LEMMA NatsInv == ASSUME WatchedInv, NatsEstablish \/ NatsEntry PROVE WatchedInv'
<1>. USE DEF Streams
<1>0. /\ UNCHANGED <<source, hist, handle, fetched>> /\ FieldsOf(w)
      /\ w.next \in Nat /\ w.resume \in Nat /\ Revision \in Nat /\ Revision > 0
      /\ told.rev \in Nat /\ doc.rev \in Nat /\ store = "nats"
  BY DEF NatsEstablish, NatsEntry, storeVars, WatchedInv, StoreShape, FieldsOf, Revision
<1>s. store' = store /\ Revision' = Revision
  BY <1>0 DEF store, Revision
<1>1. CASE NatsEstablish
  <2>0. pc = "establish" /\ w.resume = 0 /\ told.rev = 0
    BY <1>1 DEF NatsEstablish, WatchedInv, PastTheDoor
  <2>1. CASE w' = [w EXCEPT !.next = Revision + 1] /\ Established /\ doc' = doc
    <3>1. FieldsOf(w') /\ w'.resume = 0 /\ w'.next = Revision + 1
      BY <1>0, <2>0, <2>1 DEF FieldsOf, Fields
    <3>2. pc' = "idle" /\ UNCHANGED <<told, late>>
      BY <2>1 DEF Established, Quiet
    <3>3. GoesOn
      BY <1>0, <2>0, <2>1, <3>1, <3>2 DEF GoesOn
    <3>4. DeliversNews /\ StaysCurrent
      BY <1>0, <3>2 DEF DeliversNews, StaysCurrent
    <3>5. StreamIsAhead'
      BY <1>0, <1>s, <2>0, <3>1, <3>2 DEF StreamIsAhead
    <3>. QED BY <3>3, <3>4, <3>5, GoesOnInv
  <2>2. CASE Over /\ UNCHANGED w
    BY <1>0, <2>0, <2>2, EndedInv
  <2>. QED BY <1>1, <2>1, <2>2 DEF NatsEstablish
<1>2. CASE NatsEntry
  <2>0. /\ pc = "idle" /\ keep_going /\ w.next <= Revision
        /\ w' = [w EXCEPT !.next = @ + 1]
        /\ Silently \/ Over \/ ToCallback(hist[w.next], w.next)
    BY <1>2 DEF NatsEntry
  <2>1. FieldsOf(w') /\ w'.next = w.next + 1 /\ w'.resume = w.resume
    BY <1>0, <2>0 DEF FieldsOf, Fields
  <2>2. w.next \in 1..Revision /\ told.rev < w.next /\ w.resume = 0
    BY <1>0, <2>0 DEF WatchedInv, StreamIsAhead, Running
  <2>3. CASE Silently
    <3>1. pc' = "idle" /\ UNCHANGED <<told, late, doc>>
      BY <2>3 DEF Silently, Quiet
    <3>2. GoesOn
      BY <1>0, <2>0, <2>1, <3>1 DEF GoesOn, keep_going
    <3>3. DeliversNews /\ StaysCurrent
      BY <1>0, <3>1 DEF DeliversNews, StaysCurrent
    <3>4. StreamIsAhead'
      BY <1>0, <1>s, <2>0, <2>1, <2>2, <3>1 DEF StreamIsAhead
    <3>. QED BY <3>2, <3>3, <3>4, GoesOnInv
  <2>4. CASE Over
    BY <1>0, <2>0, <2>1, <2>4, EndedInv
  <2>5. CASE ToCallback(hist[w.next], w.next)
    <3>1. GoesOn
      BY <1>0, <2>0, <2>1, <2>5 DEF GoesOn, ToCallback, Quiet, keep_going
    <3>2. w.next < w'.next /\ w'.next <= Revision + 1
      BY <1>0, <2>1, <2>2
    <3>. QED BY <1>0, <2>0, <2>1, <2>2, <2>5, <3>1, <3>2, StreamDelivers
  <2>. QED BY <2>0, <2>3, <2>4, <2>5
<1>. QED BY <1>1, <1>2

\* A delivery of the latest revision, by a loop that reads it.
LEMMA LatestDelivers ==
  ASSUME WatchedInv, store \notin Streams, GoesOn, pc \in {"idle", "reading"},
         ToCallback(Current, Revision), told.rev < Revision \/ MayRepeat,
         store \in {"vault", "firestore", "git"} => w'.seen = Tag,
         store = "redis" /\ shape = "several" => w'.last = Current,
         store # "consul"
  PROVE  WatchedInv'
<1>0. store' = store /\ Revision \in Nat /\ Revision > 0 /\ told.rev \in Nat /\ told.rev <= Revision
  BY DEF GoesOn, store, Revision, WatchedInv, StoreShape, DocumentsAreStates
<1>1. pc' = "deliver" /\ UNCHANGED <<told, late>> /\ doc'.rev = Revision /\ doc'.content = Current
  BY DEF ToCallback, Quiet
<1>2. DeliversNews
  BY <1>0, <1>1 DEF DeliversNews, Current
<1>3. StaysCurrent /\ StreamIsAhead'
  BY <1>0, <1>1 DEF StaysCurrent, StreamIsAhead
<1>. QED BY <1>2, <1>3, GoesOnInv

\* What a watch that runs reads is the store's latest.
LEMMA RunningReads == ASSUME WatchedInv, Running PROVE Round = Current
BY WatchedAtOnce DEF WatchedInv, StoreShape, PastTheDoor

\* The notifications of Redis.
LEMMA RedisInv ==
  ASSUME WatchedInv, RedisEstablish \/ RedisMessage \/ RedisRead PROVE WatchedInv'
<1>. USE DEF Streams
<1>0. /\ UNCHANGED <<source, hist, handle, fetched>> /\ FieldsOf(w)
      /\ w.next \in Nat /\ w.resume \in Nat /\ Revision \in Nat /\ Revision > 0
      /\ told.rev \in Nat /\ doc.rev \in Nat /\ store = "redis"
  BY DEF RedisEstablish, RedisMessage, RedisRead, storeVars, WatchedInv, StoreShape, FieldsOf, Revision
<1>s. store' = store
  BY <1>0 DEF store
<1>1. CASE RedisEstablish
  <2>0. pc = "establish" /\ told.rev = 0 /\ UNCHANGED w
    BY <1>1 DEF RedisEstablish, WatchedInv, PastTheDoor
  <2>1. CASE Established /\ doc' = doc
    <3>1. pc' = "idle" /\ UNCHANGED <<told, late>>
      BY <2>1 DEF Established, Quiet
    <3>2. GoesOn
      BY <1>0, <2>0, <2>1, <3>1 DEF GoesOn
    <3>3. DeliversNews /\ StaysCurrent /\ StreamIsAhead'
      BY <1>0, <1>s, <2>0, <3>1 DEF DeliversNews, StaysCurrent, StreamIsAhead
    <3>. QED BY <3>2, <3>3, GoesOnInv
  <2>2. CASE Over
    BY <1>0, <2>0, <2>2, EndedInv
  <2>. QED BY <1>1, <2>1, <2>2 DEF RedisEstablish
<1>2. CASE RedisMessage
  <2>0. pc = "idle" /\ keep_going
    BY <1>2 DEF RedisMessage
  <2>1. CASE Over /\ UNCHANGED w
    BY <1>0, <2>0, <2>1, EndedInv
  <2>2. CASE /\ w' = [w EXCEPT !.notes = Tail(@)] /\ pc' \in {"reading", "idle"}
             /\ UNCHANGED <<doc, failing>> /\ Quiet
    <3>1. FieldsOf(w') /\ w'.next = w.next /\ w'.resume = w.resume /\ w'.last = w.last
      BY <1>0, <2>2 DEF FieldsOf, Fields
    <3>2. UNCHANGED <<told, late, doc>>
      BY <2>2 DEF Quiet
    <3>3. GoesOn
      BY <1>0, <2>0, <2>2, <3>1, <3>2 DEF GoesOn, keep_going
    <3>4. DeliversNews /\ StreamIsAhead'
      BY <1>0, <1>s, <2>2 DEF DeliversNews, StreamIsAhead
    <3>5. StaysCurrent
      BY <1>0, <2>0, <2>2, <3>1 DEF StaysCurrent, WatchedInv, ComparesWithTheLatest, UpToDate, Running
    <3>. QED BY <3>3, <3>4, <3>5, GoesOnInv
  <2>. QED BY <1>2, <2>1, <2>2 DEF RedisMessage
<1>3. CASE RedisRead
  <2>0. pc = "reading" /\ Round = Current
    BY <1>3, RunningReads DEF RedisRead, Running
  <2>1. \/ pc' = pc /\ UNCHANGED <<w, doc, failing>> /\ Quiet
        \/ (Report \/ Silently) /\ UNCHANGED w
        \/ /\ shape = "several" => w.last # Round
           /\ w' = [w EXCEPT !.last = IF shape = "several" THEN Round ELSE @]
           /\ ToCallback(Round, Revision)
    BY <1>3 DEF RedisRead
  <2>2. CASE pc' = pc /\ UNCHANGED <<w, doc>> /\ Quiet
    <3>1. UNCHANGED <<told, late, doc>>
      BY <2>2 DEF Quiet
    <3>2. GoesOn
      BY <1>0, <2>0, <2>2, <3>1 DEF GoesOn
    <3>3. DeliversNews /\ StreamIsAhead'
      BY <1>0, <1>s, <2>0, <2>2 DEF DeliversNews, StreamIsAhead
    <3>4. StaysCurrent
      BY <1>0, <2>0, <2>2 DEF StaysCurrent, WatchedInv, ComparesWithTheLatest, UpToDate, Running
    <3>. QED BY <3>2, <3>3, <3>4, GoesOnInv
  <2>3. CASE (Report \/ Silently) /\ UNCHANGED w
    BY <1>0, <2>0, <2>3, RoundAgainInv
  <2>4. CASE /\ shape = "several" => w.last # Round
             /\ w' = [w EXCEPT !.last = IF shape = "several" THEN Round ELSE @]
             /\ ToCallback(Round, Revision)
    <3>1. FieldsOf(w') /\ w'.next = w.next /\ w'.resume = w.resume
          /\ (shape = "several" => w'.last = Round)
      BY <1>0, <2>4 DEF FieldsOf, Fields
    <3>2. GoesOn
      BY <1>0, <2>0, <2>4, <3>1 DEF GoesOn, ToCallback, Quiet
    <3>3. shape \in {"one", "several"}
      BY <1>0, <2>0 DEF WatchedInv, PastTheDoor, Running, Watchable, RedisWatched
    <3>4. told.rev < Revision \/ MayRepeat
      BY <1>0, <2>0, <2>4, <3>3 DEF MayRepeat, WatchedInv, ComparesWithTheLatest, UpToDate, Running,
          DocumentsAreStates
    <3>. QED BY <1>0, <2>0, <2>4, <3>1, <3>2, <3>4, LatestDelivers
  <2>. QED BY <2>1, <2>2, <2>3, <2>4
<1>. QED BY <1>1, <1>2, <1>3

Pollers == {"vault", "s3", "firestore", "git"}

\* A check: the first tag is kept, another one has the document read.
LEMMA ComparedInv ==
  ASSUME WatchedInv, UNCHANGED <<source, hist, handle, fetched>>, store \in Pollers,
         pc = "idle", keep_going, Compared
  PROVE  WatchedInv'
<1>. USE DEF Streams, Pollers
<1>0. /\ FieldsOf(w) /\ w.next \in Nat /\ w.resume \in Nat /\ Revision \in Nat
      /\ told.rev \in Nat /\ doc.rev \in Nat /\ told.rev <= Revision /\ store' = store
  BY DEF WatchedInv, StoreShape, FieldsOf, Revision, DocumentsAreStates, store
<1>1. \/ w' = [w EXCEPT !.seen = Tag] /\ Silently
      \/ /\ w' = [w EXCEPT !.tag = Tag] /\ UNCHANGED <<doc, failing>> /\ Quiet
         /\ pc' = IF w.seen # Tag THEN "reading" ELSE "idle"
  BY DEF Compared
<1>2. CASE w' = [w EXCEPT !.seen = Tag] /\ Silently
  <2>1. FieldsOf(w') /\ w'.next = w.next /\ w'.resume = w.resume /\ w'.seen = Tag
    BY <1>0, <1>2 DEF FieldsOf, Fields
  <2>2. pc' = "idle" /\ UNCHANGED <<told, late, doc>>
    BY <1>2 DEF Silently, Quiet
  <2>3. GoesOn
    BY <1>0, <2>1, <2>2 DEF GoesOn, keep_going
  <2>4. DeliversNews /\ StaysCurrent /\ StreamIsAhead'
    BY <1>0, <2>1, <2>2 DEF DeliversNews, StaysCurrent, StreamIsAhead
  <2>. QED BY <2>3, <2>4, GoesOnInv
<1>3. CASE /\ w' = [w EXCEPT !.tag = Tag] /\ UNCHANGED <<doc, failing>> /\ Quiet
           /\ pc' = IF w.seen # Tag THEN "reading" ELSE "idle"
  <2>1. FieldsOf(w') /\ w'.next = w.next /\ w'.resume = w.resume /\ w'.seen = w.seen
    BY <1>0, <1>3 DEF FieldsOf, Fields
  <2>2. pc' \in {"idle", "reading"} /\ UNCHANGED <<told, late, doc>> /\ (pc' = "reading" => w.seen # Tag)
    BY <1>3 DEF Quiet
  <2>3. GoesOn
    BY <1>0, <2>1, <2>2 DEF GoesOn, keep_going
  <2>4. DeliversNews /\ StreamIsAhead'
    BY <1>0, <2>2 DEF DeliversNews, StreamIsAhead
  <2>5. (store \in {"vault", "firestore", "git"} /\ w.seen # Tag) => told.rev < Revision
    BY <1>0 DEF WatchedInv, ComparesWithTheLatest, UpToDate, Running
  <2>6. StaysCurrent
    BY <1>0, <2>1, <2>2, <2>5 DEF StaysCurrent
  <2>. QED BY <2>3, <2>4, <2>6, GoesOnInv
<1>. QED BY <1>1, <1>2, <1>3

\* A read that was whole goes to the callback under the tag it came with.
LEMMA ReadInv ==
  ASSUME WatchedInv, UNCHANGED <<source, hist, handle, fetched>>, store \in Pollers,
         pc = "reading" \/ (pc = "idle" /\ keep_going),
         NEW t, w' = [w EXCEPT !.seen = t], store # "s3" => t = Tag,
         told.rev < Revision \/ store = "s3",
         ToCallback(Round, Revision)
  PROVE  WatchedInv'
<1>. USE DEF Streams, Pollers
<1>0. /\ FieldsOf(w) /\ w.next \in Nat /\ w.resume \in Nat /\ Revision \in Nat
  BY DEF WatchedInv, StoreShape, FieldsOf, Revision
<1>1. FieldsOf(w') /\ w'.next = w.next /\ w'.resume = w.resume /\ w'.seen = t
  BY <1>0 DEF FieldsOf, Fields
<1>2. GoesOn
  BY <1>0, <1>1 DEF GoesOn, ToCallback, Quiet, keep_going
<1>3. Round = Current
  BY RunningReads DEF Running
<1>. QED BY <1>1, <1>2, <1>3, LatestDelivers DEF MayRepeat

\* The crates that poll.
LEMMA PollersInv ==
  ASSUME WatchedInv, VaultCheck \/ VaultRead \/ S3Check \/ S3Read \/ FirestorePoll \/ GitCheck \/ GitRead
  PROVE  WatchedInv'
<1>. USE DEF Pollers
<1>a. UNCHANGED <<source, hist, handle, fetched>>
  BY DEF VaultCheck, VaultRead, S3Check, S3Read, FirestorePoll, GitCheck, GitRead, storeVars
<1>b. store \in Pollers
  BY DEF VaultCheck, VaultRead, S3Check, S3Read, FirestorePoll, GitCheck, GitRead, GitAttempt
<1>c. FieldsOf(w) /\ w.next \in Nat /\ w.resume \in Nat /\ Revision \in Nat
  BY DEF WatchedInv, StoreShape, FieldsOf, Revision
<1>d. told.rev \in Nat /\ told.rev <= Revision
  <2>1. told.rev \in Nat /\ (told.rev # 0 => told.rev \in 1..Revision)
    BY DEF WatchedInv, StoreShape, DocumentsAreStates
  <2>. QED BY <1>c, <2>1
<1>0. /\ UNCHANGED <<source, hist, handle, fetched>> /\ FieldsOf(w)
      /\ w.next \in Nat /\ w.resume \in Nat /\ store \in Pollers
      /\ told.rev \in Nat /\ told.rev <= Revision /\ Revision \in Nat
  BY <1>a, <1>b, <1>c, <1>d
<1>r. (pc = "reading" /\ store \in {"vault", "git"}) => told.rev < Revision
  BY DEF WatchedInv, ComparesWithTheLatest
<1>1. CASE VaultCheck
  BY <1>0, <1>1, ComparedInv, RoundAgainInv, EndedInv DEF VaultCheck
<1>2. CASE S3Check
  BY <1>0, <1>2, ComparedInv, RoundAgainInv DEF S3Check
<1>3. CASE GitCheck
  <2>0. pc = "idle" /\ keep_going
    BY <1>3 DEF GitCheck
  <2>1. CASE Compared
    BY <1>0, <2>0, <2>1, ComparedInv
  <2>2. CASE End("auth") /\ UNCHANGED <<w, doc>>
    BY <1>0, <2>0, <2>2, EndedInv
  <2>3. CASE Silently /\ UNCHANGED w
    BY <1>0, <2>0, <2>3, RoundAgainInv
  <2>. QED BY <1>3, <2>1, <2>2, <2>3 DEF GitCheck, GitAttempt
<1>4. CASE VaultRead
  <2>0. pc = "reading" /\ store = "vault"
    BY <1>4 DEF VaultRead
  <2>1. CASE w' = [w EXCEPT !.seen = Tag] /\ ToCallback(Round, Revision)
    BY <1>0, <1>r, <2>0, <2>1, ReadInv
  <2>2. CASE Report /\ UNCHANGED w
    BY <1>0, <2>0, <2>2, RoundAgainInv
  <2>. QED BY <1>4, <2>1, <2>2 DEF VaultRead
<1>5. CASE S3Read
  <2>0. pc = "reading" /\ store = "s3"
    BY <1>5 DEF S3Read
  <2>1. ASSUME NEW t, w' = [w EXCEPT !.seen = t], ToCallback(Round, Revision) PROVE WatchedInv'
    BY <1>0, <2>0, <2>1, ReadInv
  <2>2. CASE Report /\ UNCHANGED w
    BY <1>0, <2>0, <2>2, RoundAgainInv
  <2>. QED BY <1>5, <2>1, <2>2 DEF S3Read
<1>6. CASE FirestorePoll
  <2>0. pc = "idle" /\ keep_going /\ store = "firestore"
    BY <1>6 DEF FirestorePoll
  <2>1. CASE Report /\ UNCHANGED w
    BY <1>0, <2>0, <2>1, RoundAgainInv
  <2>2. CASE Over /\ UNCHANGED w
    BY <1>0, <2>0, <2>2, EndedInv
  <2>3. CASE w' = [w EXCEPT !.seen = Tag] /\ Silently
    <3>1. FieldsOf(w') /\ w'.next = w.next /\ w'.resume = w.resume /\ w'.seen = Tag
      BY <1>0, <2>3 DEF FieldsOf, Fields
    <3>2. pc' = "idle" /\ UNCHANGED <<told, late, doc>>
      BY <2>3 DEF Silently, Quiet
    <3>3. GoesOn
      BY <1>0, <2>0, <3>1, <3>2 DEF GoesOn, keep_going, WatchedInv, StoreShape
    <3>4. store' = store
      BY <1>0 DEF store
    <3>5. DeliversNews /\ StaysCurrent /\ StreamIsAhead'
      BY <2>0, <3>1, <3>2, <3>4 DEF DeliversNews, StaysCurrent, StreamIsAhead, Streams
    <3>. QED BY <3>3, <3>5, GoesOnInv
  <2>4. CASE /\ w' = [w EXCEPT !.seen = Tag] /\ w.seen # Tag /\ ToCallback(Round, Revision)
    <3>1. told.rev < Revision
      BY <1>0, <2>0, <2>4 DEF WatchedInv, ComparesWithTheLatest, UpToDate, Running, Streams
    <3>. QED BY <1>0, <2>0, <2>4, <3>1, ReadInv
  <2>. QED BY <1>6, <2>1, <2>2, <2>3, <2>4 DEF FirestorePoll
<1>7. CASE GitRead
  <2>0. pc = "reading" /\ store = "git"
    BY <1>7 DEF GitRead
  <2>1. CASE w' = [w EXCEPT !.seen = Tag] /\ ToCallback(Round, Revision)
    BY <1>0, <1>r, <2>0, <2>1, ReadInv
  <2>2. CASE Silently /\ UNCHANGED w
    BY <1>0, <2>0, <2>2, RoundAgainInv
  <2>. QED BY <1>7, <2>1, <2>2 DEF GitRead, GitAttempt
<1>. QED BY <1>1, <1>2, <1>3, <1>4, <1>5, <1>6, <1>7

\* Each step of the store, the program and the loop of every crate.
LEMMA StoreStepInv == ASSUME WatchedInv, [StoreWatchNext]_watchVars PROVE WatchedInv'
<1>1. CASE UNCHANGED watchVars
  <2>1. /\ UNCHANGED <<source, hist, told, doc, pc, late, fetched, handle, w>>
        /\ FieldsOf(w) /\ handle \in {"held", "stopped", "detached"}
    BY <1>1 DEF watchVars, WatchedInv, StoreShape, FieldsOf
  <2>. QED BY <2>1, OthersInv DEF FieldsOf
<1>. QED
  BY <1>1, WriteInv, EnvironmentInv, CommonInv, ConsulInv, EtcdInv, NatsInv, RedisInv, PollersInv
  DEF StoreWatchNext, WatcherNext

\* Only Deliver leaves the callback.
LEMMA DeliveryIsNews ==
  ASSUME WatchedInv, [StoreWatchNext]_watchVars, pc = "deliver", pc' = "idle"
  PROVE  told'.rev > told.rev \/ (told'.rev = told.rev /\ MayRepeat)
<1>1. told' = doc
  BY DEF StoreWatchNext, WatcherNext, watchVars, Write, Outage, Recover, ExpireToken, Stop, watcherVars,
     Fetch, Door, Begin, Stopped, Deliver, ConsulQueryFails, ConsulAnswered, EtcdEstablish, EtcdMessage,
     EtcdRange, EtcdTokenExpired, StreamEnds, NatsEstablish, NatsEntry, RedisEstablish, RedisMessage,
     RedisRead, VaultCheck, VaultRead, S3Check, S3Read, FirestorePoll, GitCheck, GitRead
<1>2. told.rev <= doc.rev /\ (told.rev < doc.rev \/ MayRepeat) /\ told.rev \in Nat /\ doc.rev \in Nat
  BY DEF WatchedInv, ComparesWithTheLatest, StoreShape
<1>. QED BY <1>1, <1>2

\* A watch that was stopped calls back at most once more.
THEOREM StoppedWatchFallsSilentCorrect == StoreWatchSpec => []StoppedWatchFallsSilent
<1>1. ASSUME WatchedInv PROVE StoppedWatchFallsSilent
  BY <1>1 DEF WatchedInv, LastCallIsLast, StoreShape, StoppedWatchFallsSilent
<1>. QED BY <1>1, StoreInitInv, StoreStepInv, PTL DEF StoreWatchSpec

\* What a watch of any crate hands over.
THEOREM DeliveriesAreExactCorrect == StoreWatchSpec => DeliveriesAreExact
<1>. DEFINE Held1 ==
        /\ told.rev # 0 => \E i \in 1..told.rev : told.content = hist[i]
        /\ (fetched # NothingRead /\ shape \in Watchable(store)) =>
               \E i \in 1..Revision : fetched = hist[i]
     News ==
        (pc = "deliver" /\ pc' = "idle") =>
            \/ told'.rev > told.rev
            \/ /\ store = "s3" \/ (store = "redis" /\ shape = "one")
               /\ told'.rev = told.rev
<1>1. ASSUME WatchedInv PROVE Held1
  <2>1. told.rev # 0 => told.rev \in 1..told.rev /\ told.content = hist[told.rev]
    BY <1>1 DEF WatchedInv, DocumentsAreStates, StoreShape
  <2>. QED BY <1>1, <2>1 DEF WatchedInv, DocumentsAreStates
<1>2. ASSUME WatchedInv, [StoreWatchNext]_watchVars PROVE [News]_watchVars
  BY <1>2, DeliveryIsNews DEF MayRepeat
<1>3. DeliveriesAreExact <=> []Held1 /\ [][News]_watchVars
  BY DEF DeliveriesAreExact, EachDeliveryIsNews
<1>. HIDE DEF Held1, News
<1>. QED BY <1>1, <1>2, <1>3, StoreInitInv, StoreStepInv, PTL DEF StoreWatchSpec

=============================================================================
