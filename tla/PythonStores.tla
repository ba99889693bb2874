---------------------------- MODULE PythonStores ----------------------------
(***************************************************************************)
(* A compiled store under a Python configuration: refresh_remote, the shim  *)
(* that lets a Python object be a remote source (dynamic-config-python,     *)
(* remote.rs), and the store clients of dynamic-config-python-remote that    *)
(* such an object wraps.                                                    *)
(*                                                                         *)
(* Python threads refresh one configuration at the same time, and nothing   *)
(* serialises them.  Each resolves its credential first and hands it to the *)
(* store, which keeps one client.  Six stores keep it with the credential   *)
(* it was built for; S3's client signs from a slot, and Git's reads one,    *)
(* that every fetch writes before it reads.  An exception is kept in a slot *)
(* of the source until the refresh that failed attaches it.                 *)
(***************************************************************************)
EXTENDS Naturals

CONSTANTS Refreshers,     \* Python threads
          NoThread,
          MaxKeys,        \* bound: credentials that a callable returns in turn
          MaxRefreshes    \* bound: refreshes

ASSUME PythonStoresAssumption ==
    MaxKeys \in Nat \ {0} /\ MaxRefreshes \in Nat /\ NoThread \notin Refreshers

VARIABLES kept,        \* the store and the kind of credential it is given
          rotation,    \* the credential a callable returns now
          built,       \* Built: what the kept client was built for
          lock,        \* who holds the lock of `built`
          slot,        \* S3's Keys and Git's Resolved
          reading,     \* Git's: who fetches
          installed,   \* PySource.object
          failure,     \* PySource.failure: whose exception
          refresher,   \* what each thread is doing
          refreshes

storeVars == <<built, lock, slot, reading>>
sourceVars == <<installed, failure>>
pythonVars == <<kept, rotation, storeVars, sourceVars, refresher, refreshes>>

\* No credential: anonymous, or the SDK's own chain.
NoKeys == 0
NoClient == MaxKeys + 1
Credentials == 0..MaxKeys

-----------------------------------------------------------------------------
(* What a kind of credential makes the client present (auth, options), and  *)
(* what of it an error is scrubbed of (secrets).  A kind no arm names is    *)
(* refused before a client is built.                                        *)

ConsulAuth == [anonymous |-> {}, token |-> {"bearer"},
               login |-> {"method", "bearer"}, login_file |-> {"method", "file"}]
ConsulSecrets == [anonymous |-> {}, token |-> {"bearer"}, login |-> {"bearer"},
                  login_file |-> {}]

VaultAuth == [token |-> {"first"}, app_role |-> {"mount", "user", "second"},
              kubernetes |-> {"mount", "role", "file"},
              userpass |-> {"mount", "user", "second"},
              ldap |-> {"mount", "user", "second"},
              jwt |-> {"mount", "first", "role"}, certificate |-> {"mount", "role"}]
VaultSecrets == [token |-> {"first"}, app_role |-> {"second"}, kubernetes |-> {},
                 userpass |-> {"second"}, ldap |-> {"second"}, jwt |-> {"first"},
                 certificate |-> {}]

FirestoreAuth == [emulator |-> {}, access_token |-> {"value"},
                  metadata_server |-> {"url"}]
FirestoreSecrets == [emulator |-> {}, access_token |-> {"value"},
                     metadata_server |-> {}]

NatsAuth == [anonymous |-> {}, token |-> {"first"}, user_password |-> {"user", "second"},
             nkey |-> {"first"}, credentials |-> {"first"}]
NatsSecrets == [anonymous |-> {}, token |-> {"first"}, user_password |-> {"second"},
                nkey |-> {"first"}, credentials |-> {"first"}]

GitAuth == [anonymous |-> {}, https |-> {"user", "second"}, ssh_agent |-> {},
            ssh_key |-> {"file"}, ssh_command |-> {"first"}]
GitSecrets == [anonymous |-> {}, https |-> {"second"}, ssh_agent |-> {},
               ssh_key |-> {}, ssh_command |-> {"first"}]

\* Half a pair is no pair: etcd then connects anonymously, Redis with an empty
\* name or password, S3 with the SDK's chain.
EtcdAuth == [anonymous |-> {}, half |-> {}, pair |-> {"user", "password"}]
EtcdSecrets == [anonymous |-> {}, half |-> {}, pair |-> {"password"}]
RedisAuth == [anonymous |-> {}, half |-> {"password"}, pair |-> {"user", "password"}]
RedisSecrets == [anonymous |-> {}, half |-> {"password"}, pair |-> {"password"}]
S3Auth == [anonymous |-> {}, half |-> {},
           pair |-> {"id", "secret_access_key"},
           session |-> {"id", "secret_access_key", "session_token"}]
S3Secrets == [anonymous |-> {}, half |-> {}, pair |-> {"secret_access_key"},
              session |-> {"secret_access_key", "session_token"}]

Presents == [consul |-> ConsulAuth, vault |-> VaultAuth, firestore |-> FirestoreAuth,
             nats |-> NatsAuth, git |-> GitAuth, etcd |-> EtcdAuth,
             redis |-> RedisAuth, s3 |-> S3Auth]
Scrubs == [consul |-> ConsulSecrets, vault |-> VaultSecrets,
           firestore |-> FirestoreSecrets, nats |-> NatsSecrets, git |-> GitSecrets,
           etcd |-> EtcdSecrets, redis |-> RedisSecrets, s3 |-> S3Secrets]

PythonStoreNames == DOMAIN Presents

\* Parts of a credential that a log may show.
Public == {"method", "file", "mount", "role", "user", "url", "id"}

\* Nothing is presented: two of these are one credential.
Bare == Presents[kept.store][kept.kind] = {}

-----------------------------------------------------------------------------
(* Threads.                                                                 *)

Resting == [pc |-> "idle", given |-> NoKeys, client |-> NoKeys, used |-> NoKeys,
            cause |-> NoThread, overlapped |-> FALSE]

PythonInit ==
    /\ \E s \in PythonStoreNames : \E k \in DOMAIN Presents[s] :
           kept = [store |-> s, kind |-> k]
    /\ rotation = 1 /\ built = NoClient /\ lock = NoThread
    /\ slot = NoKeys /\ reading = NoThread
    /\ installed = TRUE /\ failure = NoThread
    /\ refresher = [t \in Refreshers |-> Resting]
    /\ refreshes = 0

Is(t, pc) == refresher[t].pc = pc
Becomes(t, r) == refresher' = [refresher EXCEPT ![t] = r]
Moves(t, pc) == Becomes(t, [refresher[t] EXCEPT !.pc = pc])

\* The callable's answer changes: a token file is rewritten.
RotateKeys ==
    /\ rotation < MaxKeys
    /\ rotation' = rotation + 1
    /\ UNCHANGED <<kept, storeVars, sourceVars, refresher, refreshes>>

\* refresh_remote: not from inside a fetch of the same thread.
Refresh(t) ==
    /\ Is(t, "idle") /\ refreshes < MaxRefreshes
    /\ refreshes' = refreshes + 1
    /\ Becomes(t, [Resting EXCEPT !.pc = "enter"])
    /\ UNCHANGED <<kept, rotation, storeVars, sourceVars>>

\* The engine has no source, or the configuration is gone: an error without an
\* exception, which takes what the slot holds all the same.
NoSource(t) ==
    /\ Is(t, "enter") /\ ~installed
    /\ Moves(t, "failing")
    /\ UNCHANGED <<kept, rotation, storeVars, sourceVars, refreshes>>

\* PyRemoteSource::fetch up to the store: the object cloned out of its lock, the
\* slot cleared, and the credential resolved by the object's own Python code.
Enter(t) ==
    /\ Is(t, "enter") /\ installed
    /\ failure' = NoThread
    /\ Becomes(t, [refresher[t] EXCEPT !.pc = "open",
                                       !.given = IF Bare THEN NoKeys ELSE rotation])
    /\ UNCHANGED <<kept, rotation, storeVars, installed, refreshes>>

\* remote(...), in place of another source too, and release().  Bound: the
\* source installed is the store of this module; what a replaced one still
\* fetches leaves its exception in the slot like any other.
InstallSource ==
    /\ installed' = TRUE /\ failure' = NoThread
    /\ UNCHANGED <<kept, rotation, storeVars, refresher, refreshes>>

ReleaseSource ==
    /\ installed /\ installed' = FALSE /\ failure' = NoThread
    /\ UNCHANGED <<kept, rotation, storeVars, refresher, refreshes>>

-----------------------------------------------------------------------------
(* The stores that keep a client and the credential it was built for.       *)

Keyed == {"consul", "vault", "firestore", "redis", "etcd", "nats"}

\* What the kept client has to match: S3's says only whether it is the SDK's
\* chain that signs.
Wants(t) == IF kept.store = "s3"
            THEN IF refresher[t].given = NoKeys THEN NoKeys ELSE 1
            ELSE refresher[t].given

Matches(t) == built = Wants(t)

\* client, with the lock of `built`: the kept client ...
Reuse(t) ==
    /\ Is(t, "client") /\ lock = NoThread /\ Matches(t)
    /\ Becomes(t, [refresher[t] EXCEPT !.pc = "read", !.client = built])
    /\ UNCHANGED <<kept, rotation, storeVars, sourceVars, refreshes>>

\* ... or a new one, with the lock held to the end of it: etcd, NATS and S3
\* connect or load their settings meanwhile.
Rebuild(t) ==
    /\ Is(t, "client") /\ lock = NoThread /\ ~Matches(t)
    /\ lock' = t
    /\ Moves(t, "building")
    /\ UNCHANGED <<kept, rotation, built, slot, reading, sourceVars, refreshes>>

Keep(t) ==
    /\ built' = Wants(t) /\ lock' = NoThread
    /\ Becomes(t, [refresher[t] EXCEPT !.pc = "read", !.client = Wants(t)])
    /\ UNCHANGED <<kept, rotation, slot, reading, sourceVars, refreshes>>

\* Consul, Vault and Firestore are put together without touching the network;
\* Redis parses its address, with the credential written into it.
Building(t) == Is(t, "building") /\ lock = t
ConsulClient(t) == Building(t) /\ kept.store = "consul" /\ Keep(t)
VaultClient(t) == Building(t) /\ kept.store = "vault" /\ Keep(t)
FirestoreClient(t) == Building(t) /\ kept.store = "firestore" /\ Keep(t)
RedisClient(t) == Building(t) /\ kept.store = "redis" /\ Keep(t)
\* Driven on the wheel's runtime.
EtcdClient(t) == Building(t) /\ kept.store = "etcd" /\ Keep(t)
NatsClient(t) == Building(t) /\ kept.store = "nats" /\ Keep(t)
S3Client(t) == Building(t) /\ kept.store = "s3" /\ Keep(t)

\* The address, the credential or the TLS material is refused, the store does
\* not answer, the runtime does not start or the task carrying the client is
\* lost: nothing is kept, and a lock that was held through a panic is usable.
BuildFails(t) ==
    /\ Building(t) /\ kept.store \notin {"consul", "vault", "firestore"}
    /\ lock' = NoThread
    /\ Moves(t, "raised")
    /\ UNCHANGED <<kept, rotation, built, slot, reading, sourceVars, refreshes>>

OpenKeyed(t) ==
    /\ Is(t, "open") /\ kept.store \in Keyed
    /\ Moves(t, "client")
    /\ UNCHANGED <<kept, rotation, storeVars, sourceVars, refreshes>>

\* Other threads of S3 that have written their keys and not signed yet.
Overlapping(t) ==
    [u \in Refreshers |->
        IF u # t /\ refresher[u].pc \in {"client", "building", "read"}
        THEN [refresher[u] EXCEPT !.overlapped = TRUE] ELSE refresher[u]]

\* S3: the keys are in the slot before the client is asked for.
OpenS3(t) ==
    /\ Is(t, "open") /\ kept.store = "s3"
    /\ slot' = IF refresher[t].given = NoKeys THEN slot ELSE refresher[t].given
    /\ refresher' = [Overlapping(t) EXCEPT ![t] = [refresher[t] EXCEPT !.pc = "client"]]
    /\ UNCHANGED <<kept, rotation, built, lock, reading, sourceVars, refreshes>>

\* Mutant: two threads may be between the slot and the read.
AnyTime == TRUE

\* Git: one lock over the slot and the read.
Alone == reading = NoThread

OpenGit(t) ==
    /\ Is(t, "open") /\ kept.store = "git" /\ Alone
    /\ reading' = t
    /\ slot' = refresher[t].given
    /\ Moves(t, "read")
    /\ UNCHANGED <<kept, rotation, built, lock, sourceVars, refreshes>>

-----------------------------------------------------------------------------
(* The read.                                                                *)

\* What the request carries.
Signs(t) == CASE kept.store = "git" -> slot
              [] kept.store = "s3" /\ refresher[t].client # NoKeys -> slot
              [] OTHER -> refresher[t].client

\* The answer, or an error raised with what the credential hides taken out: the
\* store's, a refused credential's or, on the runtime, that of a lost task.
Read(t) ==
    /\ Is(t, "read")
    /\ \E end \in {"answered", "raised"} :
           Becomes(t, [refresher[t] EXCEPT !.pc = end, !.used = Signs(t)])
    /\ reading' = IF kept.store = "git" THEN NoThread ELSE reading
    /\ UNCHANGED <<kept, rotation, built, lock, slot, sourceVars, refreshes>>

\* fetched: a (text, format) pair, or an error that is no exception.
Fetched(t) ==
    /\ Is(t, "answered")
    /\ \E end \in {"idle", "failing"} : Moves(t, end)
    /\ UNCHANGED <<kept, rotation, storeVars, sourceVars, refreshes>>

\* record: the exception stays in the slot.
Record(t) ==
    /\ Is(t, "raised")
    /\ failure' = t
    /\ Moves(t, "failing")
    /\ UNCHANGED <<kept, rotation, storeVars, installed, refreshes>>

\* Mutant: a copy attached, and the slot left as it is.
AttachCopy(t) ==
    /\ Is(t, "failing")
    /\ Becomes(t, [refresher[t] EXCEPT !.pc = "idle", !.cause = failure])
    /\ UNCHANGED <<kept, rotation, storeVars, sourceVars, refreshes>>

\* remote_failure, on the way out: taken, and attached as the cause.
Attach(t) ==
    /\ Is(t, "failing")
    /\ failure' = NoThread
    /\ Becomes(t, [refresher[t] EXCEPT !.pc = "idle", !.cause = failure])
    /\ UNCHANGED <<kept, rotation, storeVars, installed, refreshes>>

RefresherNext(t) ==
    \/ Refresh(t) \/ NoSource(t) \/ Enter(t)
    \/ OpenKeyed(t) \/ OpenS3(t) \/ OpenGit(t)
    \/ Reuse(t) \/ Rebuild(t) \/ BuildFails(t)
    \/ ConsulClient(t) \/ VaultClient(t) \/ FirestoreClient(t) \/ RedisClient(t)
    \/ EtcdClient(t) \/ NatsClient(t) \/ S3Client(t)
    \/ Read(t) \/ Fetched(t) \/ Record(t) \/ Attach(t)

PythonNext ==
    \/ RotateKeys \/ InstallSource \/ ReleaseSource
    \/ \E t \in Refreshers : RefresherNext(t)

-----------------------------------------------------------------------------
(* Properties.                                                              *)

\* A fetch presents the credential it was handed, whatever the other threads'
\* fetches do to the client and to the slot in the meantime, and its error
\* hides what was presented.  The exception is the one s3.rs:307-311 names: an
\* S3 store shared between two identities signs with the later one's keys, and
\* then the error is scrubbed of the wrong ones.
FetchPresentsItsOwn ==
    /\ \A t \in Refreshers :
           Is(t, "answered") /\ ~refresher[t].overlapped =>
               refresher[t].used = refresher[t].given
    /\ Presents[kept.store][kept.kind] \ Scrubs[kept.store][kept.kind] \subseteq Public

\* The slot holds an exception only while the refresh that raised it is on its
\* way out: no later refresh is handed the exception of one that is over
\* (dynamic-config-python remote.rs:139-144).  Two refreshes that fail at the
\* same time can still be handed each other's: the slot is one for all threads.
KeptExceptionIsLive == failure # NoThread => Is(failure, "failing")

=============================================================================
