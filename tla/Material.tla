------------------------------ MODULE Material ------------------------------
(***************************************************************************)
(* The TLS material a program gives a source (dynamic-config-store-core,    *)
(* tls.rs) and what each store crate makes of it: a client that trusts and  *)
(* presents what was given, or a refusal.  PEM files are read when a client *)
(* is built, which the crates do at different times, and a file may be      *)
(* written, damaged or rotated in between.                                  *)
(***************************************************************************)
EXTENDS Integers, FiniteSets

CONSTANT MaxWritesToDisk   \* bound: times the PEM file changes

ASSUME MaterialAssumption == MaxWritesToDisk \in Nat

VARIABLES given,   \* [at, tls, secure, agent, picky]: the source's settings,
                   \* secure for an address that says TLS
          disk,    \* [pem, number]: the CA file, numbered by its writes
          client,  \* the client kept by the source, or NotBuilt
          spoke    \* how the last request went out, or Silent

materialVars == <<given, disk, client, spoke>>

NotBuilt == [built |-> FALSE, trusts |-> "", presents |-> FALSE, of |-> 0]
Broken == [NotBuilt EXCEPT !.built = TRUE, !.trusts = "nothing: an error"]
Refusing == Broken
Silent == NotBuilt
\* A request without TLS: nothing is trusted and nothing presented.
InPlain == [NotBuilt EXCEPT !.built = TRUE, !.trusts = "nothing: no TLS"]

\* TlsConfig: a CA from a file or from bytes, a client certificate and its
\* key from files or from bytes.  The bytes here are good or not PEM.
Tls == [ca : {"none", "file", "bytes", "not PEM"},
        client : {"none", "files", "bytes"}]
is_empty(tls) == tls.ca = "none" /\ tls.client = "none"

\* Pem::read and the parsing of it, which every crate's client or the crate
\* itself does: a bundle has at least one certificate in it.
Readable(tls) ==
    CASE tls.ca = "file" -> disk.pem = "good"
      [] tls.ca = "not PEM" -> FALSE
      [] OTHER -> TRUE

\* The client that trusts the given CA, or else the platform's, and
\* presents the given certificate.
Trusting(tls) ==
    [built |-> TRUE,
     trusts |-> IF tls.ca = "none" THEN "the platform" ELSE "the given",
     presents |-> tls.client # "none",
     of |-> IF tls.ca = "file" THEN disk.number ELSE 0]

Built(tls) == IF Readable(tls) THEN Trusting(tls) ELSE Refusing

\* consul, vault and firestore: an agent of the program's own beside
\* material is refused; the scheme of the address is not looked at.
ConsulTls == IF given.agent /\ ~is_empty(given.tls) THEN Refusing
             ELSE Built(given.tls)
VaultTls == IF given.agent /\ ~is_empty(given.tls) THEN Refusing
            ELSE Built(given.tls)
FirestoreTls == IF given.agent /\ ~is_empty(given.tls) THEN Refusing
                ELSE Built(given.tls)

\* redis: material wants a rediss:// address.
RedisTls == IF ~given.secure THEN Refusing ELSE Built(given.tls)

\* Mutant: bytes that the client cannot take are left out.
NatsTlsDropsBytes ==
    Built([given.tls EXCEPT !.ca = IF @ \in {"bytes", "not PEM"}
                                   THEN "none" ELSE @])

\* nats: the client opens the files itself and takes no bytes; material
\* requires TLS whatever the address says (Encrypted).
NatsTls ==
    IF given.tls.ca \in {"bytes", "not PEM"} \/ given.tls.client = "bytes"
    THEN Refusing ELSE Built(given.tls)

\* s3: no client certificate, and a trust store that holds the given CA and
\* nothing else.
S3Tls ==
    CASE given.tls.client # "none" -> Refusing
      [] given.tls.client = "none" /\ given.tls.ca = "none" ->
            [NotBuilt EXCEPT !.built = TRUE, !.trusts = "nobody"]
      [] OTHER -> Built(given.tls)

\* etcd: the crate does not look at the address; whether its client library
\* refuses material beside an http:// one (picky), the repository does not
\* say.
EtcdTls == IF ~given.secure /\ given.picky THEN Refusing ELSE Built(given.tls)

\* git: check_scheme, and the crate's own transport only with material.
GitTls == IF ~is_empty(given.tls) /\ ~given.secure THEN Refusing
          ELSE Built(given.tls)

TlsClient ==
    CASE given.at = "consul" -> ConsulTls
      [] given.at = "vault" -> VaultTls
      [] given.at = "firestore" -> FirestoreTls
      [] given.at = "redis" -> RedisTls
      [] given.at = "nats" -> NatsTls
      [] given.at = "s3" -> S3Tls
      [] given.at = "etcd" -> EtcdTls
      [] given.at = "git" -> GitTls

\* Consul builds an agent for every call and git a client for every fetch;
\* vault and firestore keep what the first call made, an error too; the
\* others build once, and without a client there is no source.
ConsulAgent(now) == NotBuilt
GitClient(now) == NotBuilt
VaultAgent(now) == now
FirestoreAgent(now) == now
Constructed(now) == IF now = Refusing THEN NotBuilt ELSE now

KeptClient(now) ==
    CASE given.at = "consul" -> ConsulAgent(now)
      [] given.at = "git" -> GitClient(now)
      [] given.at = "vault" -> VaultAgent(now)
      [] given.at = "firestore" -> FirestoreAgent(now)
      [] OTHER -> Constructed(now)

\* Otherwise the address decides.
Encrypted == given.secure \/ (given.at = "nats" /\ ~is_empty(given.tls))

-----------------------------------------------------------------------------
MaterialInit ==
    /\ given \in [at : {"consul", "vault", "firestore", "redis", "nats",
                        "s3", "etcd", "git"},
                  tls : Tls, secure : BOOLEAN, agent : BOOLEAN,
                  picky : BOOLEAN]
    /\ ~given.picky => given.at = "etcd"
    /\ given.agent => given.at \in {"consul", "vault", "firestore"}
    /\ disk \in [pem : {"missing", "garbage", "good"}, number : {1}]
    /\ client = NotBuilt /\ spoke = Silent

DiskChanges ==
    /\ disk.number <= MaxWritesToDisk
    /\ disk' \in [pem : {"missing", "garbage", "good"},
                  number : {disk.number + 1}]
    /\ UNCHANGED <<given, client, spoke>>

\* A request: nothing goes out through a client that is an error.
Call ==
    LET now == IF client = NotBuilt THEN TlsClient ELSE client
    IN  /\ client' = KeptClient(now)
        /\ spoke' = CASE now = Refusing -> Silent
                      [] now # Refusing /\ Encrypted -> now
                      [] now # Refusing /\ ~Encrypted -> InPlain
        /\ UNCHANGED <<given, disk>>

MaterialNext == DiskChanges \/ Call
MaterialSpec == MaterialInit /\ [][MaterialNext]_materialVars

-----------------------------------------------------------------------------
\* The crates that take material beside an address without TLS, where it is
\* never used: consul, vault, firestore and s3, none of which look at the
\* scheme, and etcd, should its client library let it pass.
AddressUnread == {"consul", "vault", "firestore", "s3"}
                 \union (IF given.picky THEN {} ELSE {"etcd"})

\* A request that goes out with TLS trusts the CA the program gave, as some
\* write of the file had it, and presents the certificate (s3 trusts nobody
\* where nothing is given).  One that goes out without TLS goes to an
\* address that says so; material beside such an address is refused by
\* redis and git and has nats speak TLS, but consul, vault, firestore, s3
\* and maybe etcd leave it out.
MaterialUsedOrRefused ==
    \/ spoke = Silent
    \/ /\ spoke = InPlain /\ ~given.secure
       /\ is_empty(given.tls) \/ given.at \in AddressUnread
    \/ /\ spoke.presents = (given.tls.client # "none")
       /\ spoke.trusts = (CASE given.tls.ca # "none" -> "the given"
                            [] given.tls.ca = "none" /\ given.at = "s3" -> "nobody"
                            [] OTHER -> "the platform")

\* dynamic-config-store-core/src/tls.rs:27: "A silently ignored
\* `ca_certificate` is a program that believes it is pinned to a private CA
\* and is not, which is worse than a program that will not start."  Refuted:
\* beside an http:// address four crates ignore it.
MaterialIsNeverIgnored == spoke = InPlain => given.tls.ca = "none"
=============================================================================
