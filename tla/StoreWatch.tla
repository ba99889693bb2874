----------------------------- MODULE StoreWatch -----------------------------
(***************************************************************************)
(* The eight store crates as one program meets them: it fetches a source,   *)
(* applies the document and then watches the source, while other clients    *)
(* write the store, the store goes away and comes back, tokens expire, and  *)
(* the program stops the watch.                                             *)
(*                                                                         *)
(* A source is one key, a named list of keys (several) or a prefix.  The    *)
(* store's life is hist, the contents it has held; its revision is the      *)
(* length of hist.  Each crate's `watch` is its own set of actions: Consul  *)
(* blocks on an index, etcd and NATS follow a stream, Redis is notified and *)
(* reads again, Vault, S3, Firestore and Git poll a version.                *)
(***************************************************************************)
EXTENDS Integers, Sequences, FiniteSets

CONSTANTS KeyCount,              \* keys of a list or under a prefix
          Values,                \* what a key may hold, next to Absent
          Bad,                   \* a value that no document can be made of
          Initial,               \* what the keys hold at first
          MaxWrites,             \* bound: writes of other clients
          MaxFaults,             \* bound: outages and expired tokens
          MOST_TOKEN_RECOVERIES  \* etcd's bound, 3 in the code

Keys == 1..KeyCount
First == 1
Absent == "absent"

ASSUME StoreAssumption ==
    /\ KeyCount \in Nat \ {0}
    /\ Bad \in Values
    /\ Initial \in [Keys -> Values \ {Bad}]
    /\ {MaxWrites, MaxFaults, MOST_TOKEN_RECOVERIES} \subseteq Nat

VARIABLES source,   \* [store, shape, format, capable]
          hist,     \* the contents the store has held, oldest first
          index,    \* Consul's index, which a restored agent winds back
          up,       \* the store answers
          token,    \* etcd accepts the client's token
          faults,   \* faults so far
          handle,   \* the RemoteWatch: "held", "stopped" or "detached"
          pc,
          w,        \* what the watch loop keeps between iterations
          names,    \* the keys a listing found, for the read under way
          part,     \* the keys read so far by the read under way
          doc,      \* the document on its way to the callback
          base,     \* the revision the watch's view began at, 0 before
          fetched,  \* the revision-independent content the program fetched
          told,     \* the last document delivered: [content, rev]
          failing,  \* a failure was reported and nothing delivered since
          why,      \* how the watch ended
          late,     \* deliveries begun after the stop
          skipped   \* a stream was opened again past writes it never sent

watchVars == <<source, hist, index, up, token, faults, handle, pc, w, names,
               part, doc, base, fetched, told, failing, why, late, skipped>>
storeVars == <<source, hist, index, up, token, faults, handle>>

-----------------------------------------------------------------------------
(* The sources a program can build.                                         *)

ConsulKeys == {"one", "several", "prefix"}
EtcdKeys == {"one", "several", "prefix"}
RedisKeys == {"one", "several", "prefix"}
NatsKeys == {"one", "several"}
VaultKeys == {"one", "several"}
S3Keys == {"one", "several", "prefix"}
FirestoreKeys == {"one", "several"}
GitKeys == {"one", "several", "prefix"}

\* The shapes each crate's watch agrees to watch.
ConsulWatched == {"one", "prefix"}
EtcdWatched == {"one", "prefix"}
RedisWatched == {"one", "several"}
NatsWatched == {"one"}
VaultWatched == {"one"}
S3Watched == {"one"}
FirestoreWatched == {"one"}
GitWatched == {"one", "several", "prefix"}

Watchable(store) ==
    CASE store = "consul" -> ConsulWatched
      [] store = "etcd" -> EtcdWatched
      [] store = "redis" -> RedisWatched
      [] store = "nats" -> NatsWatched
      [] store = "vault" -> VaultWatched
      [] store = "s3" -> S3Watched
      [] store = "firestore" -> FirestoreWatched
      [] store = "git" -> GitWatched

\* What a program can build: a source of a shape, which knows its format or
\* does not.  Vault reads KV documents and Firestore values as JSON, and
\* Git's builder refuses to build without a format.  Not `capable` is a
\* Redis with its notifications off, a Vault mount that is not KV v2,
\* Firestore answers without an updateTime, a Git credential that cannot be
\* replaced.
ConsulSources == [store : {"consul"}, shape : ConsulKeys, format : BOOLEAN,
                  capable : {TRUE}]
EtcdSources == [store : {"etcd"}, shape : EtcdKeys, format : BOOLEAN,
                capable : {TRUE}]
RedisSources == [store : {"redis"}, shape : RedisKeys, format : BOOLEAN,
                 capable : BOOLEAN]
NatsSources == [store : {"nats"}, shape : NatsKeys, format : BOOLEAN,
                capable : {TRUE}]
VaultSources == [store : {"vault"}, shape : VaultKeys, format : {TRUE},
                 capable : BOOLEAN]
S3Sources == [store : {"s3"}, shape : S3Keys, format : BOOLEAN,
              capable : {TRUE}]
FirestoreSources == [store : {"firestore"}, shape : FirestoreKeys,
                     format : {TRUE}, capable : BOOLEAN]
GitSources == [store : {"git"}, shape : GitKeys, format : {TRUE},
               capable : BOOLEAN]

\* Bound: a source without a format is otherwise the simplest one.
Sources ==
    {s \in ConsulSources \union EtcdSources \union RedisSources
              \union NatsSources \union VaultSources \union S3Sources
              \union FirestoreSources \union GitSources :
        s.format \/ (s.capable /\ s.shape = "one")}

-----------------------------------------------------------------------------
(* What a read of the source makes of the store's contents.                 *)

store == source.store
shape == source.shape
MyKeys == IF shape = "one" THEN {First} ELSE Keys
Revision == Len(hist)
Current == hist[Revision]

\* How each crate reads a source: in one answer of the store (a request, a
\* subtree, a transaction, an MGET, a batchGet, a commit's tree), key after
\* key, or by listing the keys of a prefix first and reading them
\* afterwards, together or in turn.
ConsulReads == [one |-> "at once", several |-> "in turn",
                prefix |-> "at once"]
EtcdReads == [one |-> "at once", several |-> "at once",
              prefix |-> "at once"]

\* Mutant: a list is read with a GET per key.
RedisGets == [one |-> "at once", several |-> "in turn", prefix |-> "listed"]
RedisReads == [one |-> "at once", several |-> "at once",
               prefix |-> "listed"]
NatsReads == [one |-> "at once", several |-> "in turn"]
VaultReads == [one |-> "at once", several |-> "in turn"]
S3Reads == [one |-> "at once", several |-> "in turn",
            prefix |-> "listed, in turn"]
FirestoreReads == [one |-> "at once", several |-> "at once"]
GitReads == [one |-> "at once", several |-> "at once", prefix |-> "at once"]

Reads ==
    LET of == CASE store = "consul" -> ConsulReads
                [] store = "etcd" -> EtcdReads
                [] store = "redis" -> RedisReads
                [] store = "nats" -> NatsReads
                [] store = "vault" -> VaultReads
                [] store = "s3" -> S3Reads
                [] store = "firestore" -> FirestoreReads
                [] store = "git" -> GitReads
    IN  of[shape]

ListsFirst == Reads \in {"listed", "listed, in turn"}

\* What a content is as a document.  Two keys under a prefix that supply
\* the same paths are refused; in a list the later one wins.
Held(c) == {k \in DOMAIN c : c[k] # Absent}
EveryKey(c) == Held(c) = DOMAIN c /\ Held(c) # {}
AnyKey(c) == Held(c) # {}

overlap == IF shape = "prefix" THEN "Refused" ELSE "LaterWins"

Parsed(c, present) ==
    CASE ~present -> "empty"
      [] present /\ (\/ \E k \in Held(c) : c[k] = Bad
                     \/ /\ overlap = "Refused"
                        /\ \E j, k \in Held(c) : j # k /\ c[j] = c[k]) ->
            "bad"
      [] OTHER -> "whole"

\* Which keys have to be there: every one of a list, one at least of what a
\* prefix's single answer holds, and every one that a listing named.
ConsulOutcome(c) ==
    Parsed(c, IF shape = "prefix" THEN AnyKey(c) ELSE EveryKey(c))
EtcdOutcome(c) ==
    Parsed(c, IF shape = "prefix" THEN AnyKey(c) ELSE EveryKey(c))
RedisOutcome(c) == Parsed(c, EveryKey(c))
NatsOutcome(c) == Parsed(c, EveryKey(c))
VaultOutcome(c) == Parsed(c, EveryKey(c))
S3Outcome(c) == Parsed(c, EveryKey(c))
FirestoreOutcome(c) == Parsed(c, EveryKey(c))
GitOutcome(c) ==
    Parsed(c, IF shape = "prefix" THEN AnyKey(c) ELSE EveryKey(c))

Outcome(c) ==
    CASE store = "consul" -> ConsulOutcome(c)
      [] store = "etcd" -> EtcdOutcome(c)
      [] store = "redis" -> RedisOutcome(c)
      [] store = "nats" -> NatsOutcome(c)
      [] store = "vault" -> VaultOutcome(c)
      [] store = "s3" -> S3Outcome(c)
      [] store = "firestore" -> FirestoreOutcome(c)
      [] store = "git" -> GitOutcome(c)

NothingRead == [k \in {} |-> Absent]
Unlisted == {0}

\* One round trip of a read: the listing, the whole set, or the next key.
Listing == ListsFirst /\ names = Unlisted
Wanted == IF ListsFirst THEN names ELSE MyKeys

Round ==
    CASE Listing -> part
      [] Reads = "at once" -> Current
      [] Reads = "listed" /\ ~Listing -> [k \in names |-> Current[k]]
      [] OTHER ->
            LET rest == Wanted \ DOMAIN part
                k == CHOOSE k \in rest : \A j \in rest : k <= j
            IN  IF rest = {} THEN part
                ELSE [j \in DOMAIN part \union {k} |->
                         IF j = k THEN Current[k] ELSE part[j]]

Answer ==
    IF ~up THEN "error"
    ELSE IF Listing THEN "more"
    ELSE IF DOMAIN Round # Wanted THEN "more"
    ELSE IF Outcome(Round) = "whole" THEN "whole" ELSE "error"

\* What the read keeps for its next round trip.
ReadOn ==
    /\ part' = IF Answer = "more" THEN Round ELSE NothingRead
    /\ names' = IF Answer # "more" THEN Unlisted
                ELSE IF Listing THEN {k \in Keys : Current[k] # Absent}
                ELSE names

-----------------------------------------------------------------------------
NoDoc == [content |-> NothingRead, rev |-> 0]

NewWatch ==
    [index |-> 0, last |-> NothingRead, priming |-> TRUE, seen |-> <<>>,
     tag |-> <<>>, next |-> 0, resume |-> 0, recoveries |-> 0,
     notes |-> <<>>, broken |-> FALSE]

StoreWatchInit ==
    /\ source \in Sources
    /\ hist = <<[k \in MyKeys |-> Initial[k]]>>
    /\ index = 1 /\ up = TRUE /\ token = TRUE /\ faults = 0
    /\ handle = "held"
    /\ pc = "fetch"
    /\ w = NewWatch /\ names = Unlisted /\ part = NothingRead /\ doc = NoDoc
    /\ base = 0 /\ fetched = NothingRead /\ told = NoDoc
    /\ failing = FALSE /\ why = "" /\ late = 0 /\ skipped = FALSE

\* Other clients, the network and the program.
watcherVars == <<pc, names, part, doc, base, fetched, skipped, told, failing,
                 why, late>>
Subscribed == pc \in {"idle", "reading", "deliver"}

\* Bound: nothing of interest happens to a source that is not watched.
Watched == pc # "ended"

Write ==
    /\ Watched /\ Revision <= MaxWrites
    /\ \E k \in MyKeys, v \in Values \union {Absent} :
           /\ v = Absent => Current[k] # Absent
           /\ hist' = Append(hist, [Current EXCEPT ![k] = v])
           /\ w' = IF store = "redis" /\ Subscribed
                   THEN [w EXCEPT !.notes =
                            Append(@, IF v = Absent THEN "del" ELSE "set")]
                   ELSE w
    /\ index' = index + 1
    /\ UNCHANGED <<source, up, token, faults, handle>>
    /\ UNCHANGED watcherVars

\* The store cannot be reached.  A connection held open may or may not
\* survive it.
Outage ==
    /\ Watched /\ up /\ faults < MaxFaults
    /\ up' = FALSE
    /\ faults' = faults + 1
    /\ \E b \in IF store \in {"etcd", "redis", "nats"} /\ Subscribed
                THEN BOOLEAN ELSE {FALSE} :
           w' = [w EXCEPT !.broken = b \/ @]
    /\ UNCHANGED <<source, hist, index, token, handle>>
    /\ UNCHANGED watcherVars

\* A Consul agent restored from a snapshot counts from a lower index.
Recover ==
    /\ Watched /\ ~up
    /\ up' = TRUE
    /\ index' \in IF store = "consul" THEN {1, index} ELSE {index}
    /\ UNCHANGED <<source, hist, token, faults, handle, w>>
    /\ UNCHANGED watcherVars

\* etcd's token runs out, or the Git host stops taking the credential.
ExpireToken ==
    /\ Watched /\ store \in {"etcd", "git"} /\ token /\ faults < MaxFaults
    /\ token' = FALSE
    /\ faults' = faults + 1
    /\ UNCHANGED <<source, hist, index, up, handle, w>>
    /\ UNCHANGED watcherVars

\* RemoteWatch: stop, or drop, or detach, which leaves the flag set for good.
Stop ==
    /\ Watched /\ handle = "held"
    /\ handle' \in {"stopped", "detached"}
    /\ UNCHANGED <<source, hist, index, up, token, faults, w>>
    /\ UNCHANGED watcherVars

keep_going == handle # "stopped"

-----------------------------------------------------------------------------
(* Steps every watch takes.                                                 *)

Quiet == UNCHANGED <<told, why, late>>
Said == failing' = TRUE
End(reason) == pc' = "ended" /\ why' = reason /\ UNCHANGED <<told, late>>

\* attempts.failed, then the next iteration.
Reported == pc' = "idle" /\ Said /\ Quiet
\* attempts.failed, then the error is returned.
ReportedAndOver == Said /\ End("failed")

\* fetch: a request or several; any of them failing fails it, and the
\* program tries again.
Fetch ==
    /\ pc = "fetch"
    /\ ReadOn
    /\ fetched' = IF Answer = "whole" THEN Round ELSE fetched
    /\ pc' = IF Answer = "whole" THEN "door" ELSE pc
    /\ UNCHANGED storeVars /\ UNCHANGED <<w, doc, base, skipped, failing>>
    /\ Quiet

\* Everything refused before the first round trip is returned to the caller
\* and reported to nobody.
Door ==
    /\ pc = "door"
    /\ IF shape \in Watchable(store) /\ source.format
       THEN pc' = "establish" /\ Quiet
       ELSE End("refused")
    /\ UNCHANGED storeVars
    /\ UNCHANGED <<w, names, part, doc, base, fetched, skipped, failing>>

Established ==
    /\ base' = IF base = 0 THEN Revision ELSE base
    /\ pc' = "idle"
    /\ UNCHANGED failing
    /\ Quiet

\* The pollers and Consul have nothing to establish: their first answer is
\* what the view begins at.
Begin ==
    /\ pc = "establish"
    /\ store \in {"consul", "vault", "s3", "firestore", "git"}
    /\ pc' = "idle"
    /\ UNCHANGED storeVars
    /\ UNCHANGED <<w, names, part, doc, base, fetched, skipped, failing>> /\ Quiet

Stopped ==
    /\ ~keep_going
    /\ \/ pc = "idle"
       \/ pc = "reading" /\ store \in {"etcd", "nats"}
    /\ End("stopped")
    /\ UNCHANGED storeVars
    /\ UNCHANGED <<w, names, part, doc, base, fetched, skipped, failing>>

\* guarded: the callback takes the document, refuses it or panics; either
\* of the last ends the watch and charges nothing to the store.
Deliver ==
    /\ pc = "deliver"
    /\ late' = IF keep_going THEN late ELSE late + 1
    /\ \/ /\ told' = doc
          /\ failing' = FALSE
          /\ pc' = "idle"
          /\ UNCHANGED why
       \/ /\ pc' = "ended" /\ why' = "callback"
          /\ UNCHANGED <<told, failing>>
    /\ doc' = NoDoc
    /\ UNCHANGED storeVars /\ UNCHANGED <<w, names, part, base, fetched, skipped>>

ToCallback(content, rev) ==
    /\ doc' = [content |-> content, rev |-> rev]
    /\ pc' = "deliver"
    /\ UNCHANGED failing
    /\ Quiet

Silently == pc' = "idle" /\ UNCHANGED <<doc, failing>> /\ Quiet
Over == ReportedAndOver /\ UNCHANGED doc
Report == Reported /\ UNCHANGED doc

-----------------------------------------------------------------------------
(* Consul.                                                                  *)

\* blocking_read answers at once for index 0, when the index has moved, and
\* when the wait is over, which needs no guard of its own here.
ConsulQueryFails ==
    /\ store = "consul" /\ pc = "idle" /\ keep_going /\ ~up
    /\ Report
    /\ UNCHANGED storeVars
    /\ UNCHANGED <<w, names, part, base, fetched, skipped>>

ConsulAnswered ==
    LET outcome == Outcome(Current)
        known == [w EXCEPT !.index = IF index < @ THEN 0 ELSE index]
    IN  /\ store = "consul" /\ pc = "idle" /\ keep_going /\ up
        /\ CASE outcome = "bad" /\ shape = "prefix" ->
                    Over /\ w' = known /\ base' = base
             [] outcome = "empty" \/ (outcome = "bad" /\ shape = "one") ->
                    Report /\ w' = known /\ base' = base
             [] OTHER ->
                    /\ w' = [known EXCEPT !.last = Current,
                                          !.priming = FALSE]
                    /\ base' = IF w.priming THEN Revision ELSE base
                    /\ IF w.priming \/ w.last = Current
                       THEN Silently
                       ELSE ToCallback(Current, Revision)
        /\ UNCHANGED storeVars
        /\ UNCHANGED <<names, part, fetched, skipped>>

-----------------------------------------------------------------------------
(* etcd.  A stream sends the revisions from w.next on; the revision after   *)
(* the last one received is where a new stream resumes, 0 for none.         *)

\* The store answers, after a refresh_token where the token was refused; an
\* unreachable store or a refused refresh ends the watch.
Refreshed == up /\ token' = TRUE
CannotRefresh == token' = token /\ Over

\* watch_once: from the given revision, or from now.
EtcdOpen(from, recovered) ==
    /\ w' = [w EXCEPT !.next = IF from = 0 THEN Revision + 1 ELSE from,
                      !.recoveries = @ + recovered]
    /\ skipped' = (skipped \/ (from = 0 /\ w.next \in 1..Revision))

EtcdEstablish ==
    /\ store = "etcd" /\ pc = "establish"
    /\ \/ /\ Refreshed
          /\ EtcdOpen(0, 0)
          /\ Established /\ doc' = doc
       \/ /\ ~up \/ ~token
          /\ CannotRefresh
          /\ UNCHANGED <<w, base, skipped>>
    /\ UNCHANGED <<source, hist, index, up, faults, handle, names, part,
                   fetched>>

\* A message: a put of a watched key is delivered as it came, a delete is
\* passed over; under a prefix the range is read at the message's revision.
EtcdMessage ==
    LET text == hist[w.next]
        received == [w EXCEPT !.next = @ + 1, !.resume = w.next + 1,
                              !.recoveries = 0]
    IN  /\ store = "etcd" /\ pc = "idle" /\ keep_going
        /\ up /\ token /\ ~w.broken /\ w.next <= Revision
        /\ w' = received
        /\ CASE shape = "prefix" ->
                    pc' = "reading" /\ UNCHANGED <<doc, failing>> /\ Quiet
             [] shape = "one" /\ Outcome(text) = "empty" -> Silently
             [] shape = "one" /\ Outcome(text) = "bad" -> Over
             [] OTHER -> ToCallback(text, w.next)
        /\ UNCHANGED storeVars
        /\ UNCHANGED <<names, part, base, fetched, skipped>>

\* range_at, with one refresh of the token.
EtcdRange ==
    LET set == hist[w.next - 1]
    IN  /\ store = "etcd" /\ pc = "reading"
        /\ \/ /\ Refreshed
              /\ CASE Outcome(set) = "whole" -> ToCallback(set, w.next - 1)
                   [] Outcome(set) = "empty" -> Silently
                   [] OTHER -> Over
           \/ (~up \/ ~token) /\ CannotRefresh
        /\ UNCHANGED <<source, hist, index, up, faults, handle>>
        /\ UNCHANGED <<w, names, part, base, fetched, skipped>>

\* The stream fails because the token ran out: refresh and resume, at most
\* MOST_TOKEN_RECOVERIES times without a message in between.
EtcdTokenExpired ==
    /\ store = "etcd" /\ pc = "idle" /\ keep_going
    /\ up /\ ~token /\ ~w.broken
    /\ \/ /\ w.recoveries < MOST_TOKEN_RECOVERIES
          /\ Refreshed
          /\ EtcdOpen(w.resume, 1)
          /\ Silently
       \/ CannotRefresh /\ UNCHANGED <<w, skipped>>
    /\ UNCHANGED <<source, hist, index, up, faults, handle>>
    /\ UNCHANGED <<names, part, base, fetched>>

\* The connection ends, fails, or the store cancels the watch.
StreamEnds ==
    /\ store \in {"etcd", "nats"} /\ pc = "idle" /\ keep_going
    /\ w.broken
    /\ Over
    /\ UNCHANGED storeVars
    /\ UNCHANGED <<w, names, part, base, fetched, skipped>>

-----------------------------------------------------------------------------
(* NATS.                                                                    *)

NatsEstablish ==
    /\ store = "nats" /\ pc = "establish"
    /\ IF up
       THEN /\ w' = [w EXCEPT !.next = Revision + 1]
            /\ Established /\ doc' = doc
       ELSE Over /\ UNCHANGED <<w, base>>
    /\ UNCHANGED storeVars
    /\ UNCHANGED <<names, part, fetched, skipped>>

NatsEntry ==
    LET text == hist[w.next]
    IN  /\ store = "nats" /\ pc = "idle" /\ keep_going
        /\ up /\ ~w.broken /\ w.next <= Revision
        /\ w' = [w EXCEPT !.next = @ + 1]
        /\ CASE Outcome(text) = "empty" -> Silently
             [] Outcome(text) = "bad" -> Over
             [] OTHER -> ToCallback(text, w.next)
        /\ UNCHANGED storeVars
        /\ UNCHANGED <<names, part, base, fetched, skipped>>

-----------------------------------------------------------------------------
(* Redis.                                                                   *)

\* The keyspace notifications are required, then every key's channel is
\* subscribed to; what fails here is reported and returned.
RedisEstablish ==
    /\ store = "redis" /\ pc = "establish"
    /\ IF up /\ source.capable
       THEN Established /\ doc' = doc
       ELSE Over /\ UNCHANGED base
    /\ UNCHANGED storeVars
    /\ UNCHANGED <<w, names, part, fetched, skipped>>

\* Mutant: the flag is not looked at between notifications.
RedisMessageDeaf ==
    /\ store = "redis" /\ pc = "idle"
    /\ up /\ ~w.broken /\ w.notes # <<>>
    /\ w' = [w EXCEPT !.notes = Tail(@)]
    /\ pc' = IF Head(w.notes) = "set" THEN "reading" ELSE "idle"
    /\ UNCHANGED <<doc, failing>> /\ Quiet
    /\ UNCHANGED storeVars
    /\ UNCHANGED <<names, part, base, fetched, skipped>>

\* get_message: a dead subscription ends the watch, a deletion is passed
\* over, any other event has the set read again.
RedisMessage ==
    /\ store = "redis" /\ pc = "idle" /\ keep_going
    /\ \/ w.broken /\ Over /\ UNCHANGED w
       \/ /\ up /\ ~w.broken /\ w.notes # <<>>
          /\ w' = [w EXCEPT !.notes = Tail(@)]
          /\ pc' = IF Head(w.notes) = "set" THEN "reading" ELSE "idle"
          /\ UNCHANGED <<doc, failing>> /\ Quiet
    /\ UNCHANGED storeVars
    /\ UNCHANGED <<names, part, base, fetched, skipped>>

\* Mutant: a read that fails is not reported.
RedisReadSilent ==
    /\ store = "redis" /\ pc = "reading"
    /\ ReadOn
    /\ IF Answer = "whole" THEN ToCallback(Round, Revision) ELSE Silently
    /\ UNCHANGED storeVars
    /\ UNCHANGED <<w, base, fetched, skipped>>

RedisRead ==
    /\ store = "redis" /\ pc = "reading"
    /\ ReadOn
    /\ CASE Answer = "more" -> pc' = pc /\ UNCHANGED <<w, doc, failing>> /\ Quiet
         [] Answer = "error" -> Report /\ UNCHANGED w
         [] shape = "several" /\ w.last = Round -> Silently /\ UNCHANGED w
         [] OTHER ->
                /\ w' = [w EXCEPT !.last =
                            IF shape = "several" THEN Round ELSE @]
                /\ ToCallback(Round, Revision)
    /\ UNCHANGED storeVars
    /\ UNCHANGED <<base, fetched, skipped>>

-----------------------------------------------------------------------------
(* The pollers.  Tag is what each compares: Vault's version and Firestore's *)
(* updateTime move with every put, S3's ETag with the bytes, Git's commit   *)
(* with every commit of the branch.                                         *)

LastPut ==
    CHOOSE i \in 0..Revision :
        /\ i > 0 => hist[i][First] # Absent
        /\ \A j \in (i + 1)..Revision : hist[j][First] = Absent

Tag == CASE store = "s3" -> <<Current[First]>>
         [] store = "git" -> <<Revision>>
         [] OTHER -> <<LastPut>>

\* The first tag is taken for that of what the caller has; another one has
\* the document read.
Compared ==
    IF w.seen = <<>>
    THEN /\ w' = [w EXCEPT !.seen = Tag]
         /\ base' = Revision
         /\ Silently
    ELSE /\ w' = [w EXCEPT !.tag = Tag]
         /\ base' = base
         /\ pc' = IF w.seen # Tag THEN "reading" ELSE "idle"
         /\ UNCHANGED <<doc, failing>> /\ Quiet

\* current_version: the metadata of a deleted secret answers with the old
\* version, that of a destroyed one not at all.
VaultCheck ==
    /\ store = "vault" /\ pc = "idle" /\ keep_going
    /\ \/ /\ ~up \/ Current[First] = Absent
          /\ Report /\ UNCHANGED <<w, base>>
       \/ up /\ ~source.capable /\ Over /\ UNCHANGED <<w, base>>
       \/ up /\ source.capable /\ Compared
    /\ UNCHANGED storeVars
    /\ UNCHANGED <<names, part, fetched, skipped>>

S3Check ==
    /\ store = "s3" /\ pc = "idle" /\ keep_going
    /\ IF up /\ Current[First] # Absent
       THEN Compared
       ELSE Report /\ UNCHANGED <<w, base>>
    /\ UNCHANGED storeVars
    /\ UNCHANGED <<names, part, fetched, skipped>>

\* The tag of what was read, not the one that was checked, is what the next
\* check compares with; an S3 answer may come without one.
SeenAfter == {Tag, w.tag}

VaultRead ==
    /\ store = "vault" /\ pc = "reading"
    /\ ReadOn
    /\ IF Answer = "whole"
       THEN w' = [w EXCEPT !.seen = Tag] /\ ToCallback(Round, Revision)
       ELSE Report /\ UNCHANGED w
    /\ UNCHANGED storeVars
    /\ UNCHANGED <<base, fetched, skipped>>

S3Read ==
    /\ store = "s3" /\ pc = "reading"
    /\ ReadOn
    /\ IF Answer = "whole"
       THEN /\ \E t \in SeenAfter : w' = [w EXCEPT !.seen = t]
            /\ ToCallback(Round, Revision)
       ELSE Report /\ UNCHANGED w
    /\ UNCHANGED storeVars
    /\ UNCHANGED <<base, fetched, skipped>>

\* One read is the check and the document.
FirestorePoll ==
    /\ store = "firestore" /\ pc = "idle" /\ keep_going
    /\ CASE Answer # "whole" -> Report /\ UNCHANGED <<w, base>>
         [] Answer = "whole" /\ ~source.capable -> Over /\ UNCHANGED <<w, base>>
         [] OTHER ->
                /\ w' = [w EXCEPT !.seen = Tag]
                /\ base' = IF w.seen = <<>> THEN Revision ELSE base
                /\ IF w.seen \in {<<>>, Tag}
                   THEN Silently ELSE ToCallback(Round, Revision)
    /\ UNCHANGED storeVars
    /\ UNCHANGED <<names, part, fetched, skipped>>

\* attempt: a refused credential that can be replaced is dropped and the
\* operation tried once more.
GitAttempt(answered) ==
    \/ up /\ token /\ token' = token /\ answered
    \/ up /\ ~token /\ source.capable /\ token' = TRUE /\ answered

GitCheck ==
    /\ store = "git" /\ pc = "idle" /\ keep_going
    /\ \/ GitAttempt(Compared)
       \/ /\ up /\ ~token /\ ~source.capable
          /\ token' = token
          /\ End("auth")
          /\ UNCHANGED <<w, base, doc, failing>>
       \/ /\ ~up \/ (~token /\ source.capable)
          /\ token' = token
          /\ Silently
          /\ UNCHANGED <<w, base>>
    /\ UNCHANGED <<source, hist, index, up, faults, handle>>
    /\ UNCHANGED <<names, part, fetched, skipped>>

\* Nothing is said of a read that fails: the next check tries again.
GitRead ==
    /\ store = "git" /\ pc = "reading"
    /\ \/ /\ Answer = "whole"
          /\ GitAttempt(/\ w' = [w EXCEPT !.seen = Tag]
                        /\ ToCallback(Round, Revision))
       \/ /\ Answer # "whole" \/ ~token
          /\ token' = token
          /\ Silently
          /\ UNCHANGED w
    /\ ReadOn
    /\ UNCHANGED <<source, hist, index, up, faults, handle>>
    /\ UNCHANGED <<base, fetched, skipped>>

-----------------------------------------------------------------------------
WatcherNext ==
    \/ Fetch \/ Door \/ Begin \/ Stopped \/ Deliver
    \/ ConsulQueryFails \/ ConsulAnswered
    \/ EtcdEstablish \/ EtcdMessage \/ EtcdRange \/ EtcdTokenExpired
    \/ StreamEnds
    \/ NatsEstablish \/ NatsEntry
    \/ RedisEstablish \/ RedisMessage \/ RedisRead
    \/ VaultCheck \/ VaultRead \/ S3Check \/ S3Read \/ FirestorePoll
    \/ GitCheck \/ GitRead

StoreWatchNext ==
    Write \/ Outage \/ Recover \/ ExpireToken \/ Stop \/ WatcherNext

StoreWatchSpec ==
    /\ StoreWatchInit
    /\ [][StoreWatchNext]_watchVars
    /\ WF_watchVars(WatcherNext)

-----------------------------------------------------------------------------
\* A watch that was stopped calls back at most once more, with the document
\* it was already reading.
StoppedWatchFallsSilent == late <= 1

\* No delivery takes the program back to an older revision of the store,
\* whatever was checked, read, resumed or retried in between, and a write
\* that was delivered is not delivered again (a single Redis key says so
\* for every event, and an S3 answer without an ETag cannot tell).
EachDeliveryIsNews ==
    [][(pc = "deliver" /\ pc' = "idle") =>
          \/ told'.rev > told.rev
          \/ /\ store = "s3" \/ (store = "redis" /\ shape = "one")
             /\ told'.rev = told.rev]_watchVars

\* What a watch hands over is exact.  A document handed to the program is one
\* the store held at one moment, since the watch began: never one key's new
\* value beside another's old one (the sources whose reads cannot promise that
\* are the ones the crates refuse to watch).  And each delivery is news.
DeliveriesAreExact ==
    /\ [](/\ told.rev # 0 => \E i \in 1..told.rev : told.content = hist[i]
          /\ (fetched # NothingRead /\ shape \in Watchable(store)) =>
                 \E i \in 1..Revision : fetched = hist[i])
    /\ EachDeliveryIsNews

\* What the program has: what it fetched, until the watch delivers.
Has == IF told.rev # 0 THEN told.content ELSE fetched

\* A write between the fetch and the beginning of the watch's view was taken
\* for what the program has, and nothing was written since.
WrittenBeforeTheView ==
    /\ base # 0 /\ told.rev = 0
    /\ Current = hist[base] /\ fetched # hist[base]

\* Once the writes are over the program ends up with the latest document,
\* or the store was reported as failing, or the watch was refused, stopped
\* or turned down by its callback.  The exceptions are the code's: what was
\* written after the program's fetch and before the watch's first answer (a
\* stream's subscription) is kept from it for good and reported to nobody,
\* Git reports nothing, a stream says nothing while its connection neither
\* works nor breaks, and an etcd stream can lose its place.
FreshOrSaid ==
    <>[](\/ why \in {"refused", "stopped", "callback"}
         \/ pc = "fetch" /\ ~up
         \/ store \in {"etcd", "nats", "redis"} /\ ~up /\ ~w.broken
         \/ failing
         \/ Outcome(Current) # "whole"
         \/ base # 0 /\ Has = Current
         \/ WrittenBeforeTheView
         \/ store = "git" /\ (~up \/ ~token \/ why = "auth")
         \/ skipped)

\* dynamic-config-etcd/src/lib.rs:824: "the resumed stream lost no event".
ResumedStreamLostNothing == ~skipped

\* dynamic-config-vault/src/lib.rs:647: "The first tick records the version
\* without firing: the value it names is the one the caller already has."
\* Consul (lib.rs:683), S3 (lib.rs:771), Firestore (lib.rs:566) and Git
\* (lib.rs:582) say the same.  Refuted: the caller fetched before, and the
\* store was written in between.
FirstAnswerIsTheCallers ==
    (base # 0 /\ store \in {"consul", "vault", "s3", "firestore", "git"}) =>
        fetched = hist[base]
=============================================================================
