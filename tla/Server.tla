------------------------------- MODULE Server -------------------------------
(***************************************************************************)
(* The configuration server as a process (dynamic-config-server): one       *)
(* section whose file is edited and reloaded, the change stream its         *)
(* subscribers hold open, the ceiling on open streams, the document they    *)
(* fetch when the stream says that something was installed, and shutdown    *)
(* and restart.  Who may ask for what is in Admission.                      *)
(*                                                                         *)
(* A document is named by the edit that wrote it.  A subscriber is the      *)
(* client the crate's documentation describes: it keeps the id of the last  *)
(* event, fetches the document on every event, and offers the id as         *)
(* Last-Event-ID when it connects again.                                    *)
(***************************************************************************)
EXTENDS Integers, Sequences, FiniteSets

CONSTANTS Peers,
          max_streams,
          MaxBusy,     \* bound: edits of the file and peers, together
          MaxLives,    \* bound: times the server is started
          MaxLosses    \* bound: connections and fetches that are lost

ASSUME ServerAssumption ==
    {max_streams, MaxBusy, MaxLives, MaxLosses} \subseteq Nat

VARIABLES tls,         \* [server.tls] is configured
          present,     \* the peers that subscribe
          file,        \* [edit, good]: what the section's file holds
          reread,      \* the last edit the watcher reloaded for
          proc,        \* "serving", "closing" or "stopped"
          life,        \* how often the server was started
          serving,     \* the document in the cell
          publishing,  \* the cell has the document, not yet its generation
          log,         \* the document of each generation of this life
          streams,     \* the AtomicUsize behind open_stream
          peer,        \* per peer: its connection, its stream, what it has
          losses

sectionVars == <<serving, publishing, log, reread>>
setup == <<tls, present>>
serverVars == <<setup, file, proc, life, sectionVars, streams, peer, losses>>

NoId == 0
generation == Len(log)

\* conn: none, handshake, headers, claiming, streaming.  seen: the counter
\* as open_stream loaded it.  sent, resume, wire: Generations and the event
\* on its way.  last, of: the id of the last event received and the life it
\* is from.  get: no, wanted, labelled, with the generation the answer is
\* labelled by.  has: the document last fetched and its label.
NewPeer ==
    [conn |-> "none", seen |-> 0, sent |-> NoId, resume |-> NoId,
     wire |-> NoId, last |-> NoId, of |-> 0, get |-> "no", label |-> 0,
     has |-> [doc |-> 0, label |-> 0, life |-> 0]]

ServerInit ==
    /\ tls \in BOOLEAN
    /\ present \in SUBSET Peers
    /\ file = [edit |-> 1, good |-> TRUE]
    /\ proc = "serving" /\ life = 1
    /\ serving = 1 /\ publishing = FALSE /\ log = <<1>>
    /\ reread = 1
    /\ streams = 0
    /\ peer = [p \in Peers |-> NewPeer]
    /\ losses = 0

-----------------------------------------------------------------------------
(* The section.                                                             *)

Edit ==
    /\ file.edit + Cardinality(present) <= MaxBusy
    /\ \E good \in BOOLEAN :
           file' = [edit |-> file.edit + 1, good |-> good]
    /\ UNCHANGED <<setup, proc, life, sectionVars, streams, peer, losses>>

\* Mutant: the generation is published before the document is stored.
ReloadMetadataFirst ==
    /\ proc # "stopped" /\ ~publishing
    /\ reread < file.edit /\ file.good
    /\ reread' = file.edit
    /\ log' = Append(log, file.edit)
    /\ publishing' = TRUE
    /\ UNCHANGED <<setup, file, proc, life, serving, streams, peer,
                   losses>>

\* The watcher's reload: a document that does not load leaves the one that
\* is serving; one that does is stored first and its
\* generation published afterwards.
Reload ==
    /\ proc # "stopped" /\ ~publishing
    /\ reread < file.edit
    /\ reread' = file.edit
    /\ IF file.good
       THEN /\ serving' = file.edit
            /\ publishing' = TRUE
       ELSE UNCHANGED <<serving, publishing>>
    /\ UNCHANGED <<setup, file, proc, life, log, streams, peer, losses>>

Publish ==
    /\ proc # "stopped" /\ publishing
    /\ log' = Append(log, serving)
    /\ publishing' = FALSE
    /\ UNCHANGED <<setup, file, proc, life, serving, reread, streams, peer,
                   losses>>

-----------------------------------------------------------------------------
(* Connections and the ceiling.                                             *)

\* A peer without its connection: a stream's Generations is dropped, and
\* its permit with it.
Released(peers) ==
    streams' = streams - Cardinality({p \in peers :
                                         peer[p].conn = "streaming"})

Dropped(p) ==
    [peer[p] EXCEPT !.conn = "none", !.seen = 0, !.sent = NoId,
                    !.resume = NoId, !.wire = NoId]

Drop(p) ==
    /\ Released({p})
    /\ peer' = [peer EXCEPT ![p] = Dropped(p)]

\* listener.accept; without TLS the request is next.
Accept(p) ==
    /\ p \in present /\ proc = "serving" /\ peer[p].conn = "none"
    /\ peer' = [peer EXCEPT ![p].conn = IF tls THEN "handshake"
                                        ELSE "headers"]
    /\ UNCHANGED <<setup, file, proc, life, sectionVars, streams, losses>>

Handshake(p) ==
    /\ peer[p].conn = "handshake"
    /\ peer' = [peer EXCEPT ![p].conn = "headers"]
    /\ UNCHANGED <<setup, file, proc, life, sectionVars, streams, losses>>

\* HANDSHAKE_TIMEOUT and HEADER_TIMEOUT, which only the TLS path has, and
\* graceful_shutdown, which closes a connection that has sent no request.
GiveUp(p) ==
    /\ \/ peer[p].conn = "handshake"
       \/ peer[p].conn = "headers" /\ (tls \/ proc = "closing")
    /\ Drop(p)
    /\ UNCHANGED <<setup, file, proc, life, sectionVars, losses>>

\* GET stream, admitted: a ceiling of zero turns the endpoint off, else
\* open_stream loads the counter.
Subscribe(p) ==
    /\ peer[p].conn = "headers"
    /\ IF max_streams = 0
       THEN Drop(p)
       ELSE /\ peer' = [peer EXCEPT ![p].conn = "claiming",
                                    ![p].seen = streams]
            /\ UNCHANGED streams
    /\ UNCHANGED <<setup, file, proc, life, sectionVars, losses>>

\* Mutant: the counter is stored, not compared and exchanged.
ClaimByStore(p) ==
    /\ peer[p].conn = "claiming"
    /\ IF peer[p].seen >= max_streams
       THEN Drop(p)
       ELSE /\ streams' = peer[p].seen + 1
            /\ peer' = [peer EXCEPT ![p].conn = "streaming",
                                    ![p].resume = peer[p].last]
    /\ UNCHANGED <<setup, file, proc, life, sectionVars, losses>>

\* The compare and exchange, and the answer: at_capacity, a new value to
\* try with, or the stream, with what Last-Event-ID says.
Claim(p) ==
    /\ peer[p].conn = "claiming"
    /\ CASE peer[p].seen >= max_streams -> Drop(p)
         [] peer[p].seen < max_streams /\ peer[p].seen # streams ->
                /\ peer' = [peer EXCEPT ![p].seen = streams]
                /\ UNCHANGED streams
         [] OTHER ->
                /\ streams' = streams + 1
                /\ peer' = [peer EXCEPT ![p].conn = "streaming",
                                        ![p].resume = peer[p].last]
    /\ UNCHANGED <<setup, file, proc, life, sectionVars, losses>>

-----------------------------------------------------------------------------
(* The stream and the document.                                             *)

\* Mutant: greater than what the client says it has.
is_later(p, number) ==
    IF peer[p].sent # NoId THEN number > peer[p].sent
    ELSE number > peer[p].resume

\* is_news: later than what this connection sent, or, before it sent
\* anything, other than what the client says it has.
is_news(p, number) ==
    IF peer[p].sent # NoId THEN number > peer[p].sent
    ELSE number # peer[p].resume

\* poll_next, polled when the last event has left: the generation is read
\* again after every wake, so the event carries the latest.
PollNext(p) ==
    /\ peer[p].conn = "streaming" /\ peer[p].wire = NoId
    /\ is_news(p, generation)
    /\ peer' = [peer EXCEPT ![p].sent = generation, ![p].wire = generation]
    /\ UNCHANGED <<setup, file, proc, life, sectionVars, streams, losses>>

Receive(p) ==
    /\ peer[p].wire # NoId
    /\ peer' = [peer EXCEPT ![p].wire = NoId, ![p].last = peer[p].wire,
                            ![p].of = life, ![p].get = "wanted"]
    /\ UNCHANGED <<setup, file, proc, life, sectionVars, streams, losses>>

\* Section::installed, the first of its two loads.
LoadLabel(p) ==
    /\ peer[p].get = "wanted" /\ proc # "stopped"
    /\ peer' = [peer EXCEPT ![p].get = "labelled", ![p].label = generation]
    /\ UNCHANGED <<setup, file, proc, life, sectionVars, streams, losses>>

\* The second, and the answer.
LoadDocument(p) ==
    /\ peer[p].get = "labelled"
    /\ peer' = [peer EXCEPT ![p].get = "no", ![p].label = 0,
                   ![p].has = [doc |-> serving, label |-> peer[p].label,
                               life |-> life]]
    /\ UNCHANGED <<setup, file, proc, life, sectionVars, streams, losses>>

\* A fetch that fails: connecting, the handshake, the request and the body
\* share one Budget, and the body is refused past MOST_BYTES.  The program
\* fetches again.
FetchLost(p) ==
    /\ losses < MaxLosses /\ peer[p].get = "labelled"
    /\ losses' = losses + 1
    /\ peer' = [peer EXCEPT ![p].get = "wanted", ![p].label = 0]
    /\ UNCHANGED <<setup, file, proc, life, sectionVars, streams>>

\* The peer or the network drops the connection, an event on its way too.
Disconnect(p) ==
    /\ losses < MaxLosses /\ peer[p].conn # "none"
    /\ losses' = losses + 1
    /\ Drop(p)
    /\ UNCHANGED <<setup, file, proc, life, sectionVars>>

-----------------------------------------------------------------------------
(* Shutdown.                                                                *)

Signal ==
    /\ proc = "serving" /\ life < MaxLives
    /\ proc' = "closing"
    /\ UNCHANGED <<setup, file, life, sectionVars, streams, peer, losses>>

\* Mutant: a stream is waited for.
WaitForStreams(p) ==
    /\ proc = "closing" /\ peer[p].conn = "claiming"
    /\ Drop(p)
    /\ UNCHANGED <<setup, file, proc, life, sectionVars, losses>>

\* DRAIN_TIMEOUT: per connection under TLS, for all of them at once under
\* plain HTTP, where main stops waiting for axum.
DrainOver(p) ==
    /\ proc = "closing" /\ peer[p].conn \in {"claiming", "streaming"}
    /\ IF tls THEN Drop(p)
       ELSE /\ Released(Peers)
            /\ peer' = [q \in Peers |-> Dropped(q)]
    /\ UNCHANGED <<setup, file, proc, life, sectionVars, losses>>

\* The last connection is gone; a fetch that was not answered is lost.
Stopped ==
    /\ proc = "closing"
    /\ \A p \in Peers : peer[p].conn = "none"
    /\ proc' = "stopped"
    /\ peer' = [p \in Peers |->
                   IF peer[p].get = "no" THEN peer[p]
                   ELSE [peer[p] EXCEPT !.get = "wanted", !.label = 0]]
    /\ UNCHANGED <<setup, file, life, sectionVars, streams, losses>>

\* start_with: what does not load keeps the server from starting.  A new
\* process counts its generations from one.
Start ==
    /\ proc = "stopped" /\ file.good
    /\ proc' = "serving" /\ life' = life + 1
    /\ serving' = file.edit /\ reread' = file.edit
    /\ publishing' = FALSE /\ log' = <<file.edit>>
    /\ streams' = 0
    /\ UNCHANGED <<setup, file, peer, losses>>

-----------------------------------------------------------------------------
PeerNext(p) ==
    \/ Accept(p) \/ Handshake(p) \/ GiveUp(p) \/ Subscribe(p) \/ Claim(p)
    \/ PollNext(p) \/ Receive(p) \/ LoadLabel(p) \/ LoadDocument(p)
    \/ FetchLost(p) \/ Disconnect(p) \/ DrainOver(p)

ServerNext ==
    \/ Edit \/ Reload \/ Publish \/ Signal \/ Stopped \/ Start
    \/ \E p \in Peers : PeerNext(p)

\* The runtime's timers fire and its tasks run; a client that was told of
\* an event reads it and fetches.  Nothing makes a peer connect, finish a
\* handshake or send a request.
ServerFairness ==
    /\ WF_serverVars(Reload) /\ WF_serverVars(Publish)
    /\ WF_serverVars(Stopped)
    /\ \A p \in Peers :
           /\ WF_serverVars(GiveUp(p)) /\ WF_serverVars(Claim(p))
           /\ WF_serverVars(PollNext(p)) /\ WF_serverVars(Receive(p))
           /\ WF_serverVars(LoadLabel(p)) /\ WF_serverVars(LoadDocument(p))
           /\ WF_serverVars(DrainOver(p))

ServerSpec == ServerInit /\ [][ServerNext]_serverVars /\ ServerFairness

-----------------------------------------------------------------------------
Streaming == {p \in Peers : peer[p].conn = "streaming"}

\* open_stream and StreamPermit: the ceiling is never exceeded, whoever
\* loads, exchanges, disconnects or is drained at the same time, and every
\* place that was taken is given back.
CeilingHolds ==
    /\ Cardinality(Streaming) <= max_streams
    /\ proc # "stopped" => streams = Cardinality(Streaming)

\* Section::installed: a document goes out under a generation that is not
\* ahead of it, so a client that takes the number for what it has, or
\* resumes its stream with it, has not been told past an update it never
\* got.
LabelNeverLeads ==
    \A p \in Peers :
        (peer[p].has.life = life) =>
            peer[p].has.doc >= log[peer[p].has.label]

\* What the stream is for: a subscriber that stays connected ends up with
\* the document that is served, through coalesced installs, lost
\* connections, lost fetches and restarts.  The exception is a client that
\* resumes in a new process at the very number it already had.
Aliased(p) ==
    /\ peer[p].sent = NoId /\ peer[p].resume = generation
    /\ peer[p].of # life

SubscribersCatchUp ==
    \A p \in Peers :
        <>[](\/ peer[p].conn # "streaming"
             \/ peer[p].has.doc = serving
             \/ Aliased(p))

\* DRAIN_TIMEOUT: a shutdown comes to its end although a stream has none,
\* a peer never finishes its handshake or never asks.
ShutdownEnds == proc = "closing" ~> proc # "closing"

\* dynamic-config-server/tests/stream.rs:175: "`Last-Event-ID` at the
\* current generation opens *silent*: the client is up to date".
SilentOpeningIsCurrent ==
    \A p \in Streaming :
        (/\ peer[p].sent = NoId /\ peer[p].resume = generation
         /\ peer[p].get = "no" /\ ~publishing) =>
            peer[p].has.doc = serving
=============================================================================
