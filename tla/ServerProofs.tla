---------------------------- MODULE ServerProofs ----------------------------
(***************************************************************************)
(* Proofs about the configuration server: its process, with any number of  *)
(* clients, streams and restarts, and who may read what, for any roster.   *)
(***************************************************************************)
EXTENDS MCServer, FiniteSetTheorems, SequenceTheorems, TLAPS

(* The process.  The ceiling rests on counting: the places taken are the     *)
(* streams that run.                                                          *)

\* What a fetch brought.
Fetches == [doc : Nat, label : Nat, life : Nat]

\* A client: its connection, its stream and its own fetches.
PeerRecords ==
    [conn : {"none", "handshake", "headers", "claiming", "streaming"},
     seen : Nat, sent : Nat, resume : Nat, wire : Nat, last : Nat, of : Nat,
     get : {"no", "wanted", "labelled"}, label : Nat, has : Fetches]

\* What the section, the process and the clients hold.
ServerShape ==
    /\ file.edit \in Nat /\ serving \in Nat /\ reread \in Nat
    /\ proc \in {"serving", "closing", "stopped"}
    /\ life \in Nat \ {0}
    /\ log \in Seq(Nat) /\ Len(log) > 0
    /\ peer \in [Peers -> PeerRecords]

\* The counter is the number of open streams, which is finite whatever Peers
\* is, and a process that stopped has no connection.
PlacesAreCounted ==
    /\ IsFiniteSet(Streaming)
    /\ streams = Cardinality(Streaming)
    /\ streams <= max_streams
    /\ proc = "stopped" => \A p \in Peers : peer[p].conn = "none"

\* No generation is of a document newer than the one in the cell, which is
\* at most the last edit read.
CellLeads ==
    /\ \A i \in 1..Len(log) : log[i] <= serving
    /\ serving <= reread /\ reread <= file.edit

\* A label is a generation of this life, and so is that of a document which
\* was fetched in it; the document is no older.
LabelsAreGenerations ==
    \A p \in Peers :
        /\ peer[p].get = "labelled" =>
               peer[p].label \in 1..Len(log) /\ proc # "stopped"
        /\ peer[p].has.life <= life
        /\ peer[p].has.life = life =>
               /\ peer[p].has.label \in 1..Len(log)
               /\ peer[p].has.doc >= log[peer[p].has.label]

\* The inductive invariant of the server.
ServerInv ==
    ServerShape /\ PlacesAreCounted /\ CellLeads /\ LabelsAreGenerations

\* A server just started.
LEMMA ServerInitInv == ServerInit => ServerInv
<1> SUFFICES ASSUME ServerInit PROVE ServerInv
  OBVIOUS
<1>1. NewPeer \in PeerRecords
  BY DEF NewPeer, PeerRecords, Fetches, NoId
<1>2. ServerShape
  BY <1>1 DEF ServerInit, ServerShape
<1>3. Streaming = {}
  BY DEF ServerInit, Streaming, NewPeer
<1>4. PlacesAreCounted
  BY <1>3, FS_EmptySet, ServerAssumption DEF ServerInit, PlacesAreCounted
<1>5. CellLeads
  BY DEF ServerInit, CellLeads
<1>6. LabelsAreGenerations
  BY DEF ServerInit, LabelsAreGenerations, NewPeer
<1>. QED BY <1>2, <1>4, <1>5, <1>6 DEF ServerInv

\* A step that leaves the section, the file and the counter alone changes one
\* peer, from r to a record s: what s has to be for the invariant to hold.
LEMMA OnePeerInv ==
  ASSUME ServerInv, NEW p \in Peers, NEW s \in PeerRecords,
         peer' = [peer EXCEPT ![p] = s],
         UNCHANGED <<file, proc, life, sectionVars>>,
         proc = "stopped" => s.conn = "none",
         s.get = "labelled" => s.label \in 1..Len(log) /\ proc # "stopped",
         \/ s.has = peer[p].has
         \/ s.has.label \in 1..Len(log) /\ s.has.doc = serving /\ s.has.life = life,
         \/ /\ s.conn = "streaming" <=> peer[p].conn = "streaming"
            /\ streams' = streams
         \/ /\ s.conn = "streaming" /\ peer[p].conn # "streaming"
            /\ streams' = streams + 1 /\ streams < max_streams
         \/ /\ s.conn # "streaming"
            /\ Released({p})
  PROVE  ServerInv'
<1>0. UNCHANGED <<file, proc, life, serving, publishing, log, reread>>
  BY DEF sectionVars
<1>1. ServerShape'
  BY <1>0 DEF ServerInv, ServerShape
<1>2. peer'[p] = s /\ \A q \in Peers \ {p} : peer'[q] = peer[q]
  BY DEF ServerInv, ServerShape
<1>3. PlacesAreCounted'
  <2>0. /\ IsFiniteSet(Streaming) /\ streams = Cardinality(Streaming) /\ streams <= max_streams
        /\ streams \in Nat /\ max_streams \in Nat
    BY FS_CardinalityType, ServerAssumption DEF ServerInv, PlacesAreCounted
  <2>1. (proc = "stopped" => \A q \in Peers : peer[q].conn = "none")'
    BY <1>0, <1>2 DEF ServerInv, PlacesAreCounted
  <2>2. CASE (s.conn = "streaming" <=> peer[p].conn = "streaming") /\ streams' = streams
    <3>1. Streaming' = Streaming
      BY <1>2, <2>2 DEF Streaming
    <3>. QED BY <2>0, <2>1, <2>2, <3>1 DEF PlacesAreCounted
  <2>3. CASE /\ s.conn = "streaming" /\ peer[p].conn # "streaming"
             /\ streams' = streams + 1 /\ streams < max_streams
    <3>1. Streaming' = Streaming \cup {p} /\ p \notin Streaming
      BY <1>2, <2>3 DEF Streaming
    <3>2. IsFiniteSet(Streaming') /\ Cardinality(Streaming') = Cardinality(Streaming) + 1
      BY <2>0, <3>1, FS_AddElement
    <3>. QED BY <2>0, <2>1, <2>3, <3>2 DEF PlacesAreCounted
  <2>4. CASE s.conn # "streaming" /\ Released({p})
    <3>1. Streaming' = Streaming \ {p}
      BY <1>2, <2>4 DEF Streaming
    <3>2. /\ IsFiniteSet(Streaming')
          /\ Cardinality(Streaming') = IF p \in Streaming THEN Cardinality(Streaming) - 1
                                       ELSE Cardinality(Streaming)
      BY <2>0, <3>1, FS_RemoveElement
    <3>3. CASE p \in Streaming
      <4>1. {q \in {p} : peer[q].conn = "streaming"} = {p}
        BY <3>3 DEF Streaming
      <4>2. streams' = streams - 1
        BY <2>4, <4>1, FS_Singleton DEF Released
      <4>. QED BY <2>0, <2>1, <3>2, <3>3, <4>2 DEF PlacesAreCounted
    <3>4. CASE p \notin Streaming
      <4>1. {q \in {p} : peer[q].conn = "streaming"} = {}
        BY <3>4 DEF Streaming
      <4>2. streams' = streams
        <5>1. streams' = streams - 0
          BY <2>4, <4>1, FS_EmptySet DEF Released
        <5>. QED BY <2>0, <5>1
      <4>. QED BY <2>0, <2>1, <3>2, <3>4, <4>2 DEF PlacesAreCounted
    <3>. QED BY <3>3, <3>4
  <2>. QED BY <2>2, <2>3, <2>4
<1>4. CellLeads'
  BY <1>0 DEF ServerInv, CellLeads
<1>5. LabelsAreGenerations'
  <2>1. ASSUME NEW q \in Peers \ {p}
        PROVE  /\ (peer[q].get = "labelled")' =>
                     (peer[q].label \in 1..Len(log) /\ proc # "stopped")'
               /\ (peer[q].has.life <= life)'
               /\ (peer[q].has.life = life)' =>
                     (/\ peer[q].has.label \in 1..Len(log)
                      /\ peer[q].has.doc >= log[peer[q].has.label])'
    BY <1>0, <1>2 DEF ServerInv, LabelsAreGenerations
  <2>2. CASE s.has = peer[p].has
    BY <1>0, <1>2, <2>1, <2>2 DEF ServerInv, LabelsAreGenerations
  <2>3. CASE s.has.label \in 1..Len(log) /\ s.has.doc = serving /\ s.has.life = life
    <3>1. s.has.doc >= log[s.has.label] /\ s.has.life <= life
      BY <2>3 DEF ServerInv, CellLeads, ServerShape
    <3>. QED BY <1>0, <1>2, <2>1, <2>3, <3>1 DEF LabelsAreGenerations
  <2>. QED BY <2>2, <2>3
<1>. QED BY <1>1, <1>3, <1>4, <1>5 DEF ServerInv

\* What is left of a client whose connection went.
LEMMA DroppedRecord ==
  ASSUME ServerInv, NEW p \in Peers
  PROVE  /\ Dropped(p) \in PeerRecords /\ Dropped(p).conn = "none"
         /\ Dropped(p).get = peer[p].get /\ Dropped(p).label = peer[p].label
         /\ Dropped(p).has = peer[p].has
<1>1. peer[p] \in PeerRecords
  BY DEF ServerInv, ServerShape
<1>. QED BY <1>1 DEF Dropped, PeerRecords, NoId

\* A connection that goes gives its place back.
LEMMA DropInv ==
  ASSUME ServerInv, NEW p \in Peers, Drop(p), UNCHANGED <<file, proc, life, sectionVars>>
  PROVE  ServerInv'
<1>1. /\ peer[p].get = "labelled" => peer[p].label \in 1..Len(log) /\ proc # "stopped"
  BY DEF ServerInv, LabelsAreGenerations
<1>. QED BY <1>1, DroppedRecord, OnePeerInv DEF Drop

\* The steps of one peer that give nothing back.
LEMMA ConnectionInv ==
  ASSUME ServerInv, NEW p \in Peers,
         Accept(p) \/ Handshake(p) \/ GiveUp(p) \/ Subscribe(p) \/ Claim(p) \/ Disconnect(p)
  PROVE  ServerInv'
<1>0. UNCHANGED <<file, proc, life, sectionVars>>
  BY DEF Accept, Handshake, GiveUp, Subscribe, Claim, Disconnect
<1>1. /\ peer[p] \in PeerRecords /\ peer \in [Peers -> PeerRecords]
      /\ proc = "stopped" => peer[p].conn = "none"
      /\ peer[p].get = "labelled" => peer[p].label \in 1..Len(log) /\ proc # "stopped"
  BY DEF ServerInv, ServerShape, PlacesAreCounted, LabelsAreGenerations
<1>2. streams \in Nat /\ max_streams \in Nat
  BY FS_CardinalityType, ServerAssumption DEF ServerInv, PlacesAreCounted
<1>3. CASE Accept(p)
  <2>. DEFINE s == [peer[p] EXCEPT !.conn = IF tls THEN "handshake" ELSE "headers"]
  <2>1. /\ s \in PeerRecords /\ s.conn # "streaming" /\ s.get = peer[p].get
        /\ s.label = peer[p].label /\ s.has = peer[p].has
    BY <1>1 DEF PeerRecords
  <2>2. peer' = [peer EXCEPT ![p] = s] /\ streams' = streams /\ peer[p].conn = "none" /\ proc # "stopped"
    BY <1>3 DEF Accept
  <2>. HIDE DEF s
  <2>. QED BY <1>0, <1>1, <2>1, <2>2, OnePeerInv
<1>4. CASE Handshake(p)
  <2>. DEFINE s == [peer[p] EXCEPT !.conn = "headers"]
  <2>1. /\ s \in PeerRecords /\ s.conn # "streaming" /\ s.get = peer[p].get
        /\ s.label = peer[p].label /\ s.has = peer[p].has
    BY <1>1 DEF PeerRecords
  <2>2. peer' = [peer EXCEPT ![p] = s] /\ streams' = streams /\ peer[p].conn = "handshake"
    BY <1>4 DEF Handshake
  <2>. HIDE DEF s
  <2>. QED BY <1>0, <1>1, <2>1, <2>2, OnePeerInv
<1>5. CASE GiveUp(p) \/ Disconnect(p)
  BY <1>0, <1>5, DropInv DEF GiveUp, Disconnect
<1>6. CASE Subscribe(p)
  <2>. DEFINE s == [peer[p] EXCEPT !.conn = "claiming", !.seen = streams]
  <2>1. /\ s \in PeerRecords /\ s.conn # "streaming" /\ s.get = peer[p].get
        /\ s.label = peer[p].label /\ s.has = peer[p].has
    BY <1>1, <1>2 DEF PeerRecords
  <2>2. CASE peer' = [peer EXCEPT ![p] = s] /\ streams' = streams /\ peer[p].conn = "headers"
    <3>. HIDE DEF s
    <3>. QED BY <1>0, <1>1, <2>1, <2>2, OnePeerInv
  <2>3. CASE Drop(p)
    BY <1>0, <2>3, DropInv
  <2>4. Drop(p) \/ (peer' = [peer EXCEPT ![p] = s] /\ streams' = streams /\ peer[p].conn = "headers")
    BY <1>6 DEF Subscribe
  <2>. QED BY <2>2, <2>3, <2>4
<1>7. CASE Claim(p)
  <2>. DEFINE s == [peer[p] EXCEPT !.seen = streams]
              t == [peer[p] EXCEPT !.conn = "streaming", !.resume = peer[p].last]
  <2>0. peer[p].conn = "claiming" /\ peer[p].seen \in Nat
    BY <1>1, <1>7 DEF Claim, PeerRecords
  <2>1. /\ s \in PeerRecords /\ s.conn = "claiming" /\ s.get = peer[p].get
        /\ s.label = peer[p].label /\ s.has = peer[p].has
    BY <1>1, <1>2, <2>0 DEF PeerRecords
  <2>2. /\ t \in PeerRecords /\ t.conn = "streaming" /\ t.get = peer[p].get
        /\ t.label = peer[p].label /\ t.has = peer[p].has
    BY <1>1, <1>2 DEF PeerRecords
  <2>3. CASE Drop(p)
    BY <1>0, <2>3, DropInv
  <2>4. CASE peer' = [peer EXCEPT ![p] = s] /\ streams' = streams
    <3>. HIDE DEF s
    <3>. QED BY <1>0, <1>1, <2>0, <2>1, <2>4, OnePeerInv
  <2>5. CASE peer' = [peer EXCEPT ![p] = t] /\ streams' = streams + 1 /\ streams < max_streams
    <3>. HIDE DEF t
    <3>. QED BY <1>0, <1>1, <2>0, <2>2, <2>5, OnePeerInv
  <2>. DEFINE Again == peer' = [peer EXCEPT ![p] = s] /\ streams' = streams
              Taken == peer' = [peer EXCEPT ![p] = t] /\ streams' = streams + 1
  <2>6. Drop(p) \/ Again \/ (Taken /\ streams < max_streams)
    <3>a. CASE peer[p].seen >= max_streams
      BY <1>7, <2>0, <1>2, <3>a DEF Claim, Drop, Released
    <3>b. CASE peer[p].seen < max_streams /\ peer[p].seen # streams
      BY <1>7, <2>0, <1>2, <3>b DEF Claim
    <3>c. CASE peer[p].seen < max_streams /\ peer[p].seen = streams
      BY <1>7, <2>0, <1>2, <3>c DEF Claim
    <3>. QED BY <1>2, <2>0, <3>a, <3>b, <3>c
  <2>. QED BY <2>3, <2>4, <2>5, <2>6
<1>. QED BY <1>3, <1>4, <1>5, <1>6, <1>7

\* A stream that sends, a client that receives and fetches.
LEMMA FetchInv ==
  ASSUME ServerInv, NEW p \in Peers,
         PollNext(p) \/ Receive(p) \/ LoadLabel(p) \/ LoadDocument(p) \/ FetchLost(p)
  PROVE  ServerInv'
<1>0. UNCHANGED <<file, proc, life, sectionVars, streams>>
  BY DEF PollNext, Receive, LoadLabel, LoadDocument, FetchLost
<1>1. /\ peer[p] \in PeerRecords /\ peer \in [Peers -> PeerRecords]
      /\ proc = "stopped" => peer[p].conn = "none"
      /\ peer[p].get = "labelled" => peer[p].label \in 1..Len(log) /\ proc # "stopped"
      /\ life \in Nat /\ serving \in Nat /\ Len(log) \in Nat /\ Len(log) > 0
  BY DEF ServerInv, ServerShape, PlacesAreCounted, LabelsAreGenerations
<1>2. CASE PollNext(p)
  <2>. DEFINE s == [peer[p] EXCEPT !.sent = generation, !.wire = generation]
  <2>1. /\ s \in PeerRecords /\ s.conn = peer[p].conn /\ s.get = peer[p].get
        /\ s.label = peer[p].label /\ s.has = peer[p].has
    BY <1>1 DEF PeerRecords, generation
  <2>2. peer' = [peer EXCEPT ![p] = s]
    BY <1>2 DEF PollNext
  <2>. HIDE DEF s
  <2>. QED BY <1>0, <1>1, <2>1, <2>2, OnePeerInv
<1>3. CASE Receive(p)
  <2>. DEFINE s == [peer[p] EXCEPT !.wire = NoId, !.last = peer[p].wire, !.of = life, !.get = "wanted"]
  <2>1. /\ s \in PeerRecords /\ s.conn = peer[p].conn /\ s.get = "wanted" /\ s.has = peer[p].has
    BY <1>1 DEF PeerRecords, NoId
  <2>2. peer' = [peer EXCEPT ![p] = s]
    BY <1>3 DEF Receive
  <2>. HIDE DEF s
  <2>. QED BY <1>0, <1>1, <2>1, <2>2, OnePeerInv
<1>4. CASE LoadLabel(p)
  <2>. DEFINE s == [peer[p] EXCEPT !.get = "labelled", !.label = generation]
  <2>1. /\ s \in PeerRecords /\ s.conn = peer[p].conn /\ s.label = generation /\ s.has = peer[p].has
    <3>1. generation \in Nat
      BY <1>1 DEF generation
    <3>. QED BY <1>1, <3>1 DEF PeerRecords
  <2>3. s.label \in 1..Len(log)
    BY <1>1, <2>1 DEF generation
  <2>2. peer' = [peer EXCEPT ![p] = s] /\ proc # "stopped"
    BY <1>4 DEF LoadLabel
  <2>. HIDE DEF s
  <2>. QED BY <1>0, <1>1, <2>1, <2>2, <2>3, OnePeerInv
<1>5. CASE LoadDocument(p)
  <2>. DEFINE f == [doc |-> serving, label |-> peer[p].label, life |-> life]
              s == [peer[p] EXCEPT !.get = "no", !.label = 0, !.has = f]
  <2>1. f \in Fetches /\ f.doc = serving /\ f.label = peer[p].label /\ f.life = life
    BY <1>1 DEF Fetches, PeerRecords
  <2>2. peer' = [peer EXCEPT ![p] = s] /\ peer[p].get = "labelled"
    BY <1>5 DEF LoadDocument
  <2>. HIDE DEF f
  <2>3. s \in PeerRecords /\ s.conn = peer[p].conn /\ s.get = "no" /\ s.has = f
    BY <1>1, <2>1 DEF PeerRecords
  <2>. HIDE DEF s
  <2>. QED BY <1>0, <1>1, <2>1, <2>2, <2>3, OnePeerInv
<1>6. CASE FetchLost(p)
  <2>. DEFINE s == [peer[p] EXCEPT !.get = "wanted", !.label = 0]
  <2>1. /\ s \in PeerRecords /\ s.conn = peer[p].conn /\ s.get = "wanted" /\ s.has = peer[p].has
    BY <1>1 DEF PeerRecords
  <2>2. peer' = [peer EXCEPT ![p] = s]
    BY <1>6 DEF FetchLost
  <2>. HIDE DEF s
  <2>. QED BY <1>0, <1>1, <2>1, <2>2, OnePeerInv
<1>. QED BY <1>2, <1>3, <1>4, <1>5, <1>6

\* DRAIN_TIMEOUT: one connection, or all of them.
LEMMA DrainInv ==
  ASSUME ServerInv, NEW p \in Peers, DrainOver(p)
  PROVE  ServerInv'
<1>0. UNCHANGED <<file, proc, life, serving, publishing, log, reread>> /\ proc = "closing"
  BY DEF DrainOver, sectionVars
<1>1. CASE Drop(p)
  BY <1>0, <1>1, DropInv DEF sectionVars
<1>2. CASE Released(Peers) /\ peer' = [q \in Peers |-> Dropped(q)]
  <2>1. ServerShape'
    BY <1>0, <1>2, DroppedRecord DEF ServerInv, ServerShape
  <2>2. \A q \in Peers : /\ peer'[q].conn = "none" /\ peer'[q].get = peer[q].get
                         /\ peer'[q].label = peer[q].label /\ peer'[q].has = peer[q].has
    BY <1>2, DroppedRecord
  <2>3. Streaming' = {}
    BY <2>2 DEF Streaming
  <2>4. streams' = streams - Cardinality(Streaming)
    BY <1>2 DEF Released, Streaming
  <2>5. streams' = 0
    BY <2>4, FS_CardinalityType DEF ServerInv, PlacesAreCounted
  <2>6. PlacesAreCounted'
    BY <1>0, <2>3, <2>5, FS_EmptySet, ServerAssumption DEF PlacesAreCounted
  <2>7. CellLeads'
    BY <1>0 DEF ServerInv, CellLeads
  <2>8. LabelsAreGenerations'
    BY <1>0, <2>2 DEF ServerInv, LabelsAreGenerations
  <2>. QED BY <2>1, <2>6, <2>7, <2>8 DEF ServerInv
<1>. QED BY <1>1, <1>2 DEF DrainOver

\* Edits, reloads and the process.
LEMMA SectionInv ==
  ASSUME ServerInv, Edit \/ Reload \/ Publish \/ Signal
  PROVE  ServerInv'
<1>0. UNCHANGED <<life, streams, peer>> /\ Streaming' = Streaming
  BY DEF Edit, Reload, Publish, Signal, Streaming
<1>1. PlacesAreCounted'
  <2>1. proc' = "stopped" => proc = "stopped"
    BY DEF Edit, Reload, Publish, Signal
  <2>. QED BY <1>0, <2>1 DEF ServerInv, PlacesAreCounted
<1>2. CASE Edit
  <2>1. UNCHANGED <<proc, serving, publishing, log, reread>> /\ file'.edit = file.edit + 1
    BY <1>2 DEF Edit, sectionVars
  <2>2. ServerShape' /\ CellLeads'
    BY <1>0, <2>1 DEF ServerInv, ServerShape, CellLeads
  <2>. QED BY <1>0, <1>1, <2>1, <2>2 DEF ServerInv, LabelsAreGenerations
<1>3. CASE Reload
  <2>1. /\ UNCHANGED <<file, proc, log>> /\ reread' = file.edit /\ reread < file.edit
        /\ serving' = file.edit \/ serving' = serving
    BY <1>3 DEF Reload
  <2>2. ServerShape'
    BY <1>0, <2>1 DEF ServerInv, ServerShape
  <2>3. serving' >= serving /\ serving' <= reread'
    BY <2>1 DEF ServerInv, ServerShape, CellLeads
  <2>4. CellLeads'
    <3>1. ASSUME NEW i \in 1..Len(log) PROVE log[i] <= serving'
      BY <2>2, <2>3 DEF ServerInv, ServerShape, CellLeads
    <3>. QED BY <2>1, <2>2, <2>3, <3>1 DEF CellLeads, ServerShape
  <2>. QED BY <1>0, <1>1, <2>1, <2>2, <2>4 DEF ServerInv, LabelsAreGenerations
<1>4. CASE Publish
  <2>1. UNCHANGED <<file, proc, serving, reread>> /\ log' = Append(log, serving) /\ proc # "stopped"
    BY <1>4 DEF Publish
  <2>2. /\ log' \in Seq(Nat) /\ Len(log') = Len(log) + 1 /\ Len(log) \in Nat
        /\ \A i \in 1..Len(log) : log'[i] = log[i]
        /\ log'[Len(log) + 1] = serving
    BY <2>1 DEF ServerInv, ServerShape
  <2>3. ServerShape'
    BY <1>0, <2>1, <2>2 DEF ServerInv, ServerShape
  <2>4. CellLeads'
    <3>1. ASSUME NEW i \in 1..Len(log') PROVE log'[i] <= serving
      <4>1. CASE i = Len(log) + 1
        BY <2>2, <4>1 DEF ServerInv, ServerShape
      <4>2. CASE i \in 1..Len(log)
        BY <2>2, <4>2 DEF ServerInv, CellLeads
      <4>. QED BY <2>2, <4>1, <4>2
    <3>. QED BY <2>1, <3>1 DEF ServerInv, CellLeads
  <2>5. LabelsAreGenerations'
    BY <1>0, <2>1, <2>2 DEF ServerInv, LabelsAreGenerations
  <2>. QED BY <1>1, <2>3, <2>4, <2>5 DEF ServerInv
<1>5. CASE Signal
  <2>1. UNCHANGED <<file, serving, publishing, log, reread>> /\ proc = "serving" /\ proc' = "closing"
    BY <1>5 DEF Signal, sectionVars
  <2>. QED BY <1>0, <1>1, <2>1 DEF ServerInv, ServerShape, CellLeads, LabelsAreGenerations
<1>. QED BY <1>2, <1>3, <1>4, <1>5

\* The process ends, and its fetches with it.
LEMMA StoppedInv == ASSUME ServerInv, Stopped PROVE ServerInv'
<1>0. /\ UNCHANGED <<file, life, serving, publishing, log, reread, streams>> /\ proc' = "stopped"
      /\ \A p \in Peers : peer[p].conn = "none"
  BY DEF Stopped, sectionVars
<1>1. ASSUME NEW p \in Peers
      PROVE  /\ peer'[p] \in PeerRecords /\ peer'[p].conn = "none" /\ peer'[p].get # "labelled"
             /\ peer'[p].has = peer[p].has
  <2>1. peer[p] \in PeerRecords
    BY DEF ServerInv, ServerShape
  <2>. DEFINE s == [peer[p] EXCEPT !.get = "wanted", !.label = 0]
  <2>2. /\ s \in PeerRecords /\ s.conn = peer[p].conn /\ s.get = "wanted" /\ s.has = peer[p].has
    BY <2>1 DEF PeerRecords
  <2>3. peer'[p] = IF peer[p].get = "no" THEN peer[p] ELSE s
    BY DEF Stopped
  <2>. HIDE DEF s
  <2>. QED BY <1>0, <2>1, <2>2, <2>3
<1>2. ServerShape'
  <2>1. peer' = [p \in Peers |-> peer'[p]]
    BY DEF Stopped
  <2>. QED BY <1>0, <1>1, <2>1 DEF ServerInv, ServerShape
<1>3. Streaming' = Streaming
  BY <1>0, <1>1 DEF Streaming
<1>. QED BY <1>0, <1>1, <1>2, <1>3 DEF ServerInv, PlacesAreCounted, CellLeads, LabelsAreGenerations

\* A process starts over, with labels of its own.
LEMMA StartInv == ASSUME ServerInv, Start PROVE ServerInv'
<1>0. /\ UNCHANGED <<file, peer>> /\ proc = "stopped" /\ proc' = "serving" /\ life' = life + 1
      /\ serving' = file.edit /\ reread' = file.edit /\ log' = <<file.edit>> /\ streams' = 0
  BY DEF Start
<1>1. Streaming = {} /\ Streaming' = {}
  BY <1>0 DEF ServerInv, PlacesAreCounted, Streaming
<1>2. PlacesAreCounted'
  BY <1>0, <1>1, FS_EmptySet, ServerAssumption DEF PlacesAreCounted
<1>3. ServerShape' /\ CellLeads'
  BY <1>0 DEF ServerInv, ServerShape, CellLeads
<1>4. LabelsAreGenerations'
  <2>1. ASSUME NEW p \in Peers PROVE peer[p].get # "labelled" /\ peer[p].has.life < life'
    <3>1. peer[p].has.life \in Nat /\ peer[p].has.life <= life /\ life \in Nat
      BY DEF ServerInv, ServerShape, LabelsAreGenerations, PeerRecords, Fetches
    <3>. QED BY <1>0, <3>1 DEF ServerInv, LabelsAreGenerations
  <2>2. ASSUME NEW p \in Peers PROVE peer[p].has.life <= life' /\ peer[p].has.life # life'
    BY <1>0, <2>1 DEF ServerInv, ServerShape, PeerRecords, Fetches
  <2>. QED BY <1>0, <2>1, <2>2 DEF LabelsAreGenerations
<1>. QED BY <1>2, <1>3, <1>4 DEF ServerInv

\* Each step of the server and of its clients.
LEMMA ServerStepInv == ASSUME ServerInv, [ServerNext]_serverVars PROVE ServerInv'
<1>1. CASE UNCHANGED serverVars
  BY <1>1 DEF serverVars, sectionVars, ServerInv, ServerShape, PlacesAreCounted, CellLeads,
     LabelsAreGenerations, Streaming
<1>2. CASE Stopped
  BY <1>2, StoppedInv
<1>3. CASE Start
  BY <1>3, StartInv
<1>4. CASE Edit \/ Reload \/ Publish \/ Signal
  BY <1>4, SectionInv
<1>5. ASSUME NEW p \in Peers, PeerNext(p) PROVE ServerInv'
  BY <1>5, ConnectionInv, FetchInv, DrainInv DEF PeerNext
<1>. QED BY <1>1, <1>2, <1>3, <1>4, <1>5 DEF ServerNext

\* However connections, streams, drains and restarts interleave, the places taken
\* are the streams that run, so there are never more than max_streams and a
\* stream that ends frees its place (Server::open_stream, StreamPermit::drop).
THEOREM CeilingHoldsCorrect == ServerSpec => []CeilingHolds
<1>1. ServerInv => CeilingHolds
  BY DEF ServerInv, PlacesAreCounted, CeilingHolds
<1>. QED BY <1>1, ServerInitInv, ServerStepInv, PTL DEF ServerSpec

\* A document is never older than the generation it is labelled with, although a
\* reload may come between the label and the document (Section::installed
\* before document).
THEOREM LabelNeverLeadsCorrect == ServerSpec => []LabelNeverLeads
<1>1. ServerInv => LabelNeverLeads
  BY DEF ServerInv, LabelsAreGenerations, LabelNeverLeads
<1>. QED BY <1>1, ServerInitInv, ServerStepInv, PTL DEF ServerSpec

-----------------------------------------------------------------------------

(* Admission.  validate refuses every roster on which two clients answer to   *)
(* one header; the answers follow from that.                                  *)

\* What is known of the roster of a configuration: a list of clients, each
\* granted applications that a request can name.
ListsClients(roster) ==
    /\ Len(roster.clients) \in Nat
    /\ \A i \in 1..Len(roster.clients) : roster.clients[i].applications \subseteq Applications

\* Every configuration is such a list.
LEMMA ConfigsListClients == ASSUME NEW c \in Configs PROVE ListsClients(c.roster)
<1>1. ASSUME NEW r \in Rosters PROVE ListsClients(r)
  <2>1. r.clients \in UpTo(MaxClients, ClientConfigs)
    BY DEF Rosters
  <2>2. PICK k \in 0..MaxClients : r.clients \in [1..k -> ClientConfigs]
    BY <2>1 DEF UpTo
  <2>3. k \in Nat
    BY AdmissionAssumption
  <2>4. r.clients \in Seq(ClientConfigs)
    BY <2>2, <2>3, SeqDef
  <2>5. \A i \in 1..Len(r.clients) : r.clients[i] \in ClientConfigs
    BY <2>4
  <2>. QED BY <2>4, <2>5 DEF ListsClients, ClientConfigs
<1>2. ListsClients(PlainRoster)
  BY DEF ListsClients, PlainRoster, Anybody
<1>3. CASE \E r \in Rosters : c = [roster |-> r, network |-> PlainNetwork]
  BY <1>1, <1>3
<1>4. CASE \E n \in Networks : c = [roster |-> PlainRoster, network |-> n]
  BY <1>2, <1>4
<1>. QED BY <1>3, <1>4 DEF Configs

\* A roster that validate takes: no two clients answer to one header, and
\* every grant is of a section that is served under a name.
Valid(roster) ==
    /\ \A h : \A i, j \in Meant(roster, h) : i = j
    /\ \A i \in 1..Len(roster.clients) : roster.clients[i].applications \subseteq Served(roster)
    /\ \A a \in Served(roster) : is_name(a)

\* Who is not recognised reads nothing.
LEMMA NobodyMayRead == Nobody.applications = {}
BY DEF Nobody, Anybody

\* Two of a kind are more than one.
LEMMA PairHasTwo == ASSUME NEW i, NEW j, i # j PROVE Cardinality({i, j}) = 2
<1>1. {i, j} = {i} \cup {j} /\ j \notin {i}
  OBVIOUS
<1>2. IsFiniteSet({i}) /\ Cardinality({i}) = 1
  BY FS_Singleton
<1>3. Cardinality({i} \cup {j}) = Cardinality({i}) + 1
  BY <1>1, <1>2, FS_AddElement
<1>. QED BY <1>1, <1>2, <1>3

\* What validate does not refuse is valid.
LEMMA AcceptedIsValid ==
  ASSUME NEW roster, ListsClients(roster), ~RefusesSections(roster), ~RefusesClients(roster)
  PROVE  Valid(roster)
<1>. DEFINE clients == roster.clients
            anonymous == {i \in 1..Len(clients) : clients[i].token = NoToken}
<1>0. Len(clients) \in Nat
  BY DEF ListsClients
<1>1. /\ ~(Cardinality(anonymous) > 1)
      /\ \A i \in 1..Len(clients) : clients[i].applications \subseteq Served(roster)
      /\ \A i, j \in 1..Len(clients) :
            ~(i < j /\ clients[i].token # NoToken /\ clients[j].token = clients[i].token)
  BY DEF RefusesClients
<1>2. \A a \in Served(roster) : is_name(a)
  BY DEF RefusesSections, Served
<1>3. ASSUME NEW i \in anonymous, NEW j \in anonymous PROVE i = j
  <2>1. IsFiniteSet(anonymous)
    <3>1. IsFiniteSet(1..Len(clients))
      BY <1>0, FS_Interval
    <3>. QED BY <3>1, FS_Subset
  <2>2. {i, j} \subseteq anonymous
    OBVIOUS
  <2>3. Cardinality({i, j}) <= Cardinality(anonymous) /\ Cardinality(anonymous) \in Nat
    BY <2>1, <2>2, FS_Subset, FS_CardinalityType
  <2>4. i # j => Cardinality({i, j}) = 2
    BY PairHasTwo
  <2>. QED BY <1>1, <2>3, <2>4
<1>4. ASSUME NEW h, NEW i \in Meant(roster, h), NEW j \in Meant(roster, h) PROVE i = j
  <2>1. i \in 1..Len(clients) /\ j \in 1..Len(clients) /\ clients[i].token = clients[j].token
    BY DEF Meant
  <2>2. CASE clients[i].token = NoToken
    BY <1>3, <2>1, <2>2
  <2>3. CASE clients[i].token # NoToken
    BY <1>0, <1>1, <2>1, <2>3
  <2>. QED BY <2>2, <2>3
<1>. QED BY <1>1, <1>2, <1>4 DEF Valid


\* The applications a header may ask about, by the roster alone.
Granted(roster, h) == UNION {roster.clients[i].applications : i \in Meant(roster, h)}

\* authenticate finds the one client that is meant, if there is one.
LEMMA PrincipalIsMeant ==
  ASSUME NEW roster, ListsClients(roster), Valid(roster), NEW h
  PROVE  Authenticate(roster, Presented(h)).applications = Granted(roster, h)
<1>. DEFINE clients == roster.clients
            p == Presented(h)
            asked == IF p = NotPresent THEN NoToken ELSE p
            hits == {i \in 1..Len(clients) : clients[i].token = asked}
            first == CHOOSE i \in hits : \A j \in hits : i <= j
<1>0. asked = IF h \in {NotPresent, NotText} THEN NoToken ELSE h
  BY DEF Presented
<1>1. hits = Meant(roster, h)
  BY <1>0 DEF Meant
<1>. HIDE DEF p
<1>2. CASE hits = {}
  <2>1. Authenticate(roster, p) = Nobody
    BY <1>2 DEF Authenticate
  <2>2. Authenticate(roster, p).applications = {}
    BY <2>1, NobodyMayRead
  <2>3. Granted(roster, h) = {}
    BY <1>1, <1>2 DEF Granted
  <2>. QED BY <2>2, <2>3 DEF p
<1>3. CASE hits # {}
  <2>1. PICK i \in hits : \A j \in hits : j = i
    BY <1>1, <1>3 DEF Valid
  <2>2. i \in Nat /\ i <= i
    BY DEF ListsClients
  <2>3. first = i
    BY <2>1, <2>2
  <2>4. Authenticate(roster, p) = [name |-> clients[first].name, applications |-> clients[first].applications]
    BY <1>3 DEF Authenticate
  <2>6. Authenticate(roster, p).applications = clients[first].applications
    BY <2>4
  <2>5. Granted(roster, h) = clients[i].applications
    BY <1>1, <2>1 DEF Granted
  <2>. HIDE DEF first
  <2>. QED BY <2>3, <2>5, <2>6 DEF p
<1>. QED BY <1>2, <1>3

\* What admit makes of a request.
LEMMA Admits ==
  ASSUME NEW roster, ListsClients(roster), Valid(roster), NEW r
  PROVE  LET granted == Granted(roster, r.authorization)
             answer == admit(roster, r)
         IN  /\ r.application \in granted => answer = served({r.application})
             /\ r.application \notin granted => answer.about = {} /\ answer.status # 200
<1>. DEFINE p == Authenticate(roster, Presented(r.authorization))
            a == r.application
            granted == Granted(roster, r.authorization)
            answer == admit(roster, r)
<1>1. p.applications = granted
  BY PrincipalIsMeant
<1>2. granted \subseteq Served(roster)
  BY DEF Granted, Valid, Meant
<1>3. answer = CASE p = Nobody -> Refuse("unauthenticated")
                 [] p # Nobody /\ ~is_name(a) -> Refuse("malformed")
                 [] OTHER -> IF ~may_read(p, a) \/ a \notin Served(roster)
                             THEN Refuse("not-found") ELSE served({a})
  BY DEF admit
<1>4. ASSUME NEW outcome PROVE Refuse(outcome).about = {} /\ Refuse(outcome).status # 200
  BY DEF Refuse
<1>5. CASE a \in granted
  <2>1. p # Nobody /\ is_name(a) /\ may_read(p, a) /\ a \in Served(roster)
    <3>. HIDE DEF p, granted
    <3>2. p # Nobody
      BY <1>1, <1>5, NobodyMayRead
    <3>. QED BY <1>1, <1>2, <1>5, <3>2 DEF may_read, Valid
  <2>. HIDE DEF p, a, answer
  <2>. QED BY <1>3, <1>5, <2>1 DEF p, a, answer
<1>6. CASE a \notin granted
  <2>1. ~may_read(p, a)
    BY <1>1, <1>6 DEF may_read
  <2>2. answer \in {Refuse("unauthenticated"), Refuse("malformed"), Refuse("not-found")}
    <3>. HIDE DEF p, a, answer
    <3>. QED BY <1>3, <2>1
  <2>. HIDE DEF answer
  <2>3. answer.about = {} /\ answer.status # 200
    BY <1>4, <2>2
  <2>. QED BY <1>6, <2>3 DEF answer
<1>. QED BY <1>5, <1>6
\* Every answer tells of what was granted, all of it where nothing is in the
\* way, and of an application that was not granted as of one nobody serves.
LEMMA AnswersAreGranted ==
  ASSUME NEW roster, ListsClients(roster), Valid(roster), NEW r \in Requests
  PROVE  LET granted == Granted(roster, r.authorization)
             answer == Answer(roster, r)
         IN  /\ answer.about \subseteq granted
             /\ (r.application \in granted /\ r.endpoint.meets = "nothing") =>
                    r.application \in answer.about
             /\ (r.application \in granted /\ r.endpoint.route = "document") => answer.status = 200
<1>. DEFINE granted == Granted(roster, r.authorization)
            a == r.application
            admitted == admit(roster, r)
            route == r.endpoint.route
            meets == r.endpoint.meets
            answer == Answer(roster, r)
<1>0. r.endpoint \in Endpoints
  BY DEF Requests
<1>1. /\ a \in granted => admitted = served({a})
      /\ a \notin granted => admitted.about = {} /\ admitted.status # 200
  BY Admits
<1>2. served({a}).about = {a} /\ served({a}).status = 200
  BY DEF served
<1>3. granted \subseteq Served(roster)
  BY DEF Granted, Valid, Meant
<1>4. /\ route \in {"document", "paths", "status", "check", "explain", "stream", "metrics"}
      /\ meets \in {"nothing", "load error", "no key path", "off", "full"}
  BY <1>0 DEF Endpoints
<1>5. CASE route = "metrics"
  <2>. DEFINE p == Authenticate(roster, Presented(r.authorization))
  <2>1. p.applications = granted
    BY PrincipalIsMeant
  <2>2. answer = metrics(roster, r)
    BY <1>5 DEF Answer
  <2>3. CASE p = Nobody
    <3>1. answer = Refuse("unauthenticated")
      BY <2>2, <2>3 DEF metrics
    <3>2. answer.about = {}
      BY <3>1 DEF Refuse
    <3>3. granted = {}
      BY <2>1, <2>3, NobodyMayRead
    <3>. QED BY <1>5, <3>2, <3>3
  <2>4. CASE p # Nobody
    <3>1. answer = served({x \in Served(roster) : may_read(p, x)})
      BY <2>2, <2>4 DEF metrics
    <3>2. answer.about = {x \in Served(roster) : may_read(p, x)}
      BY <3>1 DEF served
    <3>3. answer.about = granted
      BY <1>3, <2>1, <3>2 DEF may_read
    <3>. QED BY <1>5, <3>3
  <2>. QED BY <2>3, <2>4
<1>6. CASE route \in {"document", "paths", "status"}
  <2>1. answer = admitted
    BY <1>6 DEF Answer, document, paths, status
  <2>. HIDE DEF answer, admitted, granted, a
  <2>2. answer.about \subseteq granted /\ (a \in granted => a \in answer.about /\ answer.status = 200)
    BY <1>1, <1>2, <2>1
  <2>. QED BY <2>2 DEF answer, granted, a
<1>7. CASE route \in {"check", "explain", "stream"}
  <2>1. answer = CASE route = "check" -> check(admitted, meets)
                   [] route = "explain" -> explain(admitted, meets)
                   [] route = "stream" -> stream(admitted, meets)
    BY <1>7 DEF Answer
  <2>. HIDE DEF answer, admitted, granted, a
  <2>2. CASE a \notin granted
    <3>1. answer = admitted
      BY <1>1, <1>7, <2>1, <2>2 DEF check, explain, stream
    <3>. QED BY <1>1, <1>7, <2>2, <3>1 DEF answer, granted, a
  <2>3. CASE a \in granted
    <3>0. admitted.status = 200 /\ admitted.about = {a}
      BY <1>1, <1>2, <2>3
    <3>1. (CHOOSE x \in admitted.about : TRUE) = a
      BY <3>0
    <3>2. meets = "nothing" => answer = admitted
      BY <1>7, <2>1 DEF check, explain, stream
    <3>3. answer \in {admitted, unavailable(a), Refuse("malformed"), Refuse("not-found"), at_capacity}
      BY <1>7, <2>1, <3>1 DEF check, explain, stream
    <3>4. /\ unavailable(a).about = {a} /\ Refuse("malformed").about = {}
          /\ Refuse("not-found").about = {} /\ at_capacity.about = {}
      BY DEF unavailable, Refuse, at_capacity
    <3>5. answer.about \in {{a}, {}} /\ (meets = "nothing" => answer.about = {a})
      BY <3>0, <3>2, <3>3, <3>4
    <3>6. answer.about \subseteq granted
      BY <2>3, <3>5
    <3>. QED BY <1>7, <3>5, <3>6 DEF answer, granted, a
  <2>. QED BY <2>2, <2>3
<1>. QED BY <1>4, <1>5, <1>6, <1>7
\* An application that was not granted answers like a name nobody has.
LEMMA UngrantedIsUnknown ==
  ASSUME NEW roster, ListsClients(roster), Valid(roster), NEW r \in Requests,
         r.application \in Applications, r.application \notin Granted(roster, r.authorization)
  PROVE  Answer(roster, r) = Answer(roster, [r EXCEPT !.application = NobodysName])
<1>. DEFINE q == [r EXCEPT !.application = NobodysName]
            p == Authenticate(roster, Presented(r.authorization))
            x == admit(roster, r)
            y == admit(roster, q)
<1>1. /\ q.authorization = r.authorization /\ q.endpoint = r.endpoint /\ q.application = NobodysName
      /\ r.endpoint \in Endpoints
  BY DEF Requests
<1>2. is_name(r.application) /\ is_name(NobodysName)
  BY AdmissionAssumption DEF is_name
<1>3. NobodysName \notin p.applications /\ r.application \notin p.applications
  <2>1. Granted(roster, r.authorization) \subseteq Applications
    BY DEF Granted, ListsClients, Meant
  <2>. QED BY <2>1, PrincipalIsMeant, AdmissionAssumption
<1>4. x = IF p = Nobody THEN Refuse("unauthenticated") ELSE Refuse("not-found")
  BY <1>2, <1>3 DEF admit, may_read
<1>5. y = IF p = Nobody THEN Refuse("unauthenticated") ELSE Refuse("not-found")
  <2>. HIDE DEF q
  <2>. QED BY <1>1, <1>2, <1>3 DEF admit, may_read
<1>6. x = y
  BY <1>4, <1>5
<1>. HIDE DEF q
<1>7. metrics(roster, r) = metrics(roster, q)
  BY <1>1 DEF metrics
<1>. QED BY <1>1, <1>6, <1>7 DEF Answer, q

\* What the configuration of a server that starts guarantees.
LEMMA StartedAnswersFollowGrants ==
  ASSUME ListsClients(config.roster), config.network \in Networks
  PROVE  AnswersFollowGrants
<1> SUFFICES ASSUME Starts(config) PROVE AnswersFollowGrants
  BY DEF AnswersFollowGrants
<1>. DEFINE roster == config.roster
<1>1. Valid(roster)
  BY AcceptedIsValid DEF Starts
<1>. HIDE DEF roster
<1>2. ASSUME NEW h PROVE Cardinality(Meant(roster, h)) <= 1
  <2>1. CASE Meant(roster, h) = {}
    BY <2>1, FS_EmptySet
  <2>2. CASE Meant(roster, h) # {}
    <3>1. PICK i \in Meant(roster, h) : TRUE
      BY <2>2
    <3>2. \A j \in Meant(roster, h) : j = i
      BY <1>1 DEF Valid
    <3>3. Meant(roster, h) = {i}
      BY <3>2
    <3>4. Cardinality({i}) = 1
      BY FS_Singleton
    <3>. QED BY <3>3, <3>4
  <2>. QED BY <2>1, <2>2
<1>3. ASSUME NEW r \in Requests
      PROVE  LET granted == UNION {roster.clients[i].applications : i \in Meant(roster, r.authorization)}
                 answer == Answer(roster, r)
             IN  /\ answer.about \subseteq granted
                 /\ (r.application \in granted /\ r.endpoint.meets = "nothing") =>
                        r.application \in answer.about
                 /\ (r.application \in Applications \ granted) =>
                        answer = Answer(roster, [r EXCEPT !.application = NobodysName])
                 /\ (r.endpoint.route = "document" /\ r.application \in granted) =>
                        FetchFrom(roster, "http", FALSE, r.authorization, r.application) = "document"
  <2>. DEFINE granted == Granted(roster, r.authorization)
              q == [authorization |-> r.authorization, application |-> r.application,
                    endpoint |-> [route |-> "document", meets |-> "nothing"]]
  <2>1. /\ Answer(roster, r).about \subseteq granted
        /\ (r.application \in granted /\ r.endpoint.meets = "nothing") =>
               r.application \in Answer(roster, r).about
    BY <1>1, AnswersAreGranted DEF roster
  <2>2. r.application \in Applications \ granted =>
           Answer(roster, r) = Answer(roster, [r EXCEPT !.application = NobodysName])
    BY <1>1, UngrantedIsUnknown DEF roster
  <2>3. r.application \in granted => Answer(roster, q).status = 200
    <3>1. /\ q \in Requests /\ q.authorization = r.authorization /\ q.application = r.application
          /\ q.endpoint.route = "document"
      BY DEF Requests, Endpoints
    <3>. HIDE DEF q
    <3>. QED BY <1>1, <3>1, AnswersAreGranted DEF roster
  <2>4. r.application \in granted =>
           FetchFrom(roster, "http", FALSE, r.authorization, r.application) = "document"
    BY <2>3 DEF FetchFrom, Parses, Connects
  <2>. QED BY <2>1, <2>2, <2>4 DEF Granted
<1>4. \/ config.network.bind = "loopback" \/ config.network.insecure \/ LoadsTls(config.network.tls)
  BY DEF Starts, RefusesNetwork, Networks
<1>. QED BY <1>2, <1>3, <1>4 DEF AnswersFollowGrants, roster

\* So does every configuration.
LEMMA ConfigsFollowGrants == AdmissionInit => AnswersFollowGrants
<1> SUFFICES ASSUME AdmissionInit PROVE AnswersFollowGrants
  OBVIOUS
<1>1. config \in Configs
  BY DEF AdmissionInit
<1>2. PlainNetwork \in Networks
  BY DEF PlainNetwork, Networks
<1>3. config.network \in Networks
  BY <1>1, <1>2 DEF Configs
<1>. QED BY <1>1, <1>3, ConfigsListClients, StartedAnswersFollowGrants

\* For any number of applications, clients, tokens and sections: a configuration
\* the server agrees to start with gives a client what it was granted, all of it
\* and nothing else, an application that was not granted answers like one that
\* nobody serves, and nothing is bound past the loopback in the clear unless the
\* configuration says so (validate, authenticate, admit, the handlers).  A header
\* that is no text gets what the anonymous client was granted.
THEOREM AnswersFollowGrantsCorrect == MCSpec => []AnswersFollowGrants
<1>1. config = Resting => AnswersFollowGrants
  <2> SUFFICES ASSUME config = Resting PROVE AnswersFollowGrants
    OBVIOUS
  <2>1. Resting.network = PlainNetwork /\ Resting.roster.clients = PlainRoster.clients
    BY DEF Resting, PlainRoster
  <2>2. ListsClients(Resting.roster)
    BY <2>1 DEF ListsClients, PlainRoster, Anybody
  <2>3. Resting.network \in Networks
    BY <2>1 DEF PlainNetwork, Networks
  <2>. QED BY <2>2, <2>3, StartedAnswersFollowGrants
<1>. DEFINE Begun == config = Resting \/ AdmissionInit
<1>2. MCInit => Begun
  BY DEF MCInit
<1>3. Begun /\ [MCNext]_<<serverVars, part, config>> => Begun'
  BY DEF MCNext, AdmissionInit
<1>4. Begun => AnswersFollowGrants
  BY <1>1, ConfigsFollowGrants
<1>. HIDE DEF Begun
<1>. QED BY <1>2, <1>3, <1>4, PTL DEF MCSpec

=============================================================================
