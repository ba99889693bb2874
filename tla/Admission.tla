----------------------------- MODULE Admission ------------------------------
(***************************************************************************)
(* What the configuration server agrees to start with and what it answers   *)
(* to whom (dynamic-config-server: config, auth, tls, routes), and what its *)
(* client makes of the answer (client).  Everything here is a function of   *)
(* the configuration and the request; config is the configuration the       *)
(* server is started with.                                                  *)
(***************************************************************************)
EXTENDS Integers, Sequences, FiniteSets

CONSTANTS Applications,  \* names a request can carry
          Unroutable,    \* a name is_name refuses
          ClientNames,
          Tokens,        \* of MIN_TOKEN_LEN and longer, of header text
          Weak,          \* one shorter than that
          MaxSections, MaxClients   \* bounds: lengths of the two lists

\* A name that can be one and that nothing is configured under.
NobodysName == "nobody's"

ASSUME AdmissionAssumption ==
    /\ Unroutable \notin Applications /\ Weak \notin Tokens
    /\ NobodysName \notin Applications \union {Unroutable}
    /\ {MaxSections, MaxClients} \subseteq Nat

VARIABLE config

Profile == "prod"
NoToken == "none"
NotPresent == "absent"
Anybody == {}

UpTo(n, S) == UNION {[1..k -> S] : k \in 0..n}

\* SectionConfig and ClientConfig; a client without a token is anonymous.
SectionConfigs == [application : Applications \union {Unroutable},
                   profile : {Profile}]
ClientConfigs == [name : ClientNames,
                  token : Tokens \union {Weak, NoToken},
                  applications : SUBSET Applications]

\* TlsConfig: what each path names.  A blank path is one of spaces.
Files == {"blank", "missing", "garbage", "empty", "pem", "other", "shared"}
NoTls == [certificate |-> NotPresent, key |-> NotPresent,
          client_ca |-> NotPresent, crl |-> FALSE]
TlsConfigs == [certificate : Files, key : Files,
               client_ca : Files \union {NotPresent}, crl : BOOLEAN]

\* ServerConfig, in the two groups of keys that validate looks at together.
\* `supported` is the tls feature of the build.
PlainNetwork == [bind |-> "loopback", insecure |-> FALSE, tls |-> NoTls,
                 supported |-> TRUE]
Networks == [bind : {"loopback", "exposed", "hostname"}, insecure : BOOLEAN,
             tls : TlsConfigs \union {NoTls}, supported : BOOLEAN]
Rosters == [sections : UpTo(MaxSections, SectionConfigs),
            clients : UpTo(MaxClients, ClientConfigs),
            allow_anonymous : BOOLEAN]

\* Bound: a roster with a plain network, or a network with a plain roster.
PlainRoster ==
    [sections |-> <<[application |-> CHOOSE a \in Applications : TRUE,
                     profile |-> Profile]>>,
     clients |-> <<[name |-> CHOOSE n \in ClientNames : TRUE,
                    token |-> CHOOSE t \in Tokens : TRUE,
                    applications |-> Anybody]>>,
     allow_anonymous |-> FALSE]

Configs ==
    {[roster |-> r, network |-> PlainNetwork] : r \in Rosters}
      \union {[roster |-> PlainRoster, network |-> n] : n \in Networks}

-----------------------------------------------------------------------------
(* validate, and the rest of what start_with refuses.                       *)

Repeated(list, Of(_)) ==
    \E i, j \in 1..Len(list) : i < j /\ Of(list[i]) = Of(list[j])

is_name(name) == name # Unroutable
Served(roster) == {roster.sections[i].application :
                      i \in 1..Len(roster.sections)}

RefusesSections(roster) ==
    \/ roster.sections = <<>>
    \/ \E i \in 1..Len(roster.sections) :
           ~is_name(roster.sections[i].application)
    \/ Repeated(roster.sections, LAMBDA s : <<s.application, s.profile>>)

\* Mutant: two clients may share a token.
RefusesClientsButTwins(roster) ==
    LET clients == roster.clients
    IN  \/ clients = <<>>
        \/ Repeated(clients, LAMBDA c : c.name)
        \/ \E i \in 1..Len(clients) :
               \/ clients[i].token = NoToken /\ ~roster.allow_anonymous
               \/ clients[i].token = Weak
               \/ ~(clients[i].applications \subseteq Served(roster))

RefusesClients(roster) ==
    LET clients == roster.clients
        anonymous == {i \in 1..Len(clients) : clients[i].token = NoToken}
    IN  \/ clients = <<>>
        \/ Repeated(clients, LAMBDA c : c.name)
        \/ anonymous # {} /\ ~roster.allow_anonymous
        \/ Cardinality(anonymous) > 1
        \/ \E i \in 1..Len(clients) :
               \/ clients[i].token = Weak
               \/ ~(clients[i].applications \subseteq Served(roster))
        \/ \E i, j \in 1..Len(clients) :
               /\ i < j /\ clients[i].token # NoToken
               /\ clients[j].token = clients[i].token

RefusesNetwork(network) ==
    LET material == network.tls
    IN  \/ network.bind = "hostname"
        \/ IF material # NoTls
           THEN \/ ~network.supported
                \/ material.crl
                \/ "blank" \in {material.certificate, material.key,
                                material.client_ca}
                \/ network.insecure
           ELSE network.bind = "exposed" /\ ~network.insecure

\* read_certificates: at least one certificate, all of them readable.
ReadsCertificates(file) == file \in {"pem", "other"}

\* read_private_key: the open file's mode is looked at before its bytes are.
ReadsKey(file) == file \in {"pem", "other"}

\* Tls::load: the chain, the key, the client authorities, and the key that
\* belongs to the chain.
LoadsTls(material) ==
    /\ ReadsCertificates(material.certificate)
    /\ ReadsKey(material.key)
    /\ material.client_ca # NotPresent =>
           ReadsCertificates(material.client_ca)
    /\ material.certificate = material.key

\* start_with: validate, the address, the TLS material, then the sections.
Starts(c) ==
    /\ ~RefusesSections(c.roster)
    /\ ~RefusesClients(c.roster)
    /\ ~RefusesNetwork(c.network)
    /\ c.network.tls # NoTls => LoadsTls(c.network.tls)

-----------------------------------------------------------------------------
(* A request and its answer.                                                *)

\* The Authorization header: absent, bytes that are no text, of another
\* scheme, a bearer scheme without a token, or a bearer token.
NotText == "not text"
Headers == {NotPresent, NotText, "basic", "empty"} \union Tokens
               \union {"unknown"}

\* What a handler makes of it, by to_str().ok(): text stays what it is, and
\* a header that is no text becomes one that is not there.
Presented(header) == IF header = NotText THEN NotPresent ELSE header

\* The router, and what each route can meet: a path that is_key_path
\* refuses, sources that no longer load, a stream endpoint that is turned
\* off or full.
Endpoints ==
    [route : {"document", "paths", "status", "metrics"}, meets : {"nothing"}]
      \union [route : {"check"}, meets : {"nothing", "load error"}]
      \union [route : {"explain"},
              meets : {"nothing", "no key path", "load error"}]
      \union [route : {"stream"}, meets : {"nothing", "off", "full"}]
Requests == [authorization : Headers,
             application : Applications \union {NobodysName, Unroutable},
             endpoint : Endpoints]

Nobody == [name |-> "", applications |-> Anybody]

\* authenticate: without a header the anonymous client, with one the first
\* client that has the token.
Authenticate(roster, header) ==
    LET asked == IF header = NotPresent THEN NoToken ELSE header
        hits == {i \in 1..Len(roster.clients) :
                    roster.clients[i].token = asked}
    IN  IF hits = {} THEN Nobody
        ELSE LET first == CHOOSE i \in hits : \A j \in hits : i <= j
             IN  [name |-> roster.clients[first].name,
                  applications |-> roster.clients[first].applications]

may_read(principal, application) ==
    application \in principal.applications

\* Every answer is audited with its outcome; about is what it tells of.
Refuse(outcome) ==
    [status |-> IF outcome = "unauthenticated" THEN 401 ELSE 404,
     outcome |-> outcome, about |-> {}]
at_capacity == [status |-> 503, outcome |-> "unavailable", about |-> {}]
unavailable(application) ==
    [status |-> 500, outcome |-> "unavailable", about |-> {application}]
served(applications) ==
    [status |-> 200, outcome |-> "served", about |-> applications]

\* admit: who asks, then a name that can be one, then the grant, and only
\* then whether there is such a section.
admit(roster, request) ==
    LET principal == Authenticate(roster, Presented(request.authorization))
        application == request.application
    IN  CASE principal = Nobody -> Refuse("unauthenticated")
          [] principal # Nobody /\ ~is_name(application) ->
                Refuse("malformed")
          [] OTHER -> IF \/ ~may_read(principal, application)
                         \/ application \notin Served(roster)
                      THEN Refuse("not-found")
                      ELSE served({application})

\* document and paths answer with what is installed, status with what is
\* known of it.  A section is installed before the server listens.
document(admitted) == admitted
paths(admitted) == admitted
status(admitted) == admitted

\* check and explain load the sources again, on a thread of their own.
check(admitted, meets) ==
    IF admitted.status = 200 /\ meets = "load error"
    THEN unavailable(CHOOSE a \in admitted.about : TRUE) ELSE admitted

explain(admitted, meets) ==
    CASE admitted.status = 200 /\ meets = "no key path" ->
            Refuse("malformed")
      [] admitted.status = 200 /\ meets = "load error" ->
            unavailable(CHOOSE a \in admitted.about : TRUE)
      [] OTHER -> admitted

stream(admitted, meets) ==
    CASE admitted.status = 200 /\ meets = "off" -> Refuse("not-found")
      [] admitted.status = 200 /\ meets = "full" -> at_capacity
      [] OTHER -> admitted

\* metrics names the sections the caller may read.
metrics(roster, request) ==
    LET principal == Authenticate(roster, Presented(request.authorization))
    IN  IF principal = Nobody THEN Refuse("unauthenticated")
        ELSE served({a \in Served(roster) : may_read(principal, a)})

Answer(roster, request) ==
    LET route == request.endpoint.route
        meets == request.endpoint.meets
        admitted == admit(roster, request)
    IN  CASE route = "document" -> document(admitted)
          [] route = "paths" -> paths(admitted)
          [] route = "status" -> status(admitted)
          [] route = "check" -> check(admitted, meets)
          [] route = "explain" -> explain(admitted, meets)
          [] route = "stream" -> stream(admitted, meets)
          [] route = "metrics" -> metrics(roster, request)

-----------------------------------------------------------------------------
(* The client.                                                              *)

\* Endpoint::parse: a scheme of the two, no credentials in the authority,
\* a host.
Urls == {"http", "https", "ftp", "userinfo", "hostless"}
Parses(url) == url \in {"http", "https"}

\* refused: an answer waiting will not change is a matter of credentials,
\* everything else may pass.
RefusedKind(code) == IF code \in {401, 403, 404} THEN "auth" ELSE "remote"

\* tls_client: built for an https URL only, from material that loads.
Connects(url, trusted) == url = "http" \/ trusted

\* read: the URL, the material where the URL asks for it, one request, and
\* the config member of the answer.
FetchFrom(roster, url, trusted, token, application) ==
    LET answer == Answer(roster, [authorization |-> token,
                                  application |-> application,
                                  endpoint |-> [route |-> "document",
                                                meets |-> "nothing"]])
    IN  CASE ~Parses(url) -> "remote"
          [] Parses(url) /\ ~Connects(url, trusted) -> "remote"
          [] OTHER -> IF answer.status = 200 THEN "document"
                      ELSE RefusedKind(answer.status)

-----------------------------------------------------------------------------
AdmissionInit == config \in Configs

\* Whoever may be meant by a header, by the roster alone: without one, and
\* by one that is no text, whoever needs no token.
Meant(roster, header) ==
    {i \in 1..Len(roster.clients) :
        roster.clients[i].token =
            IF header \in {NotPresent, NotText} THEN NoToken ELSE header}

\* With any configuration the server agrees to start with, a header means
\* at most one client, a client gets exactly the applications it was
\* granted, and an application it was not granted answers like one that
\* nobody serves; every grant can be used; and nothing that is not
\* encrypted is bound past the loopback unless the configuration says so.
\* A header of another scheme or with an unknown token means nobody, but
\* one that is no text means the anonymous client: the handlers drop it
\* before authenticate can tell it from none (see UnusableMeansNobody).
AnswersFollowGrants ==
    Starts(config) =>
        LET roster == config.roster
        IN  /\ \A h \in Headers : Cardinality(Meant(roster, h)) <= 1
            /\ \A r \in Requests :
                  LET granted == UNION {roster.clients[i].applications :
                                  i \in Meant(roster, r.authorization)}
                      answer == Answer(roster, r)
                  IN  /\ answer.about \subseteq granted
                      /\ (r.application \in granted
                          /\ r.endpoint.meets = "nothing") =>
                            r.application \in answer.about
                      /\ (r.application \in Applications \ granted) =>
                            answer = Answer(roster, [r EXCEPT
                                        !.application = NobodysName])
                      /\ (r.endpoint.route = "document" /\
                          r.application \in granted) =>
                            FetchFrom(roster, "http", FALSE,
                                r.authorization, r.application) = "document"
            /\ \/ config.network.bind = "loopback"
               \/ config.network.insecure
               \/ LoadsTls(config.network.tls)

\* What authenticate documents ("a header that is *present* but unusable
\* ... is **not** downgraded to anonymous"): whoever sends a header that
\* carries no known token is refused.  Refuted: a header that is no text
\* is answered with the anonymous client's grants.
UnusableMeansNobody ==
    Starts(config) =>
        \A r \in Requests :
            r.authorization \notin {NotPresent} \union Tokens =>
                Answer(config.roster, r).status = 401
=============================================================================
