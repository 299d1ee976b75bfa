------------------------------- MODULE Config -------------------------------
(***************************************************************************)
(* What the program computes of a configuration, without state of its own:  *)
(* Validate (internal/config), ParseLevel (internal/logging), the readings   *)
(* of it by NewManager, TestConnect and Build (internal/tunnel), and the     *)
(* configuration that the flags of gen-config stand for (cmd/fleetconnect).  *)
(* Values are representatives: one for each case the code tells apart.       *)
(***************************************************************************)
EXTENDS Integers, SequencesExt

\* An upstream address "scheme://host:port", of which any part may be missing: "till",
\* ":8080" and "https://" are addresses.  A bare port ("8080", what Atoi accepts; signs
\* are left out) is told from ":8080".
NoPort == -1
Address == [scheme : STRING, host : STRING, port : Nat \cup {NoPort}, bare : BOOLEAN]
IsAddress(addr) ==
  addr \in Address /\ (addr.bare => addr.scheme = "" /\ addr.host = "" /\ addr.port # NoPort)

\* The empty one, which is none.
NoAddr == [scheme |-> "", host |-> "", port |-> NoPort, bare |-> FALSE]

\* The address of an endpoint is given by its scheme: one of Schemes, another, or "%zz",
\* which does not parse.

Schemes == {"", "http", "https", "tcp", "tls"}

(* config.Endpoint and config.Config.  Fields that are only passed on (descriptions,  *)
(* metadata, policies, bindings, pooling) are left out; tls is a sequence of at most *)
(* one [cert, key, mutual], and one field stands for both heartbeat durations.       *)
NewEndpoint(name, addr, url) ==
  [name |-> name, url |-> url, tls |-> <<>>,
   upstream |-> [addr |-> addr, proxyProtocol |-> "", tlsVerify |-> FALSE, tlsVerifyCAs |-> ""]]

CurrentSchemaVersion == 1

ZeroConfig == [schemaVersion |-> 0, provider |-> "", authtoken |-> "", endpoints |-> <<>>,
               logLevel |-> "", connectCA |-> "", proxyURL |-> "", heartbeat |-> "",
               updateSource |-> "", thumbprint |-> ""]

-----------------------------------------------------------------------------
(* The machine's files, of which only this counts: which PEM files can be read   *)
(* and parsed at the moment, the set "files", and which certificates and keys    *)
(* belong together, the set "pairs".                                             *)

ToLower(s) == CASE s = "DEBUG" -> "debug" [] OTHER -> s

ValidLogLevels   == {"", "debug", "info", "warn", "error"}
ParsesAsURL(u)   == u # "%zz"
ParsesDuration(d) == d # "soon"
IsHexThumbprint(t) == t # "short"

UniqueNames(eps) ==
  \A i, j \in DOMAIN eps : i # j /\ eps[i].name # "" => eps[i].name # eps[j].name

ValidEndpoint(ep, files) ==
  /\ ep.upstream.addr # NoAddr
  /\ ep.upstream.proxyProtocol \in {"", "1", "2"}
  /\ ep.upstream.tlsVerifyCAs # "" => ep.upstream.tlsVerifyCAs \in files
  /\ ParsesAsURL(ep.url) /\ ep.url \in Schemes
  /\ \A t \in Range(ep.tls) :
       t.cert # "" /\ t.key # "" /\ (t.mutual # "" => t.mutual \in files)

ValidConnection(cfg, files) ==
  /\ ParsesAsURL(cfg.proxyURL) /\ ParsesDuration(cfg.heartbeat)
  /\ cfg.connectCA # "" => cfg.connectCA \in files

ValidUpdate(cfg) ==
  /\ cfg.updateSource # "" => ParsesAsURL(cfg.updateSource) /\ cfg.thumbprint # ""
  /\ IsHexThumbprint(cfg.thumbprint)

Validate(cfg, files) ==
  /\ cfg.schemaVersion = CurrentSchemaVersion /\ cfg.provider # ""
  /\ ToLower(cfg.logLevel) \in ValidLogLevels
  /\ \A i \in DOMAIN cfg.endpoints : ValidEndpoint(cfg.endpoints[i], files)
  /\ UniqueNames(cfg.endpoints)
  /\ ValidConnection(cfg, files) /\ ValidUpdate(cfg)

\* Variant: the levels are compared as they are written.
ParseLevelAsWritten(s) ==
  IF s \in {"", "info"} THEN "info" ELSE IF s \in {"debug", "warn", "error"} THEN s ELSE "unknown"

ParseLevel(s) ==
  IF ToLower(s) \in {"", "info"} THEN "info"
  ELSE IF ToLower(s) \in {"debug", "warn", "error"} THEN ToLower(s) ELSE "unknown"

parseAgentConfig(cfg, files) ==
  /\ cfg.connectCA # "" => cfg.connectCA \in files
  /\ ParsesDuration(cfg.heartbeat)

\* agent.New, after Resolve: the level, and NewManager.
NewAccepts(cfg, files) ==
  /\ cfg.logLevel # "" => ParseLevel(cfg.logLevel) # "unknown"
  /\ parseAgentConfig(cfg, files)

-----------------------------------------------------------------------------
(* mapping.go *)

\* Variant: without a scheme it is always HTTP.
normalizeUpstreamAddrHTTP(addr, url) ==
  IF addr.scheme # "" THEN addr
  ELSE [addr EXCEPT !.scheme = "http", !.host = IF addr.bare THEN "localhost" ELSE @, !.bare = FALSE]

normalizeUpstreamAddr(addr, url) ==
  IF addr.scheme # "" THEN addr
  ELSE [addr EXCEPT !.scheme = IF url \in {"tcp", "tls"} THEN "tcp" ELSE "http",
                    !.host   = IF addr.bare THEN "localhost" ELSE @,
                    !.bare   = FALSE]

\* Variant: the authorities of mutual TLS are loaded whether they are set or not.
BuildsMutual(ep, files, pairs) ==
  /\ ep.upstream.tlsVerify /\ ep.upstream.tlsVerifyCAs # "" => ep.upstream.tlsVerifyCAs \in files
  /\ \A t \in Range(ep.tls) :
       {t.cert, t.key, t.mutual} \subseteq files /\ <<t.cert, t.key>> \in pairs

\* Can Build load what the endpoint names?
Builds(ep, files, pairs) ==
  /\ ep.upstream.tlsVerify /\ ep.upstream.tlsVerifyCAs # "" => ep.upstream.tlsVerifyCAs \in files
  /\ \A t \in Range(ep.tls) :
       /\ {t.cert, t.key} \subseteq files /\ <<t.cert, t.key>> \in pairs
       /\ t.mutual # "" => t.mutual \in files

Build(ep) == normalizeUpstreamAddr(ep.upstream.addr, ep.url)

\* StaticProvider.Resolve.  No check before it looks at the token.
HasCredential(cfg) == cfg.authtoken # ""

\* The credential, an Agent, and Build of every endpoint.
CanForward(cfg, files, pairs) ==
  /\ HasCredential(cfg)
  /\ \A i \in DOMAIN cfg.endpoints : Builds(cfg.endpoints[i], files, pairs)

(* Where the SDK connects to for an upstream.  Without "://" it finds neither host nor   *)
(* port, and if it finds neither it falls back on localhost:80; an empty host before a   *)
(* port is the local machine to net.Dial; and a port that is missing is left to the      *)
(* scheme.                                                                               *)
Dials(addr) ==
  IF addr.scheme = "" \/ (addr.host = "" /\ addr.port = NoPort) THEN <<"localhost", 80>>
  ELSE <<IF addr.host = "" THEN "localhost" ELSE addr.host, addr.port>>

\* Does the SDK pass the bytes on unread?
Raw(addr) == addr.scheme \notin {"http", "https"}

-----------------------------------------------------------------------------
(* The flags of gen-config.  An --endpoint is its sequence of pairs <<key, value>>. *)

PairKeys == {"name", "upstream.url", "url"}

NoEndpoint == NewEndpoint("", NoAddr, "")

AddPair(ep, pair) ==
  CASE pair[1] = "name" -> [ep EXCEPT !.name = pair[2]]
    [] pair[1] = "url"  -> [ep EXCEPT !.url = pair[2]]
    [] OTHER            -> [ep EXCEPT !.upstream.addr = pair[2]]

parseEndpointFlag(spec) == FoldLeft(AddPair, NoEndpoint, spec)

ParsesEndpointFlag(spec) ==
  /\ \A i \in DOMAIN spec : spec[i][1] \in PairKeys
  /\ parseEndpointFlag(spec).upstream.addr # NoAddr

\* The one endpoint of --name, --upstream and --url.
Shorthand(f) == NewEndpoint(f.name, f.upstream, f.url)

ResolvesEndpoints(f) ==
  IF f.specs # <<>> THEN Shorthand(f) = NoEndpoint /\ \A i \in DOMAIN f.specs : ParsesEndpointFlag(f.specs[i])
                    ELSE f.upstream # NoAddr

resolveEndpoints(f) ==
  IF f.specs # <<>> THEN [i \in DOMAIN f.specs |-> parseEndpointFlag(f.specs[i])]
                    ELSE <<Shorthand(f)>>

\* What writeConfig assembles, with the token that resolveAuthtoken has found.
GeneratedConfig(f, token) ==
  [ZeroConfig EXCEPT !.schemaVersion = CurrentSchemaVersion, !.provider = "static",
     !.authtoken = token, !.endpoints = resolveEndpoints(f), !.logLevel = f.logLevel,
     !.connectCA = f.connectCA, !.proxyURL = f.proxyURL, !.heartbeat = f.heartbeat,
     !.updateSource = f.updateSource, !.thumbprint = f.thumbprint]

=============================================================================
