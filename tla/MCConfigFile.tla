---------------------------- MODULE MCConfigFile ----------------------------
(* A small instance of ConfigFile for TLC. *)
EXTENDS ConfigFile

TwoCommands == {1, 2}
PEM == {"pem"}   \* one bundle with a certificate, its key and its authority
CertAndKey == {<<"pem", "pem">>}

Addr(scheme, host, port) == [scheme |-> scheme, host |-> host, port |-> port, bare |-> FALSE]
Port  == [NoAddr EXCEPT !.port = 8080, !.bare = TRUE]   \* 8080
Colon == Addr("", "", 8080)                             \* :8080
Till  == Addr("", "till", 8080)                         \* till:8080
HTTPS == Addr("https", "", NoPort)                      \* https://

Base == [ZeroConfig EXCEPT !.schemaVersion = 1, !.provider = "static", !.authtoken = "given"]

TLS == <<[cert |-> "pem", key |-> "pem", mutual |-> ""]>>

\* A remote desktop, and an endpoint with TLS material whose address says only its scheme.
Site == [Base EXCEPT !.logLevel = "DEBUG", !.connectCA = "pem", !.heartbeat = "30s", !.endpoints =
  <<NewEndpoint("a", Port, "tcp"),
    [NewEndpoint("b", HTTPS, "tls") EXCEPT !.tls = TLS, !.upstream.tlsVerify = TRUE,
                                           !.upstream.tlsVerifyCAs = "pem"]>>]
Shop == [Base EXCEPT !.endpoints = <<NewEndpoint("a", Colon, "")>>]
Desk == [Base EXCEPT !.endpoints = <<NewEndpoint("a", Till, "tcp")>>]

Broken == {
  ZeroConfig,
  [Site EXCEPT !.logLevel = "crit"],
  [Site EXCEPT !.heartbeat = "soon"],
  [Site EXCEPT !.proxyURL = "%zz"],
  [Site EXCEPT !.updateSource = "https"],
  [Site EXCEPT !.thumbprint = "short"],
  [Site EXCEPT !.endpoints[2].name = "a"],
  [Site EXCEPT !.endpoints[1].url = "ftp"],
  [Site EXCEPT !.endpoints[1].upstream.proxyProtocol = "3"],
  [Site EXCEPT !.endpoints[2].tls[1].key = ""],
  [Site EXCEPT !.endpoints[2].tls[1].mutual = "elsewhere"]}

Line == [specs |-> <<>>, name |-> "", upstream |-> NoAddr, url |-> "", authtoken |-> "given",
         logLevel |-> "", connectCA |-> "", proxyURL |-> "", heartbeat |-> "", updateSource |-> "",
         thumbprint |-> ""]

\* Of the first one, the later of two pairs counts; the last one has two endpoints of one name.
Lines == {
  [Line EXCEPT !.specs = <<<<<<"url", "tls">>, <<"upstream.url", Colon>>, <<"name", "a">>, <<"url", "">>>>>>],
  [Line EXCEPT !.upstream = Port, !.updateSource = "https"],
  [Line EXCEPT !.specs = <<<<<<"name", "a">>, <<"upstream.url", Till>>, <<"name", "b">>>>,
                           <<<<"upstream.url", HTTPS>>, <<"name", "b">>>>>>]}

Typed  == {Site} \cup Broken
Filled == {Shop}
Before == {Desk, [Desk EXCEPT !.authtoken = ""]}

=============================================================================
