------------------------------ MODULE MCStartup ------------------------------
(* Values of the constants of start-up for TLC.                            *)
EXTENDS Startup, TLC

At(name) == [name |-> name, absolute |-> TRUE]

Config(bind, proxy, ca, certificate) ==
    [listen |-> [bind |-> bind, scheme |-> "wss"],
     tls |-> [certificate_path |-> certificate, private_key_path |-> "relay.key",
              client_ca_path |-> ca],
     trusted_proxy |-> proxy,
     registration |-> [listen_path |-> At("registration"), prefixes |-> {At("run")},
                       default_lease_seconds |-> 1, max_lease_seconds |-> 2]]

NoProxy == [enabled |-> FALSE, allowed_remote_addrs |-> {}, identity_header |-> None]

Proxy == [enabled |-> TRUE, allowed_remote_addrs |-> {"proxy"}, identity_header |-> "x-subject"]

Mtls == Config("port", NoProxy, "ca", "relay.crt")

\* Two that serve, one that fails at TLS, and those that are refused, one for
\* each check of validate.
MCConfigFiles ==
    "mtls" :> Mtls
    @@ "proxied" :> Config("port", Proxy, None, "relay.crt")
    @@ "lost_cert" :> Config("port", NoProxy, "ca", "missing")
    @@ "no_bind" :> [Mtls EXCEPT !.listen.bind = None]
    @@ "plain" :> [Mtls EXCEPT !.listen.scheme = "ws"]
    @@ "no_key" :> [Mtls EXCEPT !.tls.private_key_path = None]
    @@ "no_ca" :> [Mtls EXCEPT !.tls.client_ca_path = None]
    @@ "no_proxies" :> [Mtls EXCEPT !.trusted_proxy = [Proxy EXCEPT !.allowed_remote_addrs = {}]]
    @@ "bad_proxy" :> [Mtls EXCEPT !.trusted_proxy = [Proxy EXCEPT !.allowed_remote_addrs = {None}]]
    @@ "no_header" :> [Mtls EXCEPT !.trusted_proxy = [Proxy EXCEPT !.identity_header = None]]
    @@ "relative" :> [Mtls EXCEPT !.registration.listen_path.absolute = FALSE]
    @@ "no_prefix" :> [Mtls EXCEPT !.registration.prefixes = {}]
    @@ "long_default" :> [Mtls EXCEPT !.registration.default_lease_seconds = 3]
    @@ "no_lease" :> [Mtls EXCEPT !.registration.default_lease_seconds = 0]

MCAuthorities == "ca" :> {"operators-ca"}

Serve(file) == <<"--config", file>>

GoodLaunches == {Serve("mtls"), Serve("proxied"), <<"--check">> \o Serve("mtls")}

MCLaunches ==
    {Serve(file) : file \in DOMAIN MCConfigFiles}
        \cup {Serve("mtls") \o <<"--check">>, <<"--config", "--check">>, <<"--config">>,
              <<"--verbose">>, Serve("plain") \o Serve("proxied")}

Client(addr, certificate, headers) ==
    [addr |-> addr, certificate |-> certificate, headers |-> headers]

Certificate(issuer) == [issuer |-> issuer, subject |-> "operator"]

\* A proxy that names a subject, one that names none and has a certificate of
\* another issuer, and an operator that also claims to be a subject.
MCClients ==
    {Client("proxy", None, "x-subject" :> "operator"),
     Client("proxy", Certificate("other-ca"), "x-subject" :> None),
     Client("client", Certificate("operators-ca"), "x-subject" :> "admin")}
=============================================================================
