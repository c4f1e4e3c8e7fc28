------------------------------ MODULE Admission ------------------------------
(***************************************************************************)
(* Who may talk to a relay: the arguments it is started with               *)
(* (Args of src/src/main.rs), the configuration it accepts                 *)
(* (src/src/config.rs), and the identity it gives to a connection          *)
(* (src/src/auth.rs and handle_wss_connection of src/src/main.rs).         *)
(***************************************************************************)
EXTENDS Naturals, Sequences

CONSTANTS
    ConfigFiles,    \* path -> configuration, for the files that decode
    CertificateFiles, KeyFiles, \* paths of PEM files with certificates, a key
    Authorities,    \* path -> issuers trusted, for files with CA certificates
    None            \* Option::None; an empty path; a text that does not parse
                    \* or trims to nothing

-----------------------------------------------------------------------------
(* Arguments.                                                              *)

NoArgs == [config_path |-> None, check_only |-> FALSE, known |-> TRUE]

\* --config takes whatever follows it; the last one counts.
ParseFrom(args) ==
    LET Parsed[i \in 1 .. Len(args) + 1] ==
            IF i > Len(args) THEN NoArgs
            ELSE CASE args[i] = "--check" -> [Parsed[i + 1] EXCEPT !.check_only = TRUE]
                   [] args[i] = "--config" /\ i < Len(args) ->
                        [Parsed[i + 2] EXCEPT !.config_path = IF @ = None THEN args[i + 1] ELSE @]
                   [] OTHER -> [NoArgs EXCEPT !.known = FALSE]
    IN  Parsed[1]

ArgsAccepted(args) == ParseFrom(args).known /\ ParseFrom(args).config_path # None

-----------------------------------------------------------------------------
(* Configuration.                                                          *)

ListenValid(listen) == listen.bind # None /\ listen.scheme = "wss"

ProxyValid(proxy) ==
    proxy.enabled =>
        /\ proxy.allowed_remote_addrs # {}
        /\ None \notin proxy.allowed_remote_addrs
        /\ proxy.identity_header # None

TlsValid(tls, trusted_proxy_enabled) ==
    /\ None \notin {tls.certificate_path, tls.private_key_path}
    /\ ~trusted_proxy_enabled => tls.client_ca_path # None

\* Paths are records with their absoluteness; leases are in seconds.
PolicyValid(policy) ==
    /\ policy.listen_path.absolute
    /\ policy.prefixes # {}
    /\ \A prefix \in policy.prefixes : prefix.absolute
    /\ policy.default_lease_seconds \in 1 .. policy.max_lease_seconds

validate(config) ==
    /\ ListenValid(config.listen)
    /\ ProxyValid(config.trusted_proxy)
    /\ TlsValid(config.tls, config.trusted_proxy.enabled)
    /\ PolicyValid(config.registration)

\* build_server_config, load_certs and load_private_key succeed.
ServerConfigBuilt(config) ==
    /\ config.tls.certificate_path \in CertificateFiles
    /\ config.tls.private_key_path \in KeyFiles
    /\ ~config.trusted_proxy.enabled => config.tls.client_ca_path \in DOMAIN Authorities

-----------------------------------------------------------------------------
(* Identity.                                                               *)

Identity(source, subject) == [source |-> source, subject |-> subject]

\* TLS: with a proxy no certificate is asked for; otherwise the client must show
\* one of a trusted issuer.
Handshakes(config, client) ==
    ~config.trusted_proxy.enabled =>
        /\ client.certificate # None
        /\ client.certificate.issuer \in Authorities[config.tls.client_ca_path]

PeerCertificate(config, client) ==
    IF config.trusted_proxy.enabled THEN None ELSE client.certificate

\* The header names are compared in lower case; a header that is not there has
\* no value, and an empty one is None after trimming.
HeaderValue(client, name) ==
    IF name \in DOMAIN client.headers THEN client.headers[name] ELSE None

is_allowed_remote_addr(proxy, addr) ==
    proxy.enabled /\ addr \in proxy.allowed_remote_addrs \ {None}

\* Mutant: the address of the sender is not looked at.
identity_from_any_proxy(proxy, client) ==
    IF proxy.enabled /\ HeaderValue(client, proxy.identity_header) # None
    THEN Identity("TrustedProxy", HeaderValue(client, proxy.identity_header))
    ELSE None

identity_from_trusted_proxy(proxy, client) ==
    IF /\ is_allowed_remote_addr(proxy, client.addr)
       /\ HeaderValue(client, proxy.identity_header) # None
    THEN Identity("TrustedProxy", HeaderValue(client, proxy.identity_header))
    ELSE None

\* The validity window is set around the present, so only a certificate without
\* a subject is refused here; the handshake has verified the rest.
identity_from_mtls_der(certificate) ==
    IF certificate # None /\ certificate.subject # None
    THEN Identity("Mtls", certificate.subject)
    ELSE None

\* None when the connection is refused.
IdentityOf(config, client) ==
    IF config.trusted_proxy.enabled
    THEN identity_from_trusted_proxy(config.trusted_proxy, client)
    ELSE identity_from_mtls_der(PeerCertificate(config, client))
=============================================================================
