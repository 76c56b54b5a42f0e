------------------------------ MODULE AppContext ------------------------------
(***************************************************************************)
(* The context of a service (src/context): NewContext reads the            *)
(* configuration file and fills it up from the environment, and the New... *)
(* methods make clients of the broker, of the function service and of      *)
(* core with the certificates it names.  Those files may be written by     *)
(* CertTool meanwhile: they are checked, and read one after the other      *)
(* later.                                                                  *)
(***************************************************************************)
EXTENDS CertTool

CONSTANTS
    Confs,      \* configuration files: [status, values, templates, subs]: whether the file
                \* loads, the section of each name, which paths are templates and the
                \* broker's subscriptions
    Envs,       \* environments: [svc, mode, vars]; the value of a variable is the sequence
                \* of its parts, with a "=" between any two
    Topics      \* the topics NewSystemBrokerClient is called with: sequences

Unset == ""
Sections == {"function", "core", "broker"}

\* A service's part of the configuration: nothing is set in it.
NoSection == [address |-> <<>>, ca |-> Unset, key |-> Unset, cert |-> Unset]
NoConf == [s \in Sections \cup {"cert"} |-> NoSection]

\* The paths of a section.
Paths == {"ca", "key", "cert"}

\* What a section may name of the tool's output.
Named == [ca |-> {"ca.crt"}, key |-> {"client.key", "server.key"},
          cert |-> {"client.crt", "server.crt"}]

\* What is taken of a variable: it ends before a "=".
Split(value) == value[1]

\* A path with its variable, if it is one that is set.
Resolved(c, e, path) ==
    IF path \in c.templates \cap DOMAIN e.vars THEN Split(e.vars[path]) ELSE path

\* A file names, in every section, nothing or files of the tool's output, directly or by
\* a variable, and the key with its certificate; the broker section, which a service may
\* use as it is, has no variables.
ASSUME ConfsAssumption ==
    \A c \in Confs, e \in Envs :
        /\ c.templates \cap (Files \cup {Unset}) = {}
        /\ c.status \in {"ok", "types"} => DOMAIN c.values = DOMAIN NoConf
        /\ \A s \in DOMAIN NoConf :
            /\ \A p \in Paths :
                \/ Resolved(c, e, c.values[s][p]) \in Named[p] \cup {Unset}
                \/ c.values[s][p] \in c.templates \ DOMAIN e.vars
            /\ \A p \in Paths : c.values[s][p] # Unset
                                => Resolved(c, e, c.values[s][p]) # Unset
            /\ /\ c.templates \subseteq DOMAIN e.vars
               /\ c.values[s].key # Unset /\ c.values[s].cert # Unset
               => (Resolved(c, e, c.values[s].key) = "client.key"
                    <=> Resolved(c, e, c.values[s].cert) = "client.crt")
        /\ \A p \in Paths : c.values["broker"][p] \notin c.templates

VARIABLES
    conf, env,  \* the file and the environment
    sc,         \* SystemConfig, once the context is made
    subs,       \* its Broker.Subscriptions
    making,     \* the New... call under way: where it is and what it has read
    client      \* history: the client that was made, or refused, last

ctxVars == <<conf, env, sc, subs, making, client>>

NoCall == [pc |-> "idle", of |-> "none", cfg |-> NoSection, topics |-> <<>>,
           settled |-> FALSE, runs |-> 0, ca |-> <<>>, crt |-> <<>>]
NoClient == [of |-> "none", address |-> <<>>, tls |-> FALSE, ca |-> <<>>, crt |-> <<>>,
             key |-> <<>>, topics |-> <<>>, settled |-> FALSE]

CtxInit ==
    /\ conf \in Confs /\ env \in Envs
    /\ sc = NoConf /\ subs = <<>> /\ making = [NoCall EXCEPT !.pc = "new"]
    /\ client = NoClient

-----------------------------------------------------------------------------
(* Environment                                                             *)

RunMode == IF env.mode = "native" THEN "native" ELSE "kube"

Host(s) == IF RunMode = "native" THEN "127.0.0.1" ELSE s

CoreHttpPort == IF RunMode = "native" THEN 8443 ELSE 443

getAddress(s) ==
    CASE s = "broker" -> <<"ssl", Host(s), 50010>>
      [] s = "function" -> <<"https", Host(s), 50011>>
      [] OTHER -> <<"https", Host(s), CoreHttpPort>>

-----------------------------------------------------------------------------
(* Loading                                                                 *)

TemplatesIn(c) == {c[s][p] : s \in DOMAIN NoConf, p \in Paths} \cap conf.templates

\* ParseEnv: every variable is replaced, by its value up to a "=", or, if one
\* of them is not set, none is.
ParseEnv(c) ==
    IF TemplatesIn(c) \subseteq DOMAIN env.vars
    THEN [s \in DOMAIN NoConf |-> [f \in DOMAIN NoSection |->
            IF f \in Paths /\ c[s][f] \in TemplatesIn(c) THEN Split(env.vars[c[s][f]]) ELSE c[s][f]]]
    ELSE c

\* LoadYAML: a file that does not parse gives nothing; one with a value of a wrong
\* type gives its other values, and an error.
LoadYAML(file) ==
    IF file.status \in {"ok", "types"} THEN ParseEnv(file.values) ELSE NoConf

DefaultCert == [address |-> <<>>, ca |-> "ca.pem", key |-> "key.pem", cert |-> "crt.pem"]

\* The default of Certificate, for a section that is not there at all.
SetDefaults(c) ==
    IF c["cert"] # NoSection THEN c ELSE [c EXCEPT !["cert"] = DefaultCert]

\* LoadCustomConfig; after an error NewContext sets the defaults over what was read.
LoadCustomConfig == SetDefaults(LoadYAML(conf))

\* Faulty variant: the key is not taken over.
FilledNoKey(c, s) ==
    [address |-> IF c[s].address = <<>> THEN getAddress(s) ELSE c[s].address,
     ca   |-> IF c[s].ca = Unset THEN c["cert"].ca ELSE c[s].ca,
     key  |-> c[s].key,
     cert |-> IF c[s].cert = Unset THEN c["cert"].cert ELSE c[s].cert]

\* What is not set is taken from the environment and the system certificate, field by
\* field.
Filled(c, s) ==
    [address |-> IF c[s].address = <<>> THEN getAddress(s) ELSE c[s].address,
     ca   |-> IF c[s].ca = Unset THEN c["cert"].ca ELSE c[s].ca,
     key  |-> IF c[s].key = Unset THEN c["cert"].key ELSE c[s].key,
     cert |-> IF c[s].cert = Unset THEN c["cert"].cert ELSE c[s].cert]

NewContext ==
    /\ making.pc = "new"
    /\ sc' = [s \in DOMAIN NoConf |->
                IF s = "cert" THEN LoadCustomConfig["cert"] ELSE Filled(LoadCustomConfig, s)]
    /\ subs' = (IF conf.status \in {"ok", "types"} THEN conf.subs ELSE <<>>)
                \o (IF env.svc THEN <<"$link">> ELSE <<>>)
    /\ making' = NoCall
    /\ UNCHANGED <<conf, env, client>>

-----------------------------------------------------------------------------
(* Clients                                                                 *)

FileExists(path) == path \in Files /\ files[path] # Missing

Read(path) == IF path \in Files THEN files[path] ELSE Missing

\* The three files are there; the certificate is one, of one unit.
CheckSystemCert ==
    LET certs == ParseCertificates(Read(sc["cert"].cert))
    IN  /\ \A p \in Paths : FileExists(sc["cert"][p])
        /\ certs.ok /\ Len(certs.val) = 1 /\ certs.val[1].ou = <<"BAETYL">>

\* Go's copy: as much as the target has room for.
Copied(n, s) == SubSeq(s, 1, IF n < Len(s) THEN n ELSE Len(s))

\* NewSystemBrokerClientConfig copies the subscriptions into an empty slice, which
\* takes none of them; the caller's topics are appended.
SystemBrokerTopics(topics) == Copied(0, subs) \o topics

Making(s, cfg, topics) ==
    /\ making.pc = "idle"
    /\ making' = [NoCall EXCEPT !.pc = "ca", !.of = s, !.cfg = cfg, !.topics = topics,
                    !.settled = finished, !.runs = runs]
    /\ client' = NoClient
    /\ UNCHANGED <<conf, env, sc, subs>>

NewFunctionHttpClient == CheckSystemCert /\ Making("function", sc["function"], <<>>)

NewCoreHttpsClient == CheckSystemCert /\ Making("core", sc["core"], <<>>)

NewSystemBrokerClient(topics) ==
    CheckSystemCert /\ Making("broker", sc["broker"], SystemBrokerTopics(topics))

\* NewBrokerClient with the service's own configuration: nothing is checked or filled up.
NewBrokerClient(topics) == Making("own", conf.values["broker"], topics)

\* mqtt's ToClientOptions makes a TLS config if there is a key or a certificate, http's
\* always.
NeedsTLS ==
    making.of \notin {"broker", "own"} \/ making.cfg.key # Unset \/ making.cfg.cert # Unset

Made(tls, ca, crt, key) ==
    [of |-> making.of, address |-> making.cfg.address, tls |-> tls, ca |-> ca, crt |-> crt,
     key |-> key, topics |-> making.topics, settled |-> making.settled /\ runs = making.runs]

Refused == [Made(FALSE, <<>>, <<>>, <<>>) EXCEPT !.of = "refused"]

MakePlain ==
    /\ making.pc = "ca" /\ ~NeedsTLS
    /\ client' = Made(FALSE, <<>>, <<>>, <<>>)
    /\ making' = NoCall
    /\ UNCHANGED <<conf, env, sc, subs>>

\* tlsconfig.Client reads the CA's file ...
ReadCA ==
    LET ca == IF making.cfg.ca = Unset THEN <<>> ELSE Read(making.cfg.ca)
    IN  /\ making.pc = "ca" /\ NeedsTLS
        /\ IF making.cfg.ca = Unset \/ ParseCertificates(ca).ok
           THEN making' = [making EXCEPT !.pc = "cert", !.ca = ca] /\ UNCHANGED client
           ELSE making' = NoCall /\ client' = Refused
        /\ UNCHANGED <<conf, env, sc, subs>>

\* ... the certificate's ...
ReadCert ==
    /\ making.pc = "cert"
    /\ making' = [making EXCEPT !.pc = "key", !.crt = Read(making.cfg.cert)]
    /\ UNCHANGED <<conf, env, sc, subs, client>>

\* ... and the key's, which must be that of the certificate, or there is no client.
ReadKey ==
    LET key == Read(making.cfg.key)
    IN  /\ making.pc = "key"
        /\ client' = IF Fits([crt |-> making.crt, key |-> key])
                     THEN Made(TRUE, making.ca, making.crt, key) ELSE Refused
        /\ making' = NoCall
        /\ UNCHANGED <<conf, env, sc, subs>>

\* NewCoreHttpClient: no check, no TLS.
NewCoreHttpClient ==
    /\ making.pc = "idle"
    /\ client' = [NoClient EXCEPT !.of = "insecure",
                    !.address = <<"http", Host("core"), CoreHttpPort>>]
    /\ UNCHANGED <<conf, env, sc, subs, making>>

CtxNext ==
    \/ NewContext \/ NewCoreHttpClient
    \/ NewFunctionHttpClient \/ NewCoreHttpsClient
    \/ \E topics \in Topics : NewBrokerClient(topics) \/ NewSystemBrokerClient(topics)
    \/ MakePlain \/ ReadCA \/ ReadCert \/ ReadKey

\* A service beside the tool and the library's other callers.
CtxSpec ==
    /\ PkiInit /\ ToolInit /\ CtxInit
    /\ [][\/ PkiNext /\ UNCHANGED <<toolVars, ctxVars>>
          \/ ToolNext /\ UNCHANGED ctxVars
          \/ CtxNext /\ UNCHANGED <<pkiVars, toolVars>>]_<<pkiVars, toolVars, ctxVars>>

-----------------------------------------------------------------------------

\* The file names a key without its certificate, or a variable that is not set.
Mixed ==
    \/ \E s \in Sections : (conf.values[s].key = Unset) # (conf.values[s].cert = Unset)
    \/ ~ conf.templates \subseteq DOMAIN env.vars

\* A client that was made after the check holds the key of its certificate, also when the
\* files are replaced between the check and each of the reads.  If no run of the tool was
\* begun meanwhile, and the last one ended well, the CA it trusts accepts its certificate,
\* and a client is only refused if a section mixes the files of two certificates.
ClientsTrusted ==
    /\ client.of \in Sections =>
        /\ client.tls /\ Fits([crt |-> client.crt, key |-> client.key])
        /\ client.settled /\ now <= CertOf(client).until =>
            LET cas == ParseCertificates(client.ca).val
                roots == {cas[i] : i \in DOMAIN cas}
            IN  Verifies(CertOf(client), roots, roots)
    /\ client.of = "refused" /\ client.settled => Mixed
=============================================================================
