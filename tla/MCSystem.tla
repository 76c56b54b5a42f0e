------------------------------- MODULE MCSystem -------------------------------
(***************************************************************************)
(* The certificate library with its callers: any caller, the tool and a    *)
(* service that makes clients with the files of the tool, for TLC; and     *)
(* what shares no state with them: the plugins of a service, the           *)
(* allocators of ports and packet ids and the rules of topics.             *)
(***************************************************************************)
EXTENDS AppContext, Plugins, Allocators, TopicRules

Cert(cn, id, ca, issuer, signer) ==
    [subject |-> cn, ou |-> <<"X">>, key |-> id, ca |-> ca, from |-> 0, until |-> 1,
     alg |-> <<"RSA", 256>>, issuer |-> issuer, signer |-> signer]

Rsa(id, bits) == GenCertPrivateKey("rsa", bits, id, 0).val
Ec(curve, id) == GenCertPrivateKey(curve, 0, id, 1).val

GivenPem(cert, key) == [crt |-> EncodeCertificates(<<cert>>), key |-> EncodeCertPrivateKey(key).val]

\* An RSA and an ECDSA root, a key of another certificate, a certificate that is no CA,
\* and files that do not parse.
MCGiven ==
    {GivenPem(Cert("rsa", 1, TRUE, "rsa", 1), Rsa(1, 3072)),
     GivenPem(Cert("ec", 2, TRUE, "ec", 2), Ec("P521", 2)),
     GivenPem(Cert("mixed", 3, TRUE, "mixed", 3), Rsa(4, 4096)),
     GivenPem(Cert("leaf", 5, FALSE, "rsa", 1), Ec("P224", 5)),
     [crt |-> <<[Block(CertificateBlockType, Cert("rsa", 1, TRUE, "rsa", 1)) EXCEPT !.headers = TRUE]>>,
      key |-> EncodeCertPrivateKey(Rsa(1, 2048)).val],
     [crt |-> EncodeCertificates(<<Cert("rsa", 1, TRUE, "rsa", 1)>>), key |-> <<>>]}

MCInfos == {[cn |-> "a", ou |-> <<"BAETYL">>]}

Sect(ca, key, cert) == [address |-> <<>>, ca |-> ca, key |-> key, cert |-> cert]
ClientFiles == Sect("ca.crt", "client.key", "client.crt")
ServerFiles == Sect("ca.crt", "server.key", "server.crt")

File(status, cert, broker, templates) ==
    [status |-> status, templates |-> templates, subs |-> <<"own">>,
     values |-> [NoConf EXCEPT !["cert"] = cert, !["broker"] = broker]]

\* No file; a file that loads partly; a broker section with its own key only; and a
\* variable.
MCConfs ==
    {File("absent", NoSection, NoSection, {}),
     File("types", ClientFiles, ServerFiles, {}),
     File("ok", ClientFiles, Sect("", "server.key", ""), {}),
     File("ok", Sect("ca.crt", "$KEY", "client.crt"), ServerFiles, {"$KEY"})}

MCEnvs ==
    {[svc |-> TRUE, mode |-> "native", vars |-> "$KEY" :> <<"client.key", "v2">>],
     [svc |-> FALSE, mode |-> "android", vars |-> "$OTHER" :> <<"other">>]}

MCTopics == {<<"t">>}

\* The smallest range at either end of what is allowed, and ranges just outside.
MCRanges == {<<1024, 1026>>, <<65534, 65535>>, <<65534, 65536>>, <<1023, 1025>>, <<2000, 2000>>}

MCCheckedLevels ==
    {<<>>, <<"w">>, Plus, Hash, <<"$">>, <<"$", "w">>, <<"$", "+">>, <<"w", "#">>, <<"w", "NUL">>}
MCDeviceLevels == {<<>>, <<"$", "baetyl">>, <<"device">>, <<"thing">>, <<"some", "thing">>, <<"d">>}
MCSubscriptions == [1 .. 2 -> {<<"w">>, <<"$", "w">>, Plus, Hash}] \X (0 .. 2)
MCSysTopics == {{}, {<<"$", "w">>}}

-----------------------------------------------------------------------------
PluginsIdle == pluginVars = <<<<>>, <<>>, [u \in Users |-> Idle], {}, {}, 0, {}, NotYet>>
AllocatorsIdle == NoPorts /\ next = 1 /\ NoneDrawn
LibraryIdle ==
    /\ now = 0 /\ call.n = 0 /\ runs = 0 /\ making.pc = "new"
    /\ conf.status = "absent" /\ env.svc

libraryVars == <<pkiVars, toolVars, ctxVars>>
allocVars == <<portVars, idVars>>

\* The library's other callers, and what shares no state, have behaviours of their own.
\* Bound: one topic is checked.
LibraryNext ==
    \/ runs = 0 /\ making.pc = "new" /\ PkiNext /\ UNCHANGED <<toolVars, ctxVars>>
    \/ call.n = 0 /\ Tick /\ UNCHANGED <<toolVars, ctxVars>>
    \/ call.n = 0 /\ ToolNext /\ UNCHANGED ctxVars
    \/ call.n = 0 /\ CtxNext /\ UNCHANGED <<pkiVars, toolVars>>

SystemNext ==
    /\ topicCall = NoTopicCall
    /\ \/ /\ PluginsIdle /\ AllocatorsIdle /\ LibraryNext
          /\ UNCHANGED <<pluginVars, allocVars, topicCall>>
       \/ /\ LibraryIdle /\ AllocatorsIdle /\ PluginNext
          /\ UNCHANGED <<libraryVars, allocVars, topicCall>>
       \/ /\ LibraryIdle /\ PluginsIdle /\ AllocNext
          /\ UNCHANGED <<libraryVars, pluginVars, topicCall>>
       \/ /\ LibraryIdle /\ PluginsIdle /\ AllocatorsIdle /\ TopicNext
          /\ UNCHANGED <<libraryVars, pluginVars, allocVars>>

SystemInit == PkiInit /\ ToolInit /\ CtxInit /\ PluginInit /\ AllocInit /\ TopicInit

SystemSpec == SystemInit /\ [][SystemNext]_<<libraryVars, pluginVars, allocVars, topicCall>>
=============================================================================
