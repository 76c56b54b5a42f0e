--------------------------------- MODULE Pki ---------------------------------
(***************************************************************************)
(* The certificate authority (src/pki): roots, intermediate roots and      *)
(* certificates that are signed by a parent the caller hands in as PEM.    *)
(*                                                                         *)
(* A PEM file is a sequence of blocks; a block that is not good does not   *)
(* parse.  A certificate names the keys of its subject and of its signer;  *)
(* key material, serial numbers and alternative names are left out.        *)
(***************************************************************************)
EXTENDS Naturals, Sequences, FiniteSets, TLC

CONSTANTS
    Given,      \* the CertPems callers bring along: [crt, key]
    Infos,      \* certificate requests: [cn, ou], ou the sequence of units
    Days,       \* the validity periods asked for
    MaxNow,     \* bound: the clock
    MaxCalls    \* bound: calls of the library

RsaPrivateKeyBlockType == "RSA PRIVATE KEY"
EcPrivateKeyBlockType == "EC PRIVATE KEY"
CertificateBlockType == "CERTIFICATE"

Ok(v) == [ok |-> TRUE, val |-> v]
Err == [ok |-> FALSE, val |-> <<>>]

-----------------------------------------------------------------------------
(* Keys and PEM                                                            *)

Block(type, body) == [type |-> type, headers |-> FALSE, good |-> TRUE, body |-> body]

Curves == [P224 |-> 224, P256 |-> 256, P384 |-> 384, P521 |-> 521]

\* size is the length of the modulus, or of the secret scalar: the latter has less bits
\* than its curve when it happens to begin with zeros.
GenCertPrivateKey(dsa, bits, id, zeros) ==
    IF dsa = "rsa" THEN Ok([type |-> RsaPrivateKeyBlockType, id |-> id, size |-> bits])
    ELSE IF dsa \in DOMAIN Curves
         THEN Ok([type |-> EcPrivateKeyBlockType, id |-> id, size |-> Curves[dsa] - zeros])
         ELSE Err

EncodeCertPrivateKey(priv) ==
    IF priv.type \in {RsaPrivateKeyBlockType, EcPrivateKeyBlockType}
    THEN Ok(<<Block(priv.type, priv)>>) ELSE Err

\* The first block counts.
ParseCertPrivateKey(pem) ==
    IF /\ pem # <<>> /\ Head(pem).good
       /\ Head(pem).type \in {RsaPrivateKeyBlockType, EcPrivateKeyBlockType}
    THEN Ok(Head(pem).body) ELSE Err

\* Blocks of another type or with headers are skipped; the others must parse.
ParseCertificates(pem) ==
    LET blocks == {i \in DOMAIN pem : pem[i].type = CertificateBlockType /\ ~pem[i].headers}
        Nth(n) == CHOOSE i \in blocks : Cardinality({j \in blocks : j <= i}) = n
    IN  IF blocks = {} \/ \E i \in blocks : ~pem[i].good THEN Err
        ELSE Ok([n \in 1 .. Cardinality(blocks) |-> pem[Nth(n)].body])

EncodeCertificates(certs) == [i \in DOMAIN certs |-> Block(CertificateBlockType, certs[i])]

SigAlgorithmType(priv) ==
    IF priv.type = RsaPrivateKeyBlockType
    THEN <<"RSA", IF priv.size >= 4096 THEN 512 ELSE IF priv.size >= 3072 THEN 384 ELSE 256>>
    ELSE LET keySize == priv.size \div 8 + 8
         IN  <<"ECDSA", IF keySize >= 72 THEN 512 ELSE IF keySize >= 54 THEN 384 ELSE 256>>

Family(priv) == IF priv.type = RsaPrivateKeyBlockType THEN "RSA" ELSE "ECDSA"

\* crypto/x509: the algorithm must suit the key, and the key the parent's certificate
\* (the template of a self-signed one has no key yet).
CreateCertificate(template, parent, selfSigned, caKey) ==
    IF template.alg[1] = Family(caKey) /\ (selfSigned \/ parent.key = caKey.id)
    THEN Ok([template EXCEPT !.issuer = parent.subject, !.signer = caKey.id])
    ELSE Err

-----------------------------------------------------------------------------
(* Issuing                                                                 *)

\* issuer and signer are filled in by CreateCertificate.
Template(ca, req, days, t, caKey) ==
    [subject |-> req.cn, ou |-> req.ou, key |-> req.key, ca |-> ca, from |-> t,
     until |-> t + days, alg |-> SigAlgorithmType(caKey), issuer |-> "", signer |-> 0]

\* x509.CreateCertificateRequest and its parsing: the request carries the key.
Request(info, priv) == [cn |-> info.cn, ou |-> info.ou, key |-> priv.id]

NewKey(id) == GenCertPrivateKey("P256", 2048, id, 0).val

\* Faulty variant: the certificate is signed with the key it is made for.
SignedOwn(ca, req, days, t, parent) ==
    LET caKey == ParseCertPrivateKey(parent.key)
        caCert == ParseCertificates(parent.crt)
    IN  IF ~caKey.ok \/ ~caCert.ok THEN Err
        ELSE CreateCertificate(Template(ca, req, days, t, NewKey(req.key)), caCert.val[1],
                               FALSE, NewKey(req.key))

\* The parent's key and first certificate, and then the certificate.
Signed(ca, req, days, t, parent) ==
    LET caKey == ParseCertPrivateKey(parent.key)
        caCert == ParseCertificates(parent.crt)
    IN  IF ~caKey.ok \/ ~caCert.ok THEN Err
        ELSE CreateCertificate(Template(ca, req, days, t, caKey.val), caCert.val[1],
                               FALSE, caKey.val)

\* The answer of a call that also makes the key.
CertPem(cert, priv) ==
    IF cert.ok THEN Ok([crt |-> EncodeCertificates(<<cert.val>>),
                        key |-> EncodeCertPrivateKey(priv).val])
    ELSE Err

CreateSelfSignedRootCert(info, days, t, id) ==
    LET priv == NewKey(id)
        template == Template(TRUE, Request(info, priv), days, t, priv)
    IN  CertPem(CreateCertificate(template, template, TRUE, priv), priv)

CreateRootCert(info, days, t, id, parent) ==
    CertPem(Signed(TRUE, Request(info, NewKey(id)), days, t, parent), NewKey(id))

\* The caller made the key and sends a request, which may not parse.
CreateSubCert(csr, days, t, parent) ==
    LET cert == IF csr.ok THEN Signed(FALSE, csr.val, days, t, parent) ELSE Err
    IN  IF cert.ok THEN Ok(EncodeCertificates(<<cert.val>>)) ELSE Err

CreateSubCertWithKey(info, days, t, id, parent) ==
    LET crt == CreateSubCert(Ok(Request(info, NewKey(id))), days, t, parent)
    IN  IF crt.ok THEN Ok([crt |-> crt.val, key |-> EncodeCertPrivateKey(NewKey(id)).val])
        ELSE Err

CertOf(pem) == ParseCertificates(pem.crt).val[1]
Parses(pem) == ParseCertificates(pem.crt).ok /\ ParseCertPrivateKey(pem.key).ok

\* The CertPem can sign: what is in it parses and belongs together.
Fits(pem) == Parses(pem) /\ CertOf(pem).key = ParseCertPrivateKey(pem.key).val.id

\* No two certificates are given that have the same name and the same key, and the keys are
\* numbered from 1 to MaxGivenKey.
MaxGivenKey == 10

ASSUME GivenAssumption ==
    /\ Days \subseteq Nat
    /\ \A p \in Given : Parses(p) => CertOf(p).key \in 1 .. MaxGivenKey
    /\ \A p, q \in {r \in Given : Parses(r)} :
        CertOf(p).key = CertOf(q).key /\ CertOf(p).subject = CertOf(q).subject
            => CertOf(p) = CertOf(q)

-----------------------------------------------------------------------------
VARIABLES
    now,        \* the clock
    ids,        \* how many keys were made
    pems,       \* the CertPems callers hold
    call        \* history: the last call: how often, its parent, and what it returned

pkiVars == <<now, ids, pems, call>>

NoPem == [crt |-> <<>>, key |-> <<>>]

PkiInit ==
    /\ now = 0 /\ ids = MaxGivenKey
    /\ pems = Given
    /\ call = [n |-> 0, op |-> "none", parent |-> NoPem, result |-> Err]

Tick == now < MaxNow /\ now' = now + 1 /\ UNCHANGED <<ids, pems, call>>

Called(op, parent, result) ==
    /\ call.n < MaxCalls
    /\ call' = [n |-> call.n + 1, op |-> op, parent |-> parent, result |-> result]
    /\ ids' = ids + 1
    /\ pems' = IF result.ok THEN pems \cup {result.val} ELSE pems
    /\ UNCHANGED now

CallRoot(info, days) ==
    Called("root", NoPem, CreateSelfSignedRootCert(info, days, now, ids + 1))

CallIntermediate(info, days, parent) ==
    Called("intermediate", parent, CreateRootCert(info, days, now, ids + 1, parent))

CallSub(info, days, parent) ==
    Called("sub", parent, CreateSubCertWithKey(info, days, now, ids + 1, parent))

\* CreateSubCert, with a request that does not parse.
CallUnparsed(days, parent) ==
    Called("unparsed", parent, CreateSubCert(Err, days, now, parent))

PkiNext ==
    \/ Tick
    \/ \E days \in Days, parent \in pems : CallUnparsed(days, parent)
    \/ \E info \in Infos, days \in Days :
        \/ CallRoot(info, days)
        \/ \E parent \in pems : CallIntermediate(info, days, parent) \/ CallSub(info, days, parent)

PkiSpec == PkiInit /\ [][PkiNext]_pkiVars

-----------------------------------------------------------------------------
(* What a TLS peer accepts                                                 *)

\* p may have signed cert.
Signs(p, cert) == p.ca /\ p.subject = cert.issuer /\ p.key = cert.signer

InDate(cert) == cert.from <= now /\ now <= cert.until

\* With the CAs in accepted every certificate of pool that they or the roots vouch for
\* is in it as well.
Closed(accepted, pool, roots) ==
    \A c \in pool :
        InDate(c) /\ (c \in roots \/ \E p \in accepted : Signs(p, c)) => c \in accepted

\* x509.Verify: a path of certificates in date, signed by CAs, to one of the roots.  Those
\* that have one are the smallest closed set.
Verifies(cert, pool, roots) ==
    \A accepted \in SUBSET (pool \cup {cert}) :
        Closed(accepted, pool \cup {cert}, roots) => cert \in accepted

\* A parent whose parts belong together can always issue, with any kind of key, and no
\* other can; a request that does not parse gets nothing.  What it issued is accepted as long as it is valid and its parent would
\* be, if the parent is a CA, and else never.
IssuedVerifies ==
    LET pool == {CertOf(p) : p \in {q \in pems : Parses(q)}}
        roots == {c \in pool : c.signer = c.key}
        parent == CertOf(call.parent)
        cert == CertOf(call.result.val)
    IN  /\ call.op \in {"intermediate", "sub"} => (call.result.ok <=> Fits(call.parent))
        /\ call.op = "root" => call.result.ok
        /\ call.op = "unparsed" => ~call.result.ok
        /\ call.result.ok => Fits(call.result.val)
        /\ call.result.ok /\ call.op # "root" =>
            (Verifies(cert, pool, roots) <=>
                parent.ca /\ Verifies(parent, pool, roots) /\ now <= cert.until)
=============================================================================
