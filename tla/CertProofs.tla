------------------------------ MODULE CertProofs ------------------------------
(***************************************************************************)
(* Proofs about the certificate library, its tool and the clients that     *)
(* are made with the tool's files.                                         *)
(***************************************************************************)
EXTENDS AppContext, FiniteSetTheorems, TLAPS

-----------------------------------------------------------------------------
(* PEM                                                                     *)

\* EncodeCertificates and ParseCertificates are inverse for one certificate.
LEMMA OneCertificate ==
    ASSUME NEW c
    PROVE  LET r == ParseCertificates(EncodeCertificates(<<c>>))
           IN  r.ok /\ DOMAIN r.val = {1} /\ r.val[1] = c
<1> DEFINE pem == EncodeCertificates(<<c>>)
           blocks == {i \in DOMAIN pem : pem[i].type = CertificateBlockType /\ ~pem[i].headers}
           Nth(n) == CHOOSE i \in blocks : Cardinality({j \in blocks : j <= i}) = n
<1>1. DOMAIN pem = {1} /\ pem[1] = Block(CertificateBlockType, c)
    BY DEF EncodeCertificates
<1>2. /\ pem[1].type = CertificateBlockType /\ pem[1].headers = FALSE
      /\ pem[1].good = TRUE /\ pem[1].body = c
    BY <1>1 DEF Block
<1> HIDE DEF pem
<1>3. blocks = {1}
    BY <1>1, <1>2
<1>4. Cardinality(blocks) = 1
    BY <1>3, FS_Singleton
<1> HIDE DEF blocks
<1>5. {j \in blocks : j <= 1} = {1}
    BY <1>3
<1>6. Nth(1) = 1
    BY <1>3, <1>4, <1>5
<1> HIDE DEF Nth
<1>7. ParseCertificates(pem) = Ok([n \in 1 .. 1 |-> pem[Nth(n)].body])
  <2>1. ~(blocks = {} \/ \E i \in blocks : ~pem[i].good)
    BY <1>2, <1>3
  <2>2. ParseCertificates(pem) = Ok([n \in 1 .. Cardinality(blocks) |-> pem[Nth(n)].body])
    BY <2>1 DEF ParseCertificates, blocks, Nth
  <2> QED BY <2>2, <1>4
<1>8. 1 .. 1 = {1}
    OBVIOUS
<1> QED BY <1>2, <1>6, <1>7, <1>8 DEF Ok, pem

\* A key that NewKey makes is read back as it was.
LEMMA OneKey ==
    ASSUME NEW id
    PROVE  /\ NewKey(id).id = id /\ Family(NewKey(id)) = "ECDSA"
           /\ SigAlgorithmType(NewKey(id))[1] = "ECDSA"
           /\ LET r == ParseCertPrivateKey(EncodeCertPrivateKey(NewKey(id)).val)
              IN  r.ok /\ r.val.id = id
<1>1. NewKey(id) = [type |-> EcPrivateKeyBlockType, id |-> id, size |-> 256]
    BY DEF NewKey, GenCertPrivateKey, Curves, Ok
<1>2. EncodeCertPrivateKey(NewKey(id)).val = <<Block(EcPrivateKeyBlockType, NewKey(id))>>
    BY <1>1 DEF EncodeCertPrivateKey, Ok
<1> DEFINE b == Block(EcPrivateKeyBlockType, NewKey(id))
<1>3. b.good /\ b.type = EcPrivateKeyBlockType /\ b.body = NewKey(id)
    BY DEF Block
<1> HIDE DEF b
<1>4. <<b>> # <<>> /\ Head(<<b>>) = b
    OBVIOUS
<1>5. ParseCertPrivateKey(<<b>>) = Ok(NewKey(id))
    BY <1>3, <1>4 DEF ParseCertPrivateKey
<1>6. EcPrivateKeyBlockType # RsaPrivateKeyBlockType
    BY DEF EcPrivateKeyBlockType, RsaPrivateKeyBlockType
<1> QED BY <1>1, <1>2, <1>5, <1>6 DEF b, Ok, Family, SigAlgorithmType

\* The certificates in a PEM file.
Certificates(pem) ==
    {ParseCertificates(pem).val[i] : i \in DOMAIN ParseCertificates(pem).val}

\* What CertPem puts together belongs together.
LEMMA MadePem ==
    ASSUME NEW cert, NEW id, cert.key = id,
           NEW pem, pem = [crt |-> EncodeCertificates(<<cert>>),
                           key |-> EncodeCertPrivateKey(NewKey(id)).val]
    PROVE  Fits(pem) /\ CertOf(pem) = cert /\ Certificates(pem.crt) = {cert}
<1>1. /\ ParseCertificates(pem.crt).ok /\ ParseCertificates(pem.crt).val[1] = cert
      /\ DOMAIN ParseCertificates(pem.crt).val = {1}
    BY OneCertificate
<1>2. ParseCertPrivateKey(pem.key).ok /\ ParseCertPrivateKey(pem.key).val.id = id
    BY OneKey
<1> QED BY <1>1, <1>2 DEF Fits, Parses, CertOf, Certificates

\* A CertPem of a self-signed root.
RootPem(pem, t, days, id) ==
    /\ Fits(pem) /\ CertOf(pem).ca /\ CertOf(pem) \in Certificates(pem.crt)
    /\ CertOf(pem).key = id /\ CertOf(pem).signer = id
    /\ CertOf(pem).from = t /\ CertOf(pem).until = t + days

\* A self-signed root is always made.
LEMMA RootIssued ==
    ASSUME NEW info, NEW days, NEW t, NEW id
    PROVE  LET r == CreateSelfSignedRootCert(info, days, t, id)
           IN  r.ok = TRUE /\ RootPem(r.val, t, days, id) /\ CertOf(r.val).subject = info.cn
<1> DEFINE priv == NewKey(id)
           template == Template(TRUE, Request(info, priv), days, t, priv)
           cert == [template EXCEPT !.issuer = template.subject, !.signer = priv.id]
           issued == CreateCertificate(template, template, TRUE, priv)
           r == CreateSelfSignedRootCert(info, days, t, id)
<1>1. template.alg[1] = Family(priv)
    BY OneKey DEF Template
<1>2. issued = Ok(cert)
    BY <1>1 DEF CreateCertificate
<1>3. /\ cert.key = id /\ cert.signer = id /\ cert.ca /\ cert.from = t
      /\ cert.until = t + days /\ cert.subject = info.cn
    BY OneKey DEF Template, Request
<1>4. r = CertPem(issued, priv)
    BY DEF CreateSelfSignedRootCert
<1> HIDE DEF cert, template, r, issued
<1>5. r = Ok([crt |-> EncodeCertificates(<<cert>>), key |-> EncodeCertPrivateKey(priv).val])
    BY <1>2, <1>4 DEF CertPem, Ok
<1>6. r.ok = TRUE /\ r.val = [crt |-> EncodeCertificates(<<cert>>), key |-> EncodeCertPrivateKey(priv).val]
    BY <1>5 DEF Ok
<1>7. Fits(r.val) /\ CertOf(r.val) = cert /\ cert \in Certificates(r.val.crt)
    BY <1>3, <1>6, MadePem
<1> QED BY <1>3, <1>6, <1>7 DEF r, RootPem

\* An answer with a signed certificate, which names its parent.
NamesParent(r, parent, t, days, id) ==
    /\ r.ok \in BOOLEAN /\ (r.ok <=> Fits(parent))
    /\ r.ok => /\ r.val.key = id /\ r.val.signer = CertOf(parent).key
               /\ r.val.issuer = CertOf(parent).subject
               /\ r.val.from = t /\ r.val.until = t + days

\* Signed answers exactly when the parent's parts belong together.
LEMMA SignedNames ==
    ASSUME NEW ca, NEW info, NEW days, NEW t, NEW id, NEW parent
    PROVE  NamesParent(Signed(ca, Request(info, NewKey(id)), days, t, parent),
                       parent, t, days, id)
<1> DEFINE caKey == ParseCertPrivateKey(parent.key)
           caCert == ParseCertificates(parent.crt)
           template == Template(ca, Request(info, NewKey(id)), days, t, caKey.val)
           cert == [template EXCEPT !.issuer = caCert.val[1].subject, !.signer = caKey.val.id]
           r == Signed(ca, Request(info, NewKey(id)), days, t, parent)
<1>1. template.alg[1] = Family(caKey.val)
    BY DEF Template, SigAlgorithmType, Family
<1>2. /\ cert.key = id /\ cert.signer = caKey.val.id /\ cert.issuer = caCert.val[1].subject
      /\ cert.from = t /\ cert.until = t + days
    BY OneKey DEF Template, Request
<1>3. r = IF ~caKey.ok \/ ~caCert.ok THEN Err
          ELSE IF caCert.val[1].key = caKey.val.id THEN Ok(cert) ELSE Err
    BY <1>1 DEF Signed, CreateCertificate
<1>4. Fits(parent) <=> caCert.ok /\ caKey.ok /\ caCert.val[1].key = caKey.val.id
    BY DEF Fits, Parses, CertOf
<1> HIDE DEF cert, r, template
<1>5. CASE Fits(parent)
  <2>1. r = Ok(cert)
    BY <1>3, <1>4, <1>5
  <2> QED BY <2>1, <1>2, <1>4, <1>5 DEF Ok, CertOf, r, NamesParent
<1>6. CASE ~Fits(parent)
  <2>1. r = Err
    BY <1>3, <1>4, <1>6
  <2> QED BY <2>1, <1>6 DEF Err, r, NamesParent
<1> QED BY <1>5, <1>6

\* The answer as a CertPem.
SignedPem(r, parent, t, days, id) ==
    /\ r.ok \in BOOLEAN /\ (r.ok <=> Fits(parent))
    /\ r.ok => /\ Fits(r.val) /\ CertOf(r.val).key = id
               /\ CertOf(r.val).signer = CertOf(parent).key
               /\ CertOf(r.val).issuer = CertOf(parent).subject
               /\ CertOf(r.val).from = t /\ CertOf(r.val).until = t + days

LEMMA IntermediateIssued ==
    ASSUME NEW info, NEW days, NEW t, NEW id, NEW parent
    PROVE  SignedPem(CreateRootCert(info, days, t, id, parent), parent, t, days, id)
<1> DEFINE s == Signed(TRUE, Request(info, NewKey(id)), days, t, parent)
           r == CreateRootCert(info, days, t, id, parent)
<1>1. r = IF s.ok THEN Ok([crt |-> EncodeCertificates(<<s.val>>),
                           key |-> EncodeCertPrivateKey(NewKey(id)).val]) ELSE Err
    BY DEF CreateRootCert, CertPem
<1>0. NamesParent(s, parent, t, days, id)
    BY SignedNames
<1> HIDE DEF s
<1>2. /\ s.ok \in BOOLEAN
      /\ s.ok <=> Fits(parent)
      /\ s.ok => /\ s.val.key = id /\ s.val.signer = CertOf(parent).key
                 /\ s.val.issuer = CertOf(parent).subject
                 /\ s.val.from = t /\ s.val.until = t + days
    BY <1>0 DEF NamesParent
<1> HIDE DEF r
<1>3. CASE s.ok
  <2>1. r.ok = TRUE /\ r.val = [crt |-> EncodeCertificates(<<s.val>>),
                                key |-> EncodeCertPrivateKey(NewKey(id)).val]
    BY <1>1, <1>3 DEF Ok
  <2>2. Fits(r.val) /\ CertOf(r.val) = s.val
    BY <2>1, <1>2, <1>3, MadePem
  <2> QED BY <2>1, <2>2, <1>2, <1>3 DEF SignedPem, r
<1>4. CASE ~s.ok
  <2>1. r.ok = FALSE
    BY <1>1, <1>4 DEF Err
  <2> QED BY <2>1, <1>2, <1>4 DEF SignedPem, r
<1> QED BY <1>3, <1>4

LEMMA SubIssued ==
    ASSUME NEW info, NEW days, NEW t, NEW id, NEW parent
    PROVE  SignedPem(CreateSubCertWithKey(info, days, t, id, parent), parent, t, days, id)
<1> DEFINE s == Signed(FALSE, Request(info, NewKey(id)), days, t, parent)
           c == CreateSubCert(Ok(Request(info, NewKey(id))), days, t, parent)
           r == CreateSubCertWithKey(info, days, t, id, parent)
<1>1. /\ c = IF s.ok THEN Ok(EncodeCertificates(<<s.val>>)) ELSE Err
      /\ r = IF c.ok THEN Ok([crt |-> c.val, key |-> EncodeCertPrivateKey(NewKey(id)).val])
            ELSE Err
    BY DEF CreateSubCertWithKey, CreateSubCert, Ok
<1>0. NamesParent(s, parent, t, days, id)
    BY SignedNames
<1> HIDE DEF s
<1>2. /\ s.ok \in BOOLEAN
      /\ s.ok <=> Fits(parent)
      /\ s.ok => /\ s.val.key = id /\ s.val.signer = CertOf(parent).key
                 /\ s.val.issuer = CertOf(parent).subject
                 /\ s.val.from = t /\ s.val.until = t + days
    BY <1>0 DEF NamesParent
<1> HIDE DEF r, c
<1>3. CASE s.ok
  <2>0. c.ok = TRUE /\ c.val = EncodeCertificates(<<s.val>>)
    BY <1>1, <1>3 DEF Ok
  <2>1. r.ok = TRUE /\ r.val = [crt |-> EncodeCertificates(<<s.val>>),
                                key |-> EncodeCertPrivateKey(NewKey(id)).val]
    BY <1>1, <2>0 DEF Ok
  <2>2. Fits(r.val) /\ CertOf(r.val) = s.val
    BY <2>1, <1>2, <1>3, MadePem
  <2> QED BY <2>1, <2>2, <1>2, <1>3 DEF SignedPem, r
<1>4. CASE ~s.ok
  <2>1. r.ok = FALSE
    BY <1>1, <1>4 DEF Err
  <2> QED BY <2>1, <1>2, <1>4 DEF SignedPem, r
<1> QED BY <1>3, <1>4

-----------------------------------------------------------------------------
(* Paths of certificates                                                   *)

\* A certificate verifies if and only if it is in date and a root, or signed by one that
\* verifies.
LEMMA PathStep ==
    ASSUME NEW pool, NEW roots, NEW cert \in pool
    PROVE  Verifies(cert, pool, roots) <=>
               /\ InDate(cert)
               /\ cert \in roots \/ \E p \in pool : Signs(p, cert) /\ Verifies(p, pool, roots)
<1> DEFINE Good(c) == \A S \in SUBSET pool : Closed(S, pool, roots) => c \in S
           A == {c \in pool : Good(c)}
           Vouched(c) == InDate(c) /\ (c \in roots \/ \E p \in A : Signs(p, c))
           B == {c \in pool : Vouched(c)}
<1>1. \A c \in pool : Verifies(c, pool, roots) <=> c \in A
  <2> TAKE c \in pool
  <2>1. pool \cup {c} = pool
    OBVIOUS
  <2> QED BY <2>1 DEF Verifies
<1>2. Closed(A, pool, roots)
    BY DEF Closed
<1>3. B \subseteq A
    BY <1>2 DEF Closed
<1>4. Closed(B, pool, roots)
    BY <1>3 DEF Closed
<1>5. A \subseteq B
    BY <1>4
<1> HIDE DEF A
<1> QED BY <1>1, <1>3, <1>5

-----------------------------------------------------------------------------
(* The library with any callers                                            *)

CertPems == {p \in pems : Parses(p)}

\* Every certificate was made with a key of its own.
KeysInv ==
    /\ now \in Nat /\ ids \in Nat
    /\ \A p \in CertPems : CertOf(p).key \in Nat /\ CertOf(p).key <= ids
    /\ \A p, q \in CertPems :
        CertOf(p).key = CertOf(q).key /\ CertOf(p).subject = CertOf(q).subject
            => CertOf(p) = CertOf(q)

\* The last call, and the certificate it returned.
CallInv ==
    /\ call.op \in {"none", "root", "intermediate", "sub", "unparsed"}
    /\ call.result.ok \in BOOLEAN
    /\ call.op \in {"none", "unparsed"} => ~call.result.ok
    /\ call.op = "root" => call.result.ok
    /\ call.op \in {"intermediate", "sub"} => (call.result.ok <=> Fits(call.parent))
    /\ call.result.ok =>
        /\ call.result.val \in pems /\ Fits(call.result.val)
        /\ CertOf(call.result.val).from \in Nat /\ CertOf(call.result.val).from <= now
    /\ call.result.ok /\ call.op # "root" =>
        /\ call.parent \in pems /\ Fits(call.parent)
        /\ CertOf(call.result.val).signer = CertOf(call.parent).key
        /\ CertOf(call.result.val).issuer = CertOf(call.parent).subject
        /\ CertOf(call.result.val).key # CertOf(call.parent).key

PkiInv == KeysInv /\ CallInv

LEMMA PkiInvInit == PkiInit => PkiInv
<1> SUFFICES ASSUME PkiInit PROVE PkiInv
    OBVIOUS
<1>1. KeysInv
    BY GivenAssumption DEF PkiInit, KeysInv, CertPems, MaxGivenKey
<1>2. CallInv
    BY DEF PkiInit, CallInv, Err
<1> QED BY <1>1, <1>2 DEF PkiInv

\* A CertPem with a fresh key keeps the keys apart.
LEMMA FreshKey ==
    ASSUME KeysInv, NEW pem, Fits(pem), CertOf(pem).key = ids + 1,
           pems' = pems \cup {pem}, ids' = ids + 1, now' = now
    PROVE  KeysInv'
<1>1. \A p \in CertPems' : p \in CertPems \/ p = pem
    BY DEF CertPems, Parses, ParseCertificates, ParseCertPrivateKey
<1>2. \A p \in CertPems' : CertOf(p).key \in Nat /\ CertOf(p).key <= ids + 1
    BY <1>1 DEF KeysInv
<1>3. \A p \in CertPems : CertOf(p).key # ids + 1
    BY DEF KeysInv
<1>4. \A p, q \in CertPems' :
        CertOf(p).key = CertOf(q).key /\ CertOf(p).subject = CertOf(q).subject
            => CertOf(p) = CertOf(q)
    BY <1>1, <1>3 DEF KeysInv
<1> QED BY <1>2, <1>4 DEF KeysInv

\* A call that issued nothing, or a CertPem with a fresh key, whose certificate names its
\* parent.
LEMMA CalledKeeps ==
    ASSUME PkiInv, NEW op \in {"root", "intermediate", "sub"}, NEW parent, NEW r,
           NEW days,
           op = "root" \/ (parent \in pems /\ SignedPem(r, parent, now, days, ids + 1)),
           op = "root" => /\ r.ok = TRUE /\ Fits(r.val) /\ CertOf(r.val).key = ids + 1
                          /\ CertOf(r.val).from = now,
           Called(op, parent, r)
    PROVE  PkiInv'
<1>1. /\ call' = [n |-> call.n + 1, op |-> op, parent |-> parent, result |-> r]
      /\ ids' = ids + 1 /\ now' = now
      /\ r.ok => pems' = pems \cup {r.val}
      /\ ~r.ok => pems' = pems
    BY DEF Called
<1>2. /\ r.ok \in BOOLEAN
      /\ r.ok => Fits(r.val) /\ CertOf(r.val).key = ids + 1 /\ CertOf(r.val).from = now
    BY DEF SignedPem
<1>3. KeysInv'
  <2>1. CASE r.ok
    BY <2>1, <1>1, <1>2, FreshKey DEF PkiInv
  <2>2. CASE ~r.ok
    BY <2>2, <1>1 DEF PkiInv, KeysInv, CertPems
  <2> QED BY <2>1, <2>2
<1>4. op # "root" /\ r.ok => /\ CertOf(parent).key # ids + 1
                             /\ CertOf(r.val).signer = CertOf(parent).key
                             /\ CertOf(r.val).issuer = CertOf(parent).subject
                             /\ Fits(parent)
    BY DEF PkiInv, KeysInv, CertPems, Fits, SignedPem
<1>5. op # "root" => parent \in pems /\ (r.ok <=> Fits(parent))
    BY DEF SignedPem
<1>6. call'.op = op /\ call'.parent = parent /\ call'.result = r
    BY <1>1
<1>7. now \in Nat
    BY DEF PkiInv, KeysInv
<1>8. CallInv'
  <2>1. r.ok => r.val \in pems'
    BY <1>1
  <2>2. parent \in pems => parent \in pems'
    BY <1>1, <1>2
  <2> QED BY <1>1, <1>2, <1>4, <1>5, <1>6, <1>7, <2>1, <2>2 DEF CallInv
<1> QED BY <1>3, <1>8 DEF PkiInv

LEMMA PkiInvNext == PkiInv /\ [PkiNext]_pkiVars => PkiInv'
<1> SUFFICES ASSUME PkiInv, [PkiNext]_pkiVars PROVE PkiInv'
    OBVIOUS
<1>1. CASE Tick
    BY <1>1 DEF Tick, PkiInv, KeysInv, CallInv, CertPems
<1>2. CASE UNCHANGED pkiVars
    BY <1>2 DEF pkiVars, PkiInv, KeysInv, CallInv, CertPems
<1>3. ASSUME NEW info \in Infos, NEW days \in Days, CallRoot(info, days)
      PROVE  PkiInv'
  <2> DEFINE r == CreateSelfSignedRootCert(info, days, now, ids + 1)
  <2>1. r.ok = TRUE /\ RootPem(r.val, now, days, ids + 1)
    BY RootIssued
  <2>2. Called("root", NoPem, r)
    BY <1>3 DEF CallRoot
  <2> HIDE DEF r
  <2> QED BY <2>1, <2>2, CalledKeeps DEF RootPem
<1>4. ASSUME NEW info \in Infos, NEW days \in Days, NEW parent \in pems,
             CallIntermediate(info, days, parent)
      PROVE  PkiInv'
  <2> DEFINE r == CreateRootCert(info, days, now, ids + 1, parent)
  <2>1. SignedPem(r, parent, now, days, ids + 1)
    BY IntermediateIssued
  <2>2. Called("intermediate", parent, r)
    BY <1>4 DEF CallIntermediate
  <2> HIDE DEF r
  <2> QED BY <2>1, <2>2, CalledKeeps
<1>5. ASSUME NEW info \in Infos, NEW days \in Days, NEW parent \in pems,
             CallSub(info, days, parent)
      PROVE  PkiInv'
  <2> DEFINE r == CreateSubCertWithKey(info, days, now, ids + 1, parent)
  <2>1. SignedPem(r, parent, now, days, ids + 1)
    BY SubIssued
  <2>2. Called("sub", parent, r)
    BY <1>5 DEF CallSub
  <2> HIDE DEF r
  <2> QED BY <2>1, <2>2, CalledKeeps
<1>6. ASSUME NEW days \in Days, NEW parent \in pems, CallUnparsed(days, parent)
      PROVE  PkiInv'
  <2> DEFINE r == CreateSubCert(Err, days, now, parent)
  <2>1. r = Err
    BY DEF CreateSubCert, Err
  <2>2. Called("unparsed", parent, Err)
    BY <1>6, <2>1 DEF CallUnparsed
  <2>3. Err.ok = FALSE
    BY DEF Err
  <2>4. /\ call' = [n |-> call.n + 1, op |-> "unparsed", parent |-> parent, result |-> Err]
        /\ ids' = ids + 1 /\ now' = now /\ pems' = pems
    BY <2>2, <2>3 DEF Called
  <2>5. call'.op = "unparsed" /\ call'.result.ok = FALSE
    BY <2>3, <2>4
  <2>6. KeysInv'
    BY <2>4 DEF PkiInv, KeysInv, CertPems
  <2>7. CallInv'
    BY <2>5 DEF CallInv
  <2> QED BY <2>6, <2>7 DEF PkiInv
<1> QED BY <1>1, <1>2, <1>3, <1>4, <1>5, <1>6 DEF PkiNext

\* The last certificate has the one parent it was signed with.
LEMMA IssuedFromInv == PkiInv => IssuedVerifies
<1> SUFFICES ASSUME PkiInv PROVE IssuedVerifies
    OBVIOUS
<1> DEFINE pool == {CertOf(p) : p \in {q \in pems : Parses(q)}}
           roots == {c \in pool : c.signer = c.key}
           parent == CertOf(call.parent)
           cert == CertOf(call.result.val)
<1>1. ASSUME call.result.ok, call.op # "root"
      PROVE  Verifies(cert, pool, roots) <=>
                parent.ca /\ Verifies(parent, pool, roots) /\ now <= cert.until
  <2>1. cert \in pool /\ parent \in pool
    BY <1>1 DEF PkiInv, CallInv, Fits
  <2>2. cert \notin roots
    BY <1>1 DEF PkiInv, CallInv
  <2>3. \A p \in pool : Signs(p, cert) <=> p = parent /\ parent.ca
    <3>1. \A p \in pool : p.key = parent.key /\ p.subject = parent.subject => p = parent
      BY <1>1 DEF PkiInv, KeysInv, CallInv, CertPems, Fits
    <3>2. cert.issuer = parent.subject /\ cert.signer = parent.key
      BY <1>1 DEF PkiInv, CallInv
    <3> QED BY <3>1, <3>2 DEF Signs
  <2>4. InDate(cert) <=> now <= cert.until
    BY <1>1 DEF PkiInv, CallInv, InDate
  <2> HIDE DEF pool, roots, cert, parent
  <2>5. Verifies(cert, pool, roots) <=>
            InDate(cert) /\ (cert \in roots
                \/ \E p \in pool : Signs(p, cert) /\ Verifies(p, pool, roots))
    BY <2>1, PathStep
  <2> QED BY <2>1, <2>2, <2>3, <2>4, <2>5
<1> QED BY <1>1 DEF IssuedVerifies, PkiInv, CallInv

\* For any certificates callers bring along, and any number of calls: a parent issues if
\* and only if its parts belong together (createRootCert, CreateSubCert), and what it
\* issued is accepted exactly while it is valid and the parent, a CA, is.
THEOREM PkiIssues == PkiSpec => []IssuedVerifies
<1>1. PkiInit => PkiInv
    BY PkiInvInit
<1>2. PkiInv /\ [PkiNext]_pkiVars => PkiInv'
    BY PkiInvNext
<1>3. PkiInv => IssuedVerifies
    BY IssuedFromInv
<1> QED BY <1>1, <1>2, <1>3, PTL DEF PkiSpec

-----------------------------------------------------------------------------
(* The tool                                                                *)

LEMMA DirectPath ==
    ASSUME NEW ca, NEW cert, NEW pool, NEW roots, ca \in pool, ca \in roots,
           InDate(ca), InDate(cert), Signs(ca, cert)
    PROVE  Verifies(cert, pool, roots)
    BY DEF Verifies, Closed

\* The certificates of the run under way: the root outlives the others.
RootMade ==
    /\ Fits(made["root"]) /\ CertOf(made["root"]).ca
    /\ CertOf(made["root"]) \in Certificates(made["root"].crt)
    /\ CertOf(made["root"]).from \in Nat /\ CertOf(made["root"]).from <= now
    /\ CertOf(made["root"]).until \in Nat
    /\ SubDays + MaxNow <= CertOf(made["root"]).until

SubMade(who) ==
    /\ Fits(made[who])
    /\ CertOf(made[who]).signer = CertOf(made["root"]).key
    /\ CertOf(made[who]).issuer = CertOf(made["root"]).subject
    /\ CertOf(made[who]).from \in Nat /\ CertOf(made[who]).from <= now
    /\ CertOf(made[who]).until = CertOf(made[who]).from + SubDays

\* Step n of the run is done, or was in the run that ended well.
Done(n) == step > n \/ finished

MadeInv ==
    /\ Done(1) => RootMade
    /\ Done(4) => SubMade("client")
    /\ Done(7) => SubMade("server")

WrittenInv ==
    /\ Done(2) => files["ca.crt"] = made["root"].crt
    /\ Done(3) => files["ca.key"] = made["root"].key
    /\ Done(5) => files["client.crt"] = made["client"].crt
    /\ Done(6) => files["client.key"] = made["client"].key
    /\ Done(8) => files["server.crt"] = made["server"].crt
    /\ Done(9) => files["server.key"] = made["server"].key

ToolTypeOK ==
    /\ now \in 0 .. MaxNow /\ ids \in Nat
    /\ step \in 0 .. 9 /\ runs \in Nat /\ finished \in BOOLEAN
    /\ DOMAIN files = Files /\ DOMAIN made = {"root", "client", "server"}
    /\ finished => step = 0

ToolInv == ToolTypeOK /\ MadeInv /\ WrittenInv

LEMMA ToolInvInit == PkiInit /\ ToolInit => ToolInv
<1> SUFFICES ASSUME PkiInit, ToolInit PROVE ToolInv
    OBVIOUS
<1>1. ToolTypeOK
  <2>1. /\ now \in 0 .. MaxNow /\ ids \in Nat /\ step \in 0 .. 9 /\ runs \in Nat /\ step = 0
    BY DaysAssumption DEF PkiInit, ToolInit, MaxGivenKey
  <2>2. DOMAIN files = Files /\ DOMAIN made = {"root", "client", "server"}
    BY DEF ToolInit
  <2>3. finished \in BOOLEAN
    BY DEF ToolInit
  <2> QED BY <2>1, <2>2, <2>3 DEF ToolTypeOK
<1>2. \A n \in Nat : ~Done(n)
    BY DEF ToolInit, Done
<1> QED BY <1>1, <1>2 DEF ToolInv, MadeInv, WrittenInv

LEMMA StepsAre ==
    /\ DOMAIN Steps = 1 .. 9 /\ Len(Steps) = 9
    /\ Steps[1] = "root" /\ Steps[2] = "ca.crt" /\ Steps[3] = "ca.key"
    /\ Steps[4] = "client" /\ Steps[5] = "client.crt" /\ Steps[6] = "client.key"
    /\ Steps[7] = "server" /\ Steps[8] = "server.crt" /\ Steps[9] = "server.key"
    BY DEF Steps

\* The steps of other callers: only the clock and the counter of keys move.
LEMMA ToolInvOthers ==
    ASSUME ToolInv, now' \in now .. MaxNow, ids' \in Nat, UNCHANGED toolVars
    PROVE  ToolInv'
<1>1. ToolTypeOK'
    BY DEF ToolInv, ToolTypeOK, toolVars
<1>2. \A n : Done(n)' <=> Done(n)
    BY DEF Done, toolVars
<1>3. RootMade => RootMade'
    BY DEF RootMade, toolVars, ToolInv, ToolTypeOK
<1>4. \A who : SubMade(who) => SubMade(who)'
    BY DEF SubMade, toolVars, ToolInv, ToolTypeOK
<1>5. MadeInv'
    BY <1>2, <1>3, <1>4 DEF ToolInv, MadeInv
<1>6. WrittenInv'
    BY <1>2 DEF ToolInv, WrittenInv, toolVars
<1> QED BY <1>1, <1>5, <1>6 DEF ToolInv

LEMMA ToolInvCreates == ToolInv /\ ToolCreates => ToolInv'
<1> SUFFICES ASSUME ToolInv, ToolCreates PROVE ToolInv'
    OBVIOUS
<1>0. PICK who : who = Steps[step]
    OBVIOUS
<1> DEFINE pem == IF who = "root" THEN createRoot ELSE createSub(who, made["root"])
<1>1. /\ step \in 1 .. 9 /\ who \in DOMAIN made /\ pem.ok
      /\ made' = [made EXCEPT ![who] = pem.val]
      /\ step' = step + 1 /\ ids' = ids + 1
      /\ UNCHANGED <<files, runs, finished, now>>
    BY <1>0, StepsAre DEF ToolCreates
<1>2. step \in {1, 4, 7} /\ ~finished
    BY <1>0, <1>1, StepsAre DEF ToolInv, ToolTypeOK
<1>3. ToolTypeOK'
    BY <1>1, <1>2 DEF ToolInv, ToolTypeOK
<1>4. now \in Nat /\ SubDays \in Nat /\ RootDays \in Nat /\ MaxNow \in Nat
    BY DaysAssumption DEF ToolInv, ToolTypeOK
<1>5. CASE step = 1
  <2>1. who = "root" /\ pem = CreateSelfSignedRootCert(genCsr("root.ca"), RootDays, now, ids + 1)
    BY <1>0, <1>5, StepsAre DEF createRoot
  <2>2. RootPem(pem.val, now, RootDays, ids + 1)
    BY <2>1, RootIssued
  <2>3. made'["root"] = pem.val
    BY <1>1, <2>1
  <2> HIDE DEF pem
  <2>4. RootMade'
    BY <1>1, <1>4, <2>2, <2>3, DaysAssumption DEF RootMade, RootPem
  <2>5. step' = 2 /\ ~finished'
    BY <1>1, <1>2, <1>5
  <2> QED BY <1>3, <2>4, <2>5 DEF ToolInv, MadeInv, WrittenInv, Done
<1>6. CASE step \in {4, 7}
  <2>1. /\ who \in {"client", "server"} /\ RootMade
        /\ pem = CreateSubCertWithKey(genCsr(who), SubDays, now, ids + 1, made["root"])
    BY <1>0, <1>6, StepsAre DEF createSub, ToolInv, MadeInv, Done
  <2>2. SignedPem(pem, made["root"], now, SubDays, ids + 1)
    BY <2>1, SubIssued
  <2> HIDE DEF pem
  <2>3. /\ made'[who] = pem.val /\ made'["root"] = made["root"]
        /\ \A w \in DOMAIN made : w # who => made'[w] = made[w]
    BY <1>1, <2>1
  <2>4. SubMade(who)'
    BY <1>1, <1>4, <2>2, <2>3 DEF SubMade, SignedPem
  <2>5. RootMade'
    BY <1>1, <2>1, <2>3 DEF RootMade
  <2>6. CASE step = 4
    <3>1. who = "client" /\ step' = 5 /\ ~finished'
      BY <1>1, <1>2, <1>0, <2>6, StepsAre
    <3> QED BY <1>1, <1>3, <2>3, <2>4, <2>5, <2>6, <3>1
            DEF ToolInv, MadeInv, WrittenInv, Done
  <2>7. CASE step = 7
    <3>1. who = "server" /\ step' = 8 /\ ~finished'
      BY <1>1, <1>2, <1>0, <2>7, StepsAre
    <3>2. SubMade("client")'
      BY <1>1, <2>3, <2>7, <3>1 DEF ToolInv, MadeInv, Done, SubMade, ToolTypeOK
    <3>3. made'["client"] = made["client"]
      BY <2>3, <3>1 DEF ToolInv, ToolTypeOK
    <3> QED BY <1>1, <1>3, <2>3, <2>4, <2>5, <2>7, <3>1, <3>2, <3>3
            DEF ToolInv, MadeInv, WrittenInv, Done
  <2> QED BY <1>6, <2>6, <2>7
<1> QED BY <1>2, <1>5, <1>6

LEMMA ToolInvWrites == ToolInv /\ ToolWrites => ToolInv'
<1> SUFFICES ASSUME ToolInv, ToolWrites PROVE ToolInv'
    OBVIOUS
<1>0. PICK f : f = Steps[step]
    OBVIOUS
<1>1. /\ step \in 1 .. 9 /\ f \in Files
      /\ files' = [files EXCEPT ![f] = Content(f)]
      /\ finished' = (step = 9)
      /\ step' = IF step = 9 THEN 0 ELSE step + 1
      /\ UNCHANGED <<made, runs, now, ids>>
    BY <1>0, StepsAre DEF ToolWrites, pkiVars
<1>2. step \in {2, 3, 5, 6, 8, 9} /\ ~finished
    BY <1>0, <1>1, StepsAre DEF ToolInv, ToolTypeOK, Files
<1>3. /\ DOMAIN files' = Files
      /\ files'[f] = Content(f)
      /\ \A g \in Files : g # f => files'[g] = files[g]
    BY <1>1 DEF ToolInv, ToolTypeOK
<1>4. ToolTypeOK'
  <2>1. finished' \in BOOLEAN /\ (finished' => step' = 0)
    BY <1>1
  <2>2. step' \in 0 .. 9
    BY <1>1
  <2> QED BY <1>1, <1>3, <2>1, <2>2 DEF ToolInv, ToolTypeOK
<1>5. \A n \in 1 .. 9 : Done(n)' => n = step \/ Done(n)
  <2>1. CASE step = 9
    BY <2>1, <1>2 DEF Done
  <2>2. CASE step # 9
    <3>1. ~finished' /\ step' = step + 1
      BY <2>2, <1>1
    <3> QED BY <3>1, <1>1 DEF Done
  <2> QED BY <2>1, <2>2
<1>6. MadeInv'
  <2>1. RootMade' <=> RootMade
    BY <1>1 DEF RootMade
  <2>2. \A who : SubMade(who)' <=> SubMade(who)
    BY <1>1 DEF SubMade
  <2>3. /\ Done(1)' => Done(1)
        /\ Done(4)' => Done(4)
        /\ Done(7)' => Done(7)
    BY <1>2, <1>5
  <2> QED BY <2>1, <2>2, <2>3 DEF ToolInv, MadeInv
<1>7. WrittenInv'
  <2>1. /\ "ca.crt" \in Files /\ "ca.key" \in Files /\ "client.crt" \in Files
        /\ "client.key" \in Files /\ "server.crt" \in Files /\ "server.key" \in Files
    BY DEF Files
  <2>2. made' = made
    BY <1>1
  <2>3. Done(2)' => files'["ca.crt"] = made'["root"].crt
    BY <1>0, <1>3, <1>5, <2>1, <2>2, StepsAre DEF ToolInv, WrittenInv, Content
  <2>4. Done(3)' => files'["ca.key"] = made'["root"].key
    BY <1>0, <1>3, <1>5, <2>1, <2>2, StepsAre DEF ToolInv, WrittenInv, Content
  <2>5. Done(5)' => files'["client.crt"] = made'["client"].crt
    BY <1>0, <1>3, <1>5, <2>1, <2>2, StepsAre DEF ToolInv, WrittenInv, Content
  <2>6. Done(6)' => files'["client.key"] = made'["client"].key
    BY <1>0, <1>3, <1>5, <2>1, <2>2, StepsAre DEF ToolInv, WrittenInv, Content
  <2>7. Done(8)' => files'["server.crt"] = made'["server"].crt
    BY <1>0, <1>3, <1>5, <2>1, <2>2, StepsAre DEF ToolInv, WrittenInv, Content
  <2>8. Done(9)' => files'["server.key"] = made'["server"].key
    BY <1>0, <1>3, <1>5, <2>1, <2>2, StepsAre DEF ToolInv, WrittenInv, Content
  <2> QED BY <2>3, <2>4, <2>5, <2>6, <2>7, <2>8 DEF WrittenInv
<1> QED BY <1>4, <1>6, <1>7 DEF ToolInv

\* A run that begins or fails has not ended well.
LEMMA ToolInvUndone ==
    ASSUME ToolTypeOK', step' \in {0, 1}, ~finished'
    PROVE  ToolInv'
<1>1. \A n \in 1 .. 9 : ~Done(n)'
    BY DEF Done
<1> QED BY <1>1 DEF ToolInv, MadeInv, WrittenInv

\* A step of the library for anybody else.
LEMMA PkiMoves ==
    ASSUME ToolInv, [PkiNext]_pkiVars
    PROVE  now' \in now .. MaxNow /\ ids' \in Nat
    BY DaysAssumption DEF ToolInv, ToolTypeOK, PkiNext, Tick, CallRoot, CallIntermediate,
        CallSub, CallUnparsed, Called, pkiVars

LEMMA ToolInvNext ==
    ToolInv /\ [(PkiNext /\ UNCHANGED toolVars) \/ ToolNext]_<<pkiVars, toolVars>> => ToolInv'
<1> SUFFICES ASSUME ToolInv,
                    [(PkiNext /\ UNCHANGED toolVars) \/ ToolNext]_<<pkiVars, toolVars>>
             PROVE  ToolInv'
    OBVIOUS
<1>1. CASE [PkiNext]_pkiVars /\ UNCHANGED toolVars
    BY <1>1, PkiMoves, ToolInvOthers
<1>2. CASE ToolStarts
  <2>1. /\ step' = 1 /\ runs' = runs + 1 /\ ~finished' /\ finished' \in BOOLEAN
        /\ UNCHANGED <<files, made, now, ids>>
    BY <1>2 DEF ToolStarts, pkiVars
  <2>2. ToolTypeOK'
    BY <2>1 DEF ToolInv, ToolTypeOK
  <2> QED BY <2>1, <2>2, ToolInvUndone
<1>3. CASE ToolCreates
    BY <1>3, ToolInvCreates
<1>4. CASE ToolWrites
    BY <1>4, ToolInvWrites
<1>5. CASE ToolFails
  <2>1. /\ step # 0 /\ step' = 0 /\ DOMAIN files' = DOMAIN files
        /\ UNCHANGED <<made, runs, finished, now, ids>>
    BY <1>5 DEF ToolFails, pkiVars, ToolInv, ToolTypeOK
  <2>2. ~finished
    BY <2>1 DEF ToolInv, ToolTypeOK
  <2>3. ToolTypeOK'
    BY <2>1, <2>2 DEF ToolInv, ToolTypeOK
  <2> QED BY <2>1, <2>2, <2>3, ToolInvUndone
<1> QED BY <1>1, <1>2, <1>3, <1>4, <1>5 DEF ToolNext

\* A certificate of the run, its key and the root's certificate as they are in files.
LEMMA SubTrusted ==
    ASSUME ToolInv, RootMade, NEW who, SubMade(who),
           now <= CertOf(made[who]).until, NEW pool, CertOf(made["root"]) \in pool
    PROVE  Verifies(CertOf(made[who]), pool, pool)
<1>1. now \in Nat /\ SubDays \in Nat /\ MaxNow \in Nat /\ now <= MaxNow
    BY DaysAssumption DEF ToolInv, ToolTypeOK
<1>2. InDate(CertOf(made[who]))
    BY <1>1 DEF InDate, SubMade
<1>3. InDate(CertOf(made["root"]))
    BY <1>1 DEF InDate, RootMade
<1>4. Signs(CertOf(made["root"]), CertOf(made[who]))
    BY DEF Signs, SubMade, RootMade
<1> QED BY <1>2, <1>3, <1>4, DirectPath

\* A pair of files is as good as the CertPem they were written from.
LEMMA SameParts ==
    ASSUME NEW p, NEW q, p.crt = q.crt, p.key = q.key
    PROVE  CertOf(p) = CertOf(q) /\ (Fits(p) <=> Fits(q))
    BY DEF CertOf, Fits, Parses

LEMMA OutputFromInv == ToolInv => OutputConsistent
<1> SUFFICES ASSUME ToolInv, finished
             PROVE  /\ Fits(CA)
                    /\ \A sub \in Subs :
                        /\ Fits(sub)
                        /\ now <= CertOf(sub).until =>
                            Verifies(CertOf(sub), {CertOf(CA)}, {CertOf(CA)})
    BY DEF OutputConsistent
<1>1. RootMade /\ SubMade("client") /\ SubMade("server")
    BY DEF ToolInv, MadeInv, Done
<1>2. CA.crt = made["root"].crt /\ CA.key = made["root"].key
    BY DEF CA, Pair, ToolInv, WrittenInv, Done
<1>3. CertOf(CA) = CertOf(made["root"]) /\ (Fits(CA) <=> Fits(made["root"]))
    BY <1>2, SameParts
<1>4. ASSUME NEW sub \in Subs
      PROVE  \E who \in {"client", "server"} :
                sub.crt = made[who].crt /\ sub.key = made[who].key
    BY <1>4 DEF Subs, Pair, ToolInv, WrittenInv, Done
<1>5. ASSUME NEW sub \in Subs
      PROVE  /\ Fits(sub)
             /\ now <= CertOf(sub).until =>
                    Verifies(CertOf(sub), {CertOf(CA)}, {CertOf(CA)})
  <2>1. PICK who \in {"client", "server"} : sub.crt = made[who].crt /\ sub.key = made[who].key
    BY <1>4
  <2>2. CertOf(sub) = CertOf(made[who]) /\ (Fits(sub) <=> Fits(made[who]))
    BY <2>1, SameParts
  <2>3. SubMade(who)
    BY <1>1
  <2> QED BY <1>1, <1>3, <2>2, <2>3, SubTrusted DEF SubMade
<1> QED BY <1>1, <1>3, <1>5 DEF RootMade

\* For any validity periods of which the root's covers the others': after any number of
\* runs, with failures at every step of issueCert, a run that ended well leaves files
\* that belong together.
THEOREM ToolOutput == ToolSpec => []OutputConsistent
<1>1. PkiInit /\ ToolInit => ToolInv
    BY ToolInvInit
<1>2. ToolInv /\ [(PkiNext /\ UNCHANGED toolVars) \/ ToolNext]_<<pkiVars, toolVars>> => ToolInv'
    BY ToolInvNext
<1>3. ToolInv => OutputConsistent
    BY OutputFromInv
<1> QED BY <1>1, <1>2, <1>3, PTL DEF ToolSpec

-----------------------------------------------------------------------------
(* The service's configuration                                             *)

Paired(key, cert) ==
    \/ key = "client.key" /\ cert = "client.crt"
    \/ key = "server.key" /\ cert = "server.crt"

\* What is read from a file that loads: in place of a variable its value, or, if one of
\* them is not set, everything as it is.
LEMMA Loaded ==
    ASSUME conf \in Confs, env \in Envs, conf.status \in {"ok", "types"},
           NEW s \in DOMAIN NoConf, NEW p \in Paths
    PROVE  LET path == LoadYAML(conf)[s][p]
           IN  /\ path \in Files \cup {Unset} => path \in Named[p] \cup {Unset}
               /\ path = Unset <=> conf.values[s][p] = Unset
               /\ conf.templates \subseteq DOMAIN env.vars =>
                    /\ path = Resolved(conf, env, conf.values[s][p])
                    /\ path \in Named[p] \cup {Unset}
<1> DEFINE c == conf.values
           L == LoadYAML(conf)
           raw == c[s][p]
<1>1. L = ParseEnv(c)
    BY DEF LoadYAML
<1>2. /\ conf.templates \cap (Files \cup {Unset}) = {}
      /\ \/ Resolved(conf, env, raw) \in Named[p] \cup {Unset}
         \/ raw \in conf.templates \ DOMAIN env.vars
      /\ raw # Unset => Resolved(conf, env, raw) # Unset
    BY ConfsAssumption
<1>3. raw \in TemplatesIn(c) <=> raw \in conf.templates
    BY DEF TemplatesIn
<1>4. p \in DOMAIN NoSection
    BY DEF Paths, NoSection
<1>5. CASE TemplatesIn(c) \subseteq DOMAIN env.vars
  <2>1. L = [t \in DOMAIN NoConf |-> [f \in DOMAIN NoSection |->
            IF f \in Paths /\ c[t][f] \in TemplatesIn(c) THEN Split(env.vars[c[t][f]]) ELSE c[t][f]]]
    BY <1>1, <1>5 DEF ParseEnv
  <2>2. L[s][p] = IF raw \in TemplatesIn(c) THEN Split(env.vars[raw]) ELSE raw
    BY <2>1, <1>4
  <2>3. L[s][p] = Resolved(conf, env, raw)
    BY <2>2, <1>3, <1>5 DEF Resolved
  <2>4. ~(raw \in conf.templates \ DOMAIN env.vars)
    BY <1>3, <1>5
  <2>5. raw = Unset => Resolved(conf, env, raw) = Unset
    BY <1>2 DEF Resolved
  <2> HIDE DEF L, raw
  <2> QED BY <1>2, <2>3, <2>4, <2>5 DEF L, raw
<1>6. CASE ~(TemplatesIn(c) \subseteq DOMAIN env.vars)
  <2>1. L = c
    BY <1>1, <1>6 DEF ParseEnv
  <2>2. ~(conf.templates \subseteq DOMAIN env.vars)
    BY <1>6 DEF TemplatesIn
  <2>3. raw \in Files \cup {Unset} => Resolved(conf, env, raw) = raw
    BY <1>2 DEF Resolved
  <2>4. L[s][p] = raw
    BY <2>1
  <2>5. raw \in Files \cup {Unset} => raw \in Named[p] \cup {Unset}
    BY <1>2, <2>3
  <2> HIDE DEF L, raw
  <2> QED BY <2>2, <2>4, <2>5 DEF L, raw
<1> QED BY <1>5, <1>6

\* The paths of a client that is made after the check of the system certificate.
CfgOk(cfg) ==
    /\ cfg.cert # Unset /\ cfg.ca # Unset
    /\ cfg.ca \in Files => cfg.ca = "ca.crt"
    /\ cfg.cert \in Files => cfg.cert \in {"client.crt", "server.crt"}
    /\ ~Mixed => cfg.ca = "ca.crt" /\ Paired(cfg.key, cfg.cert)

\* The paths of a service's own broker section.
OwnOk(cfg) ==
    /\ cfg.ca \in {Unset, "ca.crt"}
    /\ ~Mixed /\ (cfg.key # Unset \/ cfg.cert # Unset) => Paired(cfg.key, cfg.cert)

SystemCert == \A p \in Paths : sc["cert"][p] \in Files

ScInv ==
    /\ conf \in Confs /\ env \in Envs
    /\ SystemCert => \A s \in Sections : CfgOk(sc[s])

LEMMA NamedAre ==
    /\ Named["ca"] = {"ca.crt"} /\ Named["key"] = {"client.key", "server.key"}
    /\ Named["cert"] = {"client.crt", "server.crt"}
    /\ Unset \notin Files /\ "ca.pem" \notin Files
    /\ DOMAIN NoConf = {"function", "core", "broker", "cert"}
    /\ Sections = {"function", "core", "broker"} /\ Paths = {"ca", "key", "cert"}
    BY DEF Named, Unset, Files, NoConf, Sections, Paths

\* A section whose key and certificate are both set names those of one certificate.
LEMMA BothSet ==
    ASSUME conf \in Confs, env \in Envs, conf.status \in {"ok", "types"}, ~Mixed,
           NEW s \in DOMAIN NoConf,
           conf.values[s].key # Unset, conf.values[s].cert # Unset
    PROVE  Paired(LoadYAML(conf)[s].key, LoadYAML(conf)[s].cert)
<1> DEFINE key == LoadYAML(conf)[s]["key"]
           cert == LoadYAML(conf)[s]["cert"]
<1>1. conf.templates \subseteq DOMAIN env.vars
    BY DEF Mixed
<1>2. /\ key = Resolved(conf, env, conf.values[s]["key"]) /\ key \in Named["key"]
      /\ cert = Resolved(conf, env, conf.values[s]["cert"]) /\ cert \in Named["cert"]
  <2>1. "key" \in Paths /\ "cert" \in Paths
    BY NamedAre
  <2> QED BY <1>1, <2>1, Loaded
<1>3. Resolved(conf, env, conf.values[s]["key"]) = "client.key"
            <=> Resolved(conf, env, conf.values[s]["cert"]) = "client.crt"
    BY <1>1, ConfsAssumption
<1> HIDE DEF key, cert
<1>4. key = "client.key" <=> cert = "client.crt"
    BY <1>2, <1>3
<1>5. Paired(key, cert)
    BY <1>2, <1>4, NamedAre DEF Paired
<1> QED BY <1>5 DEF key, cert

\* What NewContext fills up.
LEMMA NewContextFills ==
    ASSUME ScInv, NewContext
    PROVE  ScInv'
<1> DEFINE L == LoadYAML(conf)
           D == LoadCustomConfig
<1>1. /\ UNCHANGED <<conf, env>>
      /\ sc' = [s \in DOMAIN NoConf |-> IF s = "cert" THEN D["cert"] ELSE Filled(D, s)]
    BY DEF NewContext
<1>2. sc'["cert"] = D["cert"] /\ \A s \in Sections : sc'[s] = Filled(D, s)
    BY <1>1, NamedAre
<1>3. Mixed' <=> Mixed
    BY <1>1 DEF Mixed
<1>4. SUFFICES ASSUME \A p \in Paths : D["cert"][p] \in Files, NEW s \in Sections
               PROVE  CfgOk(Filled(D, s))
  <2>1. SystemCert' => \A p \in Paths : D["cert"][p] \in Files
    BY <1>2 DEF SystemCert
  <2>2. SystemCert' => \A s \in Sections : CfgOk(sc'[s])
    BY <1>2, <1>4, <2>1
  <2>3. SystemCert' => \A s \in Sections : CfgOk(sc[s])'
    BY <1>3, <2>2 DEF CfgOk
  <2> QED BY <1>1, <2>3 DEF ScInv
<1>5. /\ D = SetDefaults(L) /\ conf \in Confs /\ env \in Envs
    BY DEF LoadCustomConfig, ScInv
<1>6. L["cert"] # NoSection /\ D = L
  <2>1. CASE L["cert"] = NoSection
    <3>1. "cert" \in DOMAIN L
      <4>1. DOMAIN NoConf = DOMAIN L
        BY <1>5, ConfsAssumption DEF LoadYAML, ParseEnv, NoConf
      <4> QED BY <4>1, NamedAre
    <3>2. D["cert"] = DefaultCert
      BY <1>5, <2>1, <3>1 DEF SetDefaults
    <3>3. D["cert"]["ca"] = "ca.pem"
      BY <3>2 DEF DefaultCert
    <3> QED BY <1>4, <3>3, NamedAre
  <2>2. CASE L["cert"] # NoSection
    BY <1>5, <2>2 DEF SetDefaults
  <2> QED BY <2>1, <2>2
<1>7. conf.status \in {"ok", "types"}
  <2>1. NoConf["cert"] = NoSection
    BY NamedAre DEF NoConf
  <2> QED BY <1>6, <2>1 DEF LoadYAML
<1> DEFINE v == conf.values
<1>8. \A t \in {s, "cert"} : \A p \in Paths :
        /\ L[t][p] \in Files \cup {Unset} => L[t][p] \in Named[p] \cup {Unset}
        /\ L[t][p] = Unset <=> v[t][p] = Unset
        /\ ~Mixed => L[t][p] \in Named[p] \cup {Unset}
  <2> TAKE t \in {s, "cert"}
  <2> TAKE p \in Paths
  <2>1. t \in DOMAIN NoConf
    BY NamedAre
  <2>2. ~Mixed => conf.templates \subseteq DOMAIN env.vars
    BY DEF Mixed
  <2> QED BY <1>5, <1>7, <2>1, <2>2, Loaded
<1>9. /\ \A p \in Paths : L["cert"][p] \in Files
      /\ L["cert"]["ca"] = "ca.crt" /\ L["cert"]["cert"] \in {"client.crt", "server.crt"}
      /\ v["cert"]["key"] # Unset /\ v["cert"]["cert"] # Unset
    BY <1>4, <1>6, <1>8, NamedAre
<1>10. ~Mixed => Paired(Filled(L, s).key, Filled(L, s).cert)
  <2> SUFFICES ASSUME ~Mixed PROVE Paired(Filled(L, s).key, Filled(L, s).cert)
    OBVIOUS
  <2>1. s \in DOMAIN NoConf /\ "cert" \in DOMAIN NoConf /\ "key" \in Paths /\ "cert" \in Paths
    BY NamedAre
  <2>2. Paired(L["cert"]["key"], L["cert"]["cert"])
    BY <1>5, <1>7, <1>9, <2>1, BothSet
  <2>3. (v[s]["key"] = Unset) = (v[s]["cert"] = Unset)
    BY DEF Mixed
  <2>4. CASE v[s]["key"] = Unset
    <3>1. L[s]["key"] = Unset /\ L[s]["cert"] = Unset
      BY <1>8, <2>1, <2>3, <2>4
    <3> QED BY <2>2, <3>1 DEF Filled
  <2>5. CASE v[s]["key"] # Unset
    <3>1. L[s]["key"] # Unset /\ L[s]["cert"] # Unset
      BY <1>8, <2>1, <2>3, <2>5
    <3>2. Paired(L[s]["key"], L[s]["cert"])
      BY <1>5, <1>7, <2>1, <2>3, <2>5, BothSet
    <3> QED BY <3>1, <3>2 DEF Filled
  <2> QED BY <2>4, <2>5
<1>11. /\ Filled(L, s).ca = IF L[s]["ca"] = Unset THEN "ca.crt" ELSE L[s]["ca"]
       /\ Filled(L, s).cert = IF L[s]["cert"] = Unset THEN L["cert"]["cert"] ELSE L[s]["cert"]
    BY <1>9 DEF Filled
<1>12. \A p \in {"ca", "cert"} :
        /\ L[s][p] \in Files => L[s][p] \in Named[p]
        /\ ~Mixed => L[s][p] \in Named[p] \cup {Unset}
    BY <1>8, NamedAre
<1> HIDE DEF L
<1>13. CfgOk(Filled(L, s))
    BY <1>9, <1>10, <1>11, <1>12, NamedAre DEF CfgOk
<1> QED BY <1>6, <1>13

-----------------------------------------------------------------------------
(* The service's clients                                                   *)

\* No run was begun since the call under way.
Settled == making.settled /\ runs = making.runs

Reading == making.pc \in {"ca", "cert", "key"}

\* While files are read one after the other nobody replaces them, or a run has begun.
MakingInv ==
    /\ DOMAIN making = DOMAIN NoCall
    /\ Reading =>
        /\ making.of \in Sections \cup {"own"}
        /\ making.of \in Sections => CfgOk(making.cfg)
        /\ making.of = "own" => OwnOk(making.cfg)
        /\ making.runs \in Nat /\ making.runs <= runs
        /\ Settled => finished
    /\ making.pc \in {"cert", "key"} =>
        /\ NeedsTLS
        /\ making.cfg.ca # Unset => ParseCertificates(making.ca).ok
        /\ Settled /\ making.cfg.ca # Unset => making.ca = Read(making.cfg.ca)
    /\ making.pc = "key" /\ Settled => making.crt = Read(making.cfg.cert)

\* Who trusts the certificates in ca accepts cert, as long as it is valid.
Trusts(ca, cert) ==
    /\ cert.from \in Nat /\ cert.from <= now
    /\ \E root \in Certificates(ca) :
        /\ root.from \in Nat /\ root.from <= now
        /\ root.until \in Nat /\ MaxNow <= root.until
        /\ Signs(root, cert)

ClientInv ==
    /\ client.of \in Sections =>
        /\ client.tls /\ Fits([crt |-> client.crt, key |-> client.key])
        /\ client.settled => Trusts(client.ca, CertOf(client))
    /\ client.of = "refused" /\ client.settled => Mixed

CtxInv == ToolInv /\ ScInv /\ MakingInv /\ ClientInv

LEMMA CtxInvInit == PkiInit /\ ToolInit /\ CtxInit => CtxInv
<1> SUFFICES ASSUME PkiInit, ToolInit, CtxInit PROVE CtxInv
    OBVIOUS
<1>1. ToolInv
    BY ToolInvInit
<1>2. ~SystemCert
  <2>1. sc["cert"] = NoSection /\ NoSection["ca"] = Unset
    BY NamedAre DEF CtxInit, NoConf, NoSection
  <2> QED BY <2>1, NamedAre DEF SystemCert
<1>3. making.pc = "new" /\ DOMAIN making = DOMAIN NoCall
    BY DEF CtxInit, NoCall
<1>4. client.of = "none"
    BY DEF CtxInit, NoClient
<1>5. ScInv
    BY <1>2 DEF CtxInit, ScInv
<1> QED BY <1>1, <1>3, <1>4, <1>5, NamedAre DEF CtxInv, MakingInv, Reading, ClientInv

\* The steps of the tool and of other callers.
LEMMA CtxInvOthers ==
    ASSUME CtxInv, ToolInv', UNCHANGED ctxVars, now <= now',
           \/ runs' = runs + 1
           \/ UNCHANGED <<files, runs, finished>>
           \/ ~finished /\ runs' = runs
    PROVE  CtxInv'
<1>1. Mixed' <=> Mixed
    BY DEF Mixed, ctxVars
<1>2. ScInv'
    BY <1>1 DEF CtxInv, ScInv, SystemCert, CfgOk, ctxVars
<1>3. ASSUME NEW ca, NEW cert, Trusts(ca, cert)
      PROVE  Trusts(ca, cert)'
  <2>1. now \in Nat /\ now' \in Nat
    BY DEF CtxInv, ToolInv, ToolTypeOK
  <2> QED BY <1>3, <2>1 DEF Trusts
<1>4. ClientInv'
  <2>1. client' = client
    BY DEF ctxVars
  <2>2. Trusts(client.ca, CertOf(client)) => Trusts(client.ca, CertOf(client))'
    <3>1. PICK ca, cert : ca = client.ca /\ cert = CertOf(client)
      OBVIOUS
    <3>2. client'.ca = ca /\ CertOf(client') = cert
      BY <2>1, <3>1
    <3>3. Trusts(ca, cert) => Trusts(ca, cert)'
      BY <1>3
    <3> QED BY <3>1, <3>2, <3>3 DEF Trusts
  <2> QED BY <1>1, <2>1, <2>2 DEF CtxInv, ClientInv
<1>5. MakingInv'
  <2>1. making' = making
    BY DEF ctxVars
  <2>2. Reading => (Settled' => UNCHANGED <<files, runs, finished>>)
    BY <2>1 DEF CtxInv, MakingInv, Settled, ToolInv, ToolTypeOK
  <2>3. Settled' /\ UNCHANGED runs => Settled
    BY <2>1 DEF Settled
  <2>4. \A path : UNCHANGED files => Read(path)' = Read(path)
    BY DEF Read
  <2>5. NeedsTLS' <=> NeedsTLS
    BY <2>1 DEF NeedsTLS
  <2>6. runs <= runs' /\ runs' \in Nat /\ runs \in Nat
    BY DEF CtxInv, ToolInv, ToolTypeOK
  <2>7. /\ CfgOk(making.cfg)' <=> CfgOk(making.cfg)
        /\ OwnOk(making.cfg)' <=> OwnOk(making.cfg)
    BY <1>1, <2>1 DEF CfgOk, OwnOk
  <2>8. making.pc \in {"cert", "key"} => Reading
    BY DEF Reading
  <2>9. Reading' <=> Reading
    BY <2>1 DEF Reading
  <2>10. Reading =>
        /\ making.of \in Sections \cup {"own"}
        /\ making.of \in Sections => CfgOk(making.cfg)'
        /\ making.of = "own" => OwnOk(making.cfg)'
        /\ making.runs \in Nat /\ making.runs <= runs'
        /\ Settled' => finished'
    BY <2>2, <2>3, <2>6, <2>7 DEF CtxInv, MakingInv
  <2>11. making.pc \in {"cert", "key"} =>
        /\ NeedsTLS'
        /\ making.cfg.ca # Unset => ParseCertificates(making.ca).ok
        /\ Settled' /\ making.cfg.ca # Unset => making.ca = Read(making.cfg.ca)'
    BY <2>1, <2>2, <2>3, <2>4, <2>5, <2>8 DEF CtxInv, MakingInv, Read
  <2>12. making.pc = "key" /\ Settled' => making.crt = Read(making.cfg.cert)'
    BY <2>1, <2>2, <2>3, <2>4, <2>8 DEF CtxInv, MakingInv, Read
  <2>13. DOMAIN making = DOMAIN NoCall
    BY DEF CtxInv, MakingInv
  <2> QED BY <2>1, <2>9, <2>10, <2>11, <2>12, <2>13 DEF MakingInv
<1> QED BY <1>2, <1>4, <1>5 DEF CtxInv

\* The tool leaves the files alone while the last run has ended well, and only a new run
\* changes that.
LEMMA ToolMoves ==
    ASSUME ToolInv, ToolNext
    PROVE  /\ now' = now
           /\ \/ runs' = runs + 1
              \/ ~finished /\ runs' = runs
<1>1. CASE ToolStarts
    BY <1>1 DEF ToolStarts, pkiVars
<1>2. CASE ToolCreates
    BY <1>2, StepsAre DEF ToolCreates, ToolInv, ToolTypeOK
<1>3. CASE ToolWrites
    BY <1>3, StepsAre DEF ToolWrites, pkiVars, ToolInv, ToolTypeOK
<1>4. CASE ToolFails
    BY <1>4 DEF ToolFails, pkiVars, ToolInv, ToolTypeOK
<1> QED BY <1>1, <1>2, <1>3, <1>4 DEF ToolNext

\* In a settled call the files are those of the last run.
LEMMA SettledFiles ==
    ASSUME ToolInv, finished
    PROVE  /\ ParseCertificates(Read("ca.crt")).ok
           /\ \A key, crt : Paired(key, crt) => Fits([crt |-> Read(crt), key |-> Read(key)])
           /\ \A crt \in {"client.crt", "server.crt"} : \A pem :
                pem.crt = Read(crt) => Trusts(Read("ca.crt"), CertOf(pem))
<1>1. RootMade /\ SubMade("client") /\ SubMade("server")
    BY DEF ToolInv, MadeInv, Done
<1>2. /\ Read("ca.crt") = made["root"].crt
      /\ Read("client.crt") = made["client"].crt /\ Read("client.key") = made["client"].key
      /\ Read("server.crt") = made["server"].crt /\ Read("server.key") = made["server"].key
    BY DEF Read, Files, ToolInv, WrittenInv, Done
<1>3. ParseCertificates(Read("ca.crt")).ok
    BY <1>1, <1>2 DEF RootMade, Fits, Parses
<1>4. ASSUME NEW key, NEW crt, Paired(key, crt)
      PROVE  Fits([crt |-> Read(crt), key |-> Read(key)])
  <2>1. PICK who \in {"client", "server"} :
            Read(crt) = made[who].crt /\ Read(key) = made[who].key
    BY <1>2, <1>4 DEF Paired
  <2>2. Fits(made[who])
    BY <1>1 DEF SubMade
  <2> QED BY <2>1, <2>2, SameParts
<1>5. ASSUME NEW crt \in {"client.crt", "server.crt"}, NEW pem, pem.crt = Read(crt)
      PROVE  Trusts(Read("ca.crt"), CertOf(pem))
  <2>1. PICK who \in {"client", "server"} : Read(crt) = made[who].crt
    BY <1>2
  <2>2. CertOf(pem) = CertOf(made[who])
    BY <1>5, <2>1 DEF CertOf
  <2>3. SubMade(who)
    BY <1>1
  <2> DEFINE root == CertOf(made["root"])
  <2>4. /\ root \in Certificates(Read("ca.crt"))
        /\ root.from \in Nat /\ root.from <= now /\ root.until \in Nat
        /\ SubDays + MaxNow <= root.until /\ root.ca
    BY <1>1, <1>2 DEF RootMade
  <2>5. MaxNow <= root.until
    BY <2>4, DaysAssumption
  <2>6. Signs(root, CertOf(made[who]))
    BY <2>3, <2>4 DEF Signs, SubMade
  <2>7. CertOf(made[who]).from \in Nat /\ CertOf(made[who]).from <= now
    BY <2>3 DEF SubMade
  <2> HIDE DEF root
  <2> QED BY <2>2, <2>4, <2>5, <2>6, <2>7 DEF Trusts
<1> QED BY <1>3, <1>4, <1>5

\* A call of a New... method.
LEMMA MakingStarts ==
    ASSUME CtxInv, UNCHANGED <<pkiVars, toolVars>>, ToolInv',
           NEW s \in Sections \cup {"own"}, NEW cfg, NEW topics, Making(s, cfg, topics),
           s \in Sections => CfgOk(cfg), s = "own" => OwnOk(cfg)
    PROVE  CtxInv'
<1>1. /\ UNCHANGED <<conf, env, sc, subs>>
      /\ making'.pc = "ca" /\ making'.of = s /\ making'.cfg = cfg
      /\ making'.settled = finished /\ making'.runs = runs
      /\ client'.of = "none" /\ DOMAIN making' = DOMAIN NoCall
    BY DEF Making, NoCall, NoClient
<1>2. Mixed' <=> Mixed
    BY <1>1 DEF Mixed
<1>3. ScInv'
    BY <1>1, <1>2 DEF CtxInv, ScInv, SystemCert, CfgOk
<1>4. ClientInv'
    BY <1>1, NamedAre DEF ClientInv
<1>5. runs' = runs /\ finished' = finished /\ runs \in Nat
    BY DEF toolVars, CtxInv, ToolInv, ToolTypeOK
<1>6. MakingInv'
  <2>1. /\ CfgOk(cfg) => CfgOk(making.cfg)'
        /\ OwnOk(cfg) => OwnOk(making.cfg)'
    BY <1>1, <1>2 DEF CfgOk, OwnOk
  <2>2. Settled' => finished'
    BY <1>1, <1>5 DEF Settled
  <2>3. making'.runs \in Nat /\ making'.runs <= runs'
    BY <1>1, <1>5
  <2> QED BY <1>1, <2>1, <2>2, <2>3 DEF MakingInv
<1> QED BY <1>3, <1>4, <1>6 DEF CtxInv

\* The end of one: the client, or none.
LEMMA MakingEnds ==
    ASSUME CtxInv, UNCHANGED <<pkiVars, toolVars>>, ToolInv',
           UNCHANGED <<conf, env, sc, subs>>, making' = NoCall, ClientInv'
    PROVE  CtxInv'
<1>1. Mixed' <=> Mixed
    BY DEF Mixed
<1>2. ScInv'
    BY <1>1 DEF CtxInv, ScInv, SystemCert, CfgOk
<1>3. making'.pc = "idle"
    BY DEF NoCall
<1>4. MakingInv'
    BY <1>3 DEF MakingInv, Reading
<1> QED BY <1>2, <1>4 DEF CtxInv

\* A file that is not there holds no certificate.
LEMMA MissingIsNone == ~ParseCertificates(Missing).ok
<1> DEFINE blocks == {i \in DOMAIN Missing :
                        Missing[i].type = CertificateBlockType /\ ~Missing[i].headers}
<1>1. DOMAIN Missing = {1} /\ Missing[1].type = "missing"
    BY DEF Missing
<1>2. blocks = {}
    BY <1>1 DEF CertificateBlockType
<1>3. ParseCertificates(Missing) = Err
    BY <1>2 DEF ParseCertificates
<1> QED BY <1>3 DEF Err

LEMMA ClientStays ==
    ASSUME ClientInv, UNCHANGED <<client, conf, env, now>>
    PROVE  ClientInv'
<1>1. Mixed' <=> Mixed
    BY DEF Mixed
<1>2. Trusts(client.ca, CertOf(client))' <=> Trusts(client.ca, CertOf(client))
    BY DEF Trusts, Signs
<1> QED BY <1>1, <1>2 DEF ClientInv

\* One more file is read.
LEMMA MakingGoesOn ==
    ASSUME CtxInv, UNCHANGED <<pkiVars, toolVars>>, ToolInv',
           UNCHANGED <<conf, env, sc, subs, client>>, Reading,
           making'.of = making.of, making'.cfg = making.cfg, making'.runs = making.runs,
           making'.settled = making.settled,
           making'.pc \in {"cert", "key"}, NeedsTLS, DOMAIN making' = DOMAIN making,
           making.cfg.ca # Unset => ParseCertificates(making'.ca).ok,
           Settled /\ making.cfg.ca # Unset => making'.ca = Read(making.cfg.ca),
           making'.pc = "key" /\ Settled => making'.crt = Read(making.cfg.cert)
    PROVE  CtxInv'
<1>1. Mixed' <=> Mixed
    BY DEF Mixed
<1>2. ScInv'
    BY <1>1 DEF CtxInv, ScInv, SystemCert, CfgOk
<1>3. ClientInv'
    BY ClientStays DEF CtxInv, pkiVars
<1>4. /\ runs' = runs /\ finished' = finished /\ files' = files
      /\ Settled' <=> Settled
      /\ NeedsTLS' <=> NeedsTLS
    BY DEF toolVars, Settled, NeedsTLS
<1>5. /\ CfgOk(making.cfg)' <=> CfgOk(making.cfg)
      /\ OwnOk(making.cfg)' <=> OwnOk(making.cfg)
    BY <1>1 DEF CfgOk, OwnOk
<1>6. /\ Read(making.cfg.ca)' = Read(making.cfg.ca)
      /\ Read(making.cfg.cert)' = Read(making.cfg.cert)
    BY <1>4 DEF Read
<1>7. MakingInv'
    BY <1>4, <1>5, <1>6 DEF CtxInv, MakingInv, Reading
<1> QED BY <1>2, <1>3, <1>7 DEF CtxInv

LEMMA CtxInvReads ==
    ASSUME CtxInv, ToolInv', UNCHANGED <<pkiVars, toolVars>>,
           MakePlain \/ ReadCA \/ ReadCert \/ ReadKey
    PROVE  CtxInv'
<1> DEFINE plain == Made(FALSE, <<>>, <<>>, <<>>)
<1>1. UNCHANGED <<conf, env, now>> /\ (Mixed' <=> Mixed)
    BY DEF MakePlain, ReadCA, ReadCert, ReadKey, Mixed, pkiVars
<1>2. /\ plain.of = making.of
      /\ Refused.of = "refused" /\ (Refused.settled <=> Settled)
    BY DEF Refused, Made, Settled
<1>3. CASE MakePlain
  <2>1. making.of \notin Sections
    <3>1. Reading /\ ~NeedsTLS
      BY <1>3 DEF MakePlain, Reading
    <3>2. making.of \in Sections => CfgOk(making.cfg)
      BY <3>1 DEF CtxInv, MakingInv
    <3> QED BY <3>1, <3>2, NamedAre DEF NeedsTLS, CfgOk
  <2>2. client'.of = making.of /\ making.of # "refused"
    BY <1>2, <1>3, NamedAre DEF MakePlain, CtxInv, MakingInv, Reading
  <2>3. ClientInv'
    BY <2>1, <2>2 DEF ClientInv
  <2> QED BY <1>3, <2>3, MakingEnds DEF MakePlain
<1>4. CASE ReadCA
  <2> DEFINE ca == IF making.cfg.ca = Unset THEN <<>> ELSE Read(making.cfg.ca)
  <2>1. Reading /\ NeedsTLS
    BY <1>4 DEF ReadCA, Reading
  <2>2. CASE making.cfg.ca = Unset \/ ParseCertificates(ca).ok
    <3>1. /\ making' = [making EXCEPT !.pc = "cert", !.ca = ca]
          /\ UNCHANGED <<conf, env, sc, subs, client>>
      BY <1>4, <2>2 DEF ReadCA
    <3> HIDE DEF ca
    <3>2. /\ making'.of = making.of /\ making'.cfg = making.cfg
          /\ making'.runs = making.runs /\ making'.settled = making.settled
          /\ making'.pc = "cert" /\ making'.ca = ca /\ DOMAIN making' = DOMAIN making
      BY <3>1 DEF CtxInv, MakingInv
    <3>3. making.cfg.ca # Unset => ca = Read(making.cfg.ca) /\ ParseCertificates(ca).ok
      BY <2>2 DEF ca
    <3> QED BY <2>1, <3>1, <3>2, <3>3, MakingGoesOn
  <2>3. CASE ~(making.cfg.ca = Unset \/ ParseCertificates(ca).ok)
    <3>1. making' = NoCall /\ client' = Refused /\ UNCHANGED <<conf, env, sc, subs>>
      BY <1>4, <2>3 DEF ReadCA
    <3>2. Settled => Mixed
      <4> SUFFICES ASSUME Settled, ~Mixed PROVE FALSE
        OBVIOUS
      <4>1. finished /\ ToolInv
        BY <2>1 DEF CtxInv, MakingInv
      <4>2. making.cfg.ca = "ca.crt"
        BY <2>1, <2>3 DEF CtxInv, MakingInv, CfgOk, OwnOk
      <4> QED BY <2>3, <4>1, <4>2, SettledFiles
    <3>3. ClientInv'
      BY <1>1, <1>2, <3>1, <3>2, NamedAre DEF ClientInv
    <3> QED BY <3>1, <3>3, MakingEnds
  <2> QED BY <2>2, <2>3
<1>5. CASE ReadCert
  <2>1. /\ making' = [making EXCEPT !.pc = "key", !.crt = Read(making.cfg.cert)]
        /\ UNCHANGED <<conf, env, sc, subs, client>> /\ making.pc = "cert"
    BY <1>5 DEF ReadCert
  <2>2. PICK crt : crt = Read(making.cfg.cert)
    OBVIOUS
  <2>3. /\ making'.of = making.of /\ making'.cfg = making.cfg
        /\ making'.runs = making.runs /\ making'.settled = making.settled
        /\ making'.ca = making.ca /\ making'.pc = "key" /\ making'.crt = crt
        /\ DOMAIN making' = DOMAIN making
    BY <2>1, <2>2 DEF CtxInv, MakingInv
  <2>4. /\ Reading /\ NeedsTLS
        /\ making.cfg.ca # Unset => ParseCertificates(making.ca).ok
        /\ Settled /\ making.cfg.ca # Unset => making.ca = Read(making.cfg.ca)
    BY <2>1 DEF Reading, CtxInv, MakingInv
  <2> QED BY <2>1, <2>2, <2>3, <2>4, MakingGoesOn
<1>6. CASE ReadKey
  <2> DEFINE key == Read(making.cfg.key)
             pem == [crt |-> making.crt, key |-> key]
  <2>1. /\ making.pc = "key" /\ making' = NoCall /\ UNCHANGED <<conf, env, sc, subs>>
        /\ client' = IF Fits(pem) THEN Made(TRUE, making.ca, making.crt, key) ELSE Refused
    BY <1>6 DEF ReadKey
  <2>2. /\ Reading /\ ToolInv
        /\ Settled => finished /\ making.crt = Read(making.cfg.cert)
        /\ making.cfg.ca # Unset => ParseCertificates(making.ca).ok
        /\ Settled /\ making.cfg.ca # Unset => making.ca = Read(making.cfg.ca)
        /\ making.of \in Sections \cup {"own"}
        /\ making.of \in Sections => CfgOk(making.cfg)
        /\ making.of = "own" => OwnOk(making.cfg)
    BY <2>1 DEF CtxInv, MakingInv, Reading
  <2>3. CASE Fits(pem)
    <3>1. /\ client'.of = making.of /\ client'.tls = TRUE /\ client'.ca = making.ca
          /\ client'.crt = making.crt /\ client'.key = key
          /\ client'.settled <=> Settled
      BY <2>1, <2>3 DEF Made, Settled
    <3>2. ASSUME making.of \in Sections, Settled
          PROVE  Trusts(making.ca, CertOf(client'))
      <4>1. ParseCertificates(making.crt).ok
        BY <2>3 DEF Fits, Parses
      <4>2. making.cfg.cert \in Files
        BY <2>2, <3>2, <4>1, MissingIsNone DEF Read
      <4>3. making.cfg.ca = "ca.crt"
        BY <2>2, <3>2, MissingIsNone DEF CfgOk, Read
      <4> QED BY <2>2, <3>1, <3>2, <4>2, <4>3, SettledFiles DEF CfgOk
    <3>3. Fits([crt |-> client'.crt, key |-> client'.key])
      BY <2>3, <3>1
    <3>4. making.of # "refused"
      BY <2>2, NamedAre
    <3>5. making.of \in Sections /\ Settled => Trusts(client.ca, CertOf(client))'
      BY <1>1, <3>1, <3>2 DEF Trusts
    <3>6. ClientInv'
      BY <3>1, <3>3, <3>4, <3>5 DEF ClientInv
    <3> QED BY <2>1, <3>6, MakingEnds
  <2>4. CASE ~Fits(pem)
    <3>1. client' = Refused
      BY <2>1, <2>4
    <3>2. Settled => Mixed
      <4> SUFFICES ASSUME Settled, ~Mixed PROVE FALSE
        OBVIOUS
      <4>1. NeedsTLS
        BY <2>1 DEF CtxInv, MakingInv
      <4>2. Paired(making.cfg.key, making.cfg.cert)
        BY <2>2, <4>1, NamedAre DEF CfgOk, OwnOk, NeedsTLS
      <4> QED BY <2>2, <2>4, <4>2, SettledFiles
    <3>3. ClientInv'
      BY <1>1, <1>2, <3>1, <3>2, NamedAre DEF ClientInv
    <3> QED BY <2>1, <3>3, MakingEnds
  <2> QED BY <2>3, <2>4
<1> QED BY <1>3, <1>4, <1>5, <1>6

LEMMA CtxInvCalls ==
    ASSUME CtxInv, ToolInv', UNCHANGED <<pkiVars, toolVars>>, CtxNext
    PROVE  CtxInv'
<1>1. CheckSystemCert => \A s \in Sections : CfgOk(sc[s])
  <2>1. CheckSystemCert => SystemCert
    BY DEF CheckSystemCert, SystemCert, FileExists
  <2> QED BY <2>1 DEF CtxInv, ScInv
<1>2. CASE NewContext
  <2>1. making' = NoCall /\ UNCHANGED <<conf, env, client, now>>
    BY <1>2 DEF NewContext, pkiVars
  <2>2. ScInv'
    BY <1>2, NewContextFills DEF CtxInv
  <2>3. ClientInv'
    BY <2>1, ClientStays DEF CtxInv
  <2>4. making'.pc = "idle" /\ DOMAIN making' = DOMAIN NoCall
    BY <2>1 DEF NoCall
  <2>5. MakingInv'
    BY <2>4 DEF MakingInv, Reading
  <2> QED BY <2>2, <2>3, <2>5 DEF CtxInv
<1>3. CASE NewCoreHttpClient
  <2>1. client'.of = "insecure" /\ making.pc = "idle" /\ UNCHANGED <<conf, env, sc, subs, making>>
    BY <1>3 DEF NewCoreHttpClient, NoClient
  <2>2. ClientInv'
    BY <2>1, NamedAre DEF ClientInv
  <2>3. Mixed' <=> Mixed
    BY <2>1 DEF Mixed
  <2>4. ScInv'
    BY <2>1, <2>3 DEF CtxInv, ScInv, SystemCert, CfgOk
  <2>5. MakingInv'
    BY <2>1 DEF CtxInv, MakingInv, Reading
  <2> QED BY <2>2, <2>4, <2>5 DEF CtxInv
<1>4. CASE NewFunctionHttpClient
    BY <1>1, <1>4, NamedAre, MakingStarts DEF NewFunctionHttpClient
<1>5. CASE NewCoreHttpsClient
    BY <1>1, <1>5, NamedAre, MakingStarts DEF NewCoreHttpsClient
<1>6. ASSUME NEW topics \in Topics, NewBrokerClient(topics)
      PROVE  CtxInv'
  <2> DEFINE cfg == conf.values["broker"]
  <2>1. conf \in Confs /\ env \in Envs /\ "broker" \in DOMAIN NoConf
    BY NamedAre DEF CtxInv, ScInv
  <2>2. \A p \in Paths : cfg[p] \in Named[p] \cup {Unset}
            /\ Resolved(conf, env, cfg[p]) = cfg[p]
    BY <2>1, ConfsAssumption DEF Resolved
  <2>3. ~Mixed /\ cfg["key"] # Unset /\ cfg["cert"] # Unset =>
            (cfg["key"] = "client.key" <=> cfg["cert"] = "client.crt")
    <3>1. ~Mixed => conf.templates \subseteq DOMAIN env.vars
      BY DEF Mixed
    <3>2. "key" \in Paths /\ "cert" \in Paths
      BY NamedAre
    <3> QED BY <2>1, <2>2, <3>1, <3>2, ConfsAssumption
  <2>4. ~Mixed => (cfg["key"] = Unset <=> cfg["cert"] = Unset)
    BY NamedAre DEF Mixed
  <2>5. OwnOk(cfg)
    BY <2>2, <2>3, <2>4, NamedAre DEF OwnOk, Paired
  <2>6. Making("own", cfg, topics)
    BY <1>6 DEF NewBrokerClient
  <2> HIDE DEF cfg
  <2> QED BY <2>5, <2>6, NamedAre, MakingStarts
<1>7. ASSUME NEW topics \in Topics, NewSystemBrokerClient(topics)
      PROVE  CtxInv'
    BY <1>1, <1>7, NamedAre, MakingStarts DEF NewSystemBrokerClient
<1>8. CASE MakePlain \/ ReadCA \/ ReadCert \/ ReadKey
    BY <1>8, CtxInvReads
<1> QED BY <1>2, <1>3, <1>4, <1>5, <1>6, <1>7, <1>8 DEF CtxNext

LEMMA CtxInvNext ==
    ASSUME CtxInv,
           [\/ PkiNext /\ UNCHANGED <<toolVars, ctxVars>>
            \/ ToolNext /\ UNCHANGED ctxVars
            \/ CtxNext /\ UNCHANGED <<pkiVars, toolVars>>]_<<pkiVars, toolVars, ctxVars>>
    PROVE  CtxInv'
<1>1. ToolInv /\ now \in Nat
    BY DEF CtxInv, ToolInv, ToolTypeOK
<1>2. CASE [PkiNext]_pkiVars /\ UNCHANGED <<toolVars, ctxVars>>
  <2>1. ToolInv' /\ now <= now'
    BY <1>1, <1>2, PkiMoves, ToolInvOthers
  <2> QED BY <1>2, <2>1, CtxInvOthers DEF toolVars
<1>3. CASE ToolNext /\ UNCHANGED ctxVars
  <2>1. ToolInv'
    BY <1>1, <1>3, ToolInvNext
  <2> QED BY <1>1, <1>3, <2>1, ToolMoves, CtxInvOthers
<1>4. CASE CtxNext /\ UNCHANGED <<pkiVars, toolVars>>
  <2>1. ToolInv'
    BY <1>1, <1>4, ToolInvNext
  <2> QED BY <1>4, <2>1, CtxInvCalls
<1> QED BY <1>2, <1>3, <1>4

LEMMA TrustedFromInv == CtxInv => ClientsTrusted
<1> SUFFICES ASSUME CtxInv PROVE ClientsTrusted
    OBVIOUS
<1>1. ASSUME client.of \in Sections, client.settled, now <= CertOf(client).until
      PROVE  Verifies(CertOf(client), Certificates(client.ca), Certificates(client.ca))
  <2>1. Trusts(client.ca, CertOf(client)) /\ now \in Nat /\ now <= MaxNow
    BY <1>1 DEF CtxInv, ClientInv, ToolInv, ToolTypeOK
  <2>2. PICK root \in Certificates(client.ca) :
            /\ root.from \in Nat /\ root.from <= now
            /\ root.until \in Nat /\ MaxNow <= root.until
            /\ Signs(root, CertOf(client))
    BY <2>1 DEF Trusts
  <2>3. InDate(root)
    BY <2>1, <2>2, DaysAssumption DEF InDate
  <2>4. InDate(CertOf(client))
    BY <1>1, <2>1 DEF InDate, Trusts
  <2> QED BY <2>2, <2>3, <2>4, DirectPath
<1> QED BY <1>1 DEF ClientsTrusted, CtxInv, ClientInv, Certificates

\* For any configuration files that name the tool's output and any environments: while the
\* tool replaces the files, a client gets the key of its certificate or is refused, and
\* with settled files it is trusted, or the configuration is to blame.
THEOREM CtxTrusted == CtxSpec => []ClientsTrusted
<1> DEFINE Step == [\/ PkiNext /\ UNCHANGED <<toolVars, ctxVars>>
                    \/ ToolNext /\ UNCHANGED ctxVars
                    \/ CtxNext /\ UNCHANGED <<pkiVars, toolVars>>]_<<pkiVars, toolVars, ctxVars>>
<1>1. PkiInit /\ ToolInit /\ CtxInit => CtxInv
    BY CtxInvInit
<1>2. CtxInv /\ Step => CtxInv'
    BY CtxInvNext
<1>3. CtxInv => ClientsTrusted
    BY TrustedFromInv
<1> QED BY <1>1, <1>2, <1>3, PTL DEF CtxSpec
=============================================================================
