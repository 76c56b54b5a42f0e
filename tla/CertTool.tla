------------------------------- MODULE CertTool -------------------------------
(***************************************************************************)
(* The tool that issues the certificates of a test installation            *)
(* (src/tools/issue_certificate.go): a root, a client's and a server's     *)
(* certificate, written to output/ one file after the other.  A run may    *)
(* fail at every step, and is repeated over the files that are there.      *)
(***************************************************************************)
EXTENDS Pki

CONSTANTS
    RootDays, SubDays,  \* 50*365 and 20*365 days
    MaxRuns             \* bound: runs of the tool

\* A root is valid for as long as what is signed with it within the clock's bound.
ASSUME DaysAssumption ==
    /\ RootDays \in Nat /\ SubDays \in Nat /\ MaxNow \in Nat
    /\ SubDays + MaxNow <= RootDays

Files == {"ca.crt", "ca.key", "client.crt", "client.key", "server.crt", "server.key"}

\* No file.
Missing == <<[type |-> "missing", headers |-> FALSE, good |-> FALSE, body |-> 0]>>

\* issueCert: what is made and what is written, in order.
Steps == <<"root", "ca.crt", "ca.key", "client", "client.crt", "client.key",
           "server", "server.crt", "server.key">>

VARIABLES
    files,      \* the contents of output/
    step,       \* the next step of the run; 0: the tool does not run
    made,       \* the CertPems of the run
    runs,       \* how many runs were begun
    finished    \* the last run has ended without an error

toolVars == <<files, step, made, runs, finished>>

ToolInit ==
    /\ files = [f \in Files |-> Missing]
    /\ step = 0 /\ runs = 0 /\ finished = FALSE
    /\ made = [who \in {"root", "client", "server"} |-> NoPem]

ToolStarts ==
    /\ step = 0 /\ runs < MaxRuns
    /\ step' = 1 /\ runs' = runs + 1 /\ finished' = FALSE
    /\ UNCHANGED <<files, made, pkiVars>>

genCsr(cn) == [cn |-> cn, ou |-> <<"BAETYL">>]

createRoot == CreateSelfSignedRootCert(genCsr("root.ca"), RootDays, now, ids + 1)

createSub(cn, parent) == CreateSubCertWithKey(genCsr(cn), SubDays, now, ids + 1, parent)

\* createRoot or createSub, with the root of this run.
ToolCreates ==
    /\ step \in DOMAIN Steps /\ Steps[step] \in DOMAIN made
    /\ LET pem == IF Steps[step] = "root" THEN createRoot
                  ELSE createSub(Steps[step], made["root"])
       IN  pem.ok /\ made' = [made EXCEPT ![Steps[step]] = pem.val]
    /\ step' = step + 1 /\ ids' = ids + 1
    /\ UNCHANGED <<files, runs, finished, now, pems, call>>

Content(f) ==
    CASE f = "ca.crt" -> made["root"].crt       [] f = "ca.key" -> made["root"].key
      [] f = "client.crt" -> made["client"].crt [] f = "client.key" -> made["client"].key
      [] f = "server.crt" -> made["server"].crt [] OTHER -> made["server"].key

\* Faulty variant: a key that is there is kept.
ToolWritesOnce ==
    /\ step \in DOMAIN Steps /\ Steps[step] \in Files
    /\ files' = IF Steps[step] = "ca.key" /\ files["ca.key"] # Missing THEN files
                ELSE [files EXCEPT ![Steps[step]] = Content(Steps[step])]
    /\ finished' = (step = Len(Steps))
    /\ step' = IF step = Len(Steps) THEN 0 ELSE step + 1
    /\ UNCHANGED <<made, runs, pkiVars>>

\* ioutil.WriteFile; after the last one issueCert returns nil.
ToolWrites ==
    /\ step \in DOMAIN Steps /\ Steps[step] \in Files
    /\ files' = [files EXCEPT ![Steps[step]] = Content(Steps[step])]
    /\ finished' = (step = Len(Steps))
    /\ step' = IF step = Len(Steps) THEN 0 ELSE step + 1
    /\ UNCHANGED <<made, runs, pkiVars>>

\* An error ends the run; a file that was opened but not written is empty.
ToolFails ==
    /\ step # 0
    /\ step' = 0
    /\ files' = files \/ (Steps[step] \in Files /\ files' = [files EXCEPT ![Steps[step]] = <<>>])
    /\ UNCHANGED <<made, runs, finished, pkiVars>>

ToolNext == ToolStarts \/ ToolCreates \/ ToolWrites \/ ToolFails

\* The tool beside the library's other callers.
ToolSpec ==
    /\ PkiInit /\ ToolInit
    /\ [][(PkiNext /\ UNCHANGED toolVars) \/ ToolNext]_<<pkiVars, toolVars>>

-----------------------------------------------------------------------------
Pair(crt, key) == [crt |-> files[crt], key |-> files[key]]
CA == Pair("ca.crt", "ca.key")
Subs == {Pair("client.crt", "client.key"), Pair("server.crt", "server.key")}

\* After a run that ended well the files belong together: each key to its certificate,
\* and both certificates are accepted by who trusts ca.crt while they are valid, whatever
\* failed runs have left behind.
OutputConsistent ==
    finished =>
        /\ Fits(CA)
        /\ \A sub \in Subs :
            /\ Fits(sub)
            /\ now <= CertOf(sub).until => Verifies(CertOf(sub), {CertOf(CA)}, {CertOf(CA)})
=============================================================================
