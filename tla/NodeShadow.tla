------------------------------ MODULE NodeShadow ------------------------------
(***************************************************************************)
(* The shadow of a node (src/spec/v1/node.go): Desire and Report are JSON  *)
(* objects that are merged with what comes in; Diff and DiffWithNil say    *)
(* what is missing in the report, and Patch applies such a delta.          *)
(*                                                                         *)
(* A document is a function on the paths of its values, a path being the   *)
(* keys that lead to a value from the top.  A value is Null, Object or     *)
(* <<"leaf", v>> (a number, string, list); what an object holds is at the  *)
(* paths below its own.  So the code's recursion over nested objects is a  *)
(* quantifier over the paths above a path.  Documents are values here,     *)
(* where the code shares nested maps between documents.                    *)
(***************************************************************************)
EXTENDS Naturals, Sequences, SequencesExt

CONSTANTS
    JsonKeys,   \* the keys an object may have
    Docs,       \* the documents that are reported and desired
    MaxDepth    \* maxJSONLevel (5 in the code)

Null == <<"null">>
Object == <<"object">>
EmptyDoc == [p \in {} |-> Null]

\* A path with those above it.
Upto(p) == Prefixes(p) \ {<<>>}
Above(p) == Upto(p) \ {p}

\* The paths of a document: what is above a value is an object.
IsDoc(doc) ==
    /\ doc = [p \in DOMAIN doc |-> doc[p]]
    /\ DOMAIN doc \subseteq Seq(JsonKeys) \ {<<>>}
    /\ \A p \in DOMAIN doc : \A q \in Above(p) : q \in DOMAIN doc /\ doc[q] = Object

ASSUME DocsAssumption ==
    MaxDepth \in Nat \ {0, 1} /\ \A doc \in Docs : IsDoc(doc)

-----------------------------------------------------------------------------
(* merge                                                                   *)

\* Where both have an object, the one is merged into the other, one level down.
Meet(left, right, q) == left[q] = Object /\ right[q] = Object

\* What stays of left: nothing was put at it or above it.
Kept(left, right) ==
    {p \in DOMAIN left : \A q \in Upto(p) \cap DOMAIN right : Meet(left, right, q)}

\* Where objects do not meet, the value of right is put, with all that is below it.
Merge(left, right) ==
    [p \in DOMAIN right \cup Kept(left, right) |-> IF p \in DOMAIN right THEN right[p] ELSE left[p]]

\* The objects whose merge meets the limit: the top is at level 1.
AtLimit(left, right) ==
    {q \in DOMAIN left \cap DOMAIN right : Len(q) + 1 = MaxDepth /\ Meet(left, right, q)}

Fails(left, right) == AtLimit(left, right) # {}

\* The values next to the way down to q, whose merge does not fail.
Beside(left, right, q) ==
    {s \in DOMAIN right :
        /\ Len(s) <= Len(q) /\ Above(s) \subseteq Upto(q)
        /\ \A t \in AtLimit(left, right) : s \notin Upto(t)}

\* What may have been merged of right when the merge fails: Go goes through the keys of
\* an object in any order, so some of those that can be merged were, at each level of the
\* way to the object that failed.
Parts(left, right) ==
    UNION {{Restrict(right, {p \in DOMAIN right : p \in Upto(q) \/ Upto(p) \cap S # {}}) :
                S \in SUBSET Beside(left, right, q)} :
           q \in AtLimit(left, right)}

-----------------------------------------------------------------------------
(* diff and patch                                                          *)

\* What changes a into b: new and changed values, null for keys to be removed, and
\* nothing where two objects do not differ.
CreateMergePatch(a, b) ==
    LET changed == {p \in DOMAIN b : p \notin DOMAIN a \/ a[p] # b[p]}
        gone == {p \in DOMAIN a \ DOMAIN b : \A q \in Above(p) : q \in DOMAIN b /\ b[q] = Object}
    IN  [q \in UNION {Upto(p) : p \in changed \cup gone} |-> IF q \in gone THEN Null ELSE b[q]]

\* The document after a patch: null removes, objects are patched, the rest is put.
MergePatch(doc, delta) ==
    [p \in {q \in DOMAIN delta : delta[q] # Null} \cup Kept(doc, delta) |->
        IF p \in DOMAIN delta THEN delta[p] ELSE doc[p]]

\* Faulty variant: nulls are removed at the top level only.
CleanTop(doc) == Restrict(doc, {p \in DOMAIN doc : Len(p) > 1 \/ doc[p] # Null})

\* clean: nulls are removed at every level; an object that is emptied stays.
Clean(doc) == Restrict(doc, {p \in DOMAIN doc : doc[p] # Null})

DiffWithNil(desired, reported) == CreateMergePatch(reported, desired)

Diff(desired, reported) == Clean(DiffWithNil(desired, reported))

Patch(doc, delta) == MergePatch(doc, delta)

-----------------------------------------------------------------------------
VARIABLES
    desire,
    report,
    last        \* history: what was done last, with the document merged

shadowVars == <<desire, report, last>>

ShadowInit ==
    /\ desire = EmptyDoc /\ report = EmptyDoc
    /\ last = [op |-> "new", doc |-> EmptyDoc]

MergeDesire(doc) ==
    /\ ~Fails(desire, doc)
    /\ desire' = Merge(desire, doc)
    /\ last' = [op |-> "desire", doc |-> doc]
    /\ UNCHANGED report

\* The limit is met on the way.
MergeDesireFails(doc) ==
    /\ \E part \in Parts(desire, doc) : desire' = Merge(desire, part)
    /\ last' = [op |-> "failed", doc |-> doc]
    /\ UNCHANGED report

MergeReport(doc) ==
    /\ ~Fails(report, doc)
    /\ report' = Merge(report, doc)
    /\ last' = [op |-> "report", doc |-> doc]
    /\ UNCHANGED desire

\* As for the desire: an error is returned, and part of the document was merged, one of Parts.
MergeReportFails(doc, part) ==
    /\ report' = Merge(report, part)
    /\ last' = [op |-> "failed", doc |-> doc]
    /\ UNCHANGED desire

\* The node does what is desired of it and reports the delta.
ReportDelta ==
    LET delta == Diff(desire, report)
    IN  /\ ~Fails(report, delta)
        /\ report' = Merge(report, delta)
        /\ last' = [op |-> "delta", doc |-> delta]
        /\ UNCHANGED desire

ShadowNext ==
    \/ ReportDelta
    \/ \E doc \in Docs :
        \/ MergeDesire(doc) \/ MergeDesireFails(doc) \/ MergeReport(doc)
        \/ \E part \in Parts(report, doc) : MergeReportFails(doc, part)

ShadowSpec == ShadowInit /\ [][ShadowNext]_shadowVars

-----------------------------------------------------------------------------
NullFree(doc) == \A p \in DOMAIN doc : doc[p] # Null

\* Only objects within objects.
Leafless(doc) == \A p \in DOMAIN doc : doc[p] = Object

\* doc has every value of part, and more perhaps.
Says(doc, part) == \A p \in DOMAIN part : p \in DOMAIN doc /\ doc[p] = part[p]

LastReportHolds ==
    last.op = "report" =>
        /\ Says(report, last.doc)
        /\ Merge(report, last.doc) = report

\* The delta with nulls takes any report to the desire, whatever has been merged into
\* either, as long as nothing desired is null.  And a node that merges the (cleaned)
\* delta into its report is done: the next delta asks for no value any more, though
\* emptied objects may stay in it.  The report says what was reported last, at every
\* level, and the same report once more changes nothing (if it is not refused then, since
\* its levels were not looked at the first time).
DeltaSettles ==
    /\ LastReportHolds
    /\ NullFree(desire) => Patch(report, DiffWithNil(desire, report)) = desire
    /\ last.op = "delta" => Leafless(Diff(desire, report))
=============================================================================
