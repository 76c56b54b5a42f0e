------------------------------ MODULE MCDmValues ------------------------------
(* Two devices whose templates map the same property differently, and trees    *)
(* over one or two variables, small literals and an unsupported node; numbers, *)
(* texts and times at the edges of narrow numeric types.                       *)
EXTENDS DmReport, DmExpression, TLC

Samples == {-1, 0, 2, 3, 4}

Templates ==
    [d \in Devices |->
        IF d = CHOOSE e \in Devices : TRUE
        THEN "temp" :> [deviation |-> 50, silentWin |-> 1]
        ELSE "temp" :> [deviation |-> 10, silentWin |-> 2]]

SmallLeaves ==
    {<<"ident", "x">>, <<"ident", "y">>, <<"lit", 0>>, <<"lit", 2>>, <<"lit", 3>>, <<"other">>}

SmallTargets == {0, 5}

\* Bound: integers of 5, 3, 4 and 5 bits; floats of 2 and 3 bits before they are
\* shifted, so that the first has no 5 and the second no 9.
NarrowLimits ==
    ("int" :> 16) @@ ("int16" :> 4) @@ ("int32" :> 8) @@ ("int64" :> 16)
        @@ ("float32" :> 16) @@ ("float64" :> 32)
Eighths == 8
Shifted(bits) == {m * 2^e : m \in -(2^bits) .. 2^bits, e \in 0 .. 5}
SmallFloats == ("float32" :> Shifted(2)) @@ ("float64" :> Shifted(3))
\* One decimal tells the floats apart.
ShortTexts == [type \in FloatTypes |-> [f \in SmallFloats[type] |-> ToPrecision(<<f, Eighths>>, 1)]]

SmallModel ==
    ("temp" :> "int16") @@ ("count" :> "int64") @@ ("level" :> "float32") @@ ("gain" :> "float64") @@ ("name" :> "string")
        @@ ("bad" :> "int")

JsonValues ==
    {Value("number", q) : q \in {Rat(n) : n \in {-17, -5, -4, 3, 4, 16, 99}} \cup {<<5, 2>>, <<13, 5>>, <<20, 10>>}}
        \cup {Str(<<"word", "on">>), Value("bool", <<TRUE>>), Nil}

SmallDeltas ==
    UNION {[S -> JsonValues] :
        S \in {{"temp"}, {"count"}, {"level"}, {"gain"}, {"bad"}, {"temp", "count"}, {"name", "other"}}}

Numbers16 == {Value(t, Rat(n)) : t \in {"int", "int64"}, n \in {-9, -1, 0, 5, 15}}
Texts ==
    {Str(<<"digits", q>>) : q \in {Rat(0), Rat(1), Rat(9), Rat(-16), Rat(16), Rat(30), <<20, 10>>}}
        \cup {Str(<<"date", sep, 3>>) : sep \in {"-", "/", "_"}}
        \cup {Str(<<"clock", sep, 2>>) : sep \in {":", "."}}
        \cup {Str(<<"word", "on">>)}
Plain ==
    Numbers16 \cup Texts \cup {Nil, Value("bool", <<TRUE>>), Value("Time", <<5, 3>>),
        Value("float64", <<7, 2>>), Value("float64", Rat(14)), Value("float32", <<-3, 2>>), Value("Number", <<20, 10>>)}
SomeItems == {Nil, Value("int", Rat(5)), Str(<<"date", "-", 3>>), Str(<<"digits", Rat(9)>>)}
SmallValues ==
    Plain \cup {Value(kind, <<x, y>>) : kind \in {"array", "slice"}, x \in SomeItems, y \in SomeItems}
          \cup {Value("map", [k \in {"a", "c"} |-> IF k = "a" THEN x ELSE Nil]) : x \in SomeItems}

\* The arguments by type.
SmallArgs ==
    [type \in IntTypes \cup FloatTypes \cup TimeTypes \cup Composite \cup {"bool", "string", "xx"} |->
        CASE type = "array" -> {[type |-> t, format |-> "hh:mm:ss", min |-> 1, max |-> n] :
                                    t \in {"int16", "time", "array"}, n \in {1, 2}}
          [] type = "enum" -> {[type |-> t, values |-> << [value |-> v, name |-> "one"],
                                                          [value |-> Str(<<"digits", Rat(5)>>), name |-> "two"] >>] :
                                    t \in {"int", "string"}, v \in Texts}
          [] type = "object" -> {[members |-> [k \in {"a", "b"} |-> [type |-> t, format |-> f]]] :
                                    t \in {"int16", "date", "object"}, f \in {"yyyy/mm/dd", "mm-dd-yyyy"}}
          [] OTHER -> {[format |-> f] : f \in DOMAIN timeFormats \cup {"ss"}}]

SmallArguments ==
    {Value("int64", Rat(9)), Value("int16", Rat(-1)), Value("float64", <<5, 4>>), Value("float32", <<1, 8>>),
     Str(<<"word", "on">>)}

-----------------------------------------------------------------------------
(* The filter and the conversions share no state.  Bound: a conversion is      *)
(* called once, before the first report.                                      *)

idle == <<solved, done>>

ValuesInit == Init /\ solved = NotSolved /\ done = NotDone

Fresh ==
    /\ solved = NotSolved /\ done = NotDone
    /\ now = 0 /\ call = None /\ \A p \in Properties : last[p] = None

Reporting == solved = NotSolved /\ done = NotDone /\ Next /\ UNCHANGED idle

Solving ==
    /\ Fresh
    /\ \E t \in Inputs, v \in Targets : Solve(t, v)
    /\ UNCHANGED <<vars, done>>

Converting == Fresh /\ FormatNext /\ UNCHANGED <<vars, solved>>

\* Bound: flat expressions, and arguments at which they do not divide by zero.
Mapped ==
    /\ Fresh
    /\ \E t \in Flat, S \in SUBSET {"x", "y"}, m \in {"none", "value", "calc", "other"}, p \in 0 .. 2 :
        \E args \in [S -> ArgValues] :
            /\ Vars(t) \subseteq S =>
                Divides(t, [v \in Vars(t) |-> IF isCalculable(args[v]) THEN args[v].v ELSE Rat(1)])
            /\ Exec(t, args, m, p)
    /\ UNCHANGED <<vars, solved>>

ValuesSpec ==
    ValuesInit /\ [][Reporting \/ Solving \/ Converting \/ Mapped]_<<vars, solved, done>>
=============================================================================
