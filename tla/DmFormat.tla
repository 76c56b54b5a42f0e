------------------------------- MODULE DmFormat -------------------------------
(***************************************************************************)
(* The values of device properties (src/dmcontext): a delta's JSON numbers *)
(* become values of the types of the device model (device.go); values that *)
(* a driver has read are formatted to a type (format.go).                  *)
(*                                                                         *)
(* A value is [type, v]: the name of its Go type and its payload.  Numbers *)
(* are rationals, <<n, 1>> if they are whole; a float is the nearest one   *)
(* that its type has.                                                      *)
(* The payload of a string is what the text says: <<"digits", q>>, where   *)
(* "2.0" is <<20, 10>>, <<"date", sep, day>>, <<"clock", sep, time>> or    *)
(* <<"word", w>>.                                                          *)
(***************************************************************************)
EXTENDS Integers, Sequences

CONSTANTS
    Limit,          \* numeric type |-> 2^(width - 1) or infinity, the first number that is too large
    Unit,           \* 1 / Unit is the smallest float
    Floats,         \* float type |-> its numbers, counted in 1 / Unit
    Shortest,       \* float type |-> its number |-> what the shortest text for it says
    Model,          \* the device model: property |-> type
    Deltas,         \* contents of delta messages: property |-> a value, as JSON
    GoValues,       \* values that drivers format
    FormatArgs      \* type |-> the arguments of ParseValue for it

IntTypes == {"int", "int16", "int32", "int64"}
FloatTypes == {"float32", "float64"}
TimeTypes == {"date", "time"}
Composite == {"array", "enum", "object"}
Numeric(type) == type \in IntTypes \cup FloatTypes

Value(type, v) == [type |-> type, v |-> v]
Str(v) == Value("string", v)
Nil == Value("nil", <<>>)
Error == Value("error", <<>>)
Panic == Value("panic", <<>>)
Ok(x) == x.type \notin {"error", "panic"}
FirstFault(xs) == xs[CHOOSE i \in DOMAIN xs : ~Ok(xs[i]) /\ \A j \in 1 .. i - 1 : Ok(xs[j])]

-----------------------------------------------------------------------------
(* Numbers                                                                 *)

Rationals == Int \X (Nat \ {0})
Rat(n) == <<n, 1>>
Same(a, b) == a[1] * b[2] = b[1] * a[2]
Whole(q) == q[2] = 1
Lowest(q) == IF q[1] % q[2] = 0 THEN Rat(q[1] \div q[2]) ELSE q
Trunc(q) == IF q[1] < 0 THEN -((-q[1]) \div q[2]) ELSE q[1] \div q[2]
InRange(type, n) == -Limit[type] <= n /\ n < Limit[type]
\* Conversion to an integer type: the low bits.
Wrap(type, n) == ((n + Limit[type]) % (2 * Limit[type])) - Limit[type]

Abs(n) == IF n < 0 THEN -n ELSE n
\* How far f / Unit is from q (in a unit of its own).
Distance(q, f) == Abs(q[1] * Unit - f * q[2])
\* Rounding.  Which of two floats that are equally near is taken is not told.
Nearest(type, q) == CHOOSE f \in Floats[type] : \A g \in Floats[type] : Distance(q, f) <= Distance(q, g)
Round(type, q) == Lowest(<<Nearest(type, q), Unit>>)

\* A Go value with numbers in it, or none.
Scalar(x) ==
    /\ Numeric(x.type) => x.v \in Rationals
    /\ x.type = "string" /\ x.v[1] = "digits" => x.v[2] \in Rationals

ASSUME FormatAssumption ==
    /\ Limit \in [IntTypes \cup FloatTypes -> Nat \ {0, 1}]
    /\ \A delta \in Deltas : \A k \in DOMAIN delta :
        /\ delta[k].type \notin {"Number", "error", "panic"}
        /\ delta[k].type = "number" => delta[k].v \in Rationals
    /\ \A x \in GoValues : Scalar(x) /\ (x.type = "map" => \A k \in DOMAIN x.v : Scalar(x.v[k]))

\* The largest float of either sign stands for infinity.  float64 has every number of
\* float32 and of the two narrow integer types.
ASSUME FloatAssumption ==
    /\ Unit \in Nat \ {0}
    /\ \A type \in FloatTypes :
        /\ Floats[type] \subseteq -Limit[type] * Unit .. Limit[type] * Unit
        /\ {-Limit[type] * Unit, 0, Unit, Limit[type] * Unit} \subseteq Floats[type]
    /\ Floats["float32"] \subseteq Floats["float64"]
    /\ \A type \in {"int16", "int32"} :
        \A n \in -Limit[type] .. Limit[type] : n * Unit \in Floats["float64"]

\* What strconv.FormatFloat writes.
FormatFloat(type, q) == Shortest[type][Nearest(type, q)]

\* The Go numbers, and nothing else.
isCalculable(x) == Numeric(x.type)

\* A float32 is written and read again.
parseValueToFloat64(x) ==
    IF ~isCalculable(x) THEN Error
    ELSE Value("float64", Round("float64", IF x.type = "float32" THEN FormatFloat("float32", x.v) ELSE x.v))

-----------------------------------------------------------------------------
(* Deltas                                                                  *)

\* ExactUnmarshal: numbers are kept as they were written.
ExactUnmarshal(x) == IF x.type = "number" THEN Value("Number", x.v) ELSE x

\* strconv.ParseFloat: what is rounded to infinity is out of range.
ParseFloat(type, q) ==
    IF Round(type, q) \in {Rat(-Limit[type]), Rat(Limit[type])} THEN Error ELSE Value(type, Round(type, q))

\* The types that a delta's values are given.
Typed == (IntTypes \ {"int"}) \cup FloatTypes \cup {"bool", "string"} \cup TimeTypes \cup Composite

\* Faulty variant: ParseInt and ParseFloat are asked for 64 bits, whatever the type.
parsePropertyValueWide(type, x) ==
    CASE type \in IntTypes \ {"int"} ->
            IF x.type = "Number" /\ Whole(x.v) /\ InRange("int64", x.v[1])
            THEN Value(type, Rat(Wrap(type, x.v[1]))) ELSE Error
      [] type \in FloatTypes ->
            IF x.type = "Number" /\ Ok(ParseFloat("float64", x.v))
            THEN Value(type, Round(type, Round("float64", x.v))) ELSE Error
      [] OTHER -> IF type \in Typed THEN x ELSE Error

\* ParseInt and ParseFloat of the number's text, which is empty if it is no number.
parsePropertyValue(type, x) ==
    CASE type \in IntTypes \ {"int"} ->
            IF x.type = "Number" /\ Whole(x.v) /\ InRange(type, x.v[1])
            THEN Value(type, x.v) ELSE Error
      [] type \in FloatTypes ->
            IF x.type = "Number" THEN ParseFloat(type, x.v) ELSE Error
      [] type \in {"bool", "string"} \cup TimeTypes \cup Composite -> x
      [] OTHER -> Error

\* One property that the model does not have, or one value that it cannot take,
\* and there is no result.
parsePropertyValues(props) ==
    IF DOMAIN props \subseteq DOMAIN Model
       /\ \A k \in DOMAIN props : Ok(parsePropertyValue(Model[k], props[k]))
    THEN Value("map", [k \in DOMAIN props |-> parsePropertyValue(Model[k], props[k])])
    ELSE Error

-----------------------------------------------------------------------------
(* ParseValue                                                              *)

\* A conversion.  Bound: a float is converted to an integer type only if its whole
\* part is in the range of int, beyond which Go leaves the result open.
Number(type, q) == Value(type, IF type \in IntTypes THEN Rat(Wrap(type, Trunc(q))) ELSE Round(type, q))

\* spf13/cast: to a number, to a bool, to a string.
ToNumberE(type, x) ==
    CASE Numeric(x.type) -> Number(type, x.v)
      [] x.type = "string" ->
            IF x.v[1] # "digits" THEN Error
            ELSE IF type \in FloatTypes THEN ParseFloat(type, x.v[2])
            ELSE IF Whole(x.v[2]) /\ InRange("int", x.v[2][1]) THEN Number(type, x.v[2])
            ELSE Error
      [] x.type = "bool" -> Value(type, Rat(IF x.v[1] THEN 1 ELSE 0))
      [] x.type = "nil" -> Value(type, Rat(0))
      [] OTHER -> Error

ToBoolE(x) ==
    CASE x.type = "bool" -> x
      [] x.type = "nil" -> Value("bool", <<FALSE>>)
      [] x.type = "int" -> Value("bool", <<x.v[1] # 0>>)
      [] x = Str(<<"digits", Rat(0)>>) -> Value("bool", <<FALSE>>)
      [] x = Str(<<"digits", Rat(1)>>) -> Value("bool", <<TRUE>>)
      [] OTHER -> Error

ToStringE(x) ==
    CASE x.type = "string" -> x
      [] x.type \in FloatTypes -> Str(<<"digits", FormatFloat(x.type, x.v)>>)
      [] x.type \in IntTypes \cup {"Number"} -> Str(<<"digits", x.v>>)
      [] x.type = "bool" -> Str(<<"word", x.v>>)
      [] x.type = "nil" -> Str(<<"word", "">>)
      [] x.type = "Time" -> Str(<<"word", "time">>)
      [] OTHER -> Error

\* The formats of the table, but the last, whose layout "06-01-2020" is not a date.
timeFormats ==
    [f \in {"yyyy-mm-dd", "yyyy.mm.dd", "yyyy/mm/dd", "hh:mm:ss", "mm-dd-yyyy"} |->
        CASE f = "yyyy-mm-dd" -> <<"date", "-">>
          [] f = "yyyy.mm.dd" -> <<"date", ".">>
          [] f = "yyyy/mm/dd" -> <<"date", "/">>
          [] f = "hh:mm:ss" -> <<"clock", ":">>
          [] OTHER -> <<"garbled", "-">>]
parseLayout == {<<"date", "-">>, <<"date", ".">>, <<"date", "/">>,
                <<"clock", ":">>, <<"clock", "-">>, <<"clock", ".">>}

\* A time is <<day, time of the day>>.  A text without one of them has the first.
Midnight == 0
YearZero == 0
TimeOf(text) == IF text[1] = "date" THEN <<text[3], Midnight>> ELSE <<YearZero, text[3]>>
Format(layout, t) == Str(<<layout[1], layout[2], IF layout[1] = "clock" THEN t[2] ELSE t[1]>>)

\* Faulty variant: a text that is in the format's form is parsed as a day.
parseTimeAsDay(x, format) ==
    IF format \notin DOMAIN timeFormats THEN Error
    ELSE CASE x.type = "nil" -> Panic
           [] x.type = "string" ->
                IF <<x.v[1], x.v[2]>> \in parseLayout
                THEN Format(timeFormats[format], <<x.v[3], Midnight>>) ELSE Error
           [] x.type = "Time" -> Format(timeFormats[format], x.v)
           [] OTHER -> Error

parseTime(x, format) ==
    IF format \notin DOMAIN timeFormats THEN Error
    ELSE CASE x.type = "nil" -> Panic
           [] x.type = "string" ->
                IF <<x.v[1], x.v[2]>> \in parseLayout
                THEN Format(timeFormats[format], TimeOf(x.v)) ELSE Error
           [] x.type = "Time" -> Format(timeFormats[format], x.v)
           [] OTHER -> Error

ParseSimple(type, x, format) ==
    CASE Numeric(type) -> ToNumberE(type, x)
      [] type = "bool" -> ToBoolE(x)
      [] type = "string" -> ToStringE(x)
      [] type \in TimeTypes -> parseTime(x, format)
      [] OTHER -> Error

\* An array, not a slice, of an admitted length.  The elements are formatted with a
\* format string for arguments, which no array, enum or object accepts.
parseArray(x, args) ==
    LET items == [i \in DOMAIN x.v |-> ParseSimple(args.type, x.v[i], args.format)]
    IN  IF x.type = "nil" THEN Panic
        ELSE IF x.type # "array" \/ Len(x.v) \notin args.min .. args.max THEN Error
        ELSE IF \E i \in DOMAIN items : ~Ok(items[i]) THEN FirstFault(items)
        ELSE Value("slice", items)

\* The name of the first of the enum's values that is equal.
parseEnum(x, args) ==
    LET values == [i \in DOMAIN args.values |-> ParseSimple(args.type, args.values[i].value, "")]
        hits == {i \in DOMAIN values : values[i] = x \/ ~Ok(values[i])}
        first == CHOOSE i \in hits : \A j \in hits : i <= j
    IN  IF x.type = "nil" THEN Panic
        ELSE IF x.type # args.type \/ hits = {} THEN Error
        ELSE IF ~Ok(values[first]) THEN values[first]
        ELSE Str(<<"word", args.values[first].name>>)

\* The members that the type has and the value has; the others are left out.
parseObject(x, args) ==
    LET members == [k \in DOMAIN args.members \cap DOMAIN x.v |->
                        ParseSimple(args.members[k].type, x.v[k], args.members[k].format)]
    IN  IF x.type # "map" THEN Error
        ELSE IF \E k \in DOMAIN members : ~Ok(members[k])
        THEN members[CHOOSE k \in DOMAIN members : ~Ok(members[k])]
        ELSE Value("map", members)

\* The arguments are a record: the format string is its format.  Bound: an array,
\* enum or object comes with arguments of its own kind.
ParseValue(type, x, args) ==
    CASE type = "array" -> parseArray(x, args)
      [] type = "enum" -> parseEnum(x, args)
      [] type = "object" -> parseObject(x, args)
      [] OTHER -> ParseSimple(type, x, args.format)

-----------------------------------------------------------------------------
VARIABLE done       \* the last call: what it was given and what it returned

NotDone == [op |-> "none"]

\* processDelta: the content is decoded and typed, and given to the callback.
processDelta(delta) ==
    done' = [op |-> "delta", sent |-> delta,
             got |-> parsePropertyValues([k \in DOMAIN delta |-> ExactUnmarshal(delta[k])])]

FormatValue(type, x, args) ==
    done' = [op |-> "format", type |-> type, args |-> args, got |-> ParseValue(type, x, args)]

FormatNext ==
    \/ \E delta \in Deltas : processDelta(delta)
    \/ \E type \in DOMAIN FormatArgs, x \in GoValues :
        \E args \in FormatArgs[type] : FormatValue(type, x, args)

FormatSpec == done = NotDone /\ [][FormatNext]_done

\* The number is farther out than every finite one of the float type.
Beyond(type, q) ==
    LET finite == Floats[type] \ {-Limit[type] * Unit, Limit[type] * Unit}
    IN  \/ \A f \in finite : f * q[2] < q[1] * Unit
        \/ \A f \in finite : f * q[2] > q[1] * Unit

\* A delta reaches the callback with the numbers that were sent, each in the Go type
\* of the device model: none is wrapped to the width of its type, an integer is the
\* one that was sent, and a float is as near to it as any of its type, so that none
\* is rounded twice.  All can be formatted to the same type without a change, and,
\* but for int64 and float32, used in expressions without one.  A delta is refused
\* as a whole, and only if the device model does not have a property, or has it with
\* a type that is not known or that does not have the number.
DeltaExact ==
    done.op = "delta" =>
        LET sent == done.sent
        IN  IF Ok(done.got)
            THEN \A k \in DOMAIN sent : Numeric(Model[k]) =>
                    LET x == done.got.v[k]
                    IN  /\ x.type = Model[k]
                        /\ x.type \in IntTypes => x.v = sent[k].v
                        /\ x.type \in FloatTypes => \E f \in Floats[x.type] :
                                /\ Same(x.v, <<f, Unit>>) /\ Abs(f) # Limit[x.type] * Unit
                                /\ \A g \in Floats[x.type] : Distance(sent[k].v, f) <= Distance(sent[k].v, g)
                        /\ x.type \notin {"int64", "float32"} => Same(parseValueToFloat64(x).v, x.v)
                        /\ ParseSimple(Model[k], x, "") = x
            ELSE \E k \in DOMAIN sent :
                    \/ k \notin DOMAIN Model
                    \/ Model[k] \notin Typed
                    \/ sent[k].type # "number"
                    \/ Model[k] \in IntTypes /\ ~(Whole(sent[k].v) /\ InRange(Model[k], sent[k].v[1]))
                    \/ Model[k] \in FloatTypes /\ Beyond(Model[k], sent[k].v)

\* Formatting is done once: what ParseValue returned is what it returns when it is
\* given that again, be it a wrapped number, a text, a date or an object.  (Not for
\* "mm-dd-yyyy", whose layout produces no date, and not for arrays, which come back
\* as a slice, and enums, which come back as a name.)
FormatStable ==
    LET again(type, format) == type \in TimeTypes => format # "mm-dd-yyyy"
        members == done.args.members
    IN  done.op = "format" /\ Ok(done.got) /\ done.type \notin {"array", "enum"}
        /\ (IF done.type = "object"
            THEN \A k \in DOMAIN members : again(members[k].type, members[k].format)
            ELSE again(done.type, done.args.format)) =>
                ParseValue(done.type, done.got, done.args) = done.got
=============================================================================
