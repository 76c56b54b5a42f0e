------------------------------- MODULE DmReport -------------------------------
(***************************************************************************)
(* ReportDevicePropertiesWithFilter (src/dmcontext/context.go): of the     *)
(* properties a driver samples only those are published that were silent   *)
(* for longer than their window or that have risen by their deviation.     *)
(* The baseline, lastReportProperties, has one entry per property name,    *)
(* whatever device the property belongs to, and is moved before the report *)
(* is sent, which may fail.  Calls come one at a time; one for a device    *)
(* without a template returns an error and changes nothing.                *)
(***************************************************************************)
EXTENDS Integers

CONSTANTS
    Devices,
    Mapping,    \* device |-> its access template: property |-> [deviation, silentWin]
    Numbers,    \* the numbers that are sampled
    Text,       \* a value that is not calculable
    None,       \* no entry
    MaxTime     \* bound: the clock

Values == Numbers \cup {Text}
Properties == UNION {DOMAIN Mapping[d] : d \in Devices}
Pass == [time : Int, value : Values, device : Devices, published : BOOLEAN]
\* Properties that a report may have besides those of the template.
Unmapped == "unmapped"

ASSUME ReportAssumption ==
    /\ Numbers \subseteq Int
    /\ MaxTime \in Nat
    /\ None \notin Pass
    /\ \A d \in Devices, p \in Properties :
        p \in DOMAIN Mapping[d] => Mapping[d][p] \in [deviation : Nat, silentWin : Nat]

VARIABLES
    now,        \* the clock, in seconds
    last,       \* lastReportProperties: property |-> its baseline, or None
    call,       \* history: the last call: device, report, filterReport
    passed      \* history: property |-> the last time a call let it through: when, which
                \* value, of which device, and whether it was published; or None

vars == <<now, last, call, passed>>

Init ==
    /\ now = 0
    /\ last = [p \in Properties |-> None]
    /\ call = None
    /\ passed = [p \in Properties |-> None]

-----------------------------------------------------------------------------
\* The first report of the property, or the window is over.
Silent(base, m) == base = None \/ now - base.time > m.silentWin

\* isCalculable, parseValueToFloat64 twice, and parseVal - lastVal >= ...
Deviates(v, b, m) ==
    v # Text /\ b # Text /\ 100 * (v - b) >= b * m.deviation

\* The sample is put into filterReport when one of the rules applies.
Passes(base, v, m) == Silent(base, m) \/ Deviates(v, base.value, m)

\* Faulty variant: the baseline follows every sample.
RebasedAlways(base, v, m) == [time |-> now, value |-> v]

\* The baseline after the property was sampled: the sample, if it passes.
Rebased(base, v, m) ==
    IF Passes(base, v, m) THEN [time |-> now, value |-> v] ELSE base

\* A call: properties that the template does not map are left out.  The message
\* cannot be encoded or sent (~ok), or it is published.
ReportDevicePropertiesWithFilter(d, report, ok) ==
    LET mapped == DOMAIN report \cap DOMAIN Mapping[d]
        filterReport == {p \in mapped : Passes(last[p], report[p], Mapping[d][p])}
    IN  /\ last' = [p \in Properties |->
                        IF p \in mapped THEN Rebased(last[p], report[p], Mapping[d][p])
                                        ELSE last[p]]
        /\ call' = [device |-> d, report |-> report, filter |-> filterReport]
        /\ passed' = [p \in Properties |->
                        IF p \in filterReport
                        THEN [time |-> now, value |-> report[p], device |-> d, published |-> ok]
                        ELSE passed[p]]
        /\ UNCHANGED now

\* Time passes.
Tick ==
    /\ now < MaxTime
    /\ now' = now + 1
    /\ call' = None
    /\ UNCHANGED <<last, passed>>

Reports == UNION {[S -> Values] : S \in SUBSET (Properties \cup {Unmapped})}

Next ==
    \/ Tick
    \/ \E d \in Devices, report \in Reports, ok \in BOOLEAN :
        ReportDevicePropertiesWithFilter(d, report, ok)

Spec == Init /\ [][Next]_vars

-----------------------------------------------------------------------------
\* Within the window since b was let through.
Recent(b, m) == b # None /\ now - b.time <= m.silentWin

\* Not risen by the deviation above b.
Near(b, v, m) == v # Text /\ b.value # Text => 100 * v < b.value * (100 + m.deviation)

\* When a call leaves a property of a device out, some call let the property through
\* within the device's window; and if that was a call for the same device and its report
\* was published, the sample is near to what the device PUBLISHED last: neither a long
\* silence nor a slow drift of many small steps goes unreported.  (After a report
\* that failed, or one of another device, the sample may be far from anything that was
\* published for the device.)
SuppressedIsNearPublished ==
    [][call' # None =>
        LET d == call'.device
        IN  \A p \in (DOMAIN call'.report \cap DOMAIN Mapping[d]) \ call'.filter :
                /\ Recent(passed[p], Mapping[d][p])
                /\ passed[p].device = d /\ passed[p].published =>
                    Near(passed[p], call'.report[p], Mapping[d][p])
      ]_vars
=============================================================================
