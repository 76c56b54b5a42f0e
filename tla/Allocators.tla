------------------------------ MODULE Allocators ------------------------------
(***************************************************************************)
(* Numbers that are handed out in turn: the ports of a range               *)
(* (native/port.go, utils/port.go), which other processes open and close   *)
(* meanwhile, and the packet ids that Publish draws (mqtt/counter.go,      *)
(* mqtt/client.go).                                                        *)
(***************************************************************************)
EXTENDS Integers

CONSTANTS
    Ranges,         \* arguments of NewPortAllocator: pairs <<start, end>>
    MaxProbes,      \* bound: ports probed
    IdSpace,        \* number of values of a packet id (2^16 in the code)
    MaxDraws        \* bound: ids drawn

ASSUME AllocatorsAssumption ==
    /\ Ranges \subseteq Int \X Int
    /\ MaxProbes \in Nat /\ MaxDraws \in Nat
    /\ IdSpace \in Nat \ {0, 1}

VARIABLES
    asked,          \* the range that NewPortAllocator was asked for, or NoRange
    base, size, offset,     \* PortAllocator
    apc,            \* Allocate: idle, scan, failed (its last call returned an error)
    times,          \* in Allocate
    listening,      \* ports of the range that some process has open
    probes,         \* history: how many probes were made
    refused,        \* history: ports that this call found busy
    handed,         \* history: port |-> the probe that handed it out last, or 0
    next,           \* Counter.next
    draws,          \* history: how many ids were drawn since the counter was reset
    drawn           \* history: id |-> the draw that gave it last, or 0

portVars == <<asked, base, size, offset, apc, times, listening, probes, refused, handed>>
idVars == <<next, draws, drawn>>

NoRange == <<>>
Ports == asked[1] .. asked[2]
NoPorts ==
    /\ asked = NoRange /\ base = 0 /\ size = 0 /\ offset = 0 /\ apc = "idle" /\ times = 0
    /\ listening = {} /\ probes = 0 /\ refused = {} /\ handed = <<>>

Ids == 0 .. IdSpace - 1
NoneDrawn == draws = 0 /\ drawn = [i \in Ids |-> 0]

\* NewCounter, or NewCounterWithNext: with any number, 0 too.
NewCounter == next \in Ids /\ NoneDrawn

AllocInit == NoPorts /\ NewCounter

-----------------------------------------------------------------------------
(* Ports                                                                   *)

\* Faulty variant: the last port is left out.
NewPortAllocatorShort(range) ==
    /\ asked = NoRange
    /\ range[1] >= 1024 /\ range[2] <= 65535 /\ range[1] < range[2]
    /\ asked' = range /\ base' = range[1] /\ size' = range[2] - range[1]
    /\ handed' = [p \in range[1] .. range[2] |-> 0]
    /\ UNCHANGED <<offset, apc, times, listening, probes, refused>>

NewPortAllocator(range) ==
    /\ asked = NoRange
    /\ range[1] >= 1024 /\ range[2] <= 65535 /\ range[1] < range[2]
    /\ asked' = range /\ base' = range[1] /\ size' = range[2] - range[1] + 1
    /\ handed' = [p \in range[1] .. range[2] |-> 0]
    /\ UNCHANGED <<offset, apc, times, listening, probes, refused>>

\* Any process opens or closes a port, between any two probes.
Listen(p) ==
    /\ listening' = (listening \cup {p}) \ (listening \cap {p})
    /\ UNCHANGED <<asked, base, size, offset, apc, times, probes, refused, handed>>

Allocate ==
    /\ asked # NoRange /\ apc # "scan"
    /\ apc' = "scan" /\ times' = 0 /\ refused' = {}
    /\ UNCHANGED <<asked, base, size, offset, listening, probes, handed>>

CheckPortAvailable(p) == p \notin listening

Probe ==
    LET port == base + offset IN
    /\ apc = "scan" /\ times # size /\ probes < MaxProbes
    /\ offset' = (offset + 1) % size
    /\ probes' = probes + 1
    /\ \/ /\ CheckPortAvailable(port)
          /\ handed' = [handed EXCEPT ![port] = probes'] /\ apc' = "idle"
          /\ UNCHANGED <<times, refused>>
       \/ /\ ~CheckPortAvailable(port)
          /\ times' = times + 1 /\ refused' = refused \cup {port}
          /\ UNCHANGED <<handed, apc>>
    /\ UNCHANGED <<asked, base, size, listening>>

AllocateFails ==
    /\ apc = "scan" /\ times = size
    /\ apc' = "failed"
    /\ UNCHANGED <<asked, base, size, offset, times, listening, probes, refused, handed>>

PortNext ==
    \/ \E range \in Ranges : NewPortAllocator(range)
    \/ asked # NoRange /\ \E p \in Ports : Listen(p)
    \/ Allocate \/ Probe \/ AllocateFails

-----------------------------------------------------------------------------
(* Packet ids                                                              *)

Inc(id) == (id + 1) % IdSpace

\* The increment overflows to 0, which is no packet id.
NextCounterID(id) == IF Inc(id) = 0 THEN Inc(0) ELSE Inc(id)

NextID ==
    /\ next' = NextCounterID(next)
    /\ draws' = draws + 1 /\ drawn' = [drawn EXCEPT ![next] = draws']

\* A packet that is to be acknowledged and has no id yet gets one.
Publish(qos, pid) ==
    /\ draws < MaxDraws
    /\ IF qos # 0 /\ pid = 0 THEN NextID ELSE UNCHANGED idVars

\* The caller starts anew, and so do the histories.
Reset == next' = 1 /\ draws' = 0 /\ drawn' = [i \in Ids |-> 0]

IdNext == (\E qos \in 0 .. 2, pid \in Ids : Publish(qos, pid)) \/ Reset

-----------------------------------------------------------------------------
\* The two share nothing.
AllocNext == (PortNext /\ UNCHANGED idVars) \/ (IdNext /\ UNCHANGED portVars)

AllocSpec == AllocInit /\ [][AllocNext]_<<portVars, idVars>>

\* Allocate gives up only after it found each port of the range it was asked for busy, in
\* this call, wherever it began and whatever other processes did meanwhile; 0 is drawn as
\* an id only at first, by a counter that was made to begin with it.
NoneLeftOut == (apc = "failed" => refused = Ports) /\ drawn[0] \in {0, 1}

\* A port is handed out again only after the scan has been at all others of the range, and
\* an id only after all others were drawn: a number that was just given back, or is still in
\* use, is as old as it can be when it comes again.  No number is left out.
TurnStep ==
    /\ \A p \in DOMAIN handed : handed[p] # 0 /\ handed'[p] # handed[p] =>
        handed'[p] - handed[p] >= asked[2] - asked[1] + 1
    /\ \A i \in Ids : drawn[i] # 0 /\ drawn'[i] \notin {0, drawn[i]} =>
        drawn'[i] - drawn[i] >= IdSpace - 1
    /\ NoneLeftOut'

NumbersInTurn == [][TurnStep]_<<portVars, idVars>>
=============================================================================
