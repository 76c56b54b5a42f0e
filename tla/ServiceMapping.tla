---------------------------- MODULE ServiceMapping ----------------------------
(***************************************************************************)
(* The service mapping (src/native/mapping.go): processes share the ports  *)
(* of services through a file.  An instance that sets or deletes a service *)
(* rewrites the whole file from its own table; an instance that watches    *)
(* the file reads it into its table on every event and hands out the ports *)
(* of a service in turn.                                                   *)
(*                                                                         *)
(* WriteFile empties the file and then fills it, and other processes can   *)
(* read in between; the instance's own lock is held for both.  The file    *)
(* system keeps at most one unread write event per watcher, as equal       *)
(* events are merged.                                                      *)
(***************************************************************************)
EXTENDS Naturals, Sequences, SequencesExt, FiniteSets

CONSTANTS
    Writer,     \* the instance that sets and deletes services
    Readers,    \* the instances that watch (the writer may be one)
    Users,      \* the watching instances that ask for ports
    Services,
    Ports,      \* the lists of ports that are set, or left of one in a cut file
    MaxWrites,  \* bound: Set and Delete calls
    MaxGets     \* bound: uses counted since an instance last read the file

ASSUME MappingAssumption ==
    /\ Users \subseteq Readers
    /\ \A p \in Ports : p \in Seq(Nat)
    /\ MaxWrites \in Nat /\ MaxGets \in Nat

Instances == Readers \cup {Writer}

VARIABLES
    file,       \* the file: service |-> ports, for the services it has
    services,   \* per instance: service |-> ports, for those in its table
    offset,     \* per instance and service: portsInfo.offset
    error,      \* per instance: ServiceMapping.error is set
    pc,         \* per instance: save under way: idle, truncated
    watch,      \* per instance: WatchFile: off, added, on (it has returned)
    ended,      \* per instance: its goroutine has ended
    event,      \* per instance: a write event is waiting
    saved,      \* how the writer's last save ended: no (none yet), yes, failed
    writes,     \* how many times a call has saved, or tried to
    used        \* history: per instance and service, the uses of each place
                \* in the list since the file was last read

vars == <<file, services, offset, error, pc, watch, ended, event, saved, writes, used>>

Empty == <<>>
Table == UNION {[S -> Ports] : S \in SUBSET Services}
\* The places of the lists.
Places == UNION {DOMAIN p : p \in Ports}
Unused == [i \in Places |-> 0]

Init ==
    /\ file = Empty
    /\ services = [m \in Instances |-> Empty]
    /\ offset = [m \in Instances |-> [s \in Services |-> 0]]
    /\ error = [m \in Instances |-> FALSE]
    /\ pc = [m \in Instances |-> "idle"]
    /\ watch = [m \in Instances |-> "off"]
    /\ ended = [m \in Instances |-> FALSE]
    /\ event = [m \in Instances |-> FALSE]
    /\ saved = "no" /\ writes = 0
    /\ used = [m \in Instances |-> [s \in Services |-> Unused]]

-----------------------------------------------------------------------------
(* The file                                                                *)

\* A write to the file reaches every watcher that has been added.
Notified == [m \in Instances |-> event[m] \/ watch[m] \in {"added", "on"}]

\* Faulty variant: the table becomes what the file holds.
MergedReplace(table, content) == content

\* yaml.Unmarshal into the table: services of the file are added or replaced, the
\* others stay; an empty file changes nothing.
Merged(table, content) ==
    [s \in DOMAIN table \cup DOMAIN content |->
        IF s \in DOMAIN content THEN content[s] ELSE table[s]]

\* Faulty variant: a service keeps its place in the list.
RestartedNot(m) == offset[m]

\* Services that were read are new structs: their offset is zero.
Restarted(m) == [s \in Services |-> IF s \in DOMAIN file THEN 0 ELSE offset[m][s]]

\* load, under the instance's lock.
Load(m) ==
    /\ pc[m] = "idle"
    /\ services' = [services EXCEPT ![m] = Merged(@, file)]
    /\ offset' = [offset EXCEPT ![m] = Restarted(m)]
    /\ used' = [used EXCEPT ![m] = [s \in Services |->
                    IF s \in DOMAIN file THEN Unused ELSE used[m][s]]]

-----------------------------------------------------------------------------
(* The writer                                                              *)

\* save: the file is emptied, or an error comes before (no host path, no directory,
\* the file cannot be opened) and the call returns it.
SaveBegins ==
    /\ writes' = writes + 1
    /\ \/ /\ file' = Empty /\ event' = Notified
          /\ pc' = [pc EXCEPT ![Writer] = "truncated"]
          /\ UNCHANGED saved
       \/ /\ saved' = "failed"
          /\ UNCHANGED <<file, event, pc>>

\* The table is changed, whether or not it can be saved.
SetServicePorts(s, ports) ==
    /\ pc[Writer] = "idle" /\ writes < MaxWrites
    /\ services' = [services EXCEPT ![Writer] =
                        [t \in DOMAIN @ \cup {s} |-> IF t = s THEN ports ELSE @[t]]]
    /\ offset' = [offset EXCEPT ![Writer][s] = 0]
    /\ used' = [used EXCEPT ![Writer][s] = Unused]
    /\ SaveBegins
    /\ UNCHANGED <<error, watch, ended>>

\* Nothing is saved when the service is not in the table.
DeleteServicePorts(s) ==
    /\ pc[Writer] = "idle" /\ writes < MaxWrites
    /\ s \in DOMAIN services[Writer]
    /\ services' = [services EXCEPT ![Writer] = [t \in DOMAIN @ \ {s} |-> @[t]]]
    /\ SaveBegins
    /\ UNCHANGED <<error, watch, ended, offset, used>>

\* save fills the file, and the lock is released.
SaveWrites ==
    /\ pc[Writer] = "truncated"
    /\ file' = services[Writer] /\ event' = Notified
    /\ pc' = [pc EXCEPT ![Writer] = "idle"]
    /\ saved' = "yes"
    /\ UNCHANGED <<services, offset, error, watch, ended, writes, used>>

\* What is read of a file that was cut while it was written: some of the services,
\* the list of one perhaps not to its end.  (If it cannot be read: HandleEventFails.)
Cut(table) ==
    {part \in Table : /\ DOMAIN part \subseteq DOMAIN table
                      /\ \A s \in DOMAIN part : IsPrefix(part[s], table[s])}

\* The write fails, and the call returns the error; neither the table nor the file is
\* put back.
SaveFails ==
    /\ pc[Writer] = "truncated"
    /\ \E part \in Cut(services[Writer]) : file' = part
    /\ event' = Notified
    /\ pc' = [pc EXCEPT ![Writer] = "idle"]
    /\ saved' = "failed"
    /\ UNCHANGED <<services, offset, error, watch, ended, writes, used>>

\* The writer's process ends, perhaps within save, and a new one starts: the table
\* is empty and is not read from the file, which exists.
Restart ==
    /\ writes < MaxWrites
    /\ services' = [services EXCEPT ![Writer] = Empty]
    /\ offset' = [offset EXCEPT ![Writer] = [s \in Services |-> 0]]
    /\ used' = [used EXCEPT ![Writer] = [s \in Services |-> Unused]]
    /\ error' = [error EXCEPT ![Writer] = FALSE]
    /\ pc' = [pc EXCEPT ![Writer] = "idle"]
    /\ watch' = [watch EXCEPT ![Writer] = "off"]
    /\ ended' = [ended EXCEPT ![Writer] = FALSE]
    /\ event' = [event EXCEPT ![Writer] = FALSE]
    /\ saved' = "no"
    /\ UNCHANGED <<file, writes>>

-----------------------------------------------------------------------------
(* Watching                                                                *)

\* Faulty variant: the file is read first, and what is written before the watch is
\* added makes no event.
WatchAddLate(m) ==
    \/ /\ watch[m] = "off" /\ Load(m)
       /\ watch' = [watch EXCEPT ![m] = "read"]
       /\ UNCHANGED <<file, error, pc, ended, event, saved, writes>>
    \/ /\ watch[m] = "read"
       /\ watch' = [watch EXCEPT ![m] = "on"]
       /\ UNCHANGED <<file, services, offset, error, pc, ended, event, saved, writes, used>>

\* The first half of WatchFile: the goroutine is started and the file watched.
WatchAdd(m) ==
    /\ watch[m] = "off"
    /\ watch' = [watch EXCEPT ![m] = "added"]
    /\ UNCHANGED <<file, services, offset, error, pc, ended, event, saved, writes, used>>

\* The second half: the file is read once.
WatchLoad(m) ==
    /\ watch[m] = "added"
    /\ Load(m)
    /\ watch' = [watch EXCEPT ![m] = "on"]
    /\ UNCHANGED <<file, error, pc, ended, event, saved, writes>>

\* The goroutine takes a write event and reads the file.
HandleEvent(m) ==
    /\ watch[m] # "off" /\ ~ended[m] /\ event[m]
    /\ event' = [event EXCEPT ![m] = FALSE]
    /\ Load(m)
    /\ UNCHANGED <<file, error, pc, watch, ended, saved, writes>>

\* The file cannot be read: the error is kept, and the goroutine goes on.
HandleEventFails(m) ==
    /\ watch[m] # "off" /\ ~ended[m] /\ event[m] /\ pc[m] = "idle"
    /\ event' = [event EXCEPT ![m] = FALSE]
    /\ error' = [error EXCEPT ![m] = TRUE]
    /\ UNCHANGED <<file, services, offset, pc, watch, ended, saved, writes, used>>

\* The watcher reports an error: it is kept, and the goroutine ends.
WatcherFails(m) ==
    /\ watch[m] # "off" /\ ~ended[m] /\ pc[m] = "idle"
    /\ error' = [error EXCEPT ![m] = TRUE]
    /\ ended' = [ended EXCEPT ![m] = TRUE]
    /\ UNCHANGED <<file, services, offset, pc, watch, event, saved, writes, used>>

Close(m) ==
    /\ watch[m] # "off" /\ ~ended[m]
    /\ ended' = [ended EXCEPT ![m] = TRUE]
    /\ UNCHANGED <<file, services, offset, error, pc, watch, event, saved, writes, used>>

-----------------------------------------------------------------------------
\* portsInfo.Next: the place after this one, round the list.
NextOffset(o, n) == (o + 1) % n

\* GetServiceNextPort; without the service, without ports or after an error it
\* fails and changes nothing.
GetServiceNextPort(m, s) ==
    /\ pc[m] = "idle" /\ ~error[m]
    /\ s \in DOMAIN services[m]
    /\ LET n == Len(services[m][s])
           o == offset[m][s]
       IN  /\ n > 0 /\ used[m][s][o + 1] < MaxGets
           /\ offset' = [offset EXCEPT ![m][s] = NextOffset(o, n)]
           /\ used' = [used EXCEPT ![m][s][o + 1] = @ + 1]
    /\ UNCHANGED <<file, services, error, pc, watch, ended, event, saved, writes>>

Next ==
    \/ \E s \in Services : DeleteServicePorts(s) \/ \E p \in Ports : SetServicePorts(s, p)
    \/ SaveWrites \/ SaveFails \/ Restart
    \/ \E m \in Readers :
        \/ WatchAdd(m) \/ WatchLoad(m) \/ HandleEvent(m) \/ HandleEventFails(m)
        \/ WatcherFails(m) \/ Close(m)
    \/ \E m \in Users, s \in Services : GetServiceNextPort(m, s)

Spec == Init /\ [][Next]_vars

\* A save that has begun goes on, and so does a goroutine that can.
FairSpec ==
    /\ Spec
    /\ WF_vars(SaveWrites \/ SaveFails)
    /\ \A m \in Readers : WF_vars(WatchLoad(m)) /\ WF_vars(HandleEvent(m) \/ HandleEventFails(m))

-----------------------------------------------------------------------------
TypeOK ==
    /\ file \in Table
    /\ services \in [Instances -> Table]
    /\ offset \in [Instances -> [Services -> Nat]]
    /\ error \in [Instances -> BOOLEAN]
    /\ pc \in [Instances -> {"idle", "truncated"}]
    /\ watch \in [Instances -> {"off", "read", "added", "on"}]
    /\ ended \in [Instances -> BOOLEAN]
    /\ event \in [Instances -> BOOLEAN]
    /\ saved \in {"no", "yes", "failed"} /\ writes \in 0 .. MaxWrites
    /\ used \in [Instances -> [Services -> [Places -> 0 .. MaxGets]]]

UsedEvenly ==
    \A m \in Readers : \A s \in DOMAIN services[m] :
        \A i, j \in 1 .. Len(services[m][s]) : used[m][s][i] <= used[m][s][j] + 1

\* The offset of a service in the table is a place of its list: Next never reads
\* beyond the list, also when a shorter one was read, and between two reads of the
\* file the ports of a service are used evenly, also after saves that failed or
\* left a cut file.  When Set or Delete has answered that it saved, the file is the
\* writer's table, the changes of earlier failed calls included, and stays so whatever
\* the writer reads back from its own events.
TablesSound ==
    /\ TypeOK /\ UsedEvenly
    /\ \A m \in Instances : \A s \in DOMAIN services[m] :
        services[m][s] # <<>> => offset[m][s] < Len(services[m][s])
    /\ saved = "yes" /\ pc[Writer] = "idle" => file = services[Writer]

\* Reading the file never loses a service: a reader that comes between the two
\* halves of a save, or after a restart of the writer, keeps what it had.
ReadersKeepServices ==
    [][\A m \in Readers \ {Writer} : DOMAIN services[m] \subseteq DOMAIN services'[m]]_vars

Current(m) ==
    \A s \in DOMAIN file : s \in DOMAIN services[m] /\ services[m][s] = file[s]

\* A reader that goes on watching learns what the file holds, also when a save left
\* only a part of it, unless reading it fails.  (A writer that could not save has a
\* newer table than the file.)
ReadersCatchUp ==
    []<>(\A m \in Readers : watch[m] = "on" =>
            Current(m) \/ ended[m] \/ error[m] \/ (m = Writer /\ saved = "failed"))
=============================================================================
