---------------------------- MODULE SampleIngest ----------------------------
(***************************************************************************)
(* POST /agent/samples: reports of containers become container generations *)
(* and sample batches (services.py of the management API), while           *)
(* administrators remove containers (routers/resources.py).                *)
(*                                                                         *)
(* Reports of one resource are serialised by an advisory lock; a removal   *)
(* takes no lock of its own and only waits for a container row that a      *)
(* report has locked.  Reports arrive late, twice and out of order.        *)
(***************************************************************************)
EXTENDS Integers, FiniteSets, FiniteSetsExt

CONSTANTS
    Streams,         \* container names, each with the token it reports with
    Payloads,        \* the GPU readings of a report
    Handlers,        \* transactions that can be in flight at once
    MaxAge, MaxSkew, \* accepted age and clock skew of a report
    MaxTime, MaxGenerations \* bounds of the instance

None == "none"                   \* no batch

ASSUME IngestAssumption ==
    /\ IsFiniteSet(Streams) /\ None \notin Payloads
    /\ MaxAge \in Nat /\ MaxSkew \in Nat /\ MaxTime \in Nat
    /\ MaxGenerations \in Nat \ {0}

VARIABLES
    container,  \* committed: container_instances by name and generation
    batch,      \* committed: sample_batches by container and collected_at
    tx,         \* the transaction each handler is executing
    now,
    acked       \* history: reports that were answered "accepted" or "duplicate"

vars == <<container, batch, tx, now, acked>>

Times == 0..(MaxTime + MaxSkew)
Containers == Streams \X (1..MaxGenerations)
Absent == [absent |-> TRUE]      \* no container

ContainerRow ==
    [removed: BOOLEAN, first: Times, latest: Times, received: Times, gpus: Payloads]

Report == [stream: Streams, collected: Times, payload: Payloads]

Idle == [step |-> "idle"]

TxRecord ==
    {Idle}
    \cup [step: {"received"}, report: Report, at: Times]
    \cup [step: {"locked"}, report: Report, at: Times, into: Containers, new: BOOLEAN]
    \cup [step: {"removing"}, target: Containers]

Exists(c) == container[c] # Absent
Active(c) == Exists(c) /\ ~container[c].removed
ActiveOf(s) == {c \in Containers : c[1] = s /\ Active(c)}
Generations(s) == {c[2] : c \in {d \in Containers : d[1] = s /\ Exists(d)}}

Begin(h, record) == tx[h] = Idle /\ tx' = [tx EXCEPT ![h] = record]
Finish(h) == tx' = [tx EXCEPT ![h] = Idle]

-----------------------------------------------------------------------------
(* POST /agent/samples *)

\* validate_collection_time, against the time the report was received.
Receive(h) ==
    \E report \in Report :
        /\ report.collected \in (now - MaxAge)..(now + MaxSkew)
        /\ Begin(h, [step |-> "received", report |-> report, at |-> now])
        /\ UNCHANGED <<container, batch, now, acked>>

LifecycleUnlocked(h) == \A k \in Handlers \ {h} : tx[k].step # "locked"

\* Mutant: the count starts at one.
NextGeneration_FromOne(s) == Max(Generations(s) \cup {1}) + 1
NextGeneration(s) == Max(Generations(s) \cup {0}) + 1

\* get_or_create_container, with the row locked FOR UPDATE.
Target(s) == IF ActiveOf(s) # {} THEN CHOOSE c \in ActiveOf(s) : TRUE
             ELSE <<s, NextGeneration(s)>>

\* Mutant: a repeated collection time is taken for a duplicate unseen.
Conflicts_Never(report) == FALSE

\* "different payload already exists for collected_at"
Conflicts(report) ==
    \E c \in ActiveOf(report.stream) :
        batch[c][report.collected] \notin {None, report.payload}

Lock(h) ==
    LET report == tx[h].report
        into == Target(report.stream)
    IN  /\ tx[h].step = "received"
        /\ LifecycleUnlocked(h)
        /\ ~Conflicts(report)
        /\ into \in Containers
        /\ tx' = [tx EXCEPT ![h] = [step |-> "locked", report |-> report, at |-> tx[h].at,
                                    into |-> into, new |-> ActiveOf(report.stream) = {}]]
        /\ UNCHANGED <<container, batch, now, acked>>

\* Mutant: the first report does not fill in the GPUs of a new container.
Created_WithoutGpus(report, at) ==
    [removed |-> FALSE, first |-> report.collected, latest |-> report.collected,
     received |-> at, gpus |-> None]

Created(report, at) ==
    [removed |-> FALSE, first |-> report.collected, latest |-> report.collected,
     received |-> at, gpus |-> report.payload]

\* Mutant: the newest report received is the newest one collected.
Updated_LastArrival(row, report, at) ==
    [row EXCEPT !.received = Max({@, at}), !.first = Min({@, report.collected}),
                !.latest = report.collected, !.gpus = report.payload]

Updated(row, report, at) ==
    LET newer == report.collected > row.latest
    IN  [row EXCEPT !.received = Max({@, at}),
                    !.first = Min({@, report.collected}),
                    !.latest = IF newer THEN report.collected ELSE @,
                    !.gpus = IF newer THEN report.payload ELSE @]

Repeated(row, at) == [row EXCEPT !.received = Max({@, at})]

\* A unique index admits one active container of a stream.
Commit(h) ==
    LET report == tx[h].report
        into == tx[h].into
        duplicate == ~tx[h].new /\ batch[into][report.collected] # None
    IN  /\ tx[h].step = "locked"
        /\ tx[h].new => ~Exists(into) /\ ActiveOf(report.stream) = {}
        /\ container' = [container EXCEPT ![into] =
                CASE tx[h].new -> Created(report, tx[h].at)
                  [] duplicate -> Repeated(@, tx[h].at)
                  [] OTHER -> Updated(@, report, tx[h].at)]
        /\ batch' = IF duplicate THEN batch
                    ELSE [batch EXCEPT ![into][report.collected] = report.payload]
        /\ acked' = acked \cup {report}
        /\ Finish(h)
        /\ UNCHANGED now

-----------------------------------------------------------------------------
(* DELETE /resources/{id}/containers/{id} *)

RemoveRead(h) ==
    \E c \in Containers :
        /\ Active(c)
        /\ Begin(h, [step |-> "removing", target |-> c])
        /\ UNCHANGED <<container, batch, now, acked>>

\* Mutant: a report does not lock the row of its container.
RowUnlocked_Always(c) == TRUE
RowUnlocked(c) == \A h \in Handlers : tx[h].step = "locked" => tx[h].into # c

\* The UPDATE waits for the row.  A second removal sets the same flag again.
RemoveCommit(h) ==
    /\ tx[h].step = "removing"
    /\ RowUnlocked(tx[h].target)
    /\ container' = [container EXCEPT ![tx[h].target].removed = TRUE]
    /\ Finish(h)
    /\ UNCHANGED <<batch, now, acked>>

-----------------------------------------------------------------------------
\* A refused report, a lost connection or a killed process.
Abort(h) ==
    /\ tx[h] # Idle
    /\ Finish(h)
    /\ UNCHANGED <<container, batch, now, acked>>

Tick ==
    /\ now < MaxTime
    /\ now' = now + 1
    /\ UNCHANGED <<container, batch, tx, acked>>

Init ==
    /\ container = [c \in Containers |-> Absent]
    /\ batch = [c \in Containers |-> [t \in Times |-> None]]
    /\ tx = [h \in Handlers |-> Idle]
    /\ now = 0
    /\ acked = {}

Next ==
    \/ \E h \in Handlers :
        \/ Receive(h) \/ Lock(h) \/ Commit(h)
        \/ RemoveRead(h) \/ RemoveCommit(h)
        \/ Abort(h)
    \/ Tick

Spec == Init /\ [][Next]_vars

-----------------------------------------------------------------------------
TypeOK ==
    /\ container \in [Containers -> {Absent} \cup ContainerRow]
    /\ batch \in [Containers -> [Times -> {None} \cup Payloads]]
    /\ tx \in [Handlers -> TxRecord]
    /\ now \in 0..MaxTime
    /\ acked \subseteq Report

Collected(c) == {t \in Times : batch[c][t] # None}

\* In whatever order reports arrive, a container shows the GPUs of the newest
\* one and the exact interval over which it was collected.
SummaryMatchesBatches ==
    \A c \in Containers :
        IF Exists(c)
        THEN /\ Collected(c) # {}
             /\ container[c].first = Min(Collected(c))
             /\ container[c].latest = Max(Collected(c))
             /\ container[c].gpus = batch[c][container[c].latest]
        ELSE Collected(c) = {}

\* A report that was answered is stored, under its own payload, in some
\* generation of its container; retries and removals lose nothing.
AcknowledgedIsStored ==
    \A report \in acked :
        \E c \in Containers :
            c[1] = report.stream /\ batch[c][report.collected] = report.payload

\* Generations of a container are numbered without gaps and only the newest
\* may be active, also when removals and first reports overlap.
OnlyNewestIsActive ==
    \A s \in Streams :
        /\ Generations(s) = 1..Cardinality(Generations(s))
        /\ \A c \in ActiveOf(s) : c[2] = Cardinality(Generations(s))

\* A removed container is history: no report changes it or adds to it, even one
\* that was received before the removal.
RemovedIsFrozen ==
    [][\A c \in Containers :
        Exists(c) /\ container[c].removed =>
            container'[c] = container[c] /\ batch'[c] = batch[c]]_vars
=============================================================================
