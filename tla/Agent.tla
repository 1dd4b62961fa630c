-------------------------------- MODULE Agent --------------------------------
(***************************************************************************)
(* The agent of a container (computedock_agent: cli.py, identity.py,       *)
(* agent.py).  A process finds or creates the persistent container name,   *)
(* then collects and reports, and waits for the next deadline of a fixed   *)
(* grid or for the stop signal.  Processes start at the same time, crash,  *)
(* and start again with another configuration, on one state directory.     *)
(*                                                                         *)
(* The name is written to a temporary file, which os.link publishes.  Time *)
(* is counted in seconds; collecting and reporting take any time, fail or  *)
(* not, and the process may be woken late.                                 *)
(***************************************************************************)
EXTENDS Integers

CONSTANTS
    Agents,    \* agent processes
    Names,     \* container names
    Interval,  \* COMPUTEDOCK_INTERVAL
    MaxTime    \* bound of the instance: the end of time

ASSUME IntervalAssumption == Interval \in Nat \ {0} /\ MaxTime \in Nat

VARIABLES
    file,      \* the name in identity.json, or None
    agent,     \* what each process is doing
    lastName,  \* history: the name each process last ran under, or None
    clock      \* time.monotonic

vars == <<file, agent, lastName, clock>>

None == "none"
Down == [step |-> "down"]

\* In the loop, previous is the deadline before this one and ended the time at
\* which the last collection ended; both are history.
Configured == [step: {"starting", "creating", "reading"}, configured: Names \cup {None}]
InLoop == [step: {"collecting", "waiting"}, name: Names, stop: BOOLEAN,
           deadline: Nat, previous: Int, ended: Nat]

Loops(a) == agent[a].step \in {"collecting", "waiting"}
Goto(a, step) == agent' = [agent EXCEPT ![a].step = step]

-----------------------------------------------------------------------------
(* load_or_create_identity *)

\* The configured name comes from the command line or the environment.
Start(a) ==
    /\ agent[a] = Down
    /\ \E name \in Names \cup {None} :
        agent' = [agent EXCEPT ![a] = [step |-> "starting", configured |-> name]]
    /\ UNCHANGED <<file, lastName, clock>>

Agrees(configured, stored) == configured \in {None, stored}

\* The first deadline is the start of the loop.
Run(a, name) ==
    /\ agent' = [agent EXCEPT ![a] =
        [step |-> "collecting", name |-> name, stop |-> FALSE,
         deadline |-> clock, previous |-> clock - Interval, ended |-> clock]]
    /\ lastName' = [lastName EXCEPT ![a] = name]
    /\ UNCHANGED <<file, clock>>

\* path.exists(); the file is never removed, so it is still there when read.
FindIdentity(a) ==
    /\ agent[a].step = "starting"
    /\ file # None
    /\ Agrees(agent[a].configured, file)
    /\ Run(a, file)

FindNoIdentity(a) ==
    /\ agent[a].step = "starting"
    /\ file = None
    /\ agent[a].configured # None
    /\ Goto(a, "creating")
    /\ UNCHANGED <<file, lastName, clock>>

\* Mutant: the temporary file is renamed over what is there.
Published_Renamed(name) == name

\* Mutant: the temporary file is linked before the name is written to it.
Published_Unwritten(name) == IF file = None THEN "unwritten" ELSE file

\* os.link fails when the file exists.
Published(name) == IF file = None THEN name ELSE file

Link(a) ==
    /\ agent[a].step = "creating"
    /\ file' = Published(agent[a].configured)
    /\ Goto(a, "reading")
    /\ UNCHANGED <<lastName, clock>>

\* "another process created a different persistent container identity"
ReadBack(a) ==
    /\ agent[a].step = "reading"
    /\ agent[a].configured = file
    /\ Run(a, file)

-----------------------------------------------------------------------------
(* Agent.run *)

CeilDiv(a, b) == (a + b - 1) \div b

\* Mutant: the skipped intervals are rounded down.
Skipped_Floor(late) == late \div Interval
Skipped(late) == CeilDiv(late, Interval)

next_collection_deadline(from, now) ==
    LET candidate == from + Interval
    IN  IF candidate < now THEN candidate + Skipped(now - candidate) * Interval
        ELSE candidate

EndCollection(a) ==
    /\ agent[a].step = "collecting"
    /\ agent' = [agent EXCEPT
        ![a].step = "waiting",
        ![a].deadline = next_collection_deadline(@, clock),
        ![a].previous = agent[a].deadline,
        ![a].ended = clock]
    /\ UNCHANGED <<file, lastName, clock>>

\* Mutant: the wait is a sleep that the stop event does not end.
Interrupted_Never(a) == FALSE
Interrupted(a) == agent[a].stop

\* The wait ends at the deadline, or later, or when the event is set.
Wake(a) ==
    /\ agent[a].step = "waiting"
    /\ clock >= agent[a].deadline \/ Interrupted(a)
    /\ IF agent[a].stop THEN agent' = [agent EXCEPT ![a] = Down]
       ELSE Goto(a, "collecting")
    /\ UNCHANGED <<file, lastName, clock>>

\* SIGTERM or SIGINT; before the loop they end the process (Exit).
Signal(a) ==
    /\ Loops(a) /\ ~agent[a].stop
    /\ agent' = [agent EXCEPT ![a].stop = TRUE]
    /\ UNCHANGED <<file, lastName, clock>>

-----------------------------------------------------------------------------
\* An error of the start, a crash, or the end of the container.
Exit(a) ==
    /\ agent[a] # Down
    /\ agent' = [agent EXCEPT ![a] = Down]
    /\ UNCHANGED <<file, lastName, clock>>

Elapse ==
    /\ clock < MaxTime
    /\ clock' = clock + 1
    /\ UNCHANGED <<file, agent, lastName>>

Init ==
    /\ file = None
    /\ agent = [a \in Agents |-> Down]
    /\ lastName = [a \in Agents |-> None]
    /\ clock = 0

Next ==
    \/ \E a \in Agents :
        \/ Start(a)
        \/ FindIdentity(a) \/ FindNoIdentity(a)
        \/ Link(a) \/ ReadBack(a)
        \/ EndCollection(a) \/ Wake(a)
        \/ Signal(a) \/ Exit(a)
    \/ Elapse

Spec == Init /\ [][Next]_vars

\* The HTTP client and NVML return, and the event wakes the waiting thread.
FairSpec ==
    Spec /\ \A a \in Agents : WF_vars(EndCollection(a)) /\ WF_vars(Wake(a))

-----------------------------------------------------------------------------
TypeOK ==
    /\ file \in Names \cup {None}
    /\ agent \in [Agents -> {Down} \cup Configured \cup InLoop]
    /\ lastName \in [Agents -> Names \cup {None}]
    /\ clock \in Nat

\* All agents that have ever run on one state directory, before and after
\* crashes and reconfigurations, ran under one name, the one in the file.
OneNameForEver == \A a \in Agents : lastName[a] \in {None, file}

\* test_next_deadline_skips_missed_intervals_without_drift, in the loop: after
\* any number of overruns an agent waits for the first point of its grid after the previous
\* deadline that has not passed when the collection ends.
NextSlotWithoutDrift ==
    \A a \in Agents : agent[a].step = "waiting" =>
        LET deadline == agent[a].deadline
            previous == agent[a].previous
        IN  /\ deadline > previous
            /\ (deadline - previous) % Interval = 0
            /\ deadline >= agent[a].ended
            /\ deadline - Interval > previous => deadline - Interval < agent[a].ended

\* A signalled agent ends, whatever interval is left to wait.
SignalStops == \A a \in Agents : (Loops(a) /\ agent[a].stop) ~> agent[a] = Down
=============================================================================
