----------------------------- MODULE AgentService -----------------------------
(***************************************************************************)
(* The agent as a service of its container: supervisord runs a shell       *)
(* script (run_agent_service.sh), the wrapper, which forks the agent,      *)
(* publishes its PID and starts it again when it dies; a health check      *)
(* (healthcheck.sh) reads the PID and looks at the process.                *)
(*                                                                         *)
(* A step of the wrapper is a command of the script.  A signal that comes  *)
(* between two commands runs its trap before the next one; one that comes  *)
(* during a command runs it when the command is complete.  PIDs are used   *)
(* again, by other programs too.                                           *)
(***************************************************************************)
EXTENDS Integers, FiniteSets

CONSTANTS
    Pids,      \* process identifiers of the container
    MaxKills,  \* bound of the instance: wrappers the kernel kills
    MaxStops,  \* bound of the instance: supervisorctl stop
    MaxStarts  \* bound of the instance: supervisorctl start

VARIABLES
    running,   \* whether the container runs
    program,   \* supervisord's state of the program
    wrapper,   \* the process of the script
    process,   \* what runs under each PID
    pidFile,   \* /run/computedock-agent/agent.pid, or None
    check,     \* the health check
    watch,     \* history: what held all the time since the check began
    kills,
    stops,
    starts,
    windows    \* history: traps that ran between the fork and agent_pid=$!

service == <<running, program, wrapper, process, pidFile>>
bounds == <<kills, stops, starts, windows>>
vars == <<service, check, watch, bounds>>

None == "none"

\* Exit statuses: 0, 2, and all others.
Status == {"ok", "config", "failed"}

Fresh == [step |-> "boot", agent_pid |-> None, child |-> None, status |-> None, term |-> "no"]
Gone(status) == [step |-> "gone", exit |-> status]

\* child is the process it forked last, status what wait will return for it.
Wrapper ==
    [step: {"boot", "fork", "record", "publish", "abort", "wait", "forget", "clean", "sleep",
            "stopping"},
     agent_pid: Pids \cup {None}, child: Pids \cup {None},
     status: Status \cup {None}, term: {"no", "during", "now"}]
    \cup {Gone(status) : status \in Status}

\* A forked agent is still the shell until it executes the agent program.
AgentPids == {p \in Pids : process[p] \in {"agent", "stopping"}}
Lives(p) == process[p] \in {"forked", "agent", "stopping"}
Exists == wrapper.step # "gone"
ChildLives == Exists /\ wrapper.child # None /\ wrapper.status = None

-----------------------------------------------------------------------------
(* run_agent_service.sh *)

\* A command completes; a signal that came during it is handled next.
Complete(step, new) ==
    /\ wrapper.step = step /\ wrapper.term # "now"
    /\ wrapper' = [new EXCEPT !.term = IF @ = "during" THEN "now" ELSE @]

OnlyWrapper == UNCHANGED <<process, pidFile, windows>>

\* exit, and the trap of EXIT.
Ends(status) == wrapper' = Gone(status) /\ pidFile' = None /\ UNCHANGED <<process, windows>>

\* SIGTERM to a process that is there: the agent handles it, the shell dies.
Signalled(p) == [process EXCEPT ![p] = IF @ = "forked" THEN "free" ELSE "stopping"]
ChildSignalled(w) == IF process[w.child] = "forked" THEN [w EXCEPT !.status = "failed"] ELSE w

\* kill -TERM "$agent_pid", and go on at step.  When the agent has ended, another
\* program may have its PID, and may be the shell's to end.
Terminate(step) ==
    LET next == [wrapper EXCEPT !.step = step]
    IN  IF wrapper.agent_pid # None /\ ChildLives
        THEN process' = Signalled(wrapper.agent_pid) /\ wrapper' = ChildSignalled(next)
        ELSE /\ wrapper' = next
             /\ \/ UNCHANGED process
                \/ \E p \in {wrapper.agent_pid} \cap Pids :
                    process[p] = "other" /\ process' = [process EXCEPT ![p] = "free"]

\* init_container.sh has made the directory, so mkdir -p has nothing to do.
Boot == Complete("boot", [wrapper EXCEPT !.step = "fork"]) /\ OnlyWrapper

Fork ==
    \E p \in Pids :
        /\ process[p] = "free"
        /\ process' = [process EXCEPT ![p] = "forked"]
        /\ Complete("fork", [wrapper EXCEPT !.step = "record", !.child = p, !.status = None])
        /\ UNCHANGED <<pidFile, windows>>

Record ==
    Complete("record", [wrapper EXCEPT !.step = "publish", !.agent_pid = wrapper.child]) /\ OnlyWrapper

\* Mutant: the PID of the last agent is left in the file.
Published_Kept == IF pidFile = None THEN wrapper.agent_pid ELSE pidFile
Published == wrapper.agent_pid

\* The rename replaces the file at once.  When it fails, the agent is stopped.
Publish ==
    \/ /\ Complete("publish", [wrapper EXCEPT !.step = "wait"])
       /\ pidFile' = Published
       /\ UNCHANGED <<process, windows>>
    \/ /\ wrapper.step = "publish" /\ wrapper.term = "no"
       /\ Terminate("abort")
       /\ UNCHANGED <<pidFile, windows>>

Abort == wrapper.step = "abort" /\ wrapper.term = "no" /\ wrapper.status # None /\ Ends("failed")

Waited ==
    /\ Complete("wait", [wrapper EXCEPT !.step = "forget"])
    /\ wrapper.status # None
    /\ OnlyWrapper

\* Mutant: the shell keeps the PID of an agent that is gone.
Forgotten_Kept == wrapper.agent_pid
Forgotten == None

Forget ==
    Complete("forget", [wrapper EXCEPT !.step = "clean", !.agent_pid = Forgotten]) /\ OnlyWrapper

\* Mutant: the script ends whatever the status is.
Final_Always == TRUE
Final == wrapper.status \in {"ok", "config"}

CleanUp ==
    \/ /\ wrapper.step = "clean" /\ wrapper.term # "now"
       /\ Final
       /\ Ends(IF wrapper.status = "failed" THEN "ok" ELSE wrapper.status)
    \/ /\ Complete("clean", [wrapper EXCEPT !.step = "sleep", !.child = None, !.status = None])
       /\ ~Final
       /\ pidFile' = None
       /\ UNCHANGED <<process, windows>>

EndSleep == Complete("sleep", [wrapper EXCEPT !.step = "fork"]) /\ OnlyWrapper

\* stop_agent up to wait.
Trap ==
    /\ Exists /\ wrapper.step # "stopping" /\ wrapper.term = "now"
    /\ Terminate("stopping")
    /\ windows' = IF wrapper.step = "record" THEN windows + 1 ELSE windows
    /\ UNCHANGED pidFile

\* Mutant: the trap does not wait for the agent.
AgentGone_Ignored == TRUE
AgentGone == wrapper.agent_pid = None \/ wrapper.status # None

EndTrap == wrapper.step = "stopping" /\ AgentGone /\ Ends("ok")

WrapperStep ==
    /\ \/ Boot \/ Fork \/ Record \/ Publish \/ Abort
       \/ Waited \/ Forget \/ CleanUp \/ EndSleep \/ Trap \/ EndTrap
    /\ UNCHANGED <<running, program, check, kills, stops, starts>>

-----------------------------------------------------------------------------
(* Processes *)

Exec(p) ==
    /\ process[p] = "forked"
    /\ process' = [process EXCEPT ![p] = "agent"]
    /\ UNCHANGED wrapper

\* 0 after a signal, 2 for a configuration or an identity that is refused, and
\* any other status.  A wrapper that is there learns the status of its child.
AgentEnds(p) ==
    /\ Lives(p)
    /\ \E status \in Status :
        /\ status = "ok" => process[p] = "stopping"
        /\ status = "config" => process[p] # "forked"
        /\ wrapper' = IF ChildLives /\ wrapper.child = p THEN [wrapper EXCEPT !.status = status]
                      ELSE wrapper
    /\ process' = [process EXCEPT ![p] = "free"]

\* Another program starts; PIDs are plentiful, so one is left for the agent.
OtherStarts(p) ==
    /\ running /\ process[p] = "free"
    /\ \E q \in Pids \ {p} : process[q] = "free"
    /\ process' = [process EXCEPT ![p] = "other"]
    /\ UNCHANGED wrapper

ProcessStep ==
    /\ \E p \in Pids : Exec(p) \/ AgentEnds(p) \/ OtherStarts(p)
    /\ UNCHANGED <<running, program, pidFile, check, bounds>>

OtherEnds ==
    /\ \E p \in Pids :
        process[p] = "other" /\ process' = [process EXCEPT ![p] = "free"]
    /\ UNCHANGED <<running, program, wrapper, pidFile, check, bounds>>

\* The kernel kills the wrapper, not its child.
KillWrapper ==
    /\ Exists
    /\ kills < MaxKills
    /\ kills' = kills + 1
    /\ wrapper' = Gone("failed")
    /\ UNCHANGED <<running, program, process, pidFile, check, stops, starts, windows>>

-----------------------------------------------------------------------------
(* supervisord.conf, init_container.sh *)

\* supervisorctl stop, or docker stop: SIGTERM to the process group.  Before the
\* traps are set it ends the script; wait and sleep end at once.
Stop ==
    /\ program = "RUNNING" /\ Exists
    /\ stops < MaxStops
    /\ stops' = stops + 1
    /\ program' = "STOPPING"
    /\ process' = IF ChildLives THEN Signalled(wrapper.child) ELSE process
    /\ IF wrapper.step = "boot" THEN wrapper' = Gone("failed")
       ELSE \E term \in {"during", "now"} :
               /\ term = "during" => wrapper.step \in {"fork", "record", "publish", "forget", "clean"}
               /\ wrapper' = [(IF ChildLives THEN ChildSignalled(wrapper) ELSE wrapper)
                                EXCEPT !.term = term]
    /\ UNCHANGED <<running, pidFile, check, kills, starts, windows>>

\* Mutant: killasgroup=false.
Killed_Alone == {}

\* killasgroup=true.
Killed == IF ChildLives THEN {wrapper.child} ELSE {}

\* stopwaitsecs later.
KillGroup ==
    /\ program = "STOPPING" /\ Exists
    /\ process' = [p \in Pids |-> IF p \in Killed THEN "free" ELSE process[p]]
    /\ wrapper' = Gone("failed")
    /\ UNCHANGED <<running, program, pidFile, check, bounds>>

Reap ==
    /\ ~Exists
    /\ program \in {"RUNNING", "STOPPING"}
    /\ program' = IF program = "STOPPING" THEN "STOPPED" ELSE "EXITED"
    /\ UNCHANGED <<running, wrapper, process, pidFile, check, bounds>>

Spawn ==
    /\ program' = "RUNNING"
    /\ wrapper' = Fresh
    /\ UNCHANGED <<running, process, pidFile, check, kills, stops, windows>>

\* Mutant: exitcodes=0.
Expected_ZeroOnly == {"ok"}

\* exitcodes=0,2.
Expected == {"ok", "config"}

\* autorestart=unexpected; startsecs=0, so no start counts as failed.
Respawn ==
    /\ program = "EXITED"
    /\ wrapper.exit \notin Expected
    /\ Spawn
    /\ UNCHANGED starts

\* supervisorctl start.
Start ==
    /\ running
    /\ program \in {"STOPPED", "EXITED"}
    /\ starts < MaxStarts
    /\ starts' = starts + 1
    /\ Spawn

\* All processes end; what is on the disk stays.
ContainerEnds ==
    /\ running
    /\ running' = FALSE
    /\ program' = "STOPPED"
    /\ wrapper' = Gone("failed")
    /\ process' = [p \in Pids |-> "free"]
    /\ check' = [step |-> "idle", pid |-> None]
    /\ UNCHANGED <<pidFile, bounds>>

ContainerStarts ==
    /\ ~running
    /\ running' = TRUE
    /\ pidFile' = None
    /\ program' = "RUNNING"
    /\ wrapper' = Fresh
    /\ UNCHANGED <<process, check, bounds>>

-----------------------------------------------------------------------------
(* healthcheck.sh *)

Verdicts == {"healthy", "unhealthy"}
Passes(condition, step, next, pid) ==
    /\ check.step = step
    /\ check' = IF condition THEN [step |-> next, pid |-> pid]
                ELSE [step |-> "unhealthy", pid |-> None]

\* Mutant: the command line is not looked at.
IsAgent_AnyProcess(p) == TRUE
IsAgent(p) == p \in AgentPids

CheckStep ==
    /\ \/ \E sshd \in BOOLEAN : Passes(sshd, "sshd", "program", None)
       \/ Passes(program = "RUNNING", "program", "read", None)
       \/ Passes(pidFile # None, "read", "alive", pidFile)
       \/ Passes(check.pid # None /\ process[check.pid] # "free", "alive", "cmdline", check.pid)
       \/ Passes(check.pid # None /\ IsAgent(check.pid), "cmdline", "healthy", None)
    /\ UNCHANGED <<service, bounds>>

CheckBegins ==
    /\ running
    /\ check.step \in {"idle"} \cup Verdicts
    /\ check' = [step |-> "sshd", pid |-> None]
    /\ UNCHANGED <<service, bounds>>

\* The agent is there and its wrapper waits for it.
Serving ==
    /\ program = "RUNNING"
    /\ Exists /\ wrapper.step = "wait" /\ wrapper.child \in AgentPids
    /\ ChildLives

NoAgent == AgentPids = {}

\* sshd, which the check asks for once, is not RUNNING.
NoSshd == check.step = "sshd" /\ check'.step = "unhealthy"

Watch ==
    watch' =
        CASE check'.step = "idle" -> [serving |-> FALSE, noAgent |-> FALSE]
          [] check'.step = "sshd" /\ check.step # "sshd" ->
                [serving |-> Serving', noAgent |-> NoAgent']
          [] OTHER ->
                [serving |-> watch.serving /\ Serving' /\ ~NoSshd,
                 noAgent |-> watch.noAgent /\ NoAgent']

-----------------------------------------------------------------------------
Init ==
    /\ running = FALSE
    /\ program = "STOPPED"
    /\ wrapper = Gone("failed")
    /\ process = [p \in Pids |-> "free"]
    /\ pidFile = None
    /\ check = [step |-> "idle", pid |-> None]
    /\ watch = [serving |-> FALSE, noAgent |-> FALSE]
    /\ kills = 0 /\ stops = 0 /\ starts = 0 /\ windows = 0

Supervise == Reap \/ Respawn

Next ==
    /\ \/ WrapperStep \/ ProcessStep \/ OtherEnds \/ KillWrapper
       \/ Stop \/ KillGroup \/ Supervise \/ Start \/ ContainerEnds \/ ContainerStarts
       \/ CheckStep \/ CheckBegins
    /\ Watch

Spec == Init /\ [][Next]_vars

\* Commands end, supervisord looks after its programs, and programs of others do
\* not keep all PIDs.
Fairness ==
    /\ WF_vars(WrapperStep /\ Watch)
    /\ WF_vars(Supervise /\ Watch)
    /\ WF_vars(OtherEnds /\ Watch)

FairSpec == Spec /\ Fairness

-----------------------------------------------------------------------------
\* The last conjuncts: a child without a status is there, so its PID is its own;
\* and before the shell knows its child, and once it has cleared agent_pid, it has
\* no PID.  In between, from the end of its child to agent_pid="", the PID it has
\* may be another's.
TypeOK ==
    /\ running \in BOOLEAN
    /\ program \in {"RUNNING", "STOPPING", "STOPPED", "EXITED"}
    /\ wrapper \in Wrapper
    /\ process \in [Pids -> {"free", "other", "forked", "agent", "stopping"}]
    /\ pidFile \in Pids \cup {None}
    /\ check \in [step: {"idle", "sshd", "program", "read", "alive", "cmdline"} \cup Verdicts,
                 pid: Pids \cup {None}]
    /\ watch \in [serving: BOOLEAN, noAgent: BOOLEAN]
    /\ kills \in 0..MaxKills /\ stops \in 0..MaxStops /\ starts \in 0..MaxStarts
    /\ windows \in Nat
    /\ ChildLives => Lives(wrapper.child)
    /\ Exists /\ wrapper.step \in {"boot", "fork", "record", "clean", "sleep"} =>
        wrapper.agent_pid = None

\* An agent outlives its wrapper only when the wrapper was killed from outside,
\* or took the signal between the fork and agent_pid=$!: the trap, the signal to
\* the group and the kill of the group stop every other agent with its wrapper.
Orphans == {p \in Pids : Lives(p) /\ ~(ChildLives /\ wrapper.child = p)}
OrphansNeedKillOrWindow == Cardinality(Orphans) <= kills + windows

\* "Agent、SSH 或实际 Agent 子进程缺失时容器会变为 unhealthy" (README.md), although
\* the check reads the PID first and looks at the process later: it is not
\* healthy when there was no agent all the time, and not unhealthy when sshd
\* and a waited-for agent were there all the time.
VerdictIsFair ==
    /\ check.step = "healthy" => ~watch.noAgent
    /\ check.step = "unhealthy" => ~watch.serving

Refused == IF Exists THEN wrapper.status = "config" ELSE wrapper.exit = "config"
StaysRefused ==
    Refused /\ ~Refused' =>
        \/ starts' # starts \/ ~running \/ ~running'
        \/ program = "STOPPING"
        \/ kills' # kills
        \/ wrapper.step = "abort"

\* "配置错误不会无限重启" (README.md): when the agent has refused its configuration,
\* the wrapper ends with the status that says so, and neither it nor supervisord
\* starts the agent again.  Only an operator and a new container do, and a wrapper
\* whose own end hides the status: it is stopped, killed before it passed the status
\* on, or the PID file could not be published.
ConfigErrorIsFinal == [][StaysRefused]_vars

\* "Supervisor 会在 Agent 异常退出后 ... 持续重启" (README.md): an agent that failed
\* comes back, also when its wrapper dies meanwhile, unless the service is stopped.
FailedAgentComesBack ==
    (program = "RUNNING" /\ Exists /\ wrapper.status = "failed") ~>
        (ChildLives \/ program \in {"STOPPING", "STOPPED"})
=============================================================================
