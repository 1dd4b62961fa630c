---------------------------- MODULE CreateContainer ----------------------------
(***************************************************************************)
(* Operators create containers of a host with an interactive script        *)
(* (create_container.sh).  It asks for GPUs, CPUs, a port and a name,      *)
(* checks them against what Docker and the host report, asks for           *)
(* confirmation, prepares the data directory and executes docker run.      *)
(* Nothing is reserved between a check and docker run, and other           *)
(* operators, people and docker itself change the host meanwhile.          *)
(*                                                                         *)
(* Another program that listens on a port changes the recommended one, and *)
(* may refuse the port later.  That ends the script, as Cancel does, or    *)
(* makes the container fail to start, as docker_run and Start may always.  *)
(***************************************************************************)
EXTENDS Integers, FiniteSets

CONSTANTS
    Operators,
    Names,       \* container names
    Ports,       \* SSH_PORT_RANGE, or what is typed when that is 0
    Wishes,      \* the [gpus, cpus] that operators ask for, as sets of numbers
    Busy         \* bound of the instance: ports of containers made without the script

VARIABLES
    containers,  \* by name; Docker keeps names unique
    home,        \* the data directory of each name: missing, root's or the user's
    dialog,      \* the script each operator is executing
    cut          \* history: names for which a script ended before chown, still unrepaired

vars == <<containers, home, dialog, cut>>

Absent == [state |-> "absent"]
None == "none"
Cpus == {0} \cup UNION {wish.cpus : wish \in Wishes}  \* every host has a CPU 0
Devices == UNION {wish.gpus : wish \in Wishes}
Unlimited == {}
Unknown == {-1}

\* sawRunning and sawPorts are history: the containers whose CPUs and GPUs, and whose
\* ports, the script compared and found different.
Idle ==
    [step |-> "idle", gpus |-> {}, cpus |-> {}, uses |-> {}, port |-> 0, name |-> None,
     sawRunning |-> {}, sawPorts |-> {}]

\* Only the directory and the container outlive a script.
Ended(o) == dialog' = [dialog EXCEPT ![o] = Idle]
At(o, step) == dialog[o].step = step

Exists(n) == containers[n] # Absent
Runs(n) == containers[n].state = "running"
Existing == {n \in Names : Exists(n)}
Running == {n \in Names : Runs(n)}

-----------------------------------------------------------------------------
(* CPU lists *)

\* Mutant: the last range of the list is not emitted.
numbers_to_cpu_spec_NoLast(cpus) ==
    {r \in cpus \X cpus :
        /\ r[1]..r[2] \subseteq cpus /\ r[1] <= r[2]
        /\ r[1] - 1 \notin cpus /\ r[2] + 1 \notin cpus
        /\ \E c \in cpus : c > r[2]}

\* The longest ranges, as pairs of a first and a last CPU.
numbers_to_cpu_spec(cpus) ==
    {r \in cpus \X cpus :
        /\ r[1] <= r[2] /\ r[1]..r[2] \subseteq cpus
        /\ r[1] - 1 \notin cpus /\ r[2] + 1 \notin cpus}

expand_number_ranges(spec) == UNION {r[1]..r[2] : r \in spec}

-----------------------------------------------------------------------------
(* Questions *)

\* docker ps -a --filter publish=: what is published now.  A stopped container
\* publishes nothing, -a or not.
port_is_in_use(p) == \E n \in Running : containers[n].port = p

\* Mutant: only running containers are listed.
list_used_tcp_ports_Running(listening) == listening \cup {containers[n].port : n \in Running}

\* HostConfig.PortBindings: the ports of stopped containers too.
list_used_tcp_ports(listening) == listening \cup {containers[n].port : n \in Existing}

CpuConflict(d, c) ==
    c.cpus = Unlimited \/ expand_number_ranges(d.cpus) \cap expand_number_ranges(c.cpus) # {}

\* Devices that cannot be told are a potential overlap.
GpuConflict(d, c) ==
    /\ d.gpus # {}
    /\ c.gpus = Unknown \/ d.gpus \cap c.gpus # {}

\* The containers that the script lists.
check_resource_conflicts(d) ==
    {n \in Running : CpuConflict(d, containers[n]) \/ GpuConflict(d, containers[n])}

\* GPUs and CPUs are compared with the host's, which do not change.
Begin(o) ==
    /\ At(o, "idle")
    /\ \E wish \in Wishes :
        dialog' = [dialog EXCEPT ![o].step = "port", ![o].gpus = wish.gpus,
                                 ![o].cpus = numbers_to_cpu_spec(wish.cpus),
                                 ![o].uses = wish.cpus]
    /\ UNCHANGED <<containers, home, cut>>

recommend_ssh_port(listening) ==
    LET free == Ports \ list_used_tcp_ports(listening)
    IN  {p \in free : \A q \in free : p <= q}

\* Without a free port in the range the script ends.  Any other program may listen.
RecommendPort(o) ==
    /\ At(o, "port")
    /\ \E listening \in SUBSET Ports :
        \/ recommend_ssh_port(listening) = {} /\ Ended(o)
        \/ \E p \in recommend_ssh_port(listening) :
            dialog' = [dialog EXCEPT ![o].step = "answer", ![o].port = p, ![o].sawPorts = Existing]
    /\ UNCHANGED <<containers, home, cut>>

\* The recommended port or another one, which was not compared with all bindings.
\* Without a range, SSH_PORT_RANGE=0, none is recommended.
prompt_port(o) ==
    /\ At(o, "answer") \/ At(o, "port")
    /\ \E p \in Ports :
        /\ ~port_is_in_use(p)
        /\ dialog' = [dialog EXCEPT ![o].step = "name", ![o].port = p,
                                    ![o].sawPorts = IF p = dialog[o].port THEN @ ELSE {}]
    /\ UNCHANGED <<containers, home, cut>>

prompt_container_name(o) ==
    /\ At(o, "name")
    /\ \E n \in Names \ Existing :
        dialog' = [dialog EXCEPT ![o].step = "review", ![o].name = n]
    /\ UNCHANGED <<containers, home, cut>>
-----------------------------------------------------------------------------
(* Checks before docker run *)

\* An overlap needs the operator's consent, which is about the containers listed.
Review(o) ==
    LET overlap == check_resource_conflicts(dialog[o])
    IN  /\ At(o, "review")
        /\ \/ dialog' = [dialog EXCEPT ![o].step = "recheck",
                                       ![o].sawRunning = Running \ overlap]
           \/ overlap # {} /\ Ended(o)
        /\ UNCHANGED <<containers, home, cut>>

\* Mutant: the port is not looked at again.
Recheck_NameOnly(o) ==
    /\ At(o, "recheck")
    /\ IF Exists(dialog[o].name) THEN Ended(o)
       ELSE dialog' = [dialog EXCEPT ![o].step = "confirm", ![o].sawPorts = @ \cup Running]
    /\ UNCHANGED <<containers, home, cut>>

\* port_is_in_use and docker container inspect, one after the other.
Recheck(o) ==
    /\ At(o, "recheck")
    /\ IF port_is_in_use(dialog[o].port) \/ Exists(dialog[o].name) THEN Ended(o)
       ELSE dialog' = [dialog EXCEPT ![o].step = "confirm", ![o].sawPorts = @ \cup Running]
    /\ UNCHANGED <<containers, home, cut>>

-----------------------------------------------------------------------------
(* Creation *)

\* An existing directory is used as it is; to make one the script may ask for sudo.
prepare_mount_path(o) ==
    /\ At(o, "confirm")
    /\ dialog' = [dialog EXCEPT
        ![o].step = IF home[dialog[o].name] = "missing" THEN "mkdir" ELSE "run"]
    /\ UNCHANGED <<containers, home, cut>>

\* mkdir -p accepts a directory that another script has made meanwhile.
Mkdir(o) ==
    /\ At(o, "mkdir")
    /\ dialog' = [dialog EXCEPT ![o].step = "chown"]
    /\ home' = [home EXCEPT ![dialog[o].name] = IF @ = "missing" THEN "root" ELSE @]
    /\ UNCHANGED <<containers, cut>>

\* Mutant: the owner is set only when the container has been created.
Owned_Later(n) == home[n]
Owned(n) == "user"

Chown(o) ==
    /\ At(o, "chown")
    /\ dialog' = [dialog EXCEPT ![o].step = "run"]
    /\ home' = [home EXCEPT ![dialog[o].name] = Owned(dialog[o].name)]
    /\ cut' = cut \ {dialog[o].name}
    /\ UNCHANGED containers

PortIsFree(p) == \A n \in Running : containers[n].port # p

Created(d, state) ==
    [state |-> state, port |-> d.port, cpus |-> d.cpus, gpus |-> d.gpus, uses |-> d.uses,
     sawRunning |-> d.sawRunning, sawPorts |-> d.sawPorts]

\* Docker refuses a name that is taken.  A container that cannot be started, for
\* its port or another reason, is kept.  The script waits for the health check
\* (AgentService) and reports what it saw, but leaves the container as it is.
docker_run(o) ==
    LET n == dialog[o].name
    IN  /\ At(o, "run")
        /\ IF Exists(n) THEN UNCHANGED containers
           ELSE \E state \in {"running", "stopped"} :
                   /\ state = "running" => PortIsFree(dialog[o].port)
                   /\ containers' = [containers EXCEPT ![n] = Created(dialog[o], state)]
        /\ Ended(o)
        /\ UNCHANGED <<home, cut>>

\* The operator says no, the terminal is closed, sudo fails or a command does.
Cancel(o) ==
    /\ ~At(o, "idle")
    /\ Ended(o)
    /\ cut' = IF At(o, "chown") /\ home[dialog[o].name] = "root"
              THEN cut \cup {dialog[o].name} ELSE cut
    /\ UNCHANGED <<containers, home>>

-----------------------------------------------------------------------------
(* The host *)

\* Somebody runs a container without the script: without a CPU list, or with one
\* and a GPU that is given by count.
RunOther(n) ==
    /\ ~Exists(n)
    /\ \E p \in Busy, other \in {
            [gpus |-> {}, cpus |-> Unlimited, uses |-> Cpus],
            [gpus |-> Unknown, cpus |-> {<<0, 0>>}, uses |-> {0}]} :
        /\ PortIsFree(p)
        /\ containers' = [containers EXCEPT ![n] =
            [state |-> "running", port |-> p, cpus |-> other.cpus, gpus |-> other.gpus,
             uses |-> other.uses, sawRunning |-> {}, sawPorts |-> {}]]
    /\ UNCHANGED <<home, dialog, cut>>

Stop(n) ==
    /\ Runs(n)
    /\ containers' = [containers EXCEPT ![n].state = "stopped"]
    /\ UNCHANGED <<home, dialog, cut>>

Start(n) ==
    /\ Exists(n) /\ ~Runs(n)
    /\ PortIsFree(containers[n].port)
    /\ containers' = [containers EXCEPT ![n].state = "running"]
    /\ UNCHANGED <<home, dialog, cut>>

Forget(record, n) ==
    [record EXCEPT !.sawRunning = @ \ {n}, !.sawPorts = @ \ {n}]

\* docker rm; a later container of that name is another one.
Remove(n) ==
    /\ Exists(n) /\ ~Runs(n)
    /\ containers' = [k \in Names |->
        IF k = n \/ ~Exists(k) THEN Absent ELSE Forget(containers[k], n)]
    /\ dialog' = [o \in Operators |-> Forget(dialog[o], n)]
    /\ UNCHANGED <<home, cut>>

-----------------------------------------------------------------------------
Init ==
    /\ containers = [n \in Names |-> Absent]
    /\ home = [n \in Names |-> "missing"]
    /\ dialog = [o \in Operators |-> Idle]
    /\ cut = {}

Script(o) ==
    \/ Begin(o) \/ RecommendPort(o) \/ prompt_port(o) \/ prompt_container_name(o)
    \/ Review(o) \/ Recheck(o)
    \/ prepare_mount_path(o) \/ Mkdir(o) \/ Chown(o) \/ docker_run(o) \/ Cancel(o)

Next ==
    \/ \E o \in Operators : Script(o)
    \/ \E n \in Names : RunOther(n) \/ Stop(n) \/ Start(n) \/ Remove(n)

Spec == Init /\ [][Next]_vars

-----------------------------------------------------------------------------
TypeOK ==
    /\ \A n \in Names : Exists(n) =>
        /\ containers[n].state \in {"running", "stopped"}
        /\ containers[n].port \in Ports
        /\ containers[n].cpus \in SUBSET (Cpus \X Cpus)
        /\ containers[n].gpus \in {Unknown} \cup SUBSET Devices
        /\ containers[n].sawRunning \subseteq Names /\ containers[n].sawPorts \subseteq Names
    /\ cut \subseteq Names
    /\ home \in [Names -> {"missing", "root", "user"}]
    /\ \A o \in Operators :
        /\ dialog[o].step \in {"idle", "port", "answer", "name", "review", "recheck",
                              "confirm", "mkdir", "chown", "run"}
        /\ dialog[o].port \in {0} \cup Ports
        /\ dialog[o].name \in {None} \cup Names

\* Two containers that use a CPU or may use a GPU together.
Share(c, d) ==
    \/ c.uses \cap d.uses # {}
    \/ c.gpus \cap d.gpus # {}
    \/ c.gpus # {} /\ d.gpus # {} /\ Unknown \in {c.gpus, d.gpus}

\* "再次检查所选 GPU/CPU 是否与运行中容器重叠" (README.md): containers that share a CPU or
\* a GPU do so by consent of an operator, who saw one of them listed, unless neither
\* ran when the script looked for the other: it was created, or started, after that.
ShareNeedsConsentOrGap(n, k) ==
    Share(containers[n], containers[k]) =>
        n \notin containers[k].sawRunning /\ k \notin containers[n].sawRunning

\* "脚本会避开宿主机监听端口和已有 Docker 容器映射端口，推荐范围内第一个可用端口" (README.md): two
\* containers have one port, so that they can never run together, only when neither
\* was there for the other's checks: the recommended port is not that of any
\* container then, and neither it nor a typed one that of a running container when
\* the script looks again.  A typed port may be that of a stopped one.
SharedPortNeedsGap(n, k) ==
    containers[n].port = containers[k].port =>
        n \notin containers[k].sawPorts /\ k \notin containers[n].sawPorts

\* What two containers share they share by consent, or through the gap between
\* the checks of the script and docker run.
SharingNeedsConsentOrGap ==
    \A n, k \in Names :
        n # k /\ Exists(n) /\ Exists(k) =>
            ShareNeedsConsentOrGap(n, k) /\ SharedPortNeedsGap(n, k)

\* "创建目录并将 owner 修改为 1001:1001" (README.md): the home of a container is root's
\* only when a script ended, or still is, between making and giving it away; a
\* later container of that name uses the directory as it is.
HomeIsOwnedUnlessCut ==
    \A n \in Names : Exists(n) /\ home[n] = "root" =>
        n \in cut \/ \E o \in Operators : At(o, "chown") /\ dialog[o].name = n
=============================================================================
