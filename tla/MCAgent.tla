-------------------------------- MODULE MCAgent --------------------------------
(***************************************************************************)
(* The agent process and its service, checked in one run.  They share no   *)
(* state: the service knows the process as a PID that lives and ends, the  *)
(* process its supervision as a start and a signal.  So each behaviour is  *)
(* one of the process or one of the service, and the other does not move.  *)
(***************************************************************************)
EXTENDS Agent, FiniteSets

CONSTANTS Pids, MaxKills, MaxStops, MaxStarts

VARIABLES part, running, program, wrapper, process, pidFile, check, watch,
          kills, stops, starts, windows

Service == INSTANCE AgentService

ASSUME ServiceAssumption ==
    /\ Service!None \notin Pids
    /\ MaxKills \in Nat /\ MaxStops \in Nat /\ MaxStarts \in Nat

serviceVars == <<running, program, wrapper, process, pidFile, check, watch,
                 kills, stops, starts, windows>>
allVars == <<part, vars, serviceVars>>

OfProcess(step) == part = "process" /\ step /\ UNCHANGED <<part, serviceVars>>
OfService(step) == part = "service" /\ step /\ UNCHANGED <<part, vars>>

MCInit == part \in {"process", "service"} /\ Init /\ Service!Init
MCNext == OfProcess(Next) \/ OfService(Service!Next)

MCSpec ==
    /\ MCInit /\ [][MCNext]_allVars
    /\ \A a \in Agents :
        /\ WF_allVars(OfProcess(EndCollection(a)))
        /\ WF_allVars(OfProcess(Wake(a)))
    /\ WF_allVars(OfService(Service!WrapperStep /\ Service!Watch))
    /\ WF_allVars(OfService(Service!Supervise /\ Service!Watch))
    /\ WF_allVars(OfService(Service!OtherEnds /\ Service!Watch))

TypesOK == TypeOK /\ Service!TypeOK
OrphansNeedKillOrWindow == Service!OrphansNeedKillOrWindow
VerdictIsFair == Service!VerdictIsFair
ConfigErrorIsFinal == [][Service!StaysRefused]_allVars
FailedAgentComesBack == Service!FailedAgentComesBack
=============================================================================
