------------------------------- MODULE MCWorker -------------------------------
(***************************************************************************)
(* The worker's mails, its daily passes and the online time a pass         *)
(* computes, checked in one run.  They share no state but the process,     *)
(* whose crash each of the modules has: so each behaviour is one of one    *)
(* part, and the others do not move.                                       *)
(***************************************************************************)
EXTENDS MailOutbox

CONSTANTS Ids, MaxDay, MaxCrashes, Hour, Hours, offline_seconds

ASSUME RollupAssumption == IsFiniteSet(Ids) /\ MaxDay \in Nat /\ MaxCrashes \in Nat
ASSUME OnlineAssumption == Hour \in Nat \ {0} /\ Hours \in Nat /\ offline_seconds \in Nat

VARIABLES part, stored, rolled, checkpoint, pass, now, onTime, ahead, crashes,
          collected

Rollup == INSTANCE HourlyRollup WITH work <- pass
Online == INSTANCE OnlineTime

rollupVars == <<stored, rolled, checkpoint, pass, now, onTime, ahead, crashes>>
allVars == <<part, vars, rollupVars, collected>>

OfMail(step) == part = "mail" /\ step /\ UNCHANGED <<part, rollupVars, collected>>
OfRollup(step) == part = "rollup" /\ step /\ UNCHANGED <<part, vars, collected>>
OfOnline(step) == part = "online" /\ step /\ UNCHANGED <<part, vars, rollupVars>>

MCInit == part \in {"mail", "rollup", "online"} /\ Init /\ Rollup!Init /\ Online!Init
MCNext == OfMail(Next) \/ OfRollup(Rollup!Next) \/ OfOnline(Online!Next)

MCSpec ==
    /\ MCInit /\ [][MCNext]_allVars
    /\ WF_allVars(OfMail(Tick)) /\ WF_allVars(OfRollup(Rollup!Midnight))
    /\ \A w \in Workers :
        /\ WF_allVars(OfMail(Claim(w))) /\ WF_allVars(OfMail(SendEnds(w)))
        /\ WF_allVars(OfMail(Schedule(w))) /\ SF_allVars(OfMail(Insert(w)))
        /\ WF_allVars(OfRollup(Rollup!Step(w)))

TypesOK == TypeOK /\ Rollup!TypeOK
NothingOnTimeIsSkipped == Rollup!NothingOnTimeIsSkipped
OnlineTimeIsCoverage == Online!OnlineTimeIsCoverage
EverySampleIsAggregated == Rollup!EverySampleIsAggregated
=============================================================================
