---------------------------- MODULE HourlyRollup ----------------------------
(***************************************************************************)
(* The daily aggregation of GPU samples (worker.py, aggregate_pending_days *)
(* and aggregate_day): a checkpoint names the last aggregated day, and a   *)
(* pass aggregates day after day, each in a transaction, up to yesterday.  *)
(* Samples arrive up to a day late, or dated ahead by a clock that is up   *)
(* to five minutes fast; the worker may crash, and a second one may run    *)
(* while the first is replaced.  Time is counted in days.                  *)
(***************************************************************************)
EXTENDS Integers, FiniteSets, FiniteSetsExt

CONSTANTS
    Ids,        \* samples of one day
    Workers,
    MaxDay,     \* bound of the instance: the last day
    MaxCrashes  \* bound of the instance: worker processes that die

VARIABLES
    stored,      \* committed: gpu_samples as <<day of collected_at, id>>
    rolled,      \* committed: the samples each day's rollups were made of
    checkpoint,  \* committed: worker_checkpoints.completed_through
    work,        \* the pass each worker is executing
    now,         \* the current day
    onTime,      \* history: samples stored before the day of their date was over
    ahead,       \* history: the day of the first start, when all samples were of the next
    crashes

vars == <<stored, rolled, checkpoint, work, now, onTime, ahead, crashes>>

Days == 0..MaxDay
Samples == Days \X Ids
NoCheckpoint == -2
Idle == [step |-> "idle"]

Pass ==
    {Idle}
    \cup [step: {"next"}, target: 0..(MaxDay + 1), yesterday: -1..MaxDay]
    \cup [step: {"aggregated"}, target: Days, yesterday: -1..MaxDay, found: SUBSET Samples]

SamplesOf(day) == {s \in stored : s[1] = day}

-----------------------------------------------------------------------------
\* The collector accepts samples of the last 24 hours and of the next 5 minutes,
\* which before midnight are of the next day.
Arrive(s) ==
    /\ s \notin stored
    /\ s[1] \in (now - 1)..(now + 1)
    /\ stored' = stored \cup {s}
    /\ onTime' = IF s[1] >= now THEN onTime \cup {s} ELSE onTime
    /\ UNCHANGED <<rolled, checkpoint, work, now, ahead, crashes>>

\* Mutant: the day that is still running is aggregated too.
LastCompleteDay_Today == now
LastCompleteDay == now - 1

\* Mutant: the first start begins with yesterday.
FirstDay_Yesterday == now - 1

\* The first start goes back to the earliest sample there is.
FirstDay == IF stored = {} THEN now ELSE Min({s[1] : s \in stored})

AllAhead == stored # {} /\ \A s \in stored : s[1] > now

\* The checkpoint is read, or created in a transaction of its own.
StartPass(w) ==
    LET through == IF checkpoint = NoCheckpoint THEN FirstDay - 1 ELSE checkpoint
    IN  /\ work[w] = Idle
        /\ checkpoint' = through
        /\ ahead' = IF checkpoint = NoCheckpoint /\ AllAhead THEN ahead \cup {now} ELSE ahead
        /\ work' = [work EXCEPT ![w] =
                     [step |-> "next", target |-> through + 1, yesterday |-> LastCompleteDay]]
        /\ UNCHANGED <<stored, rolled, now, onTime, crashes>>

\* The statement reads the samples of the day that are committed now.
Aggregate(w) ==
    /\ work[w].step = "next"
    /\ work[w].target <= work[w].yesterday
    /\ work' = [work EXCEPT ![w] =
                 [step |-> "aggregated", target |-> work[w].target,
                  yesterday |-> work[w].yesterday, found |-> SamplesOf(work[w].target)]]
    /\ UNCHANGED <<stored, rolled, checkpoint, now, onTime, ahead, crashes>>

\* Rollups and checkpoint are one transaction.
CommitDay(w) ==
    /\ work[w].step = "aggregated"
    /\ rolled' = [rolled EXCEPT ![work[w].target] = work[w].found]
    /\ checkpoint' = work[w].target
    /\ work' = [work EXCEPT ![w] =
                 [step |-> "next", target |-> work[w].target + 1,
                  yesterday |-> work[w].yesterday]]
    /\ UNCHANGED <<stored, now, onTime, ahead, crashes>>

EndPass(w) ==
    /\ work[w].step = "next"
    /\ work[w].target > work[w].yesterday
    /\ work' = [work EXCEPT ![w] = Idle]
    /\ UNCHANGED <<stored, rolled, checkpoint, now, onTime, ahead, crashes>>

\* A crash, or an error of the database that ends the process.
Crash(w) ==
    /\ work[w] # Idle
    /\ crashes < MaxCrashes
    /\ crashes' = crashes + 1
    /\ work' = [work EXCEPT ![w] = Idle]
    /\ UNCHANGED <<stored, rolled, checkpoint, now, onTime, ahead>>

Midnight ==
    /\ now < MaxDay
    /\ now' = now + 1
    /\ UNCHANGED <<stored, rolled, checkpoint, work, onTime, ahead, crashes>>

Init ==
    /\ stored = {}
    /\ rolled = [d \in Days |-> {}]
    /\ checkpoint = NoCheckpoint
    /\ work = [w \in Workers |-> Idle]
    /\ now = 0
    /\ onTime = {}
    /\ ahead = {}
    /\ crashes = 0

Step(w) == StartPass(w) \/ Aggregate(w) \/ CommitDay(w) \/ EndPass(w)

Next ==
    \/ \E s \in Samples : Arrive(s)
    \/ \E w \in Workers : Step(w) \/ Crash(w)
    \/ Midnight

Spec == Init /\ [][Next]_vars

\* The worker polls for ever and is restarted when it dies; days go by.
FairSpec == Spec /\ WF_vars(Midnight) /\ \A w \in Workers : WF_vars(Step(w))

-----------------------------------------------------------------------------
TypeOK ==
    /\ stored \subseteq Samples /\ onTime \subseteq stored
    /\ rolled \in [Days -> SUBSET Samples]
    /\ checkpoint \in {NoCheckpoint} \cup (-1..MaxDay)
    /\ work \in [Workers -> Pass]
    /\ now \in Days /\ ahead \subseteq Days
    /\ crashes \in 0..MaxCrashes

\* "首次启动会从现存最早原始样本补齐到昨天" (README.md), and later passes go on
\* from there: the rollups of every day up to the checkpoint hold each sample
\* that was stored before its day was over, however workers crash, overlap or stay
\* away.  Only a first start just before midnight, when the earliest sample is of
\* the next day, counts the day that is still running as done.
NothingOnTimeIsSkipped ==
    \A s \in onTime : s[1] <= checkpoint => s \in rolled[s[1]] \/ s[1] \in ahead

\* Samples of days that are over are aggregated, also after crashes, and stay so:
\* when the last day of the instance has come, the rollups catch up with it.  The
\* exception is the same one day.
EverySampleIsAggregated ==
    <>[](\A s \in onTime : now > s[1] => s \in rolled[s[1]] \/ s[1] \in ahead)
=============================================================================
