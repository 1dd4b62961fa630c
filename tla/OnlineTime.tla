------------------------------ MODULE OnlineTime ------------------------------
(***************************************************************************)
(* The online time that the daily aggregation computes for every hour      *)
(* (ROLLUP_SQL in worker.py), from the samples of one GPU of one           *)
(* container.  Time is in seconds of one business day whose hours are      *)
(* those of the clock: the business timezone has a fixed offset that day.  *)
(***************************************************************************)
EXTENDS Integers, FiniteSetsExt

CONSTANTS
    Hour,            \* seconds of an hour
    Hours,           \* hours of a day
    offline_seconds  \* a container that is silent for so long is offline

VARIABLE collected  \* collected_at of the samples in the day window

Day == 0..(Hour * Hours - 1)

bucket_start(t) == t - (t % Hour)

\* lead() within the day window, with COALESCE.
next_collected_at(t) ==
    LET later == {u \in collected : u > t}
    IN  IF later = {} THEN t + offline_seconds ELSE Min(later)

\* Mutant: the next sample is taken for the end, however late it comes.
Counted_UntilNext(t) == Max({0, Min({next_collected_at(t), bucket_start(t) + Hour}) - t})

Counted(t) ==
    Max({0, Min({next_collected_at(t), bucket_start(t) + Hour, t + offline_seconds}) - t})

online_seconds(hour) ==
    MapThenSumSet(Counted, {t \in collected : bucket_start(t) = hour})

-----------------------------------------------------------------------------
\* Reports are stored in any order; a repeated one is a duplicate.
Store(t) == collected' = collected \cup {t}

Init == collected = {}
Next == \E t \in Day : Store(t)
Spec == Init /\ [][Next]_collected

-----------------------------------------------------------------------------
\* The seconds of an hour in which a sample of that hour was not too old.
Covered(hour) ==
    {s \in hour..(hour + Hour - 1) :
        \E t \in collected : bucket_start(t) = hour /\ t <= s /\ s < t + offline_seconds}

\* The intervals that are added up, each cut at the next sample, at the end of
\* the hour and at the offline limit, neither overlap nor leave out a second, for
\* any set of samples: the sum is the number of seconds the hour was covered.
OnlineTimeIsCoverage ==
    \A hour \in {bucket_start(t) : t \in Day} : online_seconds(hour) = Cardinality(Covered(hour))
=============================================================================
