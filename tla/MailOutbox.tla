----------------------------- MODULE MailOutbox -----------------------------
(***************************************************************************)
(* The notification outbox: the management API and the worker's schedulers *)
(* insert mails, worker processes deliver them (worker.py,                 *)
(* process_one_notification).  A worker claims a mail in one transaction,  *)
(* talks to the SMTP server without one, and records the result in a       *)
(* second transaction.  In between it may crash, or be so slow that        *)
(* another worker takes the mail over.  Mails about the passage of time    *)
(* are inserted by the workers themselves (schedule_expiry_notifications,  *)
(* schedule_automatic_rejection_notifications, enqueue_notification): in   *)
(* each pass they look for what should have been announced by then.  That  *)
(* a request is about to expire is announced only while it is.             *)
(*                                                                         *)
(* Time is counted in minutes.  available_at is kept as the minutes that   *)
(* remain until it, updated_at of a claimed mail as the minutes since it.  *)
(***************************************************************************)
EXTENDS Integers, FiniteSets

CONSTANTS
    Mails,        \* rows of notification_outbox, by idempotency key
    Workers,      \* worker processes, a second one while one is replaced
    MaxAttempts,  \* mail_max_attempts
    StaleAfter    \* minutes after which a claimed mail is taken over

ASSUME MailAssumption ==
    /\ IsFiniteSet(Mails) /\ IsFiniteSet(Workers)
    /\ MaxAttempts \in Nat \ {0}
    /\ StaleAfter \in Nat

VARIABLES
    offer,      \* what the queries of the workers select, or once did, as its reason
    status,     \* of each mail; "none" before it is inserted
    attempts,   \* how often it was claimed
    wait,       \* minutes until available_at, 0 when it is due
    age,        \* minutes since it was claimed, counted up to StaleAfter + 1
    work,       \* what each worker is sending, with its copy of attempts, or inserting
    confirmed,  \* history: sends of each mail that returned without an error
    takeovers,  \* history: how often each mail was taken over
    cutOff      \* history: mails whose worker crashed in the last attempt

mail == <<status, attempts, wait, age>>
history == <<confirmed, takeovers, cutOff>>
vars == <<offer, mail, work, history>>

Offer == {"none", "rejected", "expiring", "expired", "over"}
MailStatus == {"none", "pending", "sending", "sent", "failed"}
Idle == [step |-> "idle"]
Claimed == [step: {"sending"}, mail: Mails, attempt: 0..MaxAttempts]
Scheduling == [step: {"scheduling"}, insert: SUBSET Mails]
Sends(w) == work[w].step = "sending"
Queued(m) == status[m] # "none"

Smaller(a, b) == IF a < b THEN a ELSE b

\* 60 * 2 ** max(attempts - 1, 0) seconds, but at most an hour.
Backoff(attempt) ==
    IF attempt > 6 THEN 60 ELSE IF attempt = 0 THEN 1 ELSE 2 ^ (attempt - 1)

-----------------------------------------------------------------------------
(* Insertion *)

\* A key that nothing has a use for yet.
Unused(m) == status[m] = "none" /\ offer[m] = "none"

\* The API inserts a mail in the transaction that is its reason.
Enqueue(m) ==
    /\ Unused(m)
    /\ status' = [status EXCEPT ![m] = "pending"]
    /\ UNCHANGED <<offer, attempts, wait, age, work, history>>

\* A request or a change is rejected as the consequence of something else; the
\* expires_at of a request comes within a day.
Begin(m) ==
    /\ Unused(m)
    /\ offer' \in {[offer EXCEPT ![m] = reason] : reason \in {"rejected", "expiring"}}
    /\ UNCHANGED <<mail, work, history>>

\* expires_at is past: template and key are those of the expired mail from now on.
Expire(m, k) ==
    /\ offer[m] = "expiring" /\ Unused(k)
    /\ offer' = [offer EXCEPT ![m] = "over", ![k] = "expired"]
    /\ UNCHANGED <<mail, work, history>>

\* A later expires_at has other keys.
Extend(m) ==
    /\ offer[m] = "expiring"
    /\ offer' = [offer EXCEPT ![m] = "over"]
    /\ UNCHANGED <<mail, work, history>>

\* Mutant: mails are inserted without looking for their idempotency keys.
Missing_All(query) == {m \in Mails : offer[m] \in query}

Missing(query) == {m \in Mails : offer[m] \in query /\ status[m] = "none"}

\* The two queries, each for a transaction of its own.
Queries == {{"rejected"}, {"expiring", "expired"}}

\* The keys are looked up one by one; the rows are inserted at the end.
Schedule(w) ==
    /\ work[w] = Idle
    /\ \E query \in Queries :
        /\ \E m \in Mails : offer[m] \in query /\ status[m] = "none"
        /\ work' = [work EXCEPT ![w] = [step |-> "scheduling", insert |-> Missing(query)]]
    /\ UNCHANGED <<offer, mail, history>>

\* A key that is there by now violates its unique index.  Nothing is inserted then,
\* and the error ends the worker process, which is started again.
Insert(w) ==
    /\ work[w].step = "scheduling"
    /\ work' = [work EXCEPT ![w] = Idle]
    /\ status' = IF \E m \in work[w].insert : Queued(m) THEN status
                 ELSE [m \in Mails |-> IF m \in work[w].insert THEN "pending" ELSE status[m]]
    /\ UNCHANGED <<offer, attempts, wait, age, history>>

-----------------------------------------------------------------------------
(* Delivery *)

\* Mutant: a claimed mail is never taken over.
Abandoned_Never == {}

Abandoned == {m \in Mails : status[m] = "sending" /\ age[m] > StaleAfter}

\* Mutant: one attempt too many.
AttemptsLeft_OneMore(m) == attempts[m] <= MaxAttempts
AttemptsLeft(m) == attempts[m] < MaxAttempts

\* Mutant: the claim does not look at the status.
Deliverable_AnyStatus == {m \in Mails : Queued(m) /\ wait[m] = 0 /\ AttemptsLeft(m)}

\* What the claim may select after the takeover.
Deliverable ==
    {m \in Mails :
        /\ \/ m \in Abandoned
           \/ status[m] \in {"pending", "failed"} /\ wait[m] = 0
        /\ AttemptsLeft(m)}

\* Mutant: an attempt is not counted when it begins.
Counted_Later(m) == attempts[m]

Counted(m) == attempts[m] + 1

\* One transaction.  When nothing can be selected it is rolled back, takeovers
\* included, so it does not happen.
Claim(w) ==
    LET taken == Abandoned
    IN  /\ work[w] = Idle
        /\ \E m \in Deliverable :
            /\ status' = [k \in Mails |->
                            IF k = m THEN "sending"
                            ELSE IF k \in taken THEN "pending" ELSE status[k]]
            /\ attempts' = [attempts EXCEPT ![m] = Counted(m)]
            /\ wait' = [k \in Mails |-> IF k \in taken THEN 0 ELSE wait[k]]
            /\ age' = [k \in Mails |-> IF k = m \/ k \in taken THEN 0 ELSE age[k]]
            /\ work' = [work EXCEPT ![w] = [step |-> "sending", mail |-> m, attempt |-> Counted(m)]]
        /\ takeovers' = [k \in Mails |-> IF k \in taken THEN takeovers[k] + 1 ELSE takeovers[k]]
        /\ UNCHANGED <<offer, confirmed, cutOff>>

SendSucceeds(w) ==
    /\ Sends(w)
    /\ status' = [status EXCEPT ![work[w].mail] = "sent"]
    /\ age' = [age EXCEPT ![work[w].mail] = 0]
    /\ confirmed' = [confirmed EXCEPT ![work[w].mail] = @ + 1]
    /\ work' = [work EXCEPT ![w] = Idle]
    /\ UNCHANGED <<offer, attempts, wait, takeovers, cutOff>>

\* OSError or RuntimeError: no configuration, no connection, a refusal.
SendFails(w) ==
    LET m == work[w].mail
        last == work[w].attempt >= MaxAttempts
    IN  /\ Sends(w)
        /\ status' = [status EXCEPT ![m] = IF last THEN "failed" ELSE "pending"]
        /\ wait' = [wait EXCEPT ![m] = Backoff(work[w].attempt)]
        /\ age' = [age EXCEPT ![m] = 0]
        /\ work' = [work EXCEPT ![w] = Idle]
        /\ UNCHANGED <<offer, attempts, history>>

\* The process ends while it is sending or inserting, and is started again.
Crash(w) ==
    /\ work[w] # Idle
    /\ work' = [work EXCEPT ![w] = Idle]
    /\ cutOff' = IF Sends(w) /\ work[w].attempt = MaxAttempts THEN cutOff \cup {work[w].mail}
                 ELSE cutOff
    /\ UNCHANGED <<offer, mail, confirmed, takeovers>>

Tick ==
    /\ wait' = [m \in Mails |-> IF wait[m] > 0 THEN wait[m] - 1 ELSE 0]
    /\ age' = [m \in Mails |->
                IF status[m] = "sending" THEN Smaller(age[m] + 1, StaleAfter + 1) ELSE 0]
    /\ UNCHANGED <<offer, status, attempts, work, history>>

-----------------------------------------------------------------------------
Init ==
    /\ offer = [m \in Mails |-> "none"]
    /\ status = [m \in Mails |-> "none"]
    /\ attempts = [m \in Mails |-> 0]
    /\ wait = [m \in Mails |-> 0]
    /\ age = [m \in Mails |-> 0]
    /\ work = [w \in Workers |-> Idle]
    /\ confirmed = [m \in Mails |-> 0]
    /\ takeovers = [m \in Mails |-> 0]
    /\ cutOff = {}

SendEnds(w) == SendSucceeds(w) \/ SendFails(w)

Next ==
    \/ \E m \in Mails : Enqueue(m) \/ Begin(m) \/ Extend(m)
    \/ \E m, k \in Mails : Expire(m, k)
    \/ \E w \in Workers : Schedule(w) \/ Insert(w) \/ Claim(w) \/ SendEnds(w) \/ Crash(w)
    \/ Tick

Spec == Init /\ [][Next]_vars

\* Workers poll, SMTP calls have a timeout, and the clock goes on.  A worker does
\* not crash in every one of its passes.
Fairness ==
    /\ WF_vars(Tick)
    /\ \A w \in Workers :
        WF_vars(Claim(w)) /\ WF_vars(SendEnds(w)) /\ WF_vars(Schedule(w)) /\ SF_vars(Insert(w))

FairSpec == Spec /\ Fairness

-----------------------------------------------------------------------------
TypeOK ==
    /\ offer \in [Mails -> Offer]
    /\ status \in [Mails -> MailStatus]
    /\ attempts \in [Mails -> 0..MaxAttempts]
    /\ wait \in [Mails -> Nat]
    /\ age \in [Mails -> 0..(StaleAfter + 1)]
    /\ work \in [Workers -> {Idle} \cup Claimed \cup Scheduling]
    /\ confirmed \in [Mails -> Nat]
    /\ takeovers \in [Mails -> Nat]
    /\ cutOff \subseteq Mails

\* A mail is delivered twice only when it was taken over: without takeovers a
\* confirmed delivery is the only one, whatever crashes or fails around it.
DuplicatesNeedTakeover == \A m \in Mails : confirmed[m] <= 1 + takeovers[m]

\* Attempts are counted before they are made: crashes, lost results and two
\* workers at once never send a mail more than MaxAttempts times.
SendsAreLimited ==
    \A m \in Mails :
        confirmed[m] + Cardinality({w \in Workers : Sends(w) /\ work[w].mail = m}) <= MaxAttempts

\* What has become of a mail in the end.  One whose last attempt was cut off by a
\* crash, or overlapped with an overtaken one, may keep another status than
\* "failed"; nobody selects it again.
Settled(m) ==
    \/ confirmed[m] > 0
    \/ status[m] = "failed"
    \/ attempts[m] = MaxAttempts /\ (m \in cutOff \/ takeovers[m] > 0)

\* What a pass of the workers should announce is inserted in the end, although two
\* of them insert the same mails and one key that is there already rolls back all of
\* a pass; only that a request will expire may be left out, when its last day is
\* over before a pass succeeds.  Every mail that is inserted is delivered or has
\* used up its attempts, and it says so unless a crash or a takeover kept it from
\* that: it is not left in "sending" by a worker that crashed, nor delayed for ever.
NoMailIsForgotten ==
    \A m \in Mails :
        /\ offer[m] # "none" ~> Queued(m) \/ offer[m] = "over"
        /\ Queued(m) ~> Settled(m)

\* "邮件会留在待重试队列中" (README.md): a mail that could not be sent stays
\* in the queue for a retry.
UnsentStaysQueued ==
    \A m \in Mails :
        status[m] \in {"pending", "failed"} => attempts[m] < MaxAttempts
=============================================================================
