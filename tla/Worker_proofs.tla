----------------------------- MODULE Worker_proofs -----------------------------
(***************************************************************************)
(* The worker process, for any number of mails, samples, days and          *)
(* processes: how often a mail is sent, that the daily passes leave out no *)
(* sample that came in time, and what online time they compute.            *)
(***************************************************************************)
EXTENDS MCWorker, TLAPS, FiniteSetTheorems, WellFoundedInduction

\* The workers that are sending a mail; more than one when it was taken over.
Senders(m) == {w \in Workers : Sends(w) /\ work[w].mail = m}

\* Sends of a mail that have succeeded or still may.
Sending(m) == confirmed[m] + Cardinality(Senders(m))

AttemptsCover == \A m \in Mails : Sending(m) <= attempts[m]

\* A claim takes a mail that nobody sends, or one that it takes over.
TakeoversCover ==
    \A m \in Mails :
        Sending(m) <= IF status[m] \in {"sending", "sent"} THEN takeovers[m] + 1
                      ELSE takeovers[m]

MailInv == TypeOK /\ AttemptsCover /\ TakeoversCover

-----------------------------------------------------------------------------
(* Types *)

\* The exponents that occur; the provers do not know powers in general.
LEMMA BackoffType ==
    ASSUME NEW attempt \in Nat
    PROVE  Backoff(attempt) \in Nat
  <1>1. 2^0 \in Nat /\ 2^1 \in Nat /\ 2^2 \in Nat /\ 2^3 \in Nat /\ 2^4 \in Nat /\ 2^5 \in Nat
    OBVIOUS
  <1>2. \A n \in {0, 1, 2, 3, 4, 5} : 2^n \in Nat
    BY <1>1, Zenon
  <1>3. CASE attempt \in 1..6
    <2>1. attempt - 1 \in {0, 1, 2, 3, 4, 5}
      BY <1>3
    <2>2. 2^(attempt - 1) \in Nat
      BY <1>2, <2>1, Zenon
    <2>3. QED
      BY <1>3, <2>2 DEF Backoff
  <1>4. QED
    BY <1>3 DEF Backoff

LEMMA WorkTyped ==
    ASSUME TypeOK, NEW w \in Workers
    PROVE  /\ work[w].step \in {"idle", "sending", "scheduling"}
           /\ Sends(w) => work[w].mail \in Mails /\ work[w].attempt \in 0..MaxAttempts
           /\ work[w].step = "scheduling" => work[w].insert \subseteq Mails
           /\ work[w] = Idle <=> work[w].step = "idle"
  <1>1. work[w] \in {Idle} \cup Claimed \cup Scheduling
    BY DEF TypeOK
  <1>2. QED
    BY <1>1 DEF Idle, Claimed, Scheduling, Sends

LEMMA SendersFinite ==
    ASSUME NEW m
    PROVE  IsFiniteSet(Senders(m)) /\ Cardinality(Senders(m)) \in Nat
  <1>1. IsFiniteSet(Workers) /\ Senders(m) \in SUBSET Workers
    BY MailAssumption DEF Senders
  <1>2. QED
    BY <1>1, FS_Subset, FS_CardinalityType

-----------------------------------------------------------------------------
(* Steps *)

\* The worker that starts to send a mail is one more of its senders.
LEMMA SendersAdd ==
    ASSUME TypeOK, NEW w \in Workers, NEW m \in Mails, NEW attempt, ~Sends(w),
           work' = [work EXCEPT ![w] = [step |-> "sending", mail |-> m, attempt |-> attempt]]
    PROVE  /\ Cardinality(Senders(m)') = Cardinality(Senders(m)) + 1
           /\ \A k \in Mails \ {m} : Senders(k)' = Senders(k)
  <1>1. Senders(m)' = Senders(m) \cup {w} /\ w \notin Senders(m)
    BY DEF Senders, Sends, TypeOK
  <1>2. \A k \in Mails \ {m} : Senders(k)' = Senders(k)
    BY DEF Senders, Sends, TypeOK
  <1>3. QED
    BY <1>1, <1>2, SendersFinite, FS_AddElement

\* The worker that ends one, in whatever way, is one less.
LEMMA SendersRemove ==
    ASSUME TypeOK, NEW w \in Workers, NEW m \in Mails, Sends(w), work[w].mail = m,
           work' = [work EXCEPT ![w] = Idle]
    PROVE  /\ Cardinality(Senders(m)') = Cardinality(Senders(m)) - 1
           /\ \A k \in Mails \ {m} : Senders(k)' = Senders(k)
  <1>1. Senders(m)' = Senders(m) \ {w} /\ w \in Senders(m)
    BY DEF Senders, Sends, TypeOK, Idle
  <1>2. \A k \in Mails \ {m} : Senders(k)' = Senders(k)
    BY DEF Senders, Sends, TypeOK, Idle
  <1>3. QED
    BY <1>1, <1>2, SendersFinite, FS_RemoveElement

\* A worker that schedules is no sender, before and after.
LEMMA SendersStay ==
    ASSUME TypeOK, NEW w \in Workers, ~Sends(w), NEW record, record.step # "sending",
           work' = [work EXCEPT ![w] = record]
    PROVE  \A m \in Mails : Senders(m)' = Senders(m)
  BY DEF Senders, Sends, TypeOK

\* A step that changes neither what is sent nor any count, and moves no mail to
\* "sending" or from there.
LEMMA CountsStay ==
    ASSUME MailInv, TypeOK', \A m \in Mails : Cardinality(Senders(m)') = Cardinality(Senders(m)),
           UNCHANGED <<attempts, confirmed, takeovers>>,
           \A m \in Mails : status[m] \in {"sending", "sent"} => status'[m] = status[m]
    PROVE  MailInv'
  <1>1. \A m \in Mails : Sending(m)' = Sending(m) /\ Sending(m) \in Int
    BY SendersFinite DEF Sending, MailInv, TypeOK
  <1>2. \A m \in Mails : takeovers[m] \in Nat /\ attempts[m] \in Nat
    BY DEF MailInv, TypeOK
  <1>3. AttemptsCover'
    BY <1>1 DEF MailInv, AttemptsCover
  <1>4. TakeoversCover'
    BY <1>1, <1>2 DEF MailInv, TakeoversCover
  <1>5. QED
    BY <1>3, <1>4 DEF MailInv

\* Insertion, and the end of a worker that is not sending.
LEMMA InsertionKeeps ==
    ASSUME MailInv
    PROVE  /\ \A m \in Mails : Enqueue(m) \/ Begin(m) \/ Extend(m) => MailInv'
           /\ \A m, k \in Mails : Expire(m, k) => MailInv'
           /\ \A w \in Workers :
                Schedule(w) \/ Insert(w) \/ (Crash(w) /\ ~Sends(w)) => MailInv'
  <1>1. TypeOK
    BY DEF MailInv
  <1>2. ASSUME NEW m \in Mails, Enqueue(m)
        PROVE  MailInv'
    <2>1. /\ status[m] = "none" /\ status' = [status EXCEPT ![m] = "pending"]
          /\ UNCHANGED <<offer, attempts, wait, age, work, history>>
      BY <1>2 DEF Enqueue, Unused
    <2>2. TypeOK'
      BY <1>1, <2>1 DEF TypeOK, MailStatus, history
    <2>3. \A k \in Mails : Senders(k)' = Senders(k)
      BY <2>1 DEF Senders, Sends
    <2>4. \A k \in Mails : status[k] \in {"sending", "sent"} => status'[k] = status[k]
      BY <1>1, <2>1 DEF TypeOK
    <2>5. QED
      BY <2>1, <2>2, <2>3, <2>4, CountsStay DEF history
  <1>6. ASSUME NEW m \in Mails, NEW k \in Mails, Begin(m) \/ Extend(m) \/ Expire(m, k)
        PROVE  MailInv'
    <2>1. UNCHANGED <<mail, work, history>>
      BY <1>6 DEF Begin, Extend, Expire
    <2>2. offer' \in [Mails -> Offer]
      BY <1>1, <1>6 DEF Begin, Extend, Expire, TypeOK, Offer
    <2>3. TypeOK'
      BY <1>1, <2>1, <2>2 DEF TypeOK, mail, history
    <2>4. \A n \in Mails : Senders(n)' = Senders(n)
      BY <2>1 DEF Senders, Sends
    <2>5. QED
      BY <2>1, <2>3, <2>4, CountsStay DEF mail, history
  <1>3. ASSUME NEW w \in Workers, Schedule(w) \/ (Crash(w) /\ ~Sends(w))
        PROVE  MailInv'
    <2>1. PICK record \in {Idle} \cup Scheduling : work' = [work EXCEPT ![w] = record]
      <3>1. \A query : [step |-> "scheduling", insert |-> Missing(query)] \in Scheduling
        BY DEF Scheduling, Missing
      <3>2. QED
        BY <1>3, <3>1 DEF Schedule, Crash
    <2>2. UNCHANGED <<offer, mail, history>> /\ ~Sends(w)
      BY <1>3 DEF Schedule, Crash, Sends, Idle, history
    <2>3. TypeOK'
      BY <1>1, <2>1, <2>2 DEF TypeOK, mail, history
    <2>4. record.step # "sending"
      BY DEF Idle, Scheduling
    <2>5. \A k \in Mails : Senders(k)' = Senders(k)
      BY <1>1, <2>1, <2>2, <2>4, SendersStay
    <2>6. QED
      BY <2>2, <2>3, <2>5, CountsStay DEF mail, history
  <1>4. ASSUME NEW w \in Workers, Insert(w)
        PROVE  MailInv'
    <2>1. /\ work[w].step = "scheduling" /\ work' = [work EXCEPT ![w] = Idle]
          /\ UNCHANGED <<offer, attempts, wait, age, history>>
      BY <1>4 DEF Insert
    <2>2. \/ status' = status
          \/ /\ \A m \in work[w].insert : ~Queued(m)
             /\ status' = [m \in Mails |-> IF m \in work[w].insert THEN "pending" ELSE status[m]]
      BY <1>4 DEF Insert
    <2>3. TypeOK'
      BY <1>1, <2>1, <2>2 DEF TypeOK, MailStatus, history
    <2>4. Idle.step # "sending" /\ ~Sends(w)
      BY <2>1 DEF Idle, Sends
    <2>5. \A k \in Mails : Senders(k)' = Senders(k)
      BY <1>1, <2>1, <2>4, SendersStay
    <2>6. \A k \in Mails : status[k] \in {"sending", "sent"} => status'[k] = status[k]
      BY <1>1, <2>2 DEF TypeOK, Queued
    <2>7. QED
      BY <2>1, <2>3, <2>5, <2>6, CountsStay DEF history
  <1>5. QED
    BY <1>2, <1>3, <1>4, <1>6

\* A claim: every mail that is taken over may be sent once more, and the one that
\* is claimed is sent by one worker more.
LEMMA ClaimKeeps ==
    ASSUME MailInv, NEW w \in Workers, Claim(w)
    PROVE  MailInv'
  <1>1. PICK m \in Deliverable :
            /\ status' = [k \in Mails |->
                            IF k = m THEN "sending"
                            ELSE IF k \in Abandoned THEN "pending" ELSE status[k]]
            /\ attempts' = [attempts EXCEPT ![m] = attempts[m] + 1]
            /\ wait' = [k \in Mails |-> IF k \in Abandoned THEN 0 ELSE wait[k]]
            /\ age' = [k \in Mails |-> IF k = m \/ k \in Abandoned THEN 0 ELSE age[k]]
            /\ work' = [work EXCEPT ![w] =
                         [step |-> "sending", mail |-> m, attempt |-> attempts[m] + 1]]
    BY DEF Claim, Counted
  <1>2. /\ work[w] = Idle /\ UNCHANGED <<offer, confirmed, cutOff>>
        /\ takeovers' = [k \in Mails |-> IF k \in Abandoned THEN takeovers[k] + 1
                                         ELSE takeovers[k]]
    BY DEF Claim
  <1>3. TypeOK /\ m \in Mails /\ attempts[m] \in 0..MaxAttempts /\ attempts[m] < MaxAttempts
    BY DEF MailInv, TypeOK, Deliverable, AttemptsLeft
  <1>4. attempts[m] + 1 \in 0..MaxAttempts
    BY <1>3, MailAssumption
  <1>5. TypeOK'
    <2>1. [step |-> "sending", mail |-> m, attempt |-> attempts[m] + 1] \in Claimed
      BY <1>3, <1>4 DEF Claimed
    <2>2. /\ status' \in [Mails -> MailStatus] /\ attempts' \in [Mails -> 0..MaxAttempts]
          /\ wait' \in [Mails -> Nat]
      BY <1>1, <1>3, <1>4 DEF TypeOK, MailStatus
    <2>3. age' \in [Mails -> 0..(StaleAfter + 1)]
      BY <1>1, <1>3, MailAssumption DEF TypeOK
    <2>4. QED
      BY <1>1, <1>2, <1>3, <2>1, <2>2, <2>3 DEF TypeOK
  <1>6. /\ Cardinality(Senders(m)') = Cardinality(Senders(m)) + 1
        /\ \A k \in Mails \ {m} : Senders(k)' = Senders(k)
    <2>1. ~Sends(w)
      BY <1>2 DEF Sends, Idle
    <2>2. m \in Mails /\ TypeOK
      BY <1>3
    <2>3. work' = [work EXCEPT ![w] =
                    [step |-> "sending", mail |-> m, attempt |-> attempts[m] + 1]]
      BY <1>1
    <2>4. QED
      BY <2>1, <2>2, <2>3, SendersAdd
  <1>7. /\ Sending(m)' = Sending(m) + 1
        /\ \A k \in Mails \ {m} : Sending(k)' = Sending(k)
        /\ \A k \in Mails : Sending(k) \in Nat
    BY <1>2, <1>3, <1>6, SendersFinite DEF Sending, TypeOK
  <1>8. AttemptsCover'
    BY <1>1, <1>3, <1>7 DEF MailInv, AttemptsCover, TypeOK
  <1>9. ASSUME NEW k \in Mails
        PROVE  Sending(k)' <= IF status'[k] \in {"sending", "sent"} THEN takeovers'[k] + 1
                              ELSE takeovers'[k]
    <2>1. /\ takeovers[k] \in Nat /\ Sending(k) \in Nat
          /\ Sending(k) <= IF status[k] \in {"sending", "sent"} THEN takeovers[k] + 1
                           ELSE takeovers[k]
      BY <1>3, <1>7 DEF MailInv, TakeoversCover, TypeOK
    <2>2. k \in Abandoned => status[k] = "sending"
      BY DEF Abandoned
    <2>3. CASE k = m
      <3>1. k \in Abandoned \/ status[k] \in {"pending", "failed"}
        BY <2>3 DEF Deliverable
      <3>2. status'[k] = "sending" /\ Sending(k)' = Sending(k) + 1
        BY <1>1, <1>7, <2>3
      <3>3. takeovers'[k] = IF k \in Abandoned THEN takeovers[k] + 1 ELSE takeovers[k]
        BY <1>2
      <3>4. QED
        BY <2>1, <2>2, <3>1, <3>2, <3>3
    <2>4. CASE k # m
      <3>1. /\ Sending(k)' = Sending(k)
            /\ takeovers'[k] = IF k \in Abandoned THEN takeovers[k] + 1 ELSE takeovers[k]
            /\ status'[k] = IF k \in Abandoned THEN "pending" ELSE status[k]
        BY <1>1, <1>2, <1>7, <2>4
      <3>2. QED
        BY <2>1, <2>2, <3>1
    <2>5. QED
      BY <2>3, <2>4
  <1>10. QED
    BY <1>5, <1>8, <1>9 DEF MailInv, TakeoversCover

\* The end of a send: a mail that another worker has taken over meanwhile may be
\* given back by this one, which is then one sender less.
LEMMA SendEndsKeeps ==
    ASSUME MailInv, NEW w \in Workers,
           SendSucceeds(w) \/ SendFails(w) \/ (Crash(w) /\ Sends(w))
    PROVE  MailInv'
  <1>1. /\ TypeOK /\ Sends(w) /\ work' = [work EXCEPT ![w] = Idle]
        /\ UNCHANGED <<offer, attempts, takeovers>> /\ cutOff' \in {cutOff, cutOff \cup {work[w].mail}}
    BY DEF MailInv, SendSucceeds, SendFails, Crash, mail, history
  <1>2. work[w].mail \in Mails /\ work[w].attempt \in 0..MaxAttempts
    BY <1>1, WorkTyped
  <1>3. PICK m \in Mails : work[w].mail = m
    BY <1>2
  <1>11. /\ cutOff' \subseteq Mails /\ offer' \in [Mails -> Offer]
         /\ attempts' \in [Mails -> 0..MaxAttempts] /\ takeovers' \in [Mails -> Nat]
         /\ work' \in [Workers -> {Idle} \cup Claimed \cup Scheduling]
    BY <1>1, <1>2 DEF TypeOK
  <1>4. /\ Cardinality(Senders(m)') = Cardinality(Senders(m)) - 1
        /\ \A k \in Mails \ {m} : Senders(k)' = Senders(k)
    BY <1>1, <1>3, SendersRemove
  <1>5. \A k \in Mails : /\ Cardinality(Senders(k)) \in Nat /\ confirmed[k] \in Nat
                         /\ attempts[k] \in Nat /\ takeovers[k] \in Nat
    BY <1>1, SendersFinite DEF TypeOK
  <1>6. \A k \in Mails :
          /\ Sending(k) <= attempts[k]
          /\ Sending(k) <= IF status[k] \in {"sending", "sent"} THEN takeovers[k] + 1
                           ELSE takeovers[k]
    BY DEF MailInv, AttemptsCover, TakeoversCover
  <1>7. CASE SendSucceeds(w)
    <2>1. /\ status' = [status EXCEPT ![m] = "sent"] /\ wait' = wait
          /\ age' = [age EXCEPT ![m] = 0] /\ confirmed' = [confirmed EXCEPT ![m] = @ + 1]
      BY <1>3, <1>7 DEF SendSucceeds
    <2>2. TypeOK'
      BY <1>1, <1>11, <2>1, MailAssumption DEF TypeOK, MailStatus
    <2>3. \A k \in Mails : Sending(k)' = Sending(k)
      BY <1>1, <1>4, <1>5, <2>1 DEF Sending, TypeOK
    <2>4. AttemptsCover'
      BY <1>1, <1>6, <2>3 DEF AttemptsCover
    <2>5. \A k \in Mails : Sending(k) \in Nat
      BY <1>5 DEF Sending
    <2>6. \A k \in Mails : status'[k] \in {"sending", "sent"} \/ status'[k] = status[k]
      BY <1>1, <2>1 DEF TypeOK
    <2>7. TakeoversCover'
      BY <1>1, <1>5, <1>6, <2>3, <2>5, <2>6 DEF TakeoversCover
    <2>8. QED
      BY <2>2, <2>4, <2>7 DEF MailInv
  <1>8. CASE SendFails(w) \/ Crash(w)
    <2>1. UNCHANGED confirmed
      BY <1>8 DEF SendFails, Crash, history
    <2>2. TypeOK'
      <3>1. CASE SendFails(w)
        <4>1. Backoff(work[w].attempt) \in Nat
          BY <1>2, BackoffType
        <4>2. /\ \E new \in {"failed", "pending"} : status' = [status EXCEPT ![m] = new]
              /\ wait' = [wait EXCEPT ![m] = Backoff(work[w].attempt)]
              /\ age' = [age EXCEPT ![m] = 0]
          BY <1>3, <3>1 DEF SendFails
        <4>3. QED
          BY <1>1, <1>11, <2>1, <4>1, <4>2, MailAssumption DEF TypeOK, MailStatus
      <3>2. CASE Crash(w)
        BY <1>1, <1>11, <2>1, <3>2 DEF Crash, mail, TypeOK
      <3>3. QED
        BY <1>8, <3>1, <3>2
    <2>3. /\ Sending(m)' = Sending(m) - 1 /\ Sending(m) \in Nat
          /\ \A k \in Mails \ {m} : Sending(k)' = Sending(k) /\ Sending(k) \in Nat
      BY <1>4, <1>5, <2>1 DEF Sending
    <2>4. AttemptsCover'
      BY <1>1, <1>5, <1>6, <2>3 DEF AttemptsCover
    <2>5. \A k \in Mails \ {m} : status'[k] = status[k]
      BY <1>1, <1>3, <1>8 DEF SendFails, Crash, mail, TypeOK
    <2>6. ASSUME NEW k \in Mails
          PROVE  Sending(k)' <= IF status'[k] \in {"sending", "sent"} THEN takeovers'[k] + 1
                                ELSE takeovers'[k]
      <3>1. takeovers'[k] = takeovers[k] /\ takeovers[k] \in Nat
        BY <1>1, <1>5
      <3>2. CASE k = m
        BY <1>6, <2>3, <3>1, <3>2
      <3>3. CASE k # m
        BY <1>6, <2>3, <2>5, <3>1, <3>3
      <3>4. QED
        BY <3>2, <3>3
    <2>7. QED
      BY <2>2, <2>4, <2>6 DEF MailInv, TakeoversCover
  <1>9. QED
    BY <1>7, <1>8

LEMMA TickKeeps ==
    ASSUME MailInv, Tick
    PROVE  MailInv'
  <1>1. UNCHANGED <<offer, status, attempts, work, history>>
    BY DEF Tick
  <1>2. TypeOK'
    <2>1. \A m \in Mails : Smaller(age[m] + 1, StaleAfter + 1) \in 0..(StaleAfter + 1)
      BY MailAssumption DEF MailInv, TypeOK, Smaller
    <2>2. age' \in [Mails -> 0..(StaleAfter + 1)]
      BY <2>1, MailAssumption DEF Tick
    <2>3. wait' \in [Mails -> Nat]
      BY DEF Tick, MailInv, TypeOK
    <2>4. QED
      BY <1>1, <2>2, <2>3 DEF MailInv, TypeOK, history
  <1>3. \A m \in Mails : Senders(m)' = Senders(m)
    BY <1>1 DEF Senders, Sends
  <1>4. QED
    BY <1>1, <1>2, <1>3, CountsStay DEF history

-----------------------------------------------------------------------------
(* The mails of a worker *)

LEMMA MailInit ==
    ASSUME Init
    PROVE  MailInv
  <1>1. TypeOK
    BY MailAssumption DEF Init, TypeOK, MailStatus, Offer
  <1>2. ASSUME NEW m \in Mails
        PROVE  Sending(m) = 0
    <2>1. Senders(m) = {}
      BY DEF Init, Senders, Sends, Idle
    <2>2. QED
      BY <2>1, FS_EmptySet DEF Sending, Init
  <1>3. QED
    BY <1>1, <1>2 DEF Init, MailInv, AttemptsCover, TakeoversCover

LEMMA MailStep ==
    ASSUME MailInv, [Next]_vars
    PROVE  MailInv'
  <1>1. CASE UNCHANGED vars
    <2>1. /\ UNCHANGED <<offer, status, attempts, wait, age, work, confirmed, takeovers, cutOff>>
      BY <1>1 DEF vars, mail, history
    <2>2. TypeOK'
      BY <2>1 DEF MailInv, TypeOK
    <2>3. \A m \in Mails : Senders(m)' = Senders(m)
      BY <2>1 DEF Senders, Sends
    <2>4. QED
      BY <2>1, <2>2, <2>3, CountsStay
  <1>2. CASE Next
    <2>1. ASSUME NEW w \in Workers, Crash(w)
          PROVE  MailInv'
      BY <2>1, InsertionKeeps, SendEndsKeeps
    <2>2. QED
      BY <1>2, <2>1, InsertionKeeps, ClaimKeeps, SendEndsKeeps, TickKeeps DEF Next, SendEnds
  <1>3. QED
    BY <1>1, <1>2

LEMMA MailInvariant == Spec => []MailInv
  <1>1. Init => MailInv
    BY MailInit
  <1>2. MailInv /\ [Next]_vars => MailInv'
    BY MailStep
  <1>3. QED
    BY <1>1, <1>2, PTL DEF Spec

\* A mail is sent a second time only after it was taken over from a worker that had
\* not come back for StaleAfter minutes: process_one_notification's claim selects no
\* mail that another process may still be sending, however many there are.
THEOREM DuplicatesNeedTakeoverAlways == Spec => []DuplicatesNeedTakeover
  <1>1. MailInv => DuplicatesNeedTakeover
    <2> SUFFICES ASSUME MailInv, NEW m \in Mails
                 PROVE  confirmed[m] <= 1 + takeovers[m]
      BY DEF DuplicatesNeedTakeover
    <2>1. confirmed[m] \in Nat /\ takeovers[m] \in Nat /\ Cardinality(Senders(m)) \in Nat
      BY SendersFinite DEF MailInv, TypeOK
    <2>2. Sending(m) <= IF status[m] \in {"sending", "sent"} THEN takeovers[m] + 1
                        ELSE takeovers[m]
      BY DEF MailInv, TakeoversCover
    <2>3. QED
      BY <2>1, <2>2 DEF Sending
  <1>2. QED
    BY <1>1, MailInvariant, PTL

\* The attempt is counted in the transaction that claims a mail, before the SMTP
\* server is called: no number of crashes, lost results and processes at once makes
\* the worker send a mail more than mail_max_attempts times.
THEOREM SendsAreLimitedAlways == Spec => []SendsAreLimited
  <1>1. MailInv => SendsAreLimited
    <2> SUFFICES ASSUME MailInv, NEW m \in Mails
                 PROVE  confirmed[m] + Cardinality(Senders(m)) <= MaxAttempts
      BY DEF SendsAreLimited, Senders
    <2>1. Sending(m) <= attempts[m] /\ attempts[m] \in 0..MaxAttempts
      BY DEF MailInv, TypeOK, AttemptsCover
    <2>2. confirmed[m] \in Nat /\ Cardinality(Senders(m)) \in Nat
      BY SendersFinite DEF MailInv, TypeOK
    <2>3. QED
      BY <2>1, <2>2, MailAssumption DEF Sending
  <1>2. QED
    BY <1>1, MailInvariant, PTL

-----------------------------------------------------------------------------
(* The daily passes *)

Less == {pair \in Nat \X Nat : pair[1] < pair[2]}

\* A set of natural numbers that is not empty has a least element.
LEMMA LeastElement ==
    ASSUME NEW S \in SUBSET Nat, S # {}
    PROVE  \E m \in S : \A n \in S : m <= n
  <1>1. IsWellFoundedOn(Less, Nat)
    BY NatLessThanWellFounded DEF OpToRel, Less
  <1>2. PICK m \in S : \A n \in S : <<n, m>> \notin Less
    BY <1>1, WFMin
  <1>3. ASSUME NEW n \in S
        PROVE  m <= n
    <2>1. m \in Nat /\ n \in Nat /\ <<n, m>> \notin Less
      BY <1>2
    <2>2. <<n, m>> \in Nat \X Nat
      BY <2>1
    <2>3. ~(n < m)
      <3> SUFFICES ASSUME n < m
                   PROVE  FALSE
        OBVIOUS
      <3>1. <<n, m>>[1] < <<n, m>>[2]
        BY <2>1
      <3>2. QED
        BY <2>1, <2>2, <3>1, Zenon DEF Less
    <2>4. QED
      BY <2>1, <2>3
  <1>4. QED
    BY <1>2, <1>3

\* The rollups of the days up to d hold every sample that was stored before its day
\* was over, except for a day that a first start counted as done.
Complete(d) == \A s \in onTime : s[1] <= d => s \in rolled[s[1]] \/ s[1] \in ahead

\* Samples of day d that are still to come are late, or of a day like that.
Past(d) == d < now \/ (d = now /\ now \in ahead)

\* What a pass knows: the days before its target are complete, and the samples that
\* it has read for its target, a day that is over, hold all that came in time.
Reading(p) ==
    p.step \in {"next", "aggregated"} =>
        Complete(p.target - 1) /\ Past(p.target - 1) /\ p.yesterday < now

Found(p) ==
    p.step = "aggregated" =>
        p.target <= p.yesterday /\ {s \in onTime : s[1] = p.target} \subseteq p.found

RollupInv ==
    /\ Rollup!TypeOK
    /\ \A s \in stored : s[1] <= now + 1
    /\ Past(checkpoint) /\ Complete(checkpoint)
    /\ \A w \in Workers : Reading(pass[w]) /\ Found(pass[w])

LEMMA PassTyped ==
    ASSUME Rollup!TypeOK, NEW w \in Workers
    PROVE  /\ now \in Nat /\ now <= MaxDay
           /\ checkpoint \in Int
           /\ pass[w].step \in {"idle", "next", "aggregated"}
           /\ pass[w].step = "next" =>
                pass[w].target \in 0..(MaxDay + 1) /\ pass[w].yesterday \in -1..MaxDay
           /\ pass[w].step = "aggregated" =>
                /\ pass[w].target \in Rollup!Days /\ pass[w].yesterday \in -1..MaxDay
                /\ pass[w].found \in SUBSET Rollup!Samples
  <1>1. pass[w] \in Rollup!Pass
    BY DEF Rollup!TypeOK
  <1>2. QED
    BY <1>1, RollupAssumption
       DEF Rollup!TypeOK, Rollup!Pass, Rollup!Idle, Rollup!Days, Rollup!NoCheckpoint

LEMMA StoredTyped ==
    ASSUME Rollup!TypeOK
    PROVE  /\ \A s \in stored : s \in Rollup!Samples /\ s[1] \in 0..MaxDay
           /\ \A s \in onTime : s \in stored
           /\ MaxDay \in Nat
  BY RollupAssumption DEF Rollup!TypeOK, Rollup!Samples, Rollup!Days

\* The day the first pass begins with is not after any sample, nor after today unless
\* all samples are.
LEMMA FirstDayBounds ==
    ASSUME RollupInv
    PROVE  /\ Rollup!FirstDay \in Nat
           /\ Rollup!FirstDay <= now \/ (Rollup!FirstDay = now + 1 /\ Rollup!AllAhead)
           /\ \A s \in stored : Rollup!FirstDay <= s[1]
  <1> DEFINE S == {s[1] : s \in stored}
  <1>1. Rollup!TypeOK /\ now \in Nat /\ \A s \in stored : s[1] <= now + 1
    BY DEF RollupInv, Rollup!TypeOK, Rollup!Days
  <1>2. CASE stored = {}
    BY <1>1, <1>2 DEF Rollup!FirstDay
  <1>3. CASE stored # {}
    <2>1. S \in SUBSET Nat /\ S # {}
      BY <1>1, <1>3, StoredTyped
    <2>2. \E m \in S : \A n \in S : m <= n
      BY <2>1, LeastElement
    <2>3. Rollup!FirstDay \in S /\ \A n \in S : Rollup!FirstDay <= n
      <3>1. Rollup!FirstDay = CHOOSE m \in S : \A n \in S : m <= n
        BY <1>3 DEF Rollup!FirstDay, Rollup!Min
      <3>2. QED
        BY <2>2, <3>1
    <2>4. \A s \in stored : Rollup!FirstDay <= s[1] /\ s[1] \in Nat
      BY <2>1, <2>3
    <2>5. Rollup!FirstDay \in Nat /\ Rollup!FirstDay <= now + 1
      BY <1>1, <2>1, <2>3
    <2>6. Rollup!FirstDay <= now \/ \A s \in stored : s[1] > now
      BY <1>1, <2>4, <2>5
    <2>7. QED
      BY <1>1, <1>3, <2>4, <2>5, <2>6 DEF Rollup!AllAhead
  <1>4. QED
    BY <1>2, <1>3

\* A step of one worker that replaces a day's rollups, if any, with all that came in
\* time on that day keeps the invariant when its own new state does.
LEMMA PassKeeps ==
    ASSUME RollupInv, Rollup!TypeOK', UNCHANGED <<stored, now, onTime>>, ahead \subseteq ahead',
           NEW w \in Workers, NEW new, pass' = [pass EXCEPT ![w] = new],
           \A s \in onTime : s \in rolled[s[1]] => s \in rolled'[s[1]],
           Past(checkpoint)', Complete(checkpoint)', Reading(new)', Found(new)'
    PROVE  RollupInv'
  <1>1. ASSUME NEW v \in Workers
        PROVE  Reading(pass[v])' /\ Found(pass[v])'
    <2>1. Rollup!TypeOK /\ Reading(pass[v]) /\ Found(pass[v])
      BY DEF RollupInv
    <2>2. CASE v = w
      <3>1. pass'[v] = new
        BY <2>1, <2>2 DEF Rollup!TypeOK
      <3>2. QED
        BY <3>1 DEF Reading, Found, Complete, Past
    <2>3. CASE v # w
      <3>1. pass'[v] = pass[v]
        BY <2>1, <2>3 DEF Rollup!TypeOK
      <3>2. QED
        BY <2>1, <3>1 DEF Reading, Found, Complete, Past
    <2>4. QED
      BY <2>2, <2>3
  <1>2. QED
    BY <1>1 DEF RollupInv

LEMMA ArriveKeeps ==
    ASSUME RollupInv, NEW s \in Rollup!Samples, Rollup!Arrive(s)
    PROVE  RollupInv'
  <1>1. /\ stored' = stored \cup {s} /\ s[1] <= now + 1
        /\ onTime' = IF s[1] >= now THEN onTime \cup {s} ELSE onTime
        /\ UNCHANGED <<rolled, checkpoint, pass, now, ahead, crashes>>
    <2>1. now \in Int
      BY DEF RollupInv, Rollup!TypeOK, Rollup!Days
    <2>2. QED
      BY <2>1 DEF Rollup!Arrive
  <1>2. Rollup!TypeOK'
    BY <1>1 DEF RollupInv, Rollup!TypeOK
  <1>3. ASSUME NEW d \in Int, Past(d), Complete(d)
        PROVE  Complete(d)' /\ Past(d)'
    <2>1. now \in Int /\ s[1] \in Int
      BY DEF RollupInv, Rollup!TypeOK, Rollup!Days, Rollup!Samples
    <2>2. s[1] >= now /\ s[1] <= d => s[1] \in ahead
      BY <1>3, <2>1 DEF Past
    <2>3. QED
      BY <1>1, <1>3, <2>2 DEF Complete, Past
  <1>4. /\ \A u \in stored' : u[1] <= now' + 1
        /\ Past(checkpoint)' /\ Complete(checkpoint)'
    <2>1. PICK d \in Int : d = checkpoint /\ Complete(d) /\ Past(d)
      BY RollupAssumption DEF RollupInv, Rollup!TypeOK, Rollup!NoCheckpoint
    <2>2. Complete(d)' /\ Past(d)'
      BY <1>3, <2>1
    <2>3. QED
      BY <1>1, <2>1, <2>2 DEF RollupInv, Complete, Past
  <1>5. ASSUME NEW w \in Workers
        PROVE  Reading(pass[w])' /\ Found(pass[w])'
    <2>1. Rollup!TypeOK /\ Reading(pass[w]) /\ Found(pass[w])
      BY DEF RollupInv
    <2>2. Reading(pass[w])'
      <3>1. SUFFICES ASSUME pass[w].step \in {"next", "aggregated"}
                     PROVE  /\ Complete(pass[w].target - 1)' /\ Past(pass[w].target - 1)'
                            /\ pass[w].yesterday < now
        BY <1>1 DEF Reading, Complete, Past
      <3>2. PICK d \in Int : d = pass[w].target - 1
        BY <2>1, <3>1, PassTyped DEF Rollup!Days
      <3>3. /\ pass[w].target \in Int /\ now \in Int /\ pass[w].yesterday \in Int
            /\ Complete(d) /\ Past(d) /\ pass[w].yesterday < now
        BY <2>1, <3>1, <3>2, PassTyped DEF Reading, Rollup!Days
      <3>4. Complete(d)' /\ Past(d)'
        BY <1>3, <3>2, <3>3
      <3>5. QED
        BY <1>1, <3>2, <3>3, <3>4 DEF Complete, Past
    <2>3. Found(pass[w])'
      <3>1. SUFFICES ASSUME pass[w].step = "aggregated"
                     PROVE  /\ pass[w].target <= pass[w].yesterday
                            /\ {u \in onTime' : u[1] = pass[w].target} \subseteq pass[w].found
        BY <1>1 DEF Found
      <3>2. pass[w].target \in Int /\ pass[w].yesterday \in Int /\ now \in Int
        BY <2>1, <3>1, PassTyped DEF Rollup!Days
      <3>3. pass[w].target <= pass[w].yesterday /\ pass[w].yesterday < now
        BY <2>1, <3>1 DEF Reading, Found
      <3>4. QED
        BY <1>1, <2>1, <3>1, <3>2, <3>3 DEF Found
    <2>4. QED
      BY <2>2, <2>3
  <1>6. QED
    BY <1>1, <1>2, <1>4, <1>5 DEF RollupInv

LEMMA StartPassKeeps ==
    ASSUME RollupInv, NEW w \in Workers, Rollup!StartPass(w)
    PROVE  RollupInv'
  <1>1. PICK through, new :
            /\ through = IF checkpoint = Rollup!NoCheckpoint THEN Rollup!FirstDay - 1
                         ELSE checkpoint
            /\ new = [step |-> "next", target |-> through + 1, yesterday |-> now - 1]
            /\ checkpoint' = through /\ pass' = [pass EXCEPT ![w] = new]
            /\ ahead' = IF checkpoint = Rollup!NoCheckpoint /\ Rollup!AllAhead
                        THEN ahead \cup {now} ELSE ahead
            /\ UNCHANGED <<stored, rolled, now, onTime, crashes>>
    BY DEF Rollup!StartPass, Rollup!LastCompleteDay
  <1>2. Rollup!TypeOK /\ Past(checkpoint) /\ Complete(checkpoint)
    BY DEF RollupInv
  <1>3. now \in Nat /\ now <= MaxDay /\ checkpoint \in Int
    BY <1>2, PassTyped
  <1>4. through \in -1..MaxDay /\ Past(through)' /\ through + 1 \in 0..(MaxDay + 1)
    <2>1. CASE checkpoint = Rollup!NoCheckpoint
      <3>1. /\ Rollup!FirstDay \in Nat
            /\ Rollup!FirstDay <= now \/ (Rollup!FirstDay = now + 1 /\ Rollup!AllAhead)
        BY FirstDayBounds
      <3>2. through = Rollup!FirstDay - 1
        BY <1>1, <2>1
      <3>3. CASE Rollup!FirstDay <= now
        BY <1>1, <1>3, <3>1, <3>2, <3>3, RollupAssumption DEF Past
      <3>4. CASE Rollup!FirstDay = now + 1 /\ Rollup!AllAhead
        <4>1. now \in ahead' /\ through = now /\ now' = now
          BY <1>1, <1>3, <2>1, <3>2, <3>4
        <4>2. QED
          BY <1>3, <4>1, RollupAssumption DEF Past
      <3>5. QED
        BY <3>1, <3>3, <3>4
    <2>2. CASE checkpoint # Rollup!NoCheckpoint
      <3>1. through = checkpoint /\ ahead' = ahead /\ now' = now
        BY <1>1, <2>2
      <3>2. through \in -1..MaxDay
        BY <1>2, <2>2, <3>1 DEF Rollup!TypeOK
      <3>3. QED
        BY <1>2, <3>1, <3>2, RollupAssumption DEF Past
    <2>3. QED
      BY <2>1, <2>2
  <1>5. Complete(through)
    <2>1. CASE checkpoint = Rollup!NoCheckpoint
      <3>1. \A s \in onTime : s \in stored /\ s[1] \in Int
        BY <1>2, StoredTyped
      <3>2. \A s \in onTime : ~(s[1] <= Rollup!FirstDay - 1)
        BY <3>1, FirstDayBounds
      <3>3. QED
        BY <1>1, <2>1, <3>2 DEF Complete
    <2>2. QED
      BY <1>1, <1>2, <2>1
  <1>6. Rollup!TypeOK'
    <2>1. through + 1 \in 0..(MaxDay + 1) /\ now - 1 \in -1..MaxDay
      BY <1>3, <1>4, RollupAssumption
    <2>6. ahead' \subseteq Rollup!Days
      BY <1>1, <1>2 DEF Rollup!TypeOK
    <2>2. new \in Rollup!Pass
      BY <1>1, <2>1 DEF Rollup!Pass
    <2>3. checkpoint' \in {Rollup!NoCheckpoint} \cup (-1..MaxDay)
      BY <1>1, <1>4
    <2>4. pass' \in [Workers -> Rollup!Pass]
      BY <1>1, <1>2, <2>2 DEF Rollup!TypeOK
    <2>5. QED
      BY <1>1, <1>2, <2>3, <2>4, <2>6 DEF Rollup!TypeOK
  <1>7. Reading(new)' /\ Found(new)' /\ Complete(checkpoint)'
    <2>1. /\ new.step = "next" /\ new.target - 1 = through
          /\ Past(new.target - 1)' /\ new.yesterday < now
      BY <1>1, <1>3, <1>4 DEF Past
    <2>2. QED
      BY <1>1, <1>5, <2>1 DEF Reading, Found, Complete
  <1>8. QED
    BY <1>1, <1>4, <1>6, <1>7, PassKeeps DEF Past

LEMMA AggregateKeeps ==
    ASSUME RollupInv, NEW w \in Workers, Rollup!Aggregate(w)
    PROVE  RollupInv'
  <1>1. PICK p, new :
            /\ p = pass[w] /\ p.step = "next" /\ p.target <= p.yesterday
            /\ new = [step |-> "aggregated", target |-> p.target, yesterday |-> p.yesterday,
                      found |-> Rollup!SamplesOf(p.target)]
            /\ pass' = [pass EXCEPT ![w] = new]
            /\ UNCHANGED <<stored, rolled, checkpoint, now, onTime, ahead, crashes>>
    BY DEF Rollup!Aggregate
  <1>2. /\ Rollup!TypeOK /\ Past(checkpoint) /\ Complete(checkpoint) /\ Reading(p)
    BY <1>1 DEF RollupInv
  <1>3. p.target \in Rollup!Days /\ p.yesterday \in -1..MaxDay
    BY <1>1, <1>2, PassTyped, RollupAssumption DEF Rollup!Days
  <1>4. Rollup!TypeOK'
    <2>1. new \in Rollup!Pass
      BY <1>1, <1>2, <1>3 DEF Rollup!Pass, Rollup!SamplesOf, Rollup!TypeOK
    <2>2. pass' \in [Workers -> Rollup!Pass]
      BY <1>1, <1>2, <2>1 DEF Rollup!TypeOK
    <2>3. QED
      BY <1>1, <1>2, <2>2 DEF Rollup!TypeOK
  <1>5. Reading(new)'
    BY <1>1, <1>2 DEF Reading, Complete, Past
  <1>6. Found(new)'
    <2>1. \A s \in onTime : s \in stored
      BY <1>2, StoredTyped
    <2>2. QED
      BY <1>1, <2>1 DEF Found, Rollup!SamplesOf
  <1>7. Complete(checkpoint)' /\ Past(checkpoint)'
    BY <1>1, <1>2 DEF Complete, Past
  <1>8. QED
    BY <1>1, <1>2, <1>4, <1>5, <1>6, <1>7, PassKeeps

LEMMA CommitDayKeeps ==
    ASSUME RollupInv, NEW w \in Workers, Rollup!CommitDay(w)
    PROVE  RollupInv'
  <1>1. PICK p, new :
            /\ p = pass[w] /\ p.step = "aggregated"
            /\ new = [step |-> "next", target |-> p.target + 1, yesterday |-> p.yesterday]
            /\ pass' = [pass EXCEPT ![w] = new]
            /\ rolled' = [rolled EXCEPT ![p.target] = p.found] /\ checkpoint' = p.target
            /\ UNCHANGED <<stored, now, onTime, ahead, crashes>>
    BY DEF Rollup!CommitDay
  <1>2. Rollup!TypeOK /\ Reading(p) /\ Found(p)
    BY <1>1 DEF RollupInv
  <1>3. /\ p.target \in Rollup!Days /\ p.target \in 0..MaxDay /\ p.yesterday \in -1..MaxDay
        /\ p.found \in SUBSET Rollup!Samples /\ now \in Nat /\ now <= MaxDay
    BY <1>1, <1>2, PassTyped DEF Rollup!Days
  <1>4. /\ Complete(p.target - 1) /\ p.target <= p.yesterday /\ p.yesterday < now
        /\ {s \in onTime : s[1] = p.target} \subseteq p.found
    BY <1>1, <1>2 DEF Reading, Found
  <1>5. Rollup!TypeOK'
    <2>1. new \in Rollup!Pass
      BY <1>1, <1>3, RollupAssumption DEF Rollup!Pass
    <2>2. pass' \in [Workers -> Rollup!Pass]
      BY <1>1, <1>2, <2>1 DEF Rollup!TypeOK
    <2>3. rolled' \in [Rollup!Days -> SUBSET Rollup!Samples]
      BY <1>1, <1>2, <1>3 DEF Rollup!TypeOK
    <2>4. checkpoint' \in -1..MaxDay
      BY <1>1, <1>3
    <2>5. QED
      BY <1>1, <1>2, <2>2, <2>3, <2>4 DEF Rollup!TypeOK
  <1>6. \A s \in onTime : s[1] = p.target => s \in rolled'[s[1]]
    BY <1>1, <1>2, <1>3, <1>4 DEF Rollup!TypeOK
  <1>7. \A s \in onTime : s[1] # p.target => rolled'[s[1]] = rolled[s[1]]
    BY <1>1, <1>2 DEF Rollup!TypeOK
  <1>8. Complete(p.target)'
    <2>1. \A s \in onTime : s[1] \in Int
      BY <1>2, StoredTyped
    <2>2. \A s \in onTime : s[1] <= p.target => s[1] = p.target \/ s[1] <= p.target - 1
      BY <1>3, <2>1
    <2>3. \A s \in onTime : s[1] <= p.target => s \in rolled'[s[1]] \/ s[1] \in ahead
      BY <1>4, <1>6, <1>7, <2>2 DEF Complete
    <2>4. QED
      BY <1>1, <2>3 DEF Complete
  <1>9. Reading(new)' /\ Found(new)'
    <2>1. /\ new.step = "next" /\ new.target - 1 = p.target
          /\ p.target < now /\ new.yesterday < now
      BY <1>1, <1>3, <1>4
    <2>2. Complete(new.target - 1)' /\ Past(new.target - 1)'
      BY <1>1, <1>8, <2>1 DEF Complete, Past
    <2>3. QED
      BY <1>1, <2>1, <2>2 DEF Reading, Found
  <1>10. Past(checkpoint)' /\ Complete(checkpoint)'
    <2>1. p.target < now
      BY <1>3, <1>4
    <2>2. QED
      BY <1>1, <1>8, <2>1 DEF Complete, Past
  <1>11. QED
    BY <1>1, <1>5, <1>6, <1>7, <1>9, <1>10, PassKeeps

\* The end of a pass, or of the process.
LEMMA PassEndKeeps ==
    ASSUME RollupInv, NEW w \in Workers, Rollup!EndPass(w) \/ Rollup!Crash(w)
    PROVE  RollupInv'
  <1>1. /\ pass' = [pass EXCEPT ![w] = Rollup!Idle]
        /\ UNCHANGED <<stored, rolled, checkpoint, now, onTime, ahead>>
        /\ crashes' \in {crashes, crashes + 1} /\ (crashes' # crashes => crashes < MaxCrashes)
    BY DEF Rollup!EndPass, Rollup!Crash
  <1>2. Rollup!TypeOK /\ Past(checkpoint) /\ Complete(checkpoint)
    BY DEF RollupInv
  <1>3. Rollup!TypeOK'
    <2>1. pass' \in [Workers -> Rollup!Pass]
      BY <1>1, <1>2 DEF Rollup!TypeOK, Rollup!Pass
    <2>2. crashes' \in 0..MaxCrashes
      BY <1>1, <1>2, RollupAssumption DEF Rollup!TypeOK
    <2>3. QED
      BY <1>1, <1>2, <2>1, <2>2 DEF Rollup!TypeOK
  <1>4. /\ Reading(Rollup!Idle)' /\ Found(Rollup!Idle)'
        /\ Complete(checkpoint)' /\ Past(checkpoint)'
    BY <1>1, <1>2 DEF Reading, Found, Complete, Past, Rollup!Idle
  <1>5. QED
    BY <1>1, <1>2, <1>3, <1>4, PassKeeps

LEMMA MidnightKeeps ==
    ASSUME RollupInv, Rollup!Midnight
    PROVE  RollupInv'
  <1>1. /\ now < MaxDay /\ now' = now + 1
        /\ UNCHANGED <<stored, rolled, checkpoint, pass, onTime, ahead, crashes>>
    BY DEF Rollup!Midnight
  <1>2. Rollup!TypeOK /\ now \in Nat /\ checkpoint \in Int
    BY PassTyped, RollupAssumption
       DEF RollupInv, Rollup!TypeOK, Rollup!Days, Rollup!NoCheckpoint
  <1>3. Rollup!TypeOK'
    BY <1>1, <1>2, RollupAssumption DEF Rollup!TypeOK, Rollup!Days
  <1>4. \A s \in stored' : s[1] <= now' + 1
    BY <1>1, <1>2, StoredTyped DEF RollupInv
  <1>5. Past(checkpoint)' /\ Complete(checkpoint)'
    BY <1>1, <1>2 DEF RollupInv, Complete, Past
  <1>6. ASSUME NEW w \in Workers
        PROVE  Reading(pass[w])' /\ Found(pass[w])'
    <2>1. Reading(pass[w]) /\ Found(pass[w])
      BY DEF RollupInv
    <2>2. pass[w].step \in {"next", "aggregated"} =>
            pass[w].target \in Int /\ pass[w].yesterday \in Int
      BY <1>2, PassTyped DEF Rollup!Days
    <2>3. QED
      BY <1>1, <1>2, <2>1, <2>2 DEF Reading, Found, Complete, Past
  <1>7. QED
    BY <1>1, <1>3, <1>4, <1>5, <1>6 DEF RollupInv

LEMMA RollupInit ==
    ASSUME Rollup!Init
    PROVE  RollupInv
  <1>1. Rollup!TypeOK
    BY RollupAssumption
       DEF Rollup!Init, Rollup!TypeOK, Rollup!Days, Rollup!Pass, Rollup!NoCheckpoint
  <1>2. QED
    BY <1>1 DEF Rollup!Init, RollupInv, Complete, Past, Reading, Found, Rollup!Idle,
                Rollup!NoCheckpoint

LEMMA RollupStep ==
    ASSUME RollupInv, [Rollup!Next]_(Rollup!vars)
    PROVE  RollupInv'
  <1>1. CASE UNCHANGED Rollup!vars
    <2>1. UNCHANGED <<stored, rolled, checkpoint, pass, now, onTime, ahead, crashes>>
      BY <1>1 DEF Rollup!vars
    <2>2. Rollup!TypeOK'
      BY <2>1 DEF RollupInv, Rollup!TypeOK
    <2>3. \A w \in Workers : Reading(pass[w])' /\ Found(pass[w])'
      BY <2>1 DEF RollupInv, Reading, Found, Complete, Past
    <2>4. QED
      BY <2>1, <2>2, <2>3 DEF RollupInv, Complete, Past
  <1>2. CASE Rollup!Next
    BY <1>2, ArriveKeeps, StartPassKeeps, AggregateKeeps, CommitDayKeeps, PassEndKeeps,
       MidnightKeeps DEF Rollup!Next, Rollup!Step
  <1>3. QED
    BY <1>1, <1>2

LEMMA RollupInvariant == Rollup!Spec => []RollupInv
  <1>1. Rollup!Init => RollupInv
    BY RollupInit
  <1>2. RollupInv /\ [Rollup!Next]_(Rollup!vars) => RollupInv'
    BY RollupStep
  <1>3. QED
    BY <1>1, <1>2, PTL DEF Rollup!Spec

\* aggregate_pending_days leaves out no sample that was stored before its day was over:
\* the rollups of every day up to the checkpoint hold it, for any number of workers at
\* once, of crashes, of late samples, of samples dated ahead, and of days on which no
\* worker ran.  The one exception is the day of a first start that found samples, all
\* of the next day.
THEOREM NothingOnTimeIsSkippedAlways == Rollup!Spec => []NothingOnTimeIsSkipped
  <1>1. RollupInv => NothingOnTimeIsSkipped
    BY DEF RollupInv, Complete, NothingOnTimeIsSkipped, Rollup!NothingOnTimeIsSkipped
  <1>2. QED
    BY <1>1, RollupInvariant, PTL

-----------------------------------------------------------------------------
(* Online time *)

\* The samples whose interval an hour adds up, and the seconds of a sample.
Bucket(hour) == {t \in collected : Online!bucket_start(t) = hour}
Taken(t) == t..(t + Online!Counted(t) - 1)
TakenBy(S) == UNION {Taken(t) : t \in S}

DayInv == collected \subseteq Online!Day

LEMMA DayFacts ==
    ASSUME DayInv
    PROVE  IsFiniteSet(collected) /\ collected \in SUBSET Nat
  <1>1. PICK n : n = Hour * Hours - 1
    OBVIOUS
  <1>2. n \in Int
    BY <1>1, OnlineAssumption
  <1>3. collected \in SUBSET (0..n)
    BY <1>1 DEF DayInv, Online!Day
  <1>4. IsFiniteSet(0..n)
    BY <1>2, FS_Interval
  <1>5. IsFiniteSet(collected)
    BY <1>3, <1>4, FS_Subset
  <1>6. QED
    BY <1>3, <1>5

LEMMA OnlineMin ==
    ASSUME NEW S \in SUBSET Nat, S # {}
    PROVE  Online!Min(S) \in S /\ \A n \in S : Online!Min(S) <= n
  <1>1. \E m \in S : \A n \in S : m <= n
    BY LeastElement
  <1>2. Online!Min(S) = CHOOSE m \in S : \A n \in S : m <= n
    BY DEF Online!Min
  <1>3. QED
    BY <1>1, <1>2

LEMMA OnlineMax ==
    ASSUME NEW n \in Nat
    PROVE  Online!Max({0, n}) = n
  <1>1. Online!Max({0, n}) = CHOOSE x \in {0, n} : \A y \in {0, n} : x >= y
    BY DEF Online!Max
  <1>2. \E x \in {0, n} : \A y \in {0, n} : x >= y
    OBVIOUS
  <1>3. QED
    BY <1>1, <1>2

\* An hour begins at most at its seconds, and each of its seconds has its name.
LEMMA BucketBounds ==
    ASSUME NEW t \in Nat
    PROVE  /\ Online!bucket_start(t) \in Nat
           /\ Online!bucket_start(t) <= t /\ t < Online!bucket_start(t) + Hour
           /\ \A u \in Nat : Online!bucket_start(t) <= u /\ u < Online!bucket_start(t) + Hour
                => Online!bucket_start(u) = Online!bucket_start(t)
  <1>1. PICK d \in Nat \ {0} : d = Hour
    BY OnlineAssumption
  <1>2. PICK a, r : a = t \div d /\ r = t % d
    OBVIOUS
  <1>3. a \in Nat /\ r \in 0..(d - 1) /\ t = d * a + r
    BY <1>1, <1>2
  <1>4. Online!bucket_start(t) = t - r
    BY <1>1, <1>2 DEF Online!bucket_start
  <1>5. d * a \in Nat
    BY <1>1, <1>3
  <1>6. ASSUME NEW u \in Nat, t - r <= u, u < t - r + d
        PROVE  Online!bucket_start(u) = t - r
    <2>1. PICK b, s : b = u \div d /\ s = u % d
      OBVIOUS
    <2>2. b \in Nat /\ s \in 0..(d - 1) /\ u = d * b + s
      BY <1>1, <1>6, <2>1
    <2>3. d * b \in Nat
      BY <1>1, <2>2
    <2>4. d * b - d * a < d /\ d * a - d * b < d
      BY <1>1, <1>3, <1>5, <1>6, <2>2, <2>3
    <2>5. b > a => d * b >= d * a + d
      <3>1. b > a => d * b = d * a + d * (b - a)
        BY <1>1, <1>3, <2>2
      <3>2. b > a => d * (b - a) >= d
        BY <1>1, <1>3, <2>2
      <3>3. QED
        BY <1>1, <1>3, <1>5, <2>2, <2>3, <3>1, <3>2
    <2>6. a > b => d * a >= d * b + d
      <3>1. a > b => d * a = d * b + d * (a - b)
        BY <1>1, <1>3, <2>2
      <3>2. a > b => d * (a - b) >= d
        BY <1>1, <1>3, <2>2
      <3>3. QED
        BY <1>1, <1>3, <1>5, <2>2, <2>3, <3>1, <3>2
    <2>7. a = b
      BY <1>1, <1>3, <1>5, <2>2, <2>3, <2>4, <2>5, <2>6
    <2>8. Online!bucket_start(u) = u - s
      BY <1>1, <2>1 DEF Online!bucket_start
    <2>9. QED
      BY <1>3, <1>5, <2>2, <2>7, <2>8
  <1>7. QED
    BY <1>1, <1>3, <1>4, <1>5, <1>6

\* The interval of a sample ends with the hour, with the offline limit or with the
\* next sample, whichever comes first.
LEMMA TakenIs ==
    ASSUME DayInv, NEW t \in collected
    PROVE  /\ Online!Counted(t) \in Nat
           /\ \A s \in Int : s \in Taken(t) <=>
                /\ t <= s /\ s < Online!bucket_start(t) + Hour /\ s < t + offline_seconds
                /\ \A u \in collected : u > t => s < u
  <1>1. t \in Nat /\ collected \in SUBSET Nat /\ offline_seconds \in Nat /\ Hour \in Nat
    BY DayFacts, OnlineAssumption
  <1>2. PICK hourEnd : hourEnd = Online!bucket_start(t) + Hour
    OBVIOUS
  <1>3. hourEnd \in Nat /\ t < hourEnd
    BY <1>1, <1>2, BucketBounds
  <1>4. PICK limit : limit = t + offline_seconds
    OBVIOUS
  <1>5. limit \in Nat /\ t <= limit
    BY <1>1, <1>4
  <1>6. PICK later : later = {u \in collected : u > t}
    OBVIOUS
  <1>7. PICK following : following = Online!next_collected_at(t)
    OBVIOUS
  <1>8. following = IF later = {} THEN limit ELSE Online!Min(later)
    BY <1>4, <1>6, <1>7 DEF Online!next_collected_at
  <1>9. /\ following \in Nat /\ t <= following
        /\ \A s \in Int : s < limit =>
             (s < following <=> \A u \in collected : u > t => s < u)
    <2>1. CASE later = {}
      <3>1. \A u \in collected : ~(u > t)
        BY <1>6, <2>1
      <3>2. QED
        BY <1>5, <1>8, <2>1, <3>1
    <2>2. CASE later # {}
      <3>1. later \in SUBSET Nat
        BY <1>1, <1>6
      <3>2. following \in later /\ \A n \in later : following <= n
        BY <1>8, <2>2, <3>1, OnlineMin
      <3>3. ASSUME NEW s \in Int
            PROVE  s < following <=> \A u \in collected : u > t => s < u
        <4>1. ASSUME s < following, NEW u \in collected, u > t
              PROVE  s < u
          <5>1. u \in later /\ u \in Nat /\ following \in Nat
            BY <1>1, <1>6, <3>1, <3>2, <4>1
          <5>2. following <= u
            BY <3>2, <5>1
          <5>3. QED
            BY <4>1, <5>1, <5>2
        <4>2. following \in collected /\ following > t
          BY <1>6, <3>2
        <4>3. QED
          BY <4>1, <4>2
      <3>4. QED
        BY <1>1, <1>6, <3>1, <3>2, <3>3
    <2>3. QED
      BY <2>1, <2>2
  <1>10. PICK end : end = Online!Min({following, hourEnd, limit})
    OBVIOUS
  <1>11. end \in {following, hourEnd, limit} /\ \A n \in {following, hourEnd, limit} : end <= n
    <2>1. {following, hourEnd, limit} \in SUBSET Nat /\ {following, hourEnd, limit} # {}
      BY <1>3, <1>5, <1>9
    <2>2. QED
      BY <1>10, <2>1, OnlineMin
  <1>12. end \in Nat /\ t <= end
    BY <1>1, <1>3, <1>5, <1>9, <1>11
  <1>13. Online!Counted(t) = end - t
    <2>1. Online!Counted(t) = Online!Max({0, end - t})
      BY <1>2, <1>4, <1>7, <1>10 DEF Online!Counted
    <2>2. end - t \in Nat
      BY <1>1, <1>12
    <2>3. QED
      BY <2>1, <2>2, OnlineMax
  <1>14. ASSUME NEW s \in Int
         PROVE  s \in Taken(t) <=>
                  /\ t <= s /\ s < hourEnd /\ s < limit
                  /\ \A u \in collected : u > t => s < u
    <2>1. s \in Taken(t) <=> t <= s /\ s < end
      BY <1>1, <1>12, <1>13 DEF Taken
    <2>2. s < end <=> s < following /\ s < hourEnd /\ s < limit
      BY <1>3, <1>5, <1>9, <1>11, <1>12
    <2>3. QED
      BY <1>9, <2>1, <2>2
  <1>15. QED
    BY <1>1, <1>2, <1>4, <1>12, <1>13, <1>14

\* The seconds of an hour that are covered are those its samples take: each belongs
\* to the last sample before it, and so to one only.
LEMMA CoveredIsTaken ==
    ASSUME DayInv, NEW hour \in {Online!bucket_start(t) : t \in Online!Day}
    PROVE  /\ Online!Covered(hour) = TakenBy(Bucket(hour))
           /\ \A t \in Bucket(hour), u \in Bucket(hour) : t # u => Taken(t) \cap Taken(u) = {}
  <1>1. PICK first \in Online!Day : hour = Online!bucket_start(first)
    OBVIOUS
  <1>2. first \in Nat /\ collected \in SUBSET Nat /\ offline_seconds \in Nat /\ Hour \in Nat
    BY DayFacts, OnlineAssumption DEF Online!Day
  <1>3. hour \in Nat /\ \A u \in Nat : hour <= u /\ u < hour + Hour => Online!bucket_start(u) = hour
    BY <1>1, <1>2, BucketBounds
  <1>4. \A t \in Bucket(hour) : /\ t \in collected /\ t \in Nat /\ hour <= t /\ t < hour + Hour
                                /\ Online!bucket_start(t) = hour
    BY <1>2, BucketBounds DEF Bucket
  <1>5. ASSUME NEW s \in Online!Covered(hour)
        PROVE  s \in TakenBy(Bucket(hour))
    <2>1. /\ s \in hour..(hour + Hour - 1)
          /\ \E t \in Bucket(hour) : t <= s /\ s < t + offline_seconds
      BY <1>5 DEF Online!Covered, Bucket
    <2>2. s \in Nat /\ hour <= s /\ s < hour + Hour
      BY <1>2, <1>3, <2>1
    <2>3. PICK ages : ages = {s - t : t \in {t \in Bucket(hour) : t <= s}}
      OBVIOUS
    <2>4. ages \in SUBSET Nat /\ ages # {}
      BY <1>4, <2>1, <2>2, <2>3
    <2>5. PICK least \in ages : \A n \in ages : least <= n
      BY <2>4, LeastElement
    <2>6. PICK t \in Bucket(hour) : t <= s /\ least = s - t
      BY <2>3, <2>5
    <2>7. \A u \in Bucket(hour) : u <= s => u <= t
      <3>1. ASSUME NEW u \in Bucket(hour), u <= s
            PROVE  u <= t
        <4>1. s - u \in ages
          BY <2>3, <3>1
        <4>2. s - t <= s - u
          BY <2>5, <2>6, <4>1
        <4>3. QED
          BY <1>4, <2>2, <4>2
      <3>2. QED
        BY <3>1
    <2>8. s < t + offline_seconds
      <3>1. PICK u \in Bucket(hour) : u <= s /\ s < u + offline_seconds
        BY <2>1
      <3>2. u <= t
        BY <2>7, <3>1
      <3>3. QED
        BY <1>2, <1>4, <2>2, <3>1, <3>2
    <2>9. ASSUME NEW u \in collected, u > t
          PROVE  s < u
      <3>1. SUFFICES ASSUME u <= s PROVE FALSE
        BY <1>2, <2>2
      <3>2. u \in Nat /\ hour <= u /\ u < hour + Hour
        BY <1>2, <1>3, <1>4, <2>2, <2>6, <2>9, <3>1
      <3>3. u \in Bucket(hour)
        BY <1>3, <3>2 DEF Bucket
      <3>4. QED
        BY <1>4, <2>6, <2>7, <2>9, <3>1, <3>3
    <2>10. s \in Taken(t)
      BY <1>4, <2>2, <2>6, <2>8, <2>9, TakenIs
    <2>11. QED
      BY <2>6, <2>10 DEF TakenBy
  <1>6. ASSUME NEW s \in TakenBy(Bucket(hour))
        PROVE  s \in Online!Covered(hour)
    <2>1. PICK t \in Bucket(hour) : s \in Taken(t)
      BY <1>6 DEF TakenBy
    <2>2. t \in collected /\ t \in Nat /\ hour <= t /\ Online!bucket_start(t) = hour
      BY <1>4, <2>1
    <2>3. s \in Int
      BY <2>1, <2>2, TakenIs DEF Taken
    <2>4. t <= s /\ s < hour + Hour /\ s < t + offline_seconds
      BY <2>1, <2>2, <2>3, TakenIs
    <2>5. s \in hour..(hour + Hour - 1)
      BY <1>2, <1>3, <2>2, <2>3, <2>4
    <2>6. QED
      BY <2>2, <2>4, <2>5 DEF Online!Covered
  <1>7. ASSUME NEW t \in Bucket(hour), NEW u \in Bucket(hour), t < u,
               NEW s \in Taken(t) \cap Taken(u)
        PROVE  FALSE
    <2>1. /\ t \in collected /\ t \in Nat /\ u \in collected /\ u \in Nat
      BY <1>4
    <2>2. s \in Int
      BY <1>7, <2>1, TakenIs DEF Taken
    <2>3. s < u
      BY <1>7, <2>1, <2>2, TakenIs
    <2>4. u <= s
      BY <1>7, <2>1, <2>2, TakenIs
    <2>5. QED
      BY <2>1, <2>2, <2>3, <2>4
  <1>8. ASSUME NEW t \in Bucket(hour), NEW u \in Bucket(hour), t # u
        PROVE  Taken(t) \cap Taken(u) = {}
    <2>1. t < u \/ u < t
      BY <1>4, <1>8
    <2>2. QED
      BY <1>7, <2>1
  <1>9. QED
    BY <1>5, <1>6, <1>8

\* Of any subsets of a finite set, one has no other below it.
LEMMA SmallestSubset ==
    ASSUME NEW U, IsFiniteSet(U), NEW bad \in SUBSET (SUBSET U), bad # {}
    PROVE  \E T \in bad : \A x \in T : T \ {x} \notin bad
  <1>1. \A T \in bad : IsFiniteSet(T) /\ Cardinality(T) \in Nat
    BY FS_Subset, FS_CardinalityType
  <1>2. PICK sizes : sizes = {Cardinality(T) : T \in bad}
    OBVIOUS
  <1>3. sizes \in SUBSET Nat /\ sizes # {}
    BY <1>1, <1>2
  <1>4. PICK n \in sizes : \A m \in sizes : n <= m
    BY <1>3, LeastElement
  <1>5. PICK T \in bad : Cardinality(T) = n
    BY <1>2, <1>4
  <1>6. ASSUME NEW x \in T, T \ {x} \in bad
        PROVE  FALSE
    <2>1. Cardinality(T \ {x}) = Cardinality(T) - 1
      BY <1>1, <1>6, FS_RemoveElement
    <2>2. Cardinality(T \ {x}) \in sizes /\ Cardinality(T) \in Nat
      BY <1>1, <1>2, <1>6
    <2>3. n <= Cardinality(T) - 1
      BY <1>4, <2>1, <2>2
    <2>4. QED
      BY <1>5, <2>2, <2>3
  <1>7. QED
    BY <1>5, <1>6

\* One step of the recursion by which MapThenSumSet adds up what samples count.
Summed(total, S) ==
    IF S = {} THEN 0
    ELSE LET t == CHOOSE t \in S : TRUE
         IN  Online!Counted(t) + total[S \ {t}]

Totals(U) == CHOOSE total : total = [S \in SUBSET U |->
    IF S = {} THEN 0
    ELSE LET t == CHOOSE t \in S : TRUE
         IN  Online!Counted(t) + total[S \ {t}]]

UpTo(U, n) == {S \in SUBSET U : Cardinality(S) <= n}

\* Sums of sets up to a size exist, by the least size for which they would not.
LEMMA PartialTotals ==
    ASSUME NEW U, IsFiniteSet(U), NEW n \in Nat
    PROVE  \E total : total = [S \in UpTo(U, n) |-> Summed(total, S)]
  <1>1. PICK bad : bad = {k \in Nat : ~\E total : total = [S \in UpTo(U, k) |-> Summed(total, S)]}
    OBVIOUS
  <1>2. SUFFICES ASSUME bad # {} PROVE FALSE
    BY <1>1
  <1>3. PICK k \in bad : \A m \in bad : k <= m
    BY <1>1, <1>2, LeastElement
  <1>4. k \in Nat /\ ~\E total : total = [S \in UpTo(U, k) |-> Summed(total, S)]
    BY <1>1, <1>3
  <1>5. \A S \in SUBSET U : IsFiniteSet(S) /\ Cardinality(S) \in Nat
    BY FS_Subset, FS_CardinalityType
  <1>6. CASE k = 0
    <2>1. \A S \in UpTo(U, k) : S = {}
      BY <1>5, <1>6, FS_EmptySet DEF UpTo
    <2>2. PICK total : total = [S \in UpTo(U, k) |-> 0]
      OBVIOUS
    <2>3. total = [S \in UpTo(U, k) |-> Summed(total, S)]
      BY <2>1, <2>2 DEF Summed
    <2>4. QED
      BY <1>4, <2>3
  <1>7. CASE k # 0
    <2>1. k - 1 \in Nat /\ k - 1 \notin bad
      BY <1>3, <1>4, <1>7
    <2>2. PICK old : old = [S \in UpTo(U, k - 1) |-> Summed(old, S)]
      BY <1>1, <2>1
    <2>3. PICK total : total = [S \in UpTo(U, k) |-> Summed(old, S)]
      OBVIOUS
    <2>4. \A S \in UpTo(U, k - 1) : S \in UpTo(U, k) /\ total[S] = old[S]
      <3>1. \A S \in UpTo(U, k - 1) : S \in UpTo(U, k)
        BY <1>4, <1>5 DEF UpTo
      <3>2. \A S \in UpTo(U, k - 1) : old[S] = Summed(old, S)
        BY <2>2
      <3>3. QED
        BY <2>3, <3>1, <3>2
    <2>5. ASSUME NEW S \in UpTo(U, k)
          PROVE  Summed(old, S) = Summed(total, S)
      <3>1. CASE S = {}
        BY <3>1 DEF Summed
      <3>2. CASE S # {}
        <4>1. PICK t : t = CHOOSE u \in S : TRUE
          OBVIOUS
        <4>2. t \in S
          BY <3>2, <4>1
        <4>3. S \in SUBSET U /\ IsFiniteSet(S) /\ Cardinality(S) \in Nat /\ Cardinality(S) <= k
          BY <1>5 DEF UpTo
        <4>4. Cardinality(S \ {t}) = Cardinality(S) - 1
          BY <4>2, <4>3, FS_RemoveElement
        <4>5. S \ {t} \in UpTo(U, k - 1)
          BY <1>4, <4>3, <4>4 DEF UpTo
        <4>6. QED
          BY <2>4, <3>2, <4>1, <4>5 DEF Summed
      <3>3. QED
        BY <3>1, <3>2
    <2>6. total = [S \in UpTo(U, k) |-> Summed(total, S)]
      BY <2>3, <2>5
    <2>7. QED
      BY <1>4, <2>6
  <1>8. QED
    BY <1>6, <1>7

\* The recursion defines what it says.
LEMMA TotalsEquation ==
    ASSUME NEW U, IsFiniteSet(U)
    PROVE  \A S \in SUBSET U : Totals(U)[S] = Summed(Totals(U), S)
  <1>1. Cardinality(U) \in Nat
    BY FS_CardinalityType
  <1>2. PICK n \in Nat : n = Cardinality(U)
    BY <1>1
  <1>3. UpTo(U, n) = SUBSET U
    BY <1>2, FS_Subset DEF UpTo
  <1>4. \E total : total = [S \in SUBSET U |-> Summed(total, S)]
    <2>1. PICK total : total = [S \in UpTo(U, n) |-> Summed(total, S)]
      BY PartialTotals, Z3
    <2>2. total = [S \in SUBSET U |-> Summed(total, S)]
      BY <1>3, <2>1
    <2>3. QED
      BY <2>2
  <1>5. PICK T : T = Totals(U)
    OBVIOUS
  <1>6. T = [S \in SUBSET U |-> Summed(T, S)]
    BY <1>4, <1>5 DEF Totals, Summed
  <1>7. \A S \in SUBSET U : T[S] = Summed(T, S)
    BY <1>6
  <1>8. QED
    BY <1>5, <1>7

\* What samples count adds up to the number of seconds they take, if these are disjoint.
LEMMA TotalsAreTaken ==
    ASSUME DayInv, NEW U \in SUBSET collected,
           \A t \in U, u \in U : t # u => Taken(t) \cap Taken(u) = {}
    PROVE  Totals(U)[U] = Cardinality(TakenBy(U))
  <1>1. IsFiniteSet(U)
    BY DayFacts, FS_Subset
  <1>2. PICK T : T = Totals(U)
    OBVIOUS
  <1>3. \A S \in SUBSET U : T[S] = Summed(T, S)
    BY <1>1, <1>2, TotalsEquation
  <1>4. PICK bad : bad = {S \in SUBSET U :
                            ~(IsFiniteSet(TakenBy(S)) /\ T[S] = Cardinality(TakenBy(S)))}
    OBVIOUS
  <1>5. SUFFICES ASSUME bad # {} PROVE FALSE
    BY <1>2, <1>4
  <1>6. bad \in SUBSET (SUBSET U)
    BY <1>4
  <1>7. PICK S \in bad : \A x \in S : S \ {x} \notin bad
    BY <1>1, <1>5, <1>6, SmallestSubset
  <1>8. S \in SUBSET U /\ ~(IsFiniteSet(TakenBy(S)) /\ T[S] = Cardinality(TakenBy(S)))
    BY <1>4
  <1>9. S # {}
    <2>1. TakenBy({}) = {}
      BY DEF TakenBy
    <2>2. S = {} => T[S] = 0
      BY <1>3, <1>8 DEF Summed
    <2>3. QED
      BY <1>8, <2>1, <2>2, FS_EmptySet
  <1>10. PICK t : t = CHOOSE u \in S : TRUE
    OBVIOUS
  <1>11. t \in S /\ t \in U /\ t \in collected
    BY <1>8, <1>9, <1>10
  <1>12. T[S] = Online!Counted(t) + T[S \ {t}]
    BY <1>3, <1>8, <1>9, <1>10 DEF Summed
  <1>13. PICK rest : rest = S \ {t}
    OBVIOUS
  <1>14. IsFiniteSet(TakenBy(rest)) /\ T[rest] = Cardinality(TakenBy(rest))
    BY <1>4, <1>7, <1>8, <1>11, <1>13
  <1>15. IsFiniteSet(Taken(t)) /\ Cardinality(Taken(t)) = Online!Counted(t)
    <2>1. PICK n \in Nat : n = Online!Counted(t)
      BY <1>11, TakenIs
    <2>2. t \in Nat /\ Taken(t) = t..(t + n - 1)
      BY <1>11, <2>1, DayFacts DEF Taken
    <2>3. IsFiniteSet(t..(t + n - 1)) /\ Cardinality(t..(t + n - 1)) = n
      <3>1. t \in Int /\ t + n - 1 \in Int
        BY <2>1, <2>2
      <3>2. /\ IsFiniteSet(t..(t + n - 1))
            /\ Cardinality(t..(t + n - 1)) =
                 IF t > t + n - 1 THEN 0 ELSE (t + n - 1) - t + 1
        BY <3>1, FS_Interval
      <3>3. QED
        BY <2>1, <2>2, <3>2
    <2>4. QED
      BY <2>1, <2>2, <2>3
  <1>16. Taken(t) \cap TakenBy(rest) = {}
    BY <1>8, <1>11, <1>13 DEF TakenBy
  <1>17. TakenBy(S) = Taken(t) \cup TakenBy(rest)
    BY <1>11, <1>13 DEF TakenBy
  <1>18. /\ IsFiniteSet(TakenBy(S))
         /\ Cardinality(TakenBy(S)) = Cardinality(Taken(t)) + Cardinality(TakenBy(rest))
    <2>1. PICK A, B : A = Taken(t) /\ B = TakenBy(rest)
      OBVIOUS
    <2>2. IsFiniteSet(A) /\ IsFiniteSet(B) /\ A \cap B = {}
      BY <1>14, <1>15, <1>16, <2>1
    <2>3. /\ IsFiniteSet(A \cup B)
          /\ Cardinality(A \cup B) = Cardinality(A) + Cardinality(B) - Cardinality(A \cap B)
      BY <2>2, FS_Union
    <2>4. Cardinality(A) \in Nat /\ Cardinality(B) \in Nat /\ Cardinality(A \cap B) = 0
      BY <2>2, FS_CardinalityType, FS_EmptySet
    <2>5. QED
      BY <1>17, <2>1, <2>3, <2>4
  <1>19. QED
    BY <1>8, <1>12, <1>13, <1>14, <1>15, <1>18

LEMMA SumIsTotal ==
    ASSUME NEW hour
    PROVE  Online!online_seconds(hour) = Totals(Bucket(hour))[Bucket(hour)]
  BY DEF Online!online_seconds, Online!MapThenSumSet, Online!MapThenFoldSet, Totals, Bucket

LEMMA SameCardinality ==
    ASSUME NEW S
    PROVE  Online!Cardinality(S) = Cardinality(S)
  BY DEF Online!Cardinality, Cardinality

LEMMA DayInvariant == Online!Spec => []DayInv
  <1>1. Online!Init => DayInv
    BY DEF Online!Init, DayInv
  <1>2. DayInv /\ [Online!Next]_collected => DayInv'
    BY DEF DayInv, Online!Next, Online!Store, Online!Day
  <1>3. QED
    BY <1>1, <1>2, PTL DEF Online!Spec

\* The online time that ROLLUP_SQL adds up for an hour is the number of its seconds in
\* which the container had reported less than offline_seconds ago: no second is added
\* twice or left out, for any samples, any length of hour and day, and any limit.
THEOREM OnlineTimeIsCoverageAlways == Online!Spec => []OnlineTimeIsCoverage
  <1>1. ASSUME DayInv
        PROVE  OnlineTimeIsCoverage
    <2>1. ASSUME NEW hour \in {Online!bucket_start(t) : t \in Online!Day}
          PROVE  Online!online_seconds(hour) = Online!Cardinality(Online!Covered(hour))
      <3>1. PICK U : U = Bucket(hour)
        OBVIOUS
      <3>2. U \in SUBSET collected
        BY <3>1 DEF Bucket
      <3>3. Online!Covered(hour) = TakenBy(U)
        BY <1>1, <3>1, CoveredIsTaken
      <3>4. \A t \in U, u \in U : t # u => Taken(t) \cap Taken(u) = {}
        BY <1>1, <3>1, CoveredIsTaken
      <3>5. Totals(U)[U] = Cardinality(TakenBy(U))
        BY <1>1, <3>2, <3>4, TotalsAreTaken
      <3>6. QED
        BY <3>1, <3>3, <3>5, SumIsTotal, SameCardinality
    <2>2. QED
      BY <2>1 DEF OnlineTimeIsCoverage, Online!OnlineTimeIsCoverage
  <1>2. QED
    BY <1>1, DayInvariant, PTL

-----------------------------------------------------------------------------
(* All parts in one process *)

LEMMA MailFrame ==
    ASSUME MailInv, UNCHANGED vars
    PROVE  MailInv'
  BY MailStep

LEMMA RollupFrame ==
    ASSUME RollupInv, UNCHANGED rollupVars
    PROVE  RollupInv'
  BY RollupStep DEF rollupVars, Rollup!vars

\* What the outbox, its workers, the rollups, the checkpoint and the passes hold is of
\* its type, whichever part of the worker process runs.
THEOREM WorkerTypes == MCSpec => []TypesOK
  <1>1. MCInit => MailInv /\ RollupInv
    BY MailInit, RollupInit DEF MCInit
  <1>2. ASSUME MailInv /\ RollupInv, [MCNext]_allVars
        PROVE  MailInv' /\ RollupInv'
    <2>1. CASE OfMail(Next)
      BY <1>2, <2>1, MailStep, RollupFrame DEF OfMail
    <2>2. CASE OfRollup(Rollup!Next)
      BY <1>2, <2>2, RollupStep, MailFrame DEF OfRollup
    <2>3. CASE OfOnline(Online!Next)
      BY <1>2, <2>3, MailFrame, RollupFrame DEF OfOnline
    <2>4. CASE UNCHANGED allVars
      BY <1>2, <2>4, MailFrame, RollupFrame DEF allVars
    <2>5. QED
      BY <1>2, <2>1, <2>2, <2>3, <2>4 DEF MCNext
  <1>3. MailInv /\ RollupInv => TypesOK
    BY DEF MailInv, RollupInv, TypesOK
  <1>4. QED
    BY <1>1, <1>2, <1>3, PTL DEF MCSpec

=============================================================================
