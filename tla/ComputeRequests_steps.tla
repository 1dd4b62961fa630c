------------------------ MODULE ComputeRequests_steps ------------------------
(***************************************************************************)
(* What a step of ComputeRequests may never do, from the invariant Inv:    *)
(* overturn a decision, restart or shorten a clock, or approve behind a    *)
(* disable; and that each step is one of RequestContract, or shows none.   *)
(***************************************************************************)
EXTENDS ComputeRequests_proofs

-----------------------------------------------------------------------------
(* Facts about the present state *)

\* A request whose clock runs was granted, and its start and end are numbers.
LEMMA RunningClock ==
    ASSUME Inv, NEW q \in Requests, req[q] # Absent, req[q].started # Never
    PROVE  /\ req[q] \in RequestRow
           /\ req[q].expires \in Nat
           /\ req[q].status = "approved"
  <1>1. req[q] \in RequestRow
    BY RowsTyped DEF Inv
  <1>2. req[q].started \in Nat /\ req[q].days \in Nat
    BY <1>1 DEF RequestRow
  <1>3. req[q].status = "approved" /\ req[q].expires = req[q].started + req[q].days
    BY DEF Inv, ClockMatchesGrant
  <1>4. QED
    BY <1>1, <1>2, <1>3

\* A step that writes neither table overturns nothing.
LEMMA UnchangedKeeps ==
    ASSUME Inv, UNCHANGED <<req, chg>>
    PROVE  KeepsDecisions /\ KeepsClocks
  <1>1. \A q \in Requests : req[q] # Absent /\ req[q].started # Never =>
            req[q].expires >= req[q].expires
    BY RunningClock
  <1>2. QED
    BY <1>1 DEF KeepsDecisions, KeepsClocks

-----------------------------------------------------------------------------
(* The steps that write one of the two tables *)

\* Only a primary key that is not in use is inserted.
LEMMA SubmitCommitFinal ==
    ASSUME Inv, NEW h \in Handlers, SubmitCommit(h)
    PROVE  KeepsDecisions /\ KeepsClocks
  <1>1. PICK q \in Requests : req[q] = Absent /\ req' = [req EXCEPT ![q] = tx[h].row]
    BY DEF SubmitCommit
  <1>2. \A p \in Requests \ {q} : req'[p] = req[p]
    BY <1>1
  <1>3. ~Decided(req[q]) /\ chg' = chg
    BY <1>1 DEF SubmitCommit, Decided, Absent, Verdicts
  <1>4. QED
    BY <1>1, <1>2, <1>3, RunningClock DEF KeepsDecisions, KeepsClocks

\* The reviewer holds the lock of a row that is still pending.
LEMMA ReviewCommitFinal ==
    ASSUME Inv, NEW h \in Handlers, ReviewCommit(h)
    PROVE  KeepsDecisions /\ KeepsClocks
  <1> DEFINE q == tx[h].req
  <1>1. /\ q \in Requests /\ chg' = chg
        /\ req' = [req EXCEPT ![q].status = tx[h].verdict]
    BY TxTyped DEF ReviewCommit, Inv
  <1>2. req[q].status = "pending"
    BY DEF Inv, TransactionsIsolated, ReadsStillHold, ReviewCommit
  <1>3. req[q] \in RequestRow /\ req \in [Requests -> {Absent} \cup RequestRow]
    BY <1>1, <1>2, RowsTyped DEF Inv, TypeOK
  <1>4. req'[q].started = req[q].started /\ req'[q].expires = req[q].expires
    BY <1>1, <1>3 DEF RequestRow
  <1>5. \A p \in Requests \ {q} : req'[p] = req[p]
    BY <1>1, <1>3
  <1>6. ~Decided(req[q])
    BY <1>2 DEF Decided, Verdicts
  <1>7. KeepsDecisions
    BY <1>1, <1>5, <1>6 DEF KeepsDecisions
  <1>8. KeepsClocks
    BY <1>1, <1>4, <1>5, RunningClock DEF KeepsClocks
  <1>9. QED
    BY <1>7, <1>8

\* A change is inserted under a primary key that is not in use.
LEMMA ProposeCommitFinal ==
    ASSUME Inv, NEW h \in Handlers, ProposeCommit(h)
    PROVE  KeepsDecisions /\ KeepsClocks
  <1>1. PICK c \in Changes : chg[c] = Absent /\ chg' = [chg EXCEPT ![c] = tx[h].row]
    BY DEF ProposeCommit
  <1>2. \A d \in Changes \ {c} : chg'[d] = chg[d]
    BY <1>1 DEF Inv, TypeOK
  <1>3. ~Decided(chg[c]) /\ req' = req
    BY <1>1 DEF ProposeCommit, Decided, Absent, Verdicts
  <1>4. KeepsDecisions
    BY <1>1, <1>2, <1>3 DEF KeepsDecisions
  <1>5. KeepsClocks
    BY <1>3, RunningClock DEF KeepsClocks
  <1>6. QED
    BY <1>4, <1>5

\* An approved change moves the end of its request by its amount, and only an
\* extension moves it.
LEMMA AppliedForward ==
    ASSUME NEW row \in RequestRow, NEW change \in ChangeRow
    PROVE  /\ Applied(row, change).status = row.status
           /\ Applied(row, change).started = row.started
           /\ row.expires \in Nat => Applied(row, change).expires >= row.expires
  <1>1. CASE change.kind = "extend"
    <2>1. Applied(row, change) =
            [row EXCEPT !.days = change.after,
                        !.expires = IF row.expires = Never THEN Never
                                    ELSE row.expires + change.amount]
      BY <1>1 DEF Applied
    <2>2. change.amount \in Nat
      BY DEF ChangeRow
    <2>3. QED
      BY <2>1, <2>2 DEF RequestRow, Never
  <1>2. CASE change.kind # "extend"
    <2>1. Applied(row, change) = [row EXCEPT !.gpus = change.after]
      BY <1>2 DEF Applied
    <2>2. QED
      BY <2>1 DEF RequestRow
  <1>3. QED
    BY <1>1, <1>2

\* The change under review is still pending, and the request it alters is
\* approved and stays so.
LEMMA ReviewChangeCommitFinal ==
    ASSUME Inv, NEW h \in Handlers, ReviewChangeCommit(h)
    PROVE  KeepsDecisions /\ KeepsClocks
  <1> DEFINE c == tx[h].chg
             q == chg[c].req
  <1>1. /\ c \in Changes
        /\ chg' = [chg EXCEPT ![c].status = tx[h].verdict]
        /\ req' = IF tx[h].verdict = "approved"
                  THEN [req EXCEPT ![q] = Applied(@, chg[c])] ELSE req
    BY TxTyped DEF ReviewChangeCommit, Inv
  <1>2. c \in PendingChanges
    BY DEF Inv, TransactionsIsolated, ReadsStillHold, ReviewChangeCommit
  <1>3. chg[c] \in ChangeRow /\ q \in Requests
    BY <1>2, RowsTyped DEF Inv, PendingChanges, ChangeRow
  <1>4. req[q].status = "approved" /\ req[q] \in RequestRow
    BY <1>2, <1>3, RowsTyped DEF Inv, OpenChangeIsCurrent
  <1>5. ~Decided(chg[c]) /\ \A d \in Changes \ {c} : chg'[d] = chg[d]
    BY <1>1, <1>2 DEF Inv, TypeOK, PendingChanges, Decided, Verdicts
  <1>6. \A p \in Requests \ {q} : req'[p] = req[p]
    BY <1>1 DEF Inv, TypeOK
  <1>7. req'[q] = req[q] \/ req'[q] = Applied(req[q], chg[c])
    BY <1>1, <1>3 DEF Inv, TypeOK
  <1>8. /\ req'[q].status = req[q].status
        /\ req'[q].started = req[q].started
        /\ req[q].expires \in Nat => req'[q].expires >= req[q].expires
    BY <1>3, <1>4, <1>7, AppliedForward
  <1>9. KeepsDecisions
    BY <1>5, <1>6, <1>8 DEF KeepsDecisions
  <1>10. KeepsClocks
    BY <1>6, <1>8, RunningClock DEF KeepsClocks
  <1>11. QED
    BY <1>9, <1>10

\* A disable has locked rows that are still pending, and rejects only those.
LEMMA DisableCommitFinal ==
    ASSUME Inv, NEW h \in Handlers, DisableCommit(h)
    PROVE  KeepsDecisions /\ KeepsClocks
  <1>1. /\ tx[h].locks \cap Requests \subseteq PendingRequests
        /\ tx[h].locks \cap Changes \subseteq PendingChanges
    BY DEF Inv, TransactionsIsolated, ReadsStillHold, DisableCommit
  <1>2. \A q \in Requests : q \in tx[h].locks => ~Decided(req[q])
    BY <1>1 DEF PendingRequests, Decided, Verdicts
  <1>3. \A c \in Changes : c \in tx[h].locks => ~Decided(chg[c])
    BY <1>1 DEF PendingChanges, Decided, Verdicts
  <1>4. KeepsDecisions
    BY <1>2, <1>3 DEF KeepsDecisions, DisableCommit
  <1>5. KeepsClocks
    <2>1. SUFFICES ASSUME NEW q \in Requests, req[q] # Absent, req[q].started # Never
                   PROVE  /\ req'[q].started = req[q].started
                          /\ req'[q].expires >= req[q].expires
      BY DEF KeepsClocks
    <2>2. req[q].status = "approved" /\ req[q].expires \in Nat
      BY <2>1, RunningClock
    <2>3. req'[q] = req[q]
      BY <1>2, <2>2 DEF DisableCommit, Decided, Verdicts
    <2>4. QED
      BY <2>2, <2>3
  <1>6. QED
    BY <1>4, <1>5

\* A report that starts a clock still finds it stopped, under the advisory lock.
LEMMA ReportCommitFinal ==
    ASSUME Inv, NEW h \in Handlers, ReportCommit(h)
    PROVE  KeepsDecisions /\ KeepsClocks
  <1> DEFINE q == tx[h].req
  <1>1. CASE tx[h].expires = Never
    BY <1>1, UnchangedKeeps DEF ReportCommit
  <1>2. CASE tx[h].expires # Never
    <2>1. /\ q \in Requests /\ chg' = chg
          /\ req' = [req EXCEPT ![q].started = tx[h].at, ![q].expires = tx[h].expires]
      BY <1>2, TxTyped DEF ReportCommit, Inv
    <2>2. req[q].started = Never /\ req[q].status = "approved"
      BY <1>2 DEF Inv, TransactionsIsolated, ReadsStillHold, ReportCommit
    <2>3. req[q] \in RequestRow
      BY <2>1, <2>2, RowsTyped DEF Inv
    <2>4. req'[q].status = req[q].status /\ \A p \in Requests \ {q} : req'[p] = req[p]
      BY <2>1, <2>3 DEF Inv, TypeOK, RequestRow
    <2>5. KeepsDecisions
      BY <2>1, <2>4 DEF KeepsDecisions
    <2>6. KeepsClocks
      BY <2>2, <2>4, RunningClock DEF KeepsClocks
    <2>7. QED
      BY <2>5, <2>6
  <1>3. QED
    BY <1>1, <1>2

\* The worker rejects pending changes only, and no request.
LEMMA WorkerRejectExpiredFinal ==
    ASSUME Inv, WorkerRejectExpired
    PROVE  KeepsDecisions /\ KeepsClocks
  <1>1. \A c \in Changes : c \in DueChanges => ~Decided(chg[c])
    BY DEF DueChanges, PendingChanges, Decided, Verdicts
  <1>2. KeepsDecisions
    BY <1>1 DEF KeepsDecisions, WorkerRejectExpired
  <1>3. KeepsClocks
    BY RunningClock DEF KeepsClocks, WorkerRejectExpired
  <1>4. QED
    BY <1>2, <1>3

-----------------------------------------------------------------------------
(* All steps, and the theorems *)

\* Every other step leaves both tables alone.
LEMMA StepsFinal == Inv /\ [Next]_vars => KeepsDecisions /\ KeepsClocks
  <1> SUFFICES ASSUME Inv, [Next]_vars PROVE KeepsDecisions /\ KeepsClocks
    OBVIOUS
  <1>1. ASSUME NEW h \in Handlers,
               \/ SubmitRead(h) \/ ReviewRead(h) \/ ProposeRead(h) \/ ReviewChangeRead(h)
               \/ DisableBegin(h) \/ ReportReceive(h)
        PROVE  UNCHANGED <<req, chg>>
    BY <1>1 DEF SubmitRead, ReviewRead, ProposeRead, ReviewChangeRead, DisableBegin,
                ReportReceive, db
  <1>2. ASSUME NEW h \in Handlers,
               \/ DisableRequests(h) \/ DisableChanges(h) \/ ReportLock(h) \/ Abort(h)
        PROVE  UNCHANGED <<req, chg>>
    BY <1>2 DEF DisableRequests, DisableChanges, DisableStatement, ReportLock, Abort, db
  <1>3. ASSUME NEW h \in Handlers, Proceed(h)
        PROVE  KeepsDecisions /\ KeepsClocks
    BY <1>2, <1>3, UnchangedKeeps, SubmitCommitFinal, ReviewCommitFinal,
       ProposeCommitFinal, ReviewChangeCommitFinal, DisableCommitFinal, ReportCommitFinal
       DEF Proceed
  <1>4. ASSUME \/ \E e \in Entities : Enable(e)
               \/ \E r \in Resources, n \in 1..MaxGpu : UpdateResource(r, n)
               \/ \E p \in Projects, us \in SUBSET Users : UpdateProject(p, us)
               \/ Tick
               \/ UNCHANGED vars
        PROVE  UNCHANGED <<req, chg>>
    BY <1>4 DEF Enable, UpdateResource, UpdateProject, Tick, vars, db
  <1>5. QED
    BY <1>1, <1>3, <1>4, UnchangedKeeps, WorkerRejectExpiredFinal DEF Next

\* A decision is final, whoever else decides, disables or rejects the same row
\* at the same time (review_compute_request, review_compute_request_change,
\* the disabling handlers and the worker), and once started a clock keeps its
\* start and its end never moves back (start_compute_request and the approval of
\* an extension).
THEOREM NothingTakenBack == Spec => NothingIsTakenBack
  <1>1. Inv /\ [Next]_vars => [KeepsDecisions /\ KeepsClocks]_vars
    BY StepsFinal
  <1>2. QED
    BY <1>1, Invariance, PTL DEF Spec, NothingIsTakenBack

-----------------------------------------------------------------------------
(* An approval never lands behind a disable *)

\* A disable holds its entity and, from each of its UPDATE statements on, every row
\* the statement is about: nothing can be inserted past it, because the insertion
\* would have to share the row of the entity.
DisableHolds(k) ==
    tx[k].op = "disable" =>
        /\ tx[k].entity \in tx[k].locks
        /\ tx[k].step \in {"changes", "commit"} /\ tx[k].entity \in active =>
            \A q \in PendingRequests :
                tx[k].entity \in Relations(req[q]) => q \in tx[k].locks
        /\ tx[k].step = "commit" /\ tx[k].entity \in active =>
            \A c \in PendingChanges :
                req[chg[c].req].applicant = tx[k].entity => c \in tx[k].locks

\* What a reviewer found active is active still.
ApprovalHolds(k) ==
    /\ tx[k].op = "review" /\ tx[k].verdict = "approved" =>
        Relations(req[tx[k].req]) \subseteq active
    /\ tx[k].op = "reviewChange" /\ tx[k].verdict = "approved" =>
        req[chg[tx[k].chg].req].applicant \in active

HoldsFor(k) == DisableHolds(k) /\ ApprovalHolds(k)
HoldInv == Inv /\ \A k \in Handlers : HoldsFor(k)

SameRelations(q) ==
    /\ req'[q].applicant = req[q].applicant
    /\ req'[q].project = req[q].project
    /\ req'[q].resource = req[q].resource

\* A transaction that did not move: nothing it has not locked became pending, and
\* nothing it found active was disabled.
LEMMA HoldsStill ==
    ASSUME HoldInv, NEW k \in Handlers, tx'[k] = tx[k],
           \A q \in Requests : req[q].status # "absent" => SameRelations(q),
           \A c \in Changes : chg[c].status # "absent" => chg'[c].req = chg[c].req,
           tx[k].op = "disable" =>
                /\ tx[k].entity \in active' => tx[k].entity \in active
                /\ \A q \in Requests : req'[q].status = "pending" =>
                     \/ req[q].status = "pending"
                     \/ tx[k].entity \notin {req'[q].applicant, req'[q].project,
                                             req'[q].resource}
                /\ \A c \in Changes : chg'[c].status = "pending" =>
                     \/ chg[c].status = "pending"
                     \/ tx[k].entity # req'[chg'[c].req].applicant,
           tx[k].op = "review" /\ tx[k].verdict = "approved" =>
                \A e \in Relations(req[tx[k].req]) : e \in active => e \in active',
           tx[k].op = "reviewChange" /\ tx[k].verdict = "approved" =>
                \A e \in {req[chg[tx[k].chg].req].applicant} : e \in active => e \in active'
    PROVE  HoldsFor(k)'
  <1>1. HoldsFor(k) /\ ReadsStillHold(k) /\ TypeOK
    BY DEF HoldInv, Inv, TransactionsIsolated
  <1>2. \A c \in PendingChanges :
            chg[c].req \in Requests /\ req[chg[c].req].status = "approved"
    BY RowsTyped DEF HoldInv, Inv, OpenChangeIsCurrent, PendingChanges, ChangeRow
  <1>3. CASE tx[k].op = "disable"
    <2>1. tx[k].entity \in tx[k].locks
      BY <1>1, <1>3 DEF HoldsFor, DisableHolds
    <2>2. ASSUME tx[k].step \in {"changes", "commit"}, tx[k].entity \in active',
                 NEW q \in Requests, req'[q].status = "pending",
                 tx[k].entity \in {req'[q].applicant, req'[q].project, req'[q].resource}
          PROVE  q \in tx[k].locks
      <3>1. req[q].status = "pending" /\ tx[k].entity \in active
        BY <1>3, <2>2
      <3>2. tx[k].entity \in Relations(req[q])
        BY <2>2, <3>1 DEF SameRelations, Relations
      <3>3. QED
        BY <1>1, <1>3, <2>2, <3>1, <3>2 DEF HoldsFor, DisableHolds, PendingRequests
    <2>3. ASSUME tx[k].step = "commit", tx[k].entity \in active',
                 NEW c \in Changes, chg'[c].status = "pending",
                 req'[chg'[c].req].applicant = tx[k].entity
          PROVE  c \in tx[k].locks
      <3>1. chg[c].status = "pending" /\ tx[k].entity \in active
        BY <1>3, <2>3
      <3>2. c \in PendingChanges
        BY <3>1 DEF PendingChanges
      <3>3. req[chg[c].req].applicant = tx[k].entity
        BY <1>2, <2>3, <3>1, <3>2 DEF SameRelations
      <3>4. QED
        BY <1>1, <1>3, <2>3, <3>1, <3>2, <3>3 DEF HoldsFor, DisableHolds
    <2>4. DisableHolds(k)'
      BY <1>3, <2>1, <2>2, <2>3 DEF DisableHolds, PendingRequests, PendingChanges, Relations
    <2>5. QED
      BY <1>3, <2>4 DEF HoldsFor, ApprovalHolds
  <1>4. CASE tx[k].op = "review" /\ tx[k].verdict = "approved"
    <2>1. tx[k].req \in Requests /\ req[tx[k].req].status = "pending"
      BY <1>1, <1>4, TxTyped DEF ReadsStillHold
    <2>2. SameRelations(tx[k].req)
      BY <2>1
    <2>3. Relations(req[tx[k].req]) \subseteq active
      BY <1>1, <1>4 DEF HoldsFor, ApprovalHolds
    <2>4. \A e \in Relations(req[tx[k].req]) : e \in active'
      BY <1>4, <2>3
    <2>5. QED
      BY <1>4, <2>2, <2>4
         DEF HoldsFor, ApprovalHolds, DisableHolds, Relations, SameRelations
  <1>5. CASE tx[k].op = "reviewChange" /\ tx[k].verdict = "approved"
    <2>1. tx[k].chg \in PendingChanges /\ chg[tx[k].chg].status = "pending"
          /\ tx[k].chg \in Changes
      BY <1>1, <1>5 DEF ReadsStillHold, PendingChanges
    <2>2. SameRelations(chg[tx[k].chg].req) /\ chg'[tx[k].chg].req = chg[tx[k].chg].req
      BY <1>2, <2>1
    <2>3. req[chg[tx[k].chg].req].applicant \in active
      BY <1>1, <1>5 DEF HoldsFor, ApprovalHolds
    <2>4. req[chg[tx[k].chg].req].applicant \in active'
      BY <1>5, <2>3
    <2>5. QED
      BY <1>5, <2>2, <2>4 DEF HoldsFor, ApprovalHolds, DisableHolds, SameRelations
  <1>6. CASE /\ tx[k].op # "disable"
             /\ ~(tx[k].op = "review" /\ tx[k].verdict = "approved")
             /\ ~(tx[k].op = "reviewChange" /\ tx[k].verdict = "approved")
    BY <1>6 DEF HoldsFor, ApprovalHolds, DisableHolds
  <1>7. QED
    BY <1>3, <1>4, <1>5, <1>6

\* A transaction that ended holds nothing.
LEMMA IdleHolds ==
    ASSUME HoldInv, NEW h \in Handlers, Finish(h)
    PROVE  HoldsFor(h)' /\ \A k \in Handlers \ {h} : tx'[k] = tx[k]
  <1>1. tx'[h] = Idle /\ \A k \in Handlers \ {h} : tx'[k] = tx[k]
    BY DEF Finish, HoldInv, Inv, TypeOK
  <1>2. QED
    BY <1>1 DEF HoldsFor, DisableHolds, ApprovalHolds, Idle

\* No table was written: who did not move holds what it held.
LEMMA HoldsByReads ==
    ASSUME HoldInv, NEW k \in Handlers, tx'[k] = tx[k], UNCHANGED <<active, req, chg>>
    PROVE  HoldsFor(k)'
  <1>1. HoldsFor(k)
    BY DEF HoldInv
  <1>2. QED
    BY <1>1 DEF HoldsFor, DisableHolds, ApprovalHolds, PendingRequests, PendingChanges

\* A transaction's new record, in a step that writes no table.
LEMMA ReadsHold ==
    ASSUME HoldInv, NEW h \in Handlers,
           \/ SubmitRead(h) \/ ReviewRead(h) \/ ProposeRead(h) \/ ReviewChangeRead(h)
           \/ DisableBegin(h) \/ ReportReceive(h)
    PROVE  HoldsFor(h)'
  <1>1. UNCHANGED <<active, req, chg>>
    BY DEF SubmitRead, ReviewRead, ProposeRead, ReviewChangeRead, DisableBegin,
           ReportReceive, db
  <1>2. tx \in [Handlers -> TxRecord]
    BY DEF HoldInv, Inv, TypeOK
  <1>3. CASE SubmitRead(h) \/ ProposeRead(h) \/ ReportReceive(h)
    <2>2. tx'[h].op \in {"submit", "propose", "receive"}
      <3>1. CASE SubmitRead(h)
        <4>1. PICK row : tx' = [tx EXCEPT ![h] = [op |-> "submit", locks |-> {}, row |-> row]]
          BY <3>1 DEF SubmitRead, Begin
        <4>2. tx'[h] = [op |-> "submit", locks |-> {}, row |-> row]
          BY <1>2, <4>1
        <4>3. QED
          BY <4>2
      <3>2. CASE ProposeRead(h)
        <4>1. PICK q, row :
                tx' = [tx EXCEPT ![h] = [op |-> "propose", locks |-> ProposeLocks(q),
                                         row |-> row]]
          BY <3>2, Zenon DEF ProposeRead, Begin
        <4>2. tx'[h] = [op |-> "propose", locks |-> ProposeLocks(q), row |-> row]
          BY <1>2, <4>1
        <4>3. QED
          BY <4>2
      <3>3. CASE ReportReceive(h)
        <4>1. PICK q : tx' = [tx EXCEPT ![h] = [op |-> "receive", locks |-> {}, req |-> q,
                                                at |-> now, expires |-> Never]]
          BY <3>3 DEF ReportReceive, Begin
        <4>2. tx'[h] = [op |-> "receive", locks |-> {}, req |-> q,
                        at |-> now, expires |-> Never]
          BY <1>2, <4>1
        <4>3. QED
          BY <4>2
      <3>4. QED
        BY <1>3, <3>1, <3>2, <3>3
    <2>3. QED
      BY <2>2 DEF HoldsFor, DisableHolds, ApprovalHolds
  <1>4. CASE ReviewRead(h)
    <2>1. PICK q \in PendingRequests, verdict \in Verdicts :
            /\ verdict = "approved" => Eligible(req[q])
            /\ tx' = [tx EXCEPT ![h] = [op |-> "review", locks |-> ReviewLocks(q),
                                        req |-> q, verdict |-> verdict]]
      BY <1>4 DEF ReviewRead, Begin
    <2>2. tx'[h].op = "review" /\ tx'[h].req = q /\ tx'[h].verdict = verdict
      BY <1>2, <2>1
    <2>3. QED
      BY <1>1, <2>1, <2>2 DEF HoldsFor, DisableHolds, ApprovalHolds, Eligible
  <1>5. CASE ReviewChangeRead(h)
    <2>1. PICK c \in PendingChanges, verdict \in Verdicts :
            /\ verdict = "approved" => Eligible(req[chg[c].req])
            /\ tx' = [tx EXCEPT ![h] = [op |-> "reviewChange", locks |-> ReviewChangeLocks(c),
                                        chg |-> c, verdict |-> verdict]]
      BY <1>5 DEF ReviewChangeRead, Begin, Verdicts
    <2>2. tx'[h].op = "reviewChange" /\ tx'[h].chg = c /\ tx'[h].verdict = verdict
      BY <1>2, <2>1
    <2>3. verdict = "approved" => req[chg[c].req].applicant \in active
      BY <2>1 DEF Eligible, Relations
    <2>4. QED
      BY <1>1, <2>2, <2>3 DEF HoldsFor, DisableHolds, ApprovalHolds
  <1>6. CASE DisableBegin(h)
    <2>1. PICK e \in Entities :
            tx' = [tx EXCEPT ![h] = [op |-> "disable", locks |-> {e}, entity |-> e,
                                     step |-> IF e \in active THEN "requests" ELSE "commit"]]
      BY <1>6 DEF DisableBegin, Begin
    <2>2. /\ tx'[h].op = "disable" /\ tx'[h].entity = e /\ tx'[h].locks = {e}
          /\ tx'[h].step = IF e \in active THEN "requests" ELSE "commit"
      BY <1>2, <2>1
    <2>3. QED
      BY <1>1, <2>2 DEF HoldsFor, DisableHolds, ApprovalHolds
  <1>7. QED
    BY <1>3, <1>4, <1>5, <1>6

\* The two UPDATE statements lock the rows that must not be approved any more.
LEMMA ProceedsHold ==
    ASSUME HoldInv, NEW h \in Handlers,
           DisableRequests(h) \/ DisableChanges(h) \/ ReportLock(h)
    PROVE  HoldsFor(h)'
  <1>1. UNCHANGED <<active, req, chg>>
    BY DEF DisableRequests, DisableChanges, DisableStatement, ReportLock, db
  <1>2. /\ tx \in [Handlers -> TxRecord] /\ HoldsFor(h)
        /\ PendingRequests' = PendingRequests /\ PendingChanges' = PendingChanges
    BY <1>1 DEF HoldInv, Inv, TypeOK, PendingRequests, PendingChanges
  <1>3. PICK old : old = tx[h]
    OBVIOUS
  <1>4. CASE ReportLock(h)
    <2>1. old \in [op: {"receive", "report"}, locks: SUBSET Lockable, req: Requests,
                   at: Nat, expires: Nat \cup {Never}]
      BY <1>2, <1>3, <1>4 DEF ReportLock, TxRecord, Idle
    <2>2. PICK locks, expires :
            tx' = [tx EXCEPT ![h].op = "report", ![h].locks = locks, ![h].expires = expires]
      BY <1>4 DEF ReportLock
    <2>3. tx'[h] = [old EXCEPT !.op = "report", !.locks = locks, !.expires = expires]
      BY <1>2, <1>3, <2>2
    <2>4. tx'[h].op = "report"
      BY <2>1, <2>3
    <2>5. QED
      BY <2>4 DEF HoldsFor, DisableHolds, ApprovalHolds
  <1>5. ASSUME NEW step, NEW next \in {"changes", "commit"}, NEW rows,
               DisableStatement(h, step, next, rows)
        PROVE  /\ old.op = "disable" /\ old.step = step /\ tx'[h].op = "disable"
               /\ tx'[h].entity = old.entity /\ tx'[h].step = next
               /\ tx'[h].locks = old.locks \cup rows
    <2>1. old.op = "disable" /\ old.step = step
          /\ tx' = [tx EXCEPT ![h].step = next, ![h].locks = @ \cup rows]
      BY <1>3, <1>5 DEF DisableStatement
    <2>2. old \in [op: {"disable"}, locks: SUBSET Lockable, entity: Entities,
                   step: {"requests", "changes", "commit"}]
      BY <1>2, <1>3, <2>1 DEF TxRecord, Idle
    <2>3. tx'[h] = [old EXCEPT !.step = next, !.locks = old.locks \cup rows]
      BY <1>2, <1>3, <2>1
    <2>4. QED
      BY <2>1, <2>2, <2>3
  <1>6. CASE DisableRequests(h)
    <2>1. PICK rows : rows = {q \in PendingRequests : tx[h].entity \in Relations(req[q])}
      OBVIOUS
    <2>2. DisableStatement(h, "requests", "changes", rows)
      BY <1>6, <2>1 DEF DisableRequests
    <2>3. /\ tx'[h].op = "disable" /\ tx'[h].entity = old.entity /\ tx'[h].step = "changes"
          /\ tx'[h].locks = old.locks \cup rows /\ old.op = "disable"
      BY <1>5, <2>2
    <2>4. old.entity \in old.locks
      BY <1>2, <1>3, <2>3 DEF HoldsFor, DisableHolds
    <2>5. \A q \in PendingRequests' : old.entity \in Relations(req[q]) => q \in rows
      BY <1>2, <1>3, <2>1
    <2>6. QED
      BY <1>1, <2>3, <2>4, <2>5 DEF HoldsFor, DisableHolds, ApprovalHolds
  <1>7. CASE DisableChanges(h)
    <2>1. PICK rows :
            rows = {c \in PendingChanges : tx[h].entity \in Relations(req[chg[c].req])}
      OBVIOUS
    <2>2. DisableStatement(h, "changes", "commit", rows)
      BY <1>7, <2>1 DEF DisableChanges
    <2>3. /\ tx'[h].op = "disable" /\ tx'[h].entity = old.entity /\ tx'[h].step = "commit"
          /\ tx'[h].locks = old.locks \cup rows /\ old.op = "disable" /\ old.step = "changes"
      BY <1>5, <2>2
    <2>4. /\ old.entity \in old.locks
          /\ old.entity \in active => \A q \in PendingRequests :
                old.entity \in Relations(req[q]) => q \in old.locks
      BY <1>2, <1>3, <2>3 DEF HoldsFor, DisableHolds
    <2>5. \A c \in PendingChanges :
            req[chg[c].req].applicant = old.entity => c \in rows
      BY <1>3, <2>1 DEF Relations
    <2>6. DisableHolds(h)'
      BY <1>1, <1>2, <2>3, <2>4, <2>5 DEF DisableHolds
    <2>7. QED
      BY <2>3, <2>6 DEF HoldsFor, ApprovalHolds
  <1>8. QED
    BY <1>4, <1>6, <1>7

\* The columns that relate rows to each other are never updated, and only an
\* insertion makes a row pending.
RowsStay ==
    /\ \A q \in Requests : req[q].status # "absent" => SameRelations(q)
    /\ \A c \in Changes : chg[c].status # "absent" => chg'[c].req = chg[c].req
NoNewRequest ==
    \A q \in Requests : req'[q].status = "pending" => req[q].status = "pending"
NoNewChange ==
    \A c \in Changes : chg'[c].status = "pending" => chg[c].status = "pending"

\* A commit that inserts no row and disables nothing.
LEMMA QuietCommitHolds ==
    ASSUME HoldInv, NEW h \in Handlers, Finish(h), UNCHANGED active,
           RowsStay, NoNewRequest, NoNewChange
    PROVE  \A k \in Handlers : HoldsFor(k)'
  <1>1. HoldsFor(h)' /\ \A k \in Handlers \ {h} : tx'[k] = tx[k]
    BY IdleHolds
  <1>2. ASSUME NEW k \in Handlers \ {h}
        PROVE  HoldsFor(k)'
    BY <1>1, HoldsStill DEF RowsStay, NoNewRequest, NoNewChange
  <1>3. QED
    BY <1>1, <1>2

\* The insertion of a request waits for whoever disables what it refers to.
LEMMA SubmitCommitHolds ==
    ASSUME HoldInv, NEW h \in Handlers, SubmitCommit(h)
    PROVE  \A k \in Handlers : HoldsFor(k)'
  <1>1. PICK row : row = tx[h].row
    OBVIOUS
  <1>2. PICK q \in Requests : req[q] = Absent /\ req' = [req EXCEPT ![q] = row]
    BY <1>1 DEF SubmitCommit
  <1>3. Unlocked(h, Relations(row)) /\ UNCHANGED <<active, chg>>
    BY <1>1 DEF SubmitCommit
  <1>4. req'[q] = row /\ \A p \in Requests \ {q} : req'[p] = req[p]
    BY <1>2 DEF HoldInv, Inv, TypeOK
  <1>5. /\ \A p \in Requests : req[p].status # "absent" => SameRelations(p)
        /\ \A c \in Changes : chg[c].status # "absent" => chg'[c].req = chg[c].req
    BY <1>2, <1>3, <1>4 DEF SameRelations, Absent
  <1>6. HoldsFor(h)' /\ \A k \in Handlers \ {h} : tx'[k] = tx[k]
    BY IdleHolds DEF SubmitCommit
  <1>7. ASSUME NEW k \in Handlers \ {h}
        PROVE  HoldsFor(k)'
    <2>1. tx[k].op = "disable" => tx[k].entity \in tx[k].locks
      BY DEF HoldInv, HoldsFor, DisableHolds
    <2>2. tx[k].op = "disable" => tx[k].entity \notin Relations(row)
      BY <1>3, <2>1 DEF Unlocked
    <2>3. tx[k].op = "disable" =>
            \A p \in Requests : req'[p].status = "pending" =>
                \/ req[p].status = "pending"
                \/ tx[k].entity \notin {req'[p].applicant, req'[p].project, req'[p].resource}
      BY <1>4, <2>2 DEF Relations
    <2>4. tx[k].op = "disable" =>
            \A c \in Changes : chg'[c].status = "pending" =>
                \/ chg[c].status = "pending"
                \/ tx[k].entity # req'[chg'[c].req].applicant
      BY <1>3
    <2>5. QED
      BY <1>3, <1>5, <1>6, <2>3, <2>4, HoldsStill
  <1>8. QED
    BY <1>6, <1>7

\* The insertion of a change waits for whoever disables its applicant.
LEMMA ProposeCommitHolds ==
    ASSUME HoldInv, NEW h \in Handlers, ProposeCommit(h)
    PROVE  \A k \in Handlers : HoldsFor(k)'
  <1>1. PICK row : row = tx[h].row
    OBVIOUS
  <1>2. PICK c \in Changes : chg[c] = Absent /\ chg' = [chg EXCEPT ![c] = row]
    BY <1>1 DEF ProposeCommit
  <1>3. Unlocked(h, {req[row.req].applicant}) /\ UNCHANGED <<active, req>>
    BY <1>1 DEF ProposeCommit
  <1>4. chg'[c] = row /\ \A d \in Changes \ {c} : chg'[d] = chg[d]
    BY <1>2 DEF HoldInv, Inv, TypeOK
  <1>5. /\ \A p \in Requests : req[p].status # "absent" => SameRelations(p)
        /\ \A d \in Changes : chg[d].status # "absent" => chg'[d].req = chg[d].req
    BY <1>2, <1>3, <1>4 DEF SameRelations, Absent
  <1>6. HoldsFor(h)' /\ \A k \in Handlers \ {h} : tx'[k] = tx[k]
    BY IdleHolds DEF ProposeCommit
  <1>7. ASSUME NEW k \in Handlers \ {h}
        PROVE  HoldsFor(k)'
    <2>1. tx[k].op = "disable" => tx[k].entity \in tx[k].locks
      BY DEF HoldInv, HoldsFor, DisableHolds
    <2>2. tx[k].op = "disable" => tx[k].entity # req[row.req].applicant
      BY <1>3, <2>1 DEF Unlocked
    <2>3. tx[k].op = "disable" =>
            \A d \in Changes : chg'[d].status = "pending" =>
                \/ chg[d].status = "pending"
                \/ tx[k].entity # req'[chg'[d].req].applicant
      BY <1>3, <1>4, <2>2
    <2>4. QED
      BY <1>3, <1>5, <1>6, <2>3, HoldsStill
  <1>8. QED
    BY <1>6, <1>7

LEMMA ReviewCommitHolds ==
    ASSUME HoldInv, NEW h \in Handlers, ReviewCommit(h)
    PROVE  \A k \in Handlers : HoldsFor(k)'
  <1>1. PICK q : q = tx[h].req
    OBVIOUS
  <1>2. q \in Requests /\ req[q].status = "pending"
    BY <1>1, TxTyped
       DEF HoldInv, Inv, TransactionsIsolated, ReadsStillHold, ReviewCommit
  <1>3. req[q] \in RequestRow /\ req \in [Requests -> {Absent} \cup RequestRow]
    BY <1>2, RowsTyped DEF HoldInv, Inv, TypeOK
  <1>4. req' = [req EXCEPT ![q].status = tx[h].verdict] /\ UNCHANGED <<active, chg>>
    BY <1>1 DEF ReviewCommit
  <1>5. /\ req'[q] = [req[q] EXCEPT !.status = tx[h].verdict]
        /\ \A p \in Requests \ {q} : req'[p] = req[p]
    BY <1>2, <1>3, <1>4
  <1>6. SameRelations(q)
    BY <1>3, <1>5 DEF SameRelations, RequestRow
  <1>7. RowsStay /\ NoNewRequest /\ NoNewChange
    BY <1>2, <1>4, <1>5, <1>6 DEF RowsStay, NoNewRequest, NoNewChange, SameRelations
  <1>8. Finish(h) /\ UNCHANGED active
    BY DEF ReviewCommit
  <1>9. QED
    BY <1>7, <1>8, QuietCommitHolds

LEMMA AppliedRelations ==
    ASSUME NEW row \in RequestRow, NEW change \in ChangeRow
    PROVE  /\ Applied(row, change).applicant = row.applicant
           /\ Applied(row, change).project = row.project
           /\ Applied(row, change).resource = row.resource
           /\ Applied(row, change).status = row.status
  BY DEF Applied, RequestRow

LEMMA ReviewChangeCommitHolds ==
    ASSUME HoldInv, NEW h \in Handlers, ReviewChangeCommit(h)
    PROVE  \A k \in Handlers : HoldsFor(k)'
  <1>1. PICK c : c = tx[h].chg
    OBVIOUS
  <1>2. c \in PendingChanges
    BY <1>1 DEF HoldInv, Inv, TransactionsIsolated, ReadsStillHold, ReviewChangeCommit
  <1>3. c \in Changes /\ chg[c].status = "pending" /\ chg[c] \in ChangeRow
    BY <1>2, RowsTyped DEF HoldInv, Inv, PendingChanges
  <1>4. PICK q \in Requests : q = chg[c].req
    BY <1>3 DEF ChangeRow
  <1>5. req[q].status = "approved" /\ req[q] \in RequestRow
    BY <1>2, <1>4, RowsTyped DEF HoldInv, Inv, OpenChangeIsCurrent
  <1>6. /\ chg' = [chg EXCEPT ![c].status = tx[h].verdict]
        /\ req' = req \/ req' = [req EXCEPT ![q] = Applied(req[q], chg[c])]
        /\ Finish(h) /\ UNCHANGED active
    BY <1>1, <1>4 DEF ReviewChangeCommit
  <1>7. /\ chg'[c] = [chg[c] EXCEPT !.status = tx[h].verdict]
        /\ \A d \in Changes \ {c} : chg'[d] = chg[d]
        /\ req'[q] = req[q] \/ req'[q] = Applied(req[q], chg[c])
        /\ \A p \in Requests \ {q} : req'[p] = req[p]
    BY <1>3, <1>6 DEF HoldInv, Inv, TypeOK
  <1>8. chg'[c].req = chg[c].req
    BY <1>3, <1>7 DEF ChangeRow
  <1>9. SameRelations(q) /\ req'[q].status = req[q].status
    BY <1>3, <1>5, <1>7, AppliedRelations DEF SameRelations
  <1>10. RowsStay /\ NoNewRequest /\ NoNewChange
    BY <1>3, <1>7, <1>8, <1>9 DEF RowsStay, NoNewRequest, NoNewChange, SameRelations
  <1>11. QED
    BY <1>6, <1>10, QuietCommitHolds

LEMMA ReportCommitHolds ==
    ASSUME HoldInv, NEW h \in Handlers, ReportCommit(h)
    PROVE  \A k \in Handlers : HoldsFor(k)'
  <1>1. PICK q : q = tx[h].req
    OBVIOUS
  <1>2. q \in Requests /\ req[q].status = "approved" /\ req[q] \in RequestRow
    BY <1>1, TxTyped, RowsTyped
       DEF HoldInv, Inv, TransactionsIsolated, ReadsStillHold, ReportCommit
  <1>3. /\ \/ req' = req
           \/ req' = [req EXCEPT ![q].started = tx[h].at, ![q].expires = tx[h].expires]
        /\ Finish(h) /\ UNCHANGED <<active, chg>>
    BY <1>1 DEF ReportCommit
  <1>4. /\ \/ req'[q] = req[q]
           \/ req'[q] = [req[q] EXCEPT !.started = tx[h].at, !.expires = tx[h].expires]
        /\ \A p \in Requests \ {q} : req'[p] = req[p]
    BY <1>2, <1>3 DEF HoldInv, Inv, TypeOK
  <1>5. SameRelations(q) /\ req'[q].status = req[q].status
    BY <1>2, <1>4 DEF SameRelations, RequestRow
  <1>6. RowsStay /\ NoNewRequest /\ NoNewChange
    BY <1>3, <1>4, <1>5 DEF RowsStay, NoNewRequest, NoNewChange, SameRelations
  <1>7. QED
    BY <1>3, <1>6, QuietCommitHolds

\* Rejecting what is pending.
LEMMA RejectionStays ==
    ASSUME Inv, NEW rqs \in SUBSET PendingRequests, NEW rcs \in SUBSET PendingChanges,
           req' = [q \in Requests |->
                    IF q \in rqs THEN [req[q] EXCEPT !.status = "rejected"] ELSE req[q]],
           chg' = [c \in Changes |->
                    IF c \in rcs THEN [chg[c] EXCEPT !.status = "rejected"] ELSE chg[c]]
    PROVE  RowsStay /\ NoNewRequest /\ NoNewChange
  <1>1. \A q \in rqs : req[q] \in RequestRow /\ req[q].status = "pending" /\ q \in Requests
    BY RowsTyped DEF Inv, PendingRequests
  <1>2. \A c \in rcs : chg[c] \in ChangeRow /\ chg[c].status = "pending" /\ c \in Changes
    BY RowsTyped DEF Inv, PendingChanges
  <1>3. \A q \in Requests : req[q].status # "absent" => SameRelations(q)
    BY <1>1 DEF SameRelations, RequestRow
  <1>4. \A c \in Changes : chg[c].status # "absent" => chg'[c].req = chg[c].req
    BY <1>2 DEF ChangeRow
  <1>5. NoNewRequest
    BY <1>1 DEF NoNewRequest
  <1>6. NoNewChange
    BY <1>2 DEF NoNewChange
  <1>7. QED
    BY <1>3, <1>4, <1>5, <1>6 DEF RowsStay

\* Whoever is approving a row that refers to the entity has locked the row: the
\* disable, which holds all those rows, would not have come this far.
LEMMA DisableCommitHolds ==
    ASSUME HoldInv, NEW h \in Handlers, DisableCommit(h)
    PROVE  \A k \in Handlers : HoldsFor(k)'
  <1>1. PICK e : e = tx[h].entity
    OBVIOUS
  <1>2. PICK rqs, rcs : rqs = tx[h].locks \cap Requests /\ rcs = tx[h].locks \cap Changes
    OBVIOUS
  <1>3. /\ tx[h].op = "disable" /\ tx[h].step = "commit" /\ Finish(h)
        /\ active' = active \ {e}
        /\ req' = [q \in Requests |->
                    IF q \in rqs THEN [req[q] EXCEPT !.status = "rejected"] ELSE req[q]]
        /\ chg' = [c \in Changes |->
                    IF c \in rcs THEN [chg[c] EXCEPT !.status = "rejected"] ELSE chg[c]]
    BY <1>1, <1>2 DEF DisableCommit
  <1>4. rqs \in SUBSET PendingRequests /\ rcs \in SUBSET PendingChanges
    BY <1>2, <1>3 DEF HoldInv, Inv, TransactionsIsolated, ReadsStillHold
  <1>5. RowsStay /\ NoNewRequest /\ NoNewChange
    BY <1>3, <1>4, RejectionStays DEF HoldInv
  <1>6. HoldsFor(h)' /\ \A k \in Handlers \ {h} : tx'[k] = tx[k]
    BY <1>3, IdleHolds
  <1>7. /\ e \in active => \A q \in PendingRequests : e \in Relations(req[q]) => q \in tx[h].locks
        /\ e \in active => \A c \in PendingChanges :
                req[chg[c].req].applicant = e => c \in tx[h].locks
    BY <1>1, <1>3 DEF HoldInv, HoldsFor, DisableHolds
  <1>8. ASSUME NEW k \in Handlers \ {h}
        PROVE  HoldsFor(k)'
    <2>1. tx[k].locks \cap tx[h].locks = {}
      BY DEF HoldInv, Inv, TransactionsIsolated, LocksExclusive
    <2>2. ASSUME tx[k].op = "review", tx[k].verdict = "approved",
                 NEW x \in Relations(req[tx[k].req]), x \in active
          PROVE  x \in active'
      <3>1. tx[k].req \in tx[k].locks /\ tx[k].req \in PendingRequests
        BY <2>2, TxTyped
           DEF HoldInv, Inv, TransactionsIsolated, ReadsStillHold, PendingRequests
      <3>2. x # e
        BY <1>7, <2>1, <2>2, <3>1
      <3>3. QED
        BY <1>3, <2>2, <3>2
    <2>3. ASSUME tx[k].op = "reviewChange", tx[k].verdict = "approved",
                 NEW x \in {req[chg[tx[k].chg].req].applicant}, x \in active
          PROVE  x \in active'
      <3>1. tx[k].chg \in tx[k].locks /\ tx[k].chg \in PendingChanges
        BY <2>3 DEF HoldInv, Inv, TransactionsIsolated, ReadsStillHold
      <3>2. x # e
        BY <1>7, <2>1, <2>3, <3>1
      <3>3. QED
        BY <1>3, <2>3, <3>2
    <2>4. tx[k].op = "disable" => (tx[k].entity \in active' => tx[k].entity \in active)
      BY <1>3
    <2>5. QED
      BY <1>5, <1>6, <2>2, <2>3, <2>4, HoldsStill DEF RowsStay, NoNewRequest, NoNewChange
  <1>9. QED
    BY <1>6, <1>8

LEMMA WorkerHolds ==
    ASSUME HoldInv, WorkerRejectExpired
    PROVE  \A k \in Handlers : HoldsFor(k)'
  <1>1. /\ chg' = [c \in Changes |->
                    IF c \in DueChanges THEN [chg[c] EXCEPT !.status = "rejected"] ELSE chg[c]]
        /\ UNCHANGED <<active, req, tx>>
    BY DEF WorkerRejectExpired
  <1>2. DueChanges \in SUBSET PendingChanges /\ {} \in SUBSET PendingRequests
    BY DEF DueChanges
  <1>3. req' = [q \in Requests |->
                 IF q \in {} THEN [req[q] EXCEPT !.status = "rejected"] ELSE req[q]]
    BY <1>1 DEF HoldInv, Inv, TypeOK
  <1>4. RowsStay /\ NoNewRequest /\ NoNewChange
    BY <1>1, <1>2, <1>3, RejectionStays DEF HoldInv
  <1>5. ASSUME NEW k \in Handlers
        PROVE  HoldsFor(k)'
    BY <1>1, <1>4, HoldsStill DEF RowsStay, NoNewRequest, NoNewChange
  <1>6. QED
    BY <1>5

\* An entity whose row a disable has locked is not enabled meanwhile.
LEMMA EnableHolds ==
    ASSUME HoldInv, NEW e \in Entities, Enable(e)
    PROVE  \A k \in Handlers : HoldsFor(k)'
  <1>1. /\ active' = active \cup {e} /\ UNCHANGED <<req, chg, tx>>
        /\ \A k \in Handlers : e \notin tx[k].locks
    BY DEF Enable
  <1>2. ASSUME NEW k \in Handlers
        PROVE  HoldsFor(k)'
    <2>1. tx[k].op = "disable" => tx[k].entity \in tx[k].locks
      BY DEF HoldInv, HoldsFor, DisableHolds
    <2>2. tx[k].op = "disable" => (tx[k].entity \in active' => tx[k].entity \in active)
      BY <1>1, <2>1
    <2>3. RowsStay
      BY <1>1 DEF RowsStay, SameRelations
    <2>4. QED
      BY <1>1, <2>2, <2>3, HoldsStill DEF RowsStay
  <1>3. QED
    BY <1>2

LEMMA HoldStep ==
    ASSUME HoldInv, [Next]_vars
    PROVE  HoldInv'
  <1>1. Inv'
    BY NextInv DEF HoldInv
  <1>2. ASSUME NEW h \in Handlers, \A k \in Handlers \ {h} : tx'[k] = tx[k],
               HoldsFor(h)', UNCHANGED <<active, req, chg>>
        PROVE  \A k \in Handlers : HoldsFor(k)'
    BY <1>2, HoldsByReads
  <1>3. ASSUME NEW h \in Handlers,
               \/ SubmitRead(h) \/ ReviewRead(h) \/ ProposeRead(h) \/ ReviewChangeRead(h)
               \/ DisableBegin(h) \/ ReportReceive(h)
        PROVE  \A k \in Handlers : HoldsFor(k)'
    <2>1. UNCHANGED <<active, req, chg>>
      BY <1>3 DEF SubmitRead, ReviewRead, ProposeRead, ReviewChangeRead, DisableBegin,
                  ReportReceive, db
    <2>2. PICK r : tx' = [tx EXCEPT ![h] = r]
      BY <1>3 DEF SubmitRead, ReviewRead, ProposeRead, ReviewChangeRead, DisableBegin,
                  ReportReceive, Begin
    <2>3. \A k \in Handlers \ {h} : tx'[k] = tx[k]
      BY <2>2 DEF HoldInv, Inv, TypeOK
    <2>4. QED
      BY <1>2, <1>3, <2>1, <2>3, ReadsHold
  <1>4. ASSUME NEW h \in Handlers, DisableRequests(h) \/ DisableChanges(h) \/ ReportLock(h)
        PROVE  \A k \in Handlers : HoldsFor(k)'
    <2>1. UNCHANGED <<active, req, chg>>
      BY <1>4 DEF DisableRequests, DisableChanges, DisableStatement, ReportLock, db
    <2>2. \A k \in Handlers \ {h} : tx'[k] = tx[k]
      BY <1>4 DEF DisableRequests, DisableChanges, DisableStatement, ReportLock,
                  HoldInv, Inv, TypeOK
    <2>3. QED
      BY <1>2, <1>4, <2>1, <2>2, ProceedsHold
  <1>5. ASSUME NEW h \in Handlers, Abort(h)
        PROVE  \A k \in Handlers : HoldsFor(k)'
    BY <1>2, <1>5, IdleHolds DEF Abort, db
  <1>6. ASSUME UNCHANGED <<active, req, chg, tx>>
        PROVE  \A k \in Handlers : HoldsFor(k)'
    BY <1>6, HoldsByReads
  <1>7. CASE \/ \E r \in Resources, n \in 1..MaxGpu : UpdateResource(r, n)
             \/ \E p \in Projects, us \in SUBSET Users : UpdateProject(p, us)
             \/ Tick \/ UNCHANGED vars
    <2>1. UNCHANGED <<active, req, chg, tx>>
      BY <1>7 DEF UpdateResource, UpdateProject, Tick, vars, db
    <2>2. QED
      BY <1>1, <1>6, <2>1 DEF HoldInv
  <1>8. ASSUME NEW h \in Handlers, Proceed(h)
        PROVE  \A k \in Handlers : HoldsFor(k)'
    BY <1>4, <1>5, <1>8, SubmitCommitHolds, ReviewCommitHolds, ProposeCommitHolds,
       ReviewChangeCommitHolds, DisableCommitHolds, ReportCommitHolds DEF Proceed
  <1>9. CASE Next
    <2>1. \A k \in Handlers : HoldsFor(k)'
      BY <1>3, <1>6, <1>7, <1>8, <1>9, WorkerHolds, EnableHolds
         DEF Next, UpdateResource, UpdateProject, Tick, db
    <2>2. QED
      BY <1>1, <2>1 DEF HoldInv
  <1>10. QED
    BY <1>7, <1>9

LEMMA HoldInvariant == Spec => []HoldInv
  <1>1. Init => HoldInv
    BY InitInv DEF Init, HoldInv, HoldsFor, DisableHolds, ApprovalHolds, Idle
  <1>2. HoldInv /\ [Next]_vars => HoldInv'
    BY HoldStep
  <1>3. QED
    BY <1>1, <1>2, PTL DEF Spec

\* The pairs of a row before and after the step that the property is about.
ApprovedBy(old, new) == old.status = "pending" /\ new.status = "approved"

RequestApprovalsTimely ==
    \A q \in Requests : ApprovedBy(req[q], req'[q]) => Relations(req[q]) \subseteq active
ChangeApprovalsTimely ==
    \A c \in Changes : ApprovedBy(chg[c], chg'[c]) => req[chg[c].req].applicant \in active

NoApproval ==
    /\ \A q \in Requests : ~ApprovedBy(req[q], req'[q])
    /\ \A c \in Changes : ~ApprovedBy(chg[c], chg'[c])

\* A review is the only step that approves a request.
LEMMA ReviewIsTimely ==
    ASSUME HoldInv, NEW h \in Handlers, ReviewCommit(h)
    PROVE  RequestApprovalsTimely /\ ChangeApprovalsTimely
  <1>1. PICK q : q = tx[h].req
    OBVIOUS
  <1>2. q \in Requests /\ req[q].status = "pending"
    BY <1>1, TxTyped
       DEF HoldInv, Inv, TransactionsIsolated, ReadsStillHold, ReviewCommit
  <1>3. req[q] \in RequestRow /\ req \in [Requests -> {Absent} \cup RequestRow]
    BY <1>2, RowsTyped DEF HoldInv, Inv, TypeOK
  <1>4. /\ req' = [req EXCEPT ![q].status = tx[h].verdict] /\ UNCHANGED chg
        /\ tx[h].op = "review"
    BY <1>1 DEF ReviewCommit
  <1>5. /\ req'[q] = [req[q] EXCEPT !.status = tx[h].verdict]
        /\ \A p \in Requests \ {q} : req'[p] = req[p]
    BY <1>2, <1>3, <1>4
  <1>6. req'[q].status = tx[h].verdict
    BY <1>3, <1>5 DEF RequestRow
  <1>7. tx[h].verdict = "approved" => Relations(req[q]) \subseteq active
    BY <1>1, <1>4 DEF HoldInv, HoldsFor, ApprovalHolds
  <1>8. RequestApprovalsTimely
    BY <1>5, <1>6, <1>7 DEF RequestApprovalsTimely, ApprovedBy
  <1>9. QED
    BY <1>4, <1>8 DEF ChangeApprovalsTimely, ApprovedBy

\* Nor does any but the review of a change approve one.
LEMMA ChangeReviewIsTimely ==
    ASSUME HoldInv, NEW h \in Handlers, ReviewChangeCommit(h)
    PROVE  RequestApprovalsTimely /\ ChangeApprovalsTimely
  <1>1. PICK c : c = tx[h].chg
    OBVIOUS
  <1>2. c \in PendingChanges
    BY <1>1 DEF HoldInv, Inv, TransactionsIsolated, ReadsStillHold, ReviewChangeCommit
  <1>3. c \in Changes /\ chg[c].status = "pending" /\ chg[c] \in ChangeRow
    BY <1>2, RowsTyped DEF HoldInv, Inv, PendingChanges
  <1>4. PICK q \in Requests : q = chg[c].req
    BY <1>3 DEF ChangeRow
  <1>5. req[q].status = "approved" /\ req[q] \in RequestRow
    BY <1>2, <1>4, RowsTyped DEF HoldInv, Inv, OpenChangeIsCurrent
  <1>6. /\ chg' = [chg EXCEPT ![c].status = tx[h].verdict]
        /\ req' = req \/ req' = [req EXCEPT ![q] = Applied(req[q], chg[c])]
        /\ tx[h].op = "reviewChange"
    BY <1>1, <1>4 DEF ReviewChangeCommit
  <1>7. /\ chg'[c] = [chg[c] EXCEPT !.status = tx[h].verdict]
        /\ \A d \in Changes \ {c} : chg'[d] = chg[d]
        /\ req'[q] = req[q] \/ req'[q] = Applied(req[q], chg[c])
        /\ \A p \in Requests \ {q} : req'[p] = req[p]
    BY <1>3, <1>6 DEF HoldInv, Inv, TypeOK
  <1>8. chg'[c].status = tx[h].verdict
    BY <1>3, <1>7 DEF ChangeRow
  <1>9. tx[h].verdict = "approved" => req[chg[c].req].applicant \in active
    BY <1>1, <1>6 DEF HoldInv, HoldsFor, ApprovalHolds
  <1>10. RequestApprovalsTimely
    BY <1>5, <1>7 DEF RequestApprovalsTimely, ApprovedBy
  <1>11. ChangeApprovalsTimely
    BY <1>7, <1>8, <1>9 DEF ChangeApprovalsTimely, ApprovedBy
  <1>12. QED
    BY <1>10, <1>11

\* An insertion makes a row pending, a first report and a rejection leave the
\* status of the others alone.
LEMMA InsertionApprovesNothing ==
    ASSUME Inv, NEW h \in Handlers, SubmitCommit(h) \/ ProposeCommit(h)
    PROVE  NoApproval
  <1>1. CASE SubmitCommit(h)
    <2>1. PICK q, row :
            /\ q \in Requests /\ req[q] = Absent /\ req' = [req EXCEPT ![q] = row]
      BY <1>1 DEF SubmitCommit
    <2>2. \A p \in Requests \ {q} : req'[p] = req[p]
      BY <2>1 DEF Inv, TypeOK
    <2>3. UNCHANGED chg
      BY <1>1 DEF SubmitCommit
    <2>4. QED
      BY <2>1, <2>2, <2>3 DEF NoApproval, ApprovedBy, Absent
  <1>2. CASE ProposeCommit(h)
    <2>1. PICK c, row :
            /\ c \in Changes /\ chg[c] = Absent /\ chg' = [chg EXCEPT ![c] = row]
      BY <1>2 DEF ProposeCommit
    <2>2. \A d \in Changes \ {c} : chg'[d] = chg[d]
      BY <2>1 DEF Inv, TypeOK
    <2>3. UNCHANGED req
      BY <1>2 DEF ProposeCommit
    <2>4. QED
      BY <2>1, <2>2, <2>3 DEF NoApproval, ApprovedBy, Absent
  <1>3. QED
    BY <1>1, <1>2

LEMMA ReportApprovesNothing ==
    ASSUME Inv, NEW h \in Handlers, ReportCommit(h)
    PROVE  NoApproval
  <1>1. PICK q : q = tx[h].req
    OBVIOUS
  <1>2. q \in Requests /\ req[q].status = "approved"
    BY <1>1, TxTyped DEF Inv, TransactionsIsolated, ReadsStillHold, ReportCommit
  <1>3. /\ \/ req' = req
           \/ req' = [req EXCEPT ![q].started = tx[h].at, ![q].expires = tx[h].expires]
        /\ UNCHANGED chg
    BY <1>1 DEF ReportCommit
  <1>4. \A p \in Requests \ {q} : req'[p] = req[p]
    BY <1>3 DEF Inv, TypeOK
  <1>5. QED
    BY <1>2, <1>3, <1>4 DEF NoApproval, ApprovedBy

LEMMA RejectionApprovesNothing ==
    ASSUME Inv,
           \/ \E h \in Handlers : DisableCommit(h)
           \/ WorkerRejectExpired
    PROVE  NoApproval
  <1>1. CASE \E h \in Handlers : DisableCommit(h)
    <2>1. PICK h \in Handlers : DisableCommit(h)
      BY <1>1
    <2>2. /\ tx[h].locks \cap Requests \subseteq PendingRequests
          /\ tx[h].locks \cap Changes \subseteq PendingChanges
      BY <2>1 DEF Inv, TransactionsIsolated, ReadsStillHold, DisableCommit
    <2>3. \A q \in Requests : q \in tx[h].locks => req'[q].status = "rejected"
      BY <2>1, <2>2, RowsTyped DEF DisableCommit, Inv, PendingRequests, RequestRow
    <2>4. \A c \in Changes : c \in tx[h].locks => chg'[c].status = "rejected"
      BY <2>1, <2>2, RowsTyped DEF DisableCommit, Inv, PendingChanges, ChangeRow
    <2>5. /\ \A q \in Requests : q \notin tx[h].locks => req'[q] = req[q]
          /\ \A c \in Changes : c \notin tx[h].locks => chg'[c] = chg[c]
      BY <2>1 DEF DisableCommit
    <2>6. QED
      BY <2>3, <2>4, <2>5 DEF NoApproval, ApprovedBy
  <1>2. CASE WorkerRejectExpired
    <2>1. \A c \in Changes : c \in DueChanges => chg'[c].status = "rejected"
      BY <1>2, RowsTyped DEF WorkerRejectExpired, Inv, DueChanges, PendingChanges, ChangeRow
    <2>2. UNCHANGED req /\ \A c \in Changes : c \notin DueChanges => chg'[c] = chg[c]
      BY <1>2 DEF WorkerRejectExpired
    <2>3. QED
      BY <2>1, <2>2 DEF NoApproval, ApprovedBy
  <1>3. QED
    BY <1>1, <1>2

LEMMA ApprovalsTimely ==
    HoldInv /\ [Next]_vars => RequestApprovalsTimely /\ ChangeApprovalsTimely
  <1> SUFFICES ASSUME HoldInv, [Next]_vars
               PROVE  RequestApprovalsTimely /\ ChangeApprovalsTimely
    OBVIOUS
  <1>1. ASSUME UNCHANGED <<req, chg>>
        PROVE  NoApproval
    BY <1>1 DEF NoApproval, ApprovedBy
  <1>2. ASSUME NEW h \in Handlers,
               \/ SubmitRead(h) \/ ReviewRead(h) \/ ProposeRead(h) \/ ReviewChangeRead(h)
               \/ DisableBegin(h) \/ ReportReceive(h)
        PROVE  UNCHANGED <<req, chg>>
    BY <1>2 DEF SubmitRead, ReviewRead, ProposeRead, ReviewChangeRead, DisableBegin,
                ReportReceive, db
  <1>3. ASSUME NEW h \in Handlers,
               \/ DisableRequests(h) \/ DisableChanges(h) \/ ReportLock(h) \/ Abort(h)
        PROVE  UNCHANGED <<req, chg>>
    BY <1>3 DEF DisableRequests, DisableChanges, DisableStatement, ReportLock, Abort, db
  <1>4. ASSUME \/ \E e \in Entities : Enable(e)
               \/ \E r \in Resources, n \in 1..MaxGpu : UpdateResource(r, n)
               \/ \E p \in Projects, us \in SUBSET Users : UpdateProject(p, us)
               \/ Tick
               \/ UNCHANGED vars
        PROVE  UNCHANGED <<req, chg>>
    BY <1>4 DEF Enable, UpdateResource, UpdateProject, Tick, vars, db
  <1>5. ASSUME NoApproval
        PROVE  RequestApprovalsTimely /\ ChangeApprovalsTimely
    BY <1>5 DEF NoApproval, RequestApprovalsTimely, ChangeApprovalsTimely
  <1>6. ASSUME NEW h \in Handlers, Proceed(h)
        PROVE  RequestApprovalsTimely /\ ChangeApprovalsTimely
    BY <1>1, <1>3, <1>5, <1>6, ReviewIsTimely, ChangeReviewIsTimely,
       InsertionApprovesNothing, ReportApprovesNothing, RejectionApprovesNothing
       DEF Proceed, HoldInv
  <1>7. QED
    BY <1>1, <1>2, <1>4, <1>5, <1>6, RejectionApprovesNothing DEF Next, HoldInv

\* A request becomes approved only while its applicant, project and resource are
\* active, and a change only while the applicant of its request is: the UPDATE of
\* the disabling handlers (update_user, disable_project, disable_resource) waits
\* for the row a reviewer holds, and an insertion waits for the disabled row.
THEOREM ApprovalPrecedesDisableAlways == Spec => ApprovalPrecedesDisable
  <1>1. HoldInv /\ [Next]_vars =>
            [/\ \A q \in Requests :
                    req[q].status = "pending" /\ req'[q].status = "approved"
                        => Relations(req[q]) \subseteq active
             /\ \A c \in Changes :
                    chg[c].status = "pending" /\ chg'[c].status = "approved"
                        => req[chg[c].req].applicant \in active]_vars
    BY ApprovalsTimely DEF RequestApprovalsTimely, ChangeApprovalsTimely, ApprovedBy
  <1>2. QED
    BY <1>1, HoldInvariant, PTL DEF Spec, ApprovalPrecedesDisable

-----------------------------------------------------------------------------
(* The tables keep the request contract *)

\* The contract and the proposals that the tables stand for.
ViewOf(row) ==
    IF row = Absent THEN Absent
    ELSE [status |-> row.status, gpus |-> row.gpus, days |-> row.days,
          started |-> row.started, expires |-> row.expires]

Contract ==
    [q \in Requests |->
        IF req[q] = Absent THEN Absent
        ELSE [status |-> req[q].status, gpus |-> req[q].gpus, days |-> req[q].days,
              started |-> req[q].started, expires |-> req[q].expires]]
Proposal == [q \in Requests |-> OpenProposal(q)]

OpenIn(table, q) ==
    {c \in {c \in Changes : table[c].status = "pending"} : table[c].req = q}
ProposalIn(table, q) ==
    IF OpenIn(table, q) = {} THEN Absent
    ELSE LET c == CHOOSE c \in OpenIn(table, q) : TRUE
         IN  [kind |-> table[c].kind, amount |-> table[c].amount]

LEMMA Views ==
    /\ Contract = [q \in Requests |-> ViewOf(req[q])]
    /\ Contract' = [q \in Requests |-> ViewOf(req'[q])]
    /\ Proposal = [q \in Requests |-> ProposalIn(chg, q)]
    /\ Proposal' = [q \in Requests |-> ProposalIn(chg', q)]
  <1>1. Contract = [q \in Requests |-> ViewOf(req[q])]
    BY DEF Contract, ViewOf
  <1>2. Contract' = [q \in Requests |-> ViewOf(req'[q])]
    BY DEF Contract, ViewOf
  <1>3. Proposal = [q \in Requests |-> ProposalIn(chg, q)]
    BY DEF Proposal, ProposalIn, OpenIn, OpenProposal, PendingOf, PendingChanges
  <1>4. Proposal' = [q \in Requests |-> ProposalIn(chg', q)]
    BY DEF Proposal, ProposalIn, OpenIn, OpenProposal, PendingOf, PendingChanges
  <1>5. QED
    BY <1>1, <1>2, <1>3, <1>4

\* A request without a pending change has no proposal, one with a single pending
\* change has that one's.
LEMMA NoProposal ==
    ASSUME NEW table, NEW q,
           \A c \in Changes : ~(table[c].status = "pending" /\ table[c].req = q)
    PROVE  ProposalIn(table, q) = Absent
  BY DEF ProposalIn, OpenIn

LEMMA OneProposal ==
    ASSUME NEW table, NEW q, NEW c \in Changes,
           table[c].status = "pending", table[c].req = q,
           \A d \in Changes : table[d].status = "pending" /\ table[d].req = q => d = c
    PROVE  /\ ProposalIn(table, q) = [kind |-> table[c].kind, amount |-> table[c].amount]
           /\ ProposalIn(table, q) # Absent
  <1>1. OpenIn(table, q) = {c}
    BY DEF OpenIn
  <1>2. (CHOOSE d \in OpenIn(table, q) : TRUE) = c
    BY <1>1
  <1>3. ProposalIn(table, q) = [kind |-> table[c].kind, amount |-> table[c].amount]
    BY <1>1, <1>2 DEF ProposalIn
  <1>4. DOMAIN ProposalIn(table, q) = {"kind", "amount"} /\ DOMAIN Absent = {"status"}
    BY <1>3 DEF Absent
  <1>5. QED
    BY <1>3, <1>4

\* Changes of other requests do not matter.
LEMMA SameProposal ==
    ASSUME NEW table, NEW next, NEW q,
           \A c \in Changes :
                \/ next[c] = table[c]
                \/ /\ ~(table[c].status = "pending" /\ table[c].req = q)
                   /\ ~(next[c].status = "pending" /\ next[c].req = q)
    PROVE  ProposalIn(next, q) = ProposalIn(table, q)
  <1>1. OpenIn(next, q) = OpenIn(table, q)
    BY DEF OpenIn
  <1>2. CASE OpenIn(table, q) = {}
    BY <1>1, <1>2 DEF ProposalIn
  <1>3. CASE OpenIn(table, q) # {}
    <2>1. PICK c : c = CHOOSE d \in OpenIn(table, q) : TRUE
      OBVIOUS
    <2>2. c \in OpenIn(table, q)
      BY <1>3, <2>1
    <2>3. next[c] = table[c]
      BY <2>2 DEF OpenIn
    <2>4. QED
      BY <1>1, <1>3, <2>1, <2>3 DEF ProposalIn
  <1>4. QED
    BY <1>2, <1>3

\* The pending change of a request is its proposal.
LEMMA PendingIsProposal ==
    ASSUME Inv, NEW c \in PendingChanges
    PROVE  /\ c \in Changes /\ chg[c].status = "pending" /\ chg[c] \in ChangeRow
           /\ chg[c].req \in Requests
           /\ Proposal[chg[c].req] = [kind |-> chg[c].kind, amount |-> chg[c].amount]
           /\ Proposal[chg[c].req] # Absent
  <1>1. c \in Changes /\ chg[c].status = "pending" /\ chg[c] \in ChangeRow
    BY RowsTyped DEF Inv, PendingChanges
  <1>2. chg[c].req \in Requests
    BY <1>1 DEF ChangeRow
  <1>3. PendingOf(chg[c].req) = {c}
    BY DEF Inv, OpenChangeIsCurrent
  <1>4. \A d \in Changes : chg[d].status = "pending" /\ chg[d].req = chg[c].req => d = c
    BY <1>3 DEF PendingOf, PendingChanges
  <1>5. Proposal[chg[c].req] = ProposalIn(chg, chg[c].req)
    BY <1>2, Views
  <1>6. QED
    BY <1>1, <1>2, <1>4, <1>5, OneProposal

LEMMA AbsentRow ==
    ASSUME NEW row \in RequestRow
    PROVE  row # Absent
  BY DEF RequestRow, Absent, Verdicts

LEMMA AbsentView ==
    ASSUME NEW row \in RequestRow
    PROVE  /\ ViewOf(row) # Absent
           /\ ViewOf(row) = [status |-> row.status, gpus |-> row.gpus, days |-> row.days,
                             started |-> row.started, expires |-> row.expires]
  <1>1. ViewOf(row) = [status |-> row.status, gpus |-> row.gpus, days |-> row.days,
                       started |-> row.started, expires |-> row.expires]
    BY AbsentRow DEF ViewOf
  <1>2. DOMAIN ViewOf(row) = {"status", "gpus", "days", "started", "expires"}
        /\ DOMAIN Absent = {"status"}
    BY <1>1 DEF Absent
  <1>3. QED
    BY <1>1, <1>2

-----------------------------------------------------------------------------
(* The actions of the contract, in terms of the two views *)

LEMMA ContractStutters ==
    ASSUME UNCHANGED <<req, chg>>
    PROVE  UNCHANGED Promise!cvars
  <1>1. UNCHANGED Contract /\ UNCHANGED Proposal
    BY Views
  <1>2. QED
    BY <1>1 DEF Promise!cvars, Contract, Proposal

LEMMA ContractSubmits ==
    ASSUME NEW q \in Requests, Contract[q] = Absent,
           NEW g \in 1..(MaxGpu + MaxDays), NEW d \in 1..(MaxGpu + MaxDays),
           Contract' = [Contract EXCEPT ![q] =
                [status |-> "pending", gpus |-> g, days |-> d,
                 started |-> Never, expires |-> Never]],
           Proposal' = Proposal
    PROVE  Promise!Next
  <1>1. Promise!Submit(q)
    BY DEF Promise!Submit, Contract, Proposal
  <1>2. QED
    BY <1>1 DEF Promise!Next

LEMMA ContractApproves ==
    ASSUME NEW q \in Requests, Contract[q] # Absent, Contract[q].status = "pending",
           Contract' = [Contract EXCEPT ![q].status = "approved"],
           Proposal' = Proposal
    PROVE  Promise!Next
  <1>1. Promise!Approve(q)
    BY DEF Promise!Approve, Promise!Open, Contract, Proposal
  <1>2. QED
    BY <1>1 DEF Promise!Next

LEMMA ContractRejects ==
    ASSUME NEW qs \in SUBSET Requests, NEW ps \in SUBSET Requests,
           \A q \in qs : Contract[q] # Absent /\ Contract[q].status = "pending",
           \A q \in ps : Proposal[q] # Absent,
           Contract' = [q \in Requests |->
                IF q \in qs THEN [Contract[q] EXCEPT !.status = "rejected"] ELSE Contract[q]],
           Proposal' = [q \in Requests |-> IF q \in ps THEN Absent ELSE Proposal[q]]
    PROVE  Promise!Next
  <1>1. Promise!Reject(qs, ps)
    BY DEF Promise!Reject, Promise!Open, Contract, Proposal
  <1>2. QED
    BY <1>1 DEF Promise!Next

LEMMA ContractStarts ==
    ASSUME NEW q \in Requests, NEW t \in 0..MaxTime,
           Contract[q] # Absent, Contract[q].status = "approved",
           Contract[q].started = Never,
           Contract' = [Contract EXCEPT ![q].started = t,
                                        ![q].expires = t + Contract[q].days],
           Proposal' = Proposal
    PROVE  Promise!Next
  <1>1. Promise!Start(q)
    BY DEF Promise!Start, Contract, Proposal
  <1>2. QED
    BY <1>1 DEF Promise!Next

LEMMA ContractProposes ==
    ASSUME NEW q \in Requests, NEW kind \in Kinds, NEW amount \in 1..(MaxGpu + MaxDays),
           Contract[q] # Absent, Contract[q].started # Never,
           Proposal[q] = Absent,
           kind = "release" => amount < Contract[q].gpus,
           Proposal' = [Proposal EXCEPT ![q] = [kind |-> kind, amount |-> amount]],
           Contract' = Contract
    PROVE  Promise!Next
  <1>1. Promise!Propose(q)
    BY DEF Promise!Propose, Contract, Proposal
  <1>2. QED
    BY <1>1 DEF Promise!Next

LEMMA ContractAccepts ==
    ASSUME NEW q \in Requests, Proposal[q] # Absent,
           Contract' = [Contract EXCEPT ![q] = Promise!Amended(Contract[q], Proposal[q])],
           Proposal' = [Proposal EXCEPT ![q] = Absent]
    PROVE  Promise!Next
  <1>1. Promise!Accept(q)
    BY DEF Promise!Accept, Contract, Proposal
  <1>2. QED
    BY <1>1 DEF Promise!Next

-----------------------------------------------------------------------------
(* Every commit is a step of the contract *)

LEMMA SubmitCommitIsSubmit ==
    ASSUME BoundInv, NEW h \in Handlers, SubmitCommit(h)
    PROVE  Promise!Next
  <1>1. PICK row : row = tx[h].row
    OBVIOUS
  <1>2. PICK q \in Requests : req[q] = Absent /\ req' = [req EXCEPT ![q] = row]
    BY <1>1 DEF SubmitCommit
  <1>3. row \in RequestRow
    BY <1>1, TxTyped DEF SubmitCommit, BoundInv, Inv
  <1>4. PICK g \in 1..(MaxGpu + MaxDays), d \in 1..(MaxGpu + MaxDays) :
            g = row.gpus /\ d = row.days
    BY <1>1 DEF SubmitCommit, BoundInv, InBounds
  <1>5. row.status = "pending" /\ row.started = Never /\ row.expires = Never
    BY <1>1 DEF SubmitCommit, BoundInv, Inv, TransactionsIsolated, ReadsStillHold
  <1>6. UNCHANGED chg
    BY DEF SubmitCommit
  <1>7. ViewOf(row) = [status |-> "pending", gpus |-> g, days |-> d,
                       started |-> Never, expires |-> Never]
    BY <1>3, <1>4, <1>5, AbsentView
  <1>8. \A p \in Requests : req'[p] = IF p = q THEN row ELSE req[p]
    BY <1>2 DEF BoundInv, Inv, TypeOK
  <1>9. Contract[q] = Absent
    BY <1>2, Views DEF ViewOf
  <1>10. Contract' = [Contract EXCEPT ![q] =
            [status |-> "pending", gpus |-> g, days |-> d,
             started |-> Never, expires |-> Never]]
    BY <1>7, <1>8, Views
  <1>11. Proposal' = Proposal
    BY <1>6, Views
  <1>12. QED
    BY <1>9, <1>10, <1>11, ContractSubmits

\* Rejecting pending requests and pending changes, whoever does it.
LEMMA RejectionIsReject ==
    ASSUME Inv, NEW rqs \in SUBSET PendingRequests, NEW rcs \in SUBSET PendingChanges,
           req' = [q \in Requests |->
                    IF q \in rqs THEN [req[q] EXCEPT !.status = "rejected"] ELSE req[q]],
           chg' = [c \in Changes |->
                    IF c \in rcs THEN [chg[c] EXCEPT !.status = "rejected"] ELSE chg[c]]
    PROVE  Promise!Next
  <1>1. PICK ps : ps = {chg[c].req : c \in rcs}
    OBVIOUS
  <1>2. rqs \in SUBSET Requests
        /\ \A q \in rqs : req[q] \in RequestRow /\ req[q].status = "pending"
    BY RowsTyped DEF Inv, PendingRequests
  <1>3. \A c \in rcs : /\ c \in Changes /\ chg[c].status = "pending" /\ chg[c] \in ChangeRow
                       /\ chg[c].req \in Requests /\ Proposal[chg[c].req] # Absent
                       /\ c \in PendingChanges
    BY PendingIsProposal
  <1>4. ps \in SUBSET Requests /\ \A q \in ps : Proposal[q] # Absent
    BY <1>1, <1>3
  <1>5. \A q \in rqs : Contract[q] # Absent /\ Contract[q].status = "pending"
    <2>1. SUFFICES ASSUME NEW q \in rqs
                   PROVE  Contract[q] # Absent /\ Contract[q].status = "pending"
      OBVIOUS
    <2>2. Contract[q] = ViewOf(req[q]) /\ req[q] \in RequestRow
      BY <1>2, Views
    <2>3. QED
      BY <1>2, <2>2, AbsentView
  <1>6. \A q \in Requests :
            ViewOf(req'[q]) = IF q \in rqs THEN [ViewOf(req[q]) EXCEPT !.status = "rejected"]
                              ELSE ViewOf(req[q])
    <2>1. SUFFICES ASSUME NEW q \in Requests
                   PROVE  ViewOf(req'[q]) =
                            IF q \in rqs THEN [ViewOf(req[q]) EXCEPT !.status = "rejected"]
                            ELSE ViewOf(req[q])
      OBVIOUS
    <2>2. CASE q \in rqs
      <3>1. PICK new : new = [req[q] EXCEPT !.status = "rejected"]
        OBVIOUS
      <3>2. req'[q] = new /\ req[q] \in RequestRow
        BY <1>2, <2>2, <3>1
      <3>3. new \in RequestRow /\ new.status = "rejected" /\ new.gpus = req[q].gpus
            /\ new.days = req[q].days /\ new.started = req[q].started
            /\ new.expires = req[q].expires
        BY <3>1, <3>2 DEF RequestRow, Verdicts
      <3>4. ViewOf(new) = [status |-> "rejected", gpus |-> req[q].gpus,
                           days |-> req[q].days, started |-> req[q].started,
                           expires |-> req[q].expires]
        BY <3>3, AbsentView
      <3>5. ViewOf(req[q]) = [status |-> req[q].status, gpus |-> req[q].gpus,
                              days |-> req[q].days, started |-> req[q].started,
                              expires |-> req[q].expires]
        BY <3>2, AbsentView
      <3>6. QED
        BY <2>2, <3>2, <3>4, <3>5
    <2>3. CASE q \notin rqs
      BY <2>3
    <2>4. QED
      BY <2>2, <2>3
  <1>7. Contract' = [q \in Requests |->
            IF q \in rqs THEN [Contract[q] EXCEPT !.status = "rejected"] ELSE Contract[q]]
    BY <1>6, Views
  <1>8. \A c \in Changes :
            chg'[c] = IF c \in rcs THEN [chg[c] EXCEPT !.status = "rejected"] ELSE chg[c]
    OBVIOUS
  <1>9. \A c \in rcs : chg'[c].status = "rejected" /\ chg'[c].req = chg[c].req
    BY <1>3, <1>8 DEF ChangeRow
  <1>10. \A q \in Requests :
            ProposalIn(chg', q) = IF q \in ps THEN Absent ELSE ProposalIn(chg, q)
    <2>1. SUFFICES ASSUME NEW q \in Requests
                   PROVE  ProposalIn(chg', q) =
                            IF q \in ps THEN Absent ELSE ProposalIn(chg, q)
      OBVIOUS
    <2>2. CASE q \in ps
      <3>1. PICK c \in rcs : chg[c].req = q
        BY <1>1, <2>2
      <3>2. PendingOf(q) = {c}
        BY <1>3, <3>1 DEF Inv, OpenChangeIsCurrent
      <3>3. \A d \in Changes : chg[d].status = "pending" /\ chg[d].req = q => d = c
        BY <3>2 DEF PendingOf, PendingChanges
      <3>4. \A d \in Changes : ~(chg'[d].status = "pending" /\ chg'[d].req = q)
        BY <1>8, <1>9, <3>3
      <3>5. ProposalIn(chg', q) = Absent
        BY <3>4, NoProposal
      <3>6. QED
        BY <2>2, <3>5
    <2>3. CASE q \notin ps
      <3>1. \A c \in rcs : chg[c].req # q
        BY <1>1, <2>3
      <3>2. \A c \in Changes :
                \/ chg'[c] = chg[c]
                \/ /\ ~(chg[c].status = "pending" /\ chg[c].req = q)
                   /\ ~(chg'[c].status = "pending" /\ chg'[c].req = q)
        BY <1>8, <1>9, <3>1
      <3>3. ProposalIn(chg', q) = ProposalIn(chg, q)
        BY <3>2, SameProposal
      <3>4. QED
        BY <2>3, <3>3
    <2>4. QED
      BY <2>2, <2>3
  <1>11. Proposal' = [q \in Requests |-> IF q \in ps THEN Absent ELSE Proposal[q]]
    BY <1>10, Views
  <1>12. QED
    BY <1>2, <1>4, <1>5, <1>7, <1>11, ContractRejects

LEMMA ReviewCommitKeepsContract ==
    ASSUME Inv, NEW h \in Handlers, ReviewCommit(h)
    PROVE  Promise!Next
  <1>1. PICK q : q = tx[h].req
    OBVIOUS
  <1>2. q \in Requests /\ req[q].status = "pending" /\ tx[h].verdict \in Verdicts
    BY <1>1, TxTyped DEF Inv, TransactionsIsolated, ReadsStillHold, ReviewCommit
  <1>3. req[q] \in RequestRow /\ q \in PendingRequests
    BY <1>2, RowsTyped DEF Inv, PendingRequests
  <1>4. req' = [req EXCEPT ![q].status = tx[h].verdict] /\ UNCHANGED chg
    BY <1>1 DEF ReviewCommit
  <1>5. CASE tx[h].verdict = "rejected"
    <2>1. PICK rqs, rcs : rqs = {q} /\ rcs = {}
      OBVIOUS
    <2>2. req' = [p \in Requests |->
                    IF p \in rqs THEN [req[p] EXCEPT !.status = "rejected"] ELSE req[p]]
      BY <1>2, <1>4, <1>5, <2>1 DEF Inv, TypeOK
    <2>3. chg' = [c \in Changes |->
                    IF c \in rcs THEN [chg[c] EXCEPT !.status = "rejected"] ELSE chg[c]]
      BY <1>4, <2>1 DEF Inv, TypeOK
    <2>4. rqs \in SUBSET PendingRequests /\ rcs \in SUBSET PendingChanges
      BY <1>3, <2>1
    <2>5. QED
      BY <2>2, <2>3, <2>4, RejectionIsReject
  <1>6. CASE tx[h].verdict = "approved"
    <2>1. PICK new : new = [req[q] EXCEPT !.status = "approved"]
      OBVIOUS
    <2>2. /\ req'[q] = new
          /\ \A p \in Requests \ {q} : req'[p] = req[p]
      BY <1>2, <1>4, <1>6, <2>1 DEF Inv, TypeOK
    <2>3. new \in RequestRow /\ new.status = "approved" /\ new.gpus = req[q].gpus
          /\ new.days = req[q].days /\ new.started = req[q].started
          /\ new.expires = req[q].expires
      BY <1>3, <2>1 DEF RequestRow, Verdicts
    <2>4. ViewOf(new) = [status |-> "approved", gpus |-> req[q].gpus,
                         days |-> req[q].days, started |-> req[q].started,
                         expires |-> req[q].expires]
      BY <2>3, AbsentView
    <2>5. /\ ViewOf(req[q]) = [status |-> req[q].status, gpus |-> req[q].gpus,
                               days |-> req[q].days, started |-> req[q].started,
                               expires |-> req[q].expires]
          /\ ViewOf(req[q]) # Absent
      BY <1>3, AbsentView
    <2>6. ViewOf(req'[q]) = [ViewOf(req[q]) EXCEPT !.status = "approved"]
      BY <2>2, <2>4, <2>5
    <2>7. Contract[q] = ViewOf(req[q])
      BY <1>2, Views
    <2>8. Contract' = [Contract EXCEPT ![q].status = "approved"]
      BY <1>2, <2>2, <2>6, <2>7, Views
    <2>9. Proposal' = Proposal
      BY <1>4, Views
    <2>10. Contract[q] # Absent /\ Contract[q].status = "pending"
      BY <1>2, <2>5, <2>7
    <2>11. QED
      BY <1>2, <2>8, <2>9, <2>10, ContractApproves
  <1>7. QED
    BY <1>2, <1>5, <1>6 DEF Verdicts

LEMMA ProposeCommitIsPropose ==
    ASSUME BoundInv, NEW h \in Handlers, ProposeCommit(h)
    PROVE  Promise!Next
  <1>1. PICK row : row = tx[h].row
    OBVIOUS
  <1>2. row \in ChangeRow
    BY <1>1, TxTyped DEF ProposeCommit, BoundInv, Inv
  <1>3. PICK q \in Requests, kind \in Kinds, amount \in Nat :
            q = row.req /\ kind = row.kind /\ amount = row.amount
    BY <1>2 DEF ChangeRow
  <1>4. /\ row.status = "pending"
        /\ req[q].status = "approved" /\ req[q].started # Never
        /\ row.after = ValueAfter(q, kind, amount)
    BY <1>1, <1>3
       DEF ProposeCommit, BoundInv, Inv, TransactionsIsolated, ReadsStillHold
  <1>5. req[q] \in RequestRow
    BY <1>4, RowsTyped DEF BoundInv, Inv
  <1>6. amount \in 1..(MaxGpu + MaxDays) /\ (kind = "release" => row.after >= 1)
    BY <1>1, <1>3 DEF ProposeCommit, BoundInv, InBounds
  <1>7. kind = "release" => amount < req[q].gpus
    <2>1. SUFFICES ASSUME kind = "release" PROVE amount < req[q].gpus
      OBVIOUS
    <2>2. row.after = req[q].gpus - amount /\ row.after >= 1
      BY <1>4, <1>6, <2>1 DEF ValueAfter, ValueBefore
    <2>3. req[q].gpus \in Nat
      BY <1>5 DEF RequestRow
    <2>4. QED
      BY <2>2, <2>3
  <1>8. PICK c \in Changes : chg[c] = Absent /\ chg' = [chg EXCEPT ![c] = row]
    BY <1>1 DEF ProposeCommit
  <1>9. PendingOf(q) = {} /\ UNCHANGED req
    BY <1>1, <1>3 DEF ProposeCommit
  <1>10. chg'[c] = row /\ \A d \in Changes \ {c} : chg'[d] = chg[d]
    BY <1>8 DEF BoundInv, Inv, TypeOK
  <1>11. \A d \in Changes : ~(chg[d].status = "pending" /\ chg[d].req = q)
    BY <1>9 DEF PendingOf, PendingChanges
  <1>12. ProposalIn(chg, q) = Absent
    BY <1>11, NoProposal
  <1>13. ProposalIn(chg', q) = [kind |-> kind, amount |-> amount]
    <2>1. chg'[c].status = "pending" /\ chg'[c].req = q
      BY <1>3, <1>4, <1>10
    <2>2. \A d \in Changes : chg'[d].status = "pending" /\ chg'[d].req = q => d = c
      BY <1>10, <1>11
    <2>3. PICK table : table = chg'
      OBVIOUS
    <2>4. ProposalIn(table, q) = [kind |-> table[c].kind, amount |-> table[c].amount]
      BY <2>1, <2>2, <2>3, OneProposal
    <2>5. QED
      BY <1>3, <1>10, <2>3, <2>4
  <1>14. ASSUME NEW p \in Requests \ {q}
         PROVE  ProposalIn(chg', p) = ProposalIn(chg, p)
    <2>1. \A d \in Changes :
                \/ chg'[d] = chg[d]
                \/ /\ ~(chg[d].status = "pending" /\ chg[d].req = p)
                   /\ ~(chg'[d].status = "pending" /\ chg'[d].req = p)
      BY <1>3, <1>8, <1>10, <1>14 DEF Absent
    <2>2. QED
      BY <2>1, SameProposal
  <1>15. Proposal[q] = Absent
    BY <1>12, Views
  <1>16. Proposal' = [Proposal EXCEPT ![q] = [kind |-> kind, amount |-> amount]]
    BY <1>13, <1>14, Views
  <1>17. Contract' = Contract
    BY <1>9, Views
  <1>18. Contract[q] # Absent /\ Contract[q].started # Never
         /\ Contract[q].gpus = req[q].gpus
    <2>1. Contract[q] = ViewOf(req[q])
      BY Views
    <2>2. QED
      BY <1>4, <1>5, <2>1, AbsentView
  <1>19. QED
    BY <1>6, <1>7, <1>15, <1>16, <1>17, <1>18, ContractProposes

\* The values a change carries, applied, are its proposal applied to what the
\* request has now.
LEMMA AppliedIsAmended ==
    ASSUME Inv, NEW c \in PendingChanges, NEW q \in Requests, q = chg[c].req
    PROVE  /\ Applied(req[q], chg[c]) \in RequestRow
           /\ ViewOf(Applied(req[q], chg[c])) =
                Promise!Amended(Contract[q], [kind |-> chg[c].kind, amount |-> chg[c].amount])
  <1>1. chg[c] \in ChangeRow
    BY PendingIsProposal
  <1>2. PICK kind \in Kinds, amount \in Nat, after \in Nat :
            kind = chg[c].kind /\ amount = chg[c].amount /\ after = chg[c].after
    BY <1>1 DEF ChangeRow
  <1>3. /\ req[q].status = "approved" /\ req[q].started # Never
        /\ after = ValueAfter(q, kind, amount)
    BY <1>2 DEF Inv, OpenChangeIsCurrent
  <1>4. PICK row \in RequestRow : row = req[q]
    BY <1>3, RowsTyped DEF Inv
  <1>5. row.expires \in Nat /\ row # Absent
    BY <1>3, <1>4, RunningClock, AbsentRow
  <1>6. row.gpus \in Nat /\ row.days \in Nat
    BY DEF RequestRow
  <1>7. Contract[q] = [status |-> row.status, gpus |-> row.gpus, days |-> row.days,
                       started |-> row.started, expires |-> row.expires]
    BY <1>4, Views, AbsentView
  <1>8. PICK p : p = [kind |-> kind, amount |-> amount]
    OBVIOUS
  <1>9. p.kind = kind /\ p.amount = amount
    BY <1>8
  <1>10. PICK old : old = Contract[q]
    OBVIOUS
  <1>11. PICK new : new = Applied(row, chg[c])
    OBVIOUS
  <1>12. CASE kind = "extend"
    <2>1. after = row.days + amount
      BY <1>3, <1>4, <1>12 DEF ValueAfter, ValueBefore
    <2>2. PICK end \in Nat : end = row.expires + amount /\ row.expires # Never
      BY <1>5 DEF Never
    <2>3. new = [row EXCEPT !.days = after, !.expires = end]
      BY <1>2, <1>11, <1>12, <2>2 DEF Applied
    <2>4. PICK longer : longer = [row EXCEPT !.days = after]
      OBVIOUS
    <2>5. new = [longer EXCEPT !.expires = end]
      BY <2>3, <2>4
    <2>6. longer \in RequestRow /\ longer.status = row.status /\ longer.gpus = row.gpus
           /\ longer.days = after /\ longer.started = row.started
      BY <2>4 DEF RequestRow
    <2>7. /\ new \in RequestRow /\ new.status = row.status /\ new.gpus = row.gpus
          /\ new.days = after /\ new.started = row.started
          /\ new.expires = row.expires + amount
      BY <2>2, <2>5, <2>6 DEF RequestRow
    <2>8. ViewOf(new) = [status |-> row.status, gpus |-> row.gpus,
                         days |-> row.days + amount, started |-> row.started,
                         expires |-> row.expires + amount]
      BY <2>1, <2>7, AbsentView
    <2>9. Promise!Amended(old, p) =
            [old EXCEPT !.days = @ + p.amount, !.expires = @ + p.amount]
      BY <1>9, <1>12 DEF Promise!Amended
    <2>10. PICK mid : mid = [old EXCEPT !.days = @ + p.amount]
      OBVIOUS
    <2>11. mid = [status |-> row.status, gpus |-> row.gpus, days |-> row.days + amount,
                  started |-> row.started, expires |-> row.expires]
      BY <1>7, <1>9, <1>10, <2>10
    <2>12. Promise!Amended(old, p) = [mid EXCEPT !.expires = @ + p.amount]
      BY <1>7, <1>10, <2>9, <2>10
    <2>13. ViewOf(new) = Promise!Amended(old, p)
      BY <1>9, <2>8, <2>11, <2>12
    <2>14. QED
      BY <1>2, <1>4, <1>8, <1>10, <1>11, <2>7, <2>13
  <1>13. CASE kind = "expand"
    <2>1. after = row.gpus + amount
      BY <1>3, <1>4, <1>13 DEF ValueAfter, ValueBefore
    <2>2. new = [row EXCEPT !.gpus = after]
      BY <1>2, <1>11, <1>13 DEF Applied
    <2>3. /\ new \in RequestRow /\ new.status = row.status /\ new.gpus = after
          /\ new.days = row.days /\ new.started = row.started
          /\ new.expires = row.expires
      BY <2>2 DEF RequestRow
    <2>4. ViewOf(new) = [status |-> row.status, gpus |-> row.gpus + amount,
                         days |-> row.days, started |-> row.started,
                         expires |-> row.expires]
      BY <2>1, <2>3, AbsentView
    <2>5. Promise!Amended(old, p) = [old EXCEPT !.gpus = @ + p.amount]
      BY <1>9, <1>13 DEF Promise!Amended
    <2>6. ViewOf(new) = Promise!Amended(old, p)
      BY <1>7, <1>9, <1>10, <2>4, <2>5
    <2>7. QED
      BY <1>2, <1>4, <1>8, <1>10, <1>11, <2>3, <2>6
  <1>14. CASE kind = "release"
    <2>1. after = row.gpus - amount
      BY <1>3, <1>4, <1>14 DEF ValueAfter, ValueBefore
    <2>2. new = [row EXCEPT !.gpus = after]
      BY <1>2, <1>11, <1>14 DEF Applied
    <2>3. /\ new \in RequestRow /\ new.status = row.status /\ new.gpus = after
          /\ new.days = row.days /\ new.started = row.started
          /\ new.expires = row.expires
      BY <2>2 DEF RequestRow
    <2>4. ViewOf(new) = [status |-> row.status, gpus |-> row.gpus - amount,
                         days |-> row.days, started |-> row.started,
                         expires |-> row.expires]
      BY <2>1, <2>3, AbsentView
    <2>5. Promise!Amended(old, p) = [old EXCEPT !.gpus = @ - p.amount]
      BY <1>9, <1>14 DEF Promise!Amended
    <2>6. ViewOf(new) = Promise!Amended(old, p)
      BY <1>7, <1>9, <1>10, <2>4, <2>5
    <2>7. QED
      BY <1>2, <1>4, <1>8, <1>10, <1>11, <2>3, <2>6
  <1>15. QED
    BY <1>12, <1>13, <1>14 DEF Kinds

LEMMA ReviewChangeCommitKeepsContract ==
    ASSUME Inv, NEW h \in Handlers, ReviewChangeCommit(h)
    PROVE  Promise!Next
  <1>1. PICK c : c = tx[h].chg
    OBVIOUS
  <1>2. c \in PendingChanges /\ tx[h].verdict \in Verdicts
    BY <1>1, TxTyped
       DEF Inv, TransactionsIsolated, ReadsStillHold, ReviewChangeCommit
  <1>3. /\ c \in Changes /\ chg[c].status = "pending" /\ chg[c] \in ChangeRow
        /\ chg[c].req \in Requests
    BY <1>2, PendingIsProposal
  <1>4. PICK q \in Requests : q = chg[c].req
    BY <1>3
  <1>5. /\ chg' = [chg EXCEPT ![c].status = tx[h].verdict]
        /\ req' = IF tx[h].verdict = "approved"
                  THEN [req EXCEPT ![q] = Applied(req[q], chg[c])] ELSE req
    BY <1>1, <1>4 DEF ReviewChangeCommit
  <1>6. CASE tx[h].verdict = "rejected"
    <2>1. PICK rqs, rcs : rqs = {} /\ rcs = {c}
      OBVIOUS
    <2>2. req' = [p \in Requests |->
                    IF p \in rqs THEN [req[p] EXCEPT !.status = "rejected"] ELSE req[p]]
      BY <1>5, <1>6, <2>1 DEF Inv, TypeOK
    <2>3. chg' = [d \in Changes |->
                    IF d \in rcs THEN [chg[d] EXCEPT !.status = "rejected"] ELSE chg[d]]
      BY <1>3, <1>5, <1>6, <2>1 DEF Inv, TypeOK
    <2>4. rqs \in SUBSET PendingRequests /\ rcs \in SUBSET PendingChanges
      BY <1>2, <2>1
    <2>5. QED
      BY <2>2, <2>3, <2>4, RejectionIsReject
  <1>7. CASE tx[h].verdict = "approved"
    <2>1. PICK new : new = Applied(req[q], chg[c])
      OBVIOUS
    <2>2. \A p \in Requests : req'[p] = IF p = q THEN new ELSE req[p]
      BY <1>5, <1>7, <2>1 DEF Inv, TypeOK
    <2>3. PICK p : p = [kind |-> chg[c].kind, amount |-> chg[c].amount]
      OBVIOUS
    <2>4. Proposal[q] = p /\ Proposal[q] # Absent
      BY <1>2, <1>4, <2>3, PendingIsProposal
    <2>5. ViewOf(new) = Promise!Amended(Contract[q], Proposal[q])
      BY <1>2, <1>4, <2>1, <2>3, <2>4, AppliedIsAmended
    <2>6. Contract' = [Contract EXCEPT ![q] = Promise!Amended(Contract[q], Proposal[q])]
      <3>1. PICK view : view = Promise!Amended(Contract[q], Proposal[q])
        OBVIOUS
      <3>2. Contract' = [Contract EXCEPT ![q] = view]
        BY <2>2, <2>5, <3>1, Views
      <3>3. QED
        BY <3>1, <3>2
    <2>7. /\ chg'[c].status = "approved"
          /\ \A d \in Changes \ {c} : chg'[d] = chg[d]
          /\ chg'[c].req = q
      BY <1>3, <1>4, <1>5, <1>7 DEF Inv, TypeOK, ChangeRow
    <2>8. PendingOf(q) = {c}
      BY <1>2, <1>4 DEF Inv, OpenChangeIsCurrent
    <2>9. \A d \in Changes : chg[d].status = "pending" /\ chg[d].req = q => d = c
      BY <2>8 DEF PendingOf, PendingChanges
    <2>10. \A d \in Changes : ~(chg'[d].status = "pending" /\ chg'[d].req = q)
      BY <2>7, <2>9
    <2>11. ProposalIn(chg', q) = Absent
      BY <2>10, NoProposal
    <2>12. ASSUME NEW r \in Requests \ {q}
           PROVE  ProposalIn(chg', r) = ProposalIn(chg, r)
      <3>1. \A d \in Changes :
                \/ chg'[d] = chg[d]
                \/ /\ ~(chg[d].status = "pending" /\ chg[d].req = r)
                   /\ ~(chg'[d].status = "pending" /\ chg'[d].req = r)
        BY <1>4, <2>7, <2>12
      <3>2. QED
        BY <3>1, SameProposal
    <2>13. Proposal' = [Proposal EXCEPT ![q] = Absent]
      BY <2>11, <2>12, Views
    <2>14. QED
      BY <2>4, <2>6, <2>13, ContractAccepts
  <1>8. QED
    BY <1>2, <1>6, <1>7 DEF Verdicts

\* A report that found the clock stopped starts it, any other changes nothing.
LEMMA ReportCommitKeepsContract ==
    ASSUME BoundInv, NEW h \in Handlers, ReportCommit(h)
    PROVE  [Promise!Next]_(Promise!cvars)
  <1>1. PICK q, t, expires : q = tx[h].req /\ t = tx[h].at /\ expires = tx[h].expires
    OBVIOUS
  <1>2. q \in Requests /\ t \in Nat /\ expires \in Nat \cup {Never}
    BY <1>1, TxTyped DEF BoundInv, Inv, ReportCommit
  <1>3. UNCHANGED chg
    BY DEF ReportCommit
  <1>4. CASE expires = Never
    <2>1. UNCHANGED req
      BY <1>1, <1>4 DEF ReportCommit
    <2>2. QED
      BY <1>3, <2>1, ContractStutters
  <1>5. CASE expires # Never
    <2>1. /\ req[q].started = Never /\ req[q].status = "approved"
          /\ expires = t + req[q].days
      BY <1>1, <1>5 DEF BoundInv, Inv, TransactionsIsolated, ReadsStillHold, ReportCommit
    <2>2. req[q] \in RequestRow
      BY <1>2, <2>1, RowsTyped DEF BoundInv, Inv
    <2>3. t \in 0..MaxTime
      BY <1>1, <1>2, BoundsAssumption DEF BoundInv, InBounds, ReportCommit
    <2>4. PICK new : new = [req[q] EXCEPT !.started = t, !.expires = expires]
      OBVIOUS
    <2>5. req' = [req EXCEPT ![q].started = t, ![q].expires = expires]
      BY <1>1, <1>5 DEF ReportCommit
    <2>6. \A p \in Requests : req'[p] = IF p = q THEN new ELSE req[p]
      BY <1>2, <2>4, <2>5 DEF BoundInv, Inv, TypeOK
    <2>7. /\ new \in RequestRow /\ new.status = req[q].status /\ new.gpus = req[q].gpus
          /\ new.days = req[q].days /\ new.started = t /\ new.expires = expires
      BY <1>2, <2>2, <2>4 DEF RequestRow
    <2>8. ViewOf(new) = [status |-> req[q].status, gpus |-> req[q].gpus,
                         days |-> req[q].days, started |-> t, expires |-> expires]
      BY <2>7, AbsentView
    <2>9. /\ ViewOf(req[q]) = [status |-> req[q].status, gpus |-> req[q].gpus,
                               days |-> req[q].days, started |-> req[q].started,
                               expires |-> req[q].expires]
          /\ ViewOf(req[q]) # Absent
      BY <2>2, AbsentView
    <2>10. Contract[q] = ViewOf(req[q])
      BY <1>2, Views
    <2>11. Contract[q] # Absent /\ Contract[q].status = "approved"
           /\ Contract[q].started = Never /\ Contract[q].days = req[q].days
      BY <2>1, <2>9, <2>10
    <2>12. ViewOf(new) = [Contract[q] EXCEPT !.started = t, !.expires = t + Contract[q].days]
      <3>1. PICK old, days : old = Contract[q] /\ days = Contract[q].days
        OBVIOUS
      <3>2. old = [status |-> req[q].status, gpus |-> req[q].gpus, days |-> days,
                   started |-> req[q].started, expires |-> req[q].expires]
        BY <2>9, <2>10, <2>11, <3>1
      <3>3. PICK mid : mid = [old EXCEPT !.started = t]
        OBVIOUS
      <3>4. mid = [status |-> req[q].status, gpus |-> req[q].gpus, days |-> days,
                   started |-> t, expires |-> req[q].expires]
        BY <3>2, <3>3
      <3>5. [mid EXCEPT !.expires = expires] = ViewOf(new)
        BY <2>8, <2>11, <3>1, <3>4
      <3>6. [mid EXCEPT !.expires = expires] =
                [old EXCEPT !.started = t, !.expires = expires]
        BY <3>2, <3>3
      <3>7. expires = t + days
        BY <2>1, <2>11, <3>1
      <3>8. QED
        BY <3>1, <3>5, <3>6, <3>7
    <2>13. Contract' = [Contract EXCEPT ![q] = ViewOf(new)]
      BY <2>6, Views
    <2>14. Contract' = [Contract EXCEPT ![q].started = t,
                                        ![q].expires = t + Contract[q].days]
      <3>1. \A p \in Requests :
                Contract'[p] = [Contract EXCEPT ![q].started = t,
                                    ![q].expires = t + Contract[q].days][p]
        BY <1>2, <2>12, <2>13, Views
      <3>2. QED
        BY <3>1, Views
    <2>15. Proposal' = Proposal
      BY <1>3, Views
    <2>16. Promise!Next
      BY <1>2, <2>3, <2>11, <2>14, <2>15, ContractStarts
    <2>17. QED
      BY <2>16
  <1>6. QED
    BY <1>4, <1>5

LEMMA RejectionsKeepContract ==
    ASSUME Inv,
           \/ \E h \in Handlers : DisableCommit(h)
           \/ WorkerRejectExpired
    PROVE  Promise!Next
  <1>1. CASE \E h \in Handlers : DisableCommit(h)
    <2>1. PICK h \in Handlers : DisableCommit(h)
      BY <1>1
    <2>2. PICK rqs, rcs : rqs = tx[h].locks \cap Requests /\ rcs = tx[h].locks \cap Changes
      OBVIOUS
    <2>3. rqs \in SUBSET PendingRequests /\ rcs \in SUBSET PendingChanges
      BY <2>1, <2>2 DEF Inv, TransactionsIsolated, ReadsStillHold, DisableCommit
    <2>4. /\ req' = [q \in Requests |->
                    IF q \in rqs THEN [req[q] EXCEPT !.status = "rejected"] ELSE req[q]]
          /\ chg' = [c \in Changes |->
                    IF c \in rcs THEN [chg[c] EXCEPT !.status = "rejected"] ELSE chg[c]]
      BY <2>1, <2>2 DEF DisableCommit
    <2>5. QED
      BY <2>3, <2>4, RejectionIsReject
  <1>2. CASE WorkerRejectExpired
    <2>1. PICK rqs, rcs : rqs = {} /\ rcs = DueChanges
      OBVIOUS
    <2>2. rqs \in SUBSET PendingRequests /\ rcs \in SUBSET PendingChanges
      BY <2>1 DEF DueChanges
    <2>3. req' = [q \in Requests |->
                    IF q \in rqs THEN [req[q] EXCEPT !.status = "rejected"] ELSE req[q]]
      BY <1>2, <2>1 DEF WorkerRejectExpired, Inv, TypeOK
    <2>4. chg' = [c \in Changes |->
                    IF c \in rcs THEN [chg[c] EXCEPT !.status = "rejected"] ELSE chg[c]]
      BY <1>2, <2>1 DEF WorkerRejectExpired
    <2>5. QED
      BY <2>2, <2>3, <2>4, RejectionIsReject
  <1>3. QED
    BY <1>1, <1>2

LEMMA InitKeepsContract == Init => Promise!Init
  <1> SUFFICES ASSUME Init PROVE Promise!Init
    OBVIOUS
  <1>1. \A q \in Requests : req[q] = Absent
    BY DEF Init
  <1>2. \A c \in Changes : chg[c].status = "absent"
    BY DEF Init, Absent
  <1>3. Contract = [q \in Requests |-> Absent]
    BY <1>1, Views DEF ViewOf
  <1>4. ASSUME NEW q \in Requests PROVE ProposalIn(chg, q) = Absent
    BY <1>2, NoProposal
  <1>5. Proposal = [q \in Requests |-> Absent]
    BY <1>4, Views
  <1>6. QED
    BY <1>3, <1>5 DEF Promise!Init, Contract, Proposal

LEMMA StepsKeepContract == BoundInv /\ [Next]_vars => [Promise!Next]_(Promise!cvars)
  <1> SUFFICES ASSUME BoundInv, [Next]_vars PROVE [Promise!Next]_(Promise!cvars)
    OBVIOUS
  <1>1. ASSUME NEW h \in Handlers,
               \/ SubmitRead(h) \/ ReviewRead(h) \/ ProposeRead(h) \/ ReviewChangeRead(h)
               \/ DisableBegin(h) \/ ReportReceive(h)
        PROVE  UNCHANGED <<req, chg>>
    BY <1>1 DEF SubmitRead, ReviewRead, ProposeRead, ReviewChangeRead, DisableBegin,
                ReportReceive, db
  <1>2. ASSUME NEW h \in Handlers,
               \/ DisableRequests(h) \/ DisableChanges(h) \/ ReportLock(h) \/ Abort(h)
        PROVE  UNCHANGED <<req, chg>>
    BY <1>2 DEF DisableRequests, DisableChanges, DisableStatement, ReportLock, Abort, db
  <1>3. ASSUME \/ \E e \in Entities : Enable(e)
               \/ \E r \in Resources, n \in 1..MaxGpu : UpdateResource(r, n)
               \/ \E p \in Projects, us \in SUBSET Users : UpdateProject(p, us)
               \/ Tick
               \/ UNCHANGED vars
        PROVE  UNCHANGED <<req, chg>>
    BY <1>3 DEF Enable, UpdateResource, UpdateProject, Tick, vars, db
  <1>4. ASSUME NEW h \in Handlers, Proceed(h)
        PROVE  [Promise!Next]_(Promise!cvars)
    BY <1>2, <1>4, ContractStutters, SubmitCommitIsSubmit, ReviewCommitKeepsContract,
       ProposeCommitIsPropose, ReviewChangeCommitKeepsContract, ReportCommitKeepsContract,
       RejectionsKeepContract
       DEF Proceed, BoundInv
  <1>5. QED
    BY <1>1, <1>3, <1>4, ContractStutters, RejectionsKeepContract DEF Next, BoundInv

\* The tables implement the request contract: of everything the handlers, the
\* collector and the worker do with their locks and copies of values
\* (routers/compute_requests.py, services.py, worker.py), what a commit makes
\* visible is one decision, one start, one proposal or one acceptance, applied to
\* what was granted at that moment.
THEOREM ContractKept == Spec => KeepsContract
  <1>1. Init => Promise!Init
    BY InitKeepsContract
  <1>2. BoundInv /\ [Next]_vars => [Promise!Next]_(Promise!cvars)
    BY StepsKeepContract
  <1>3. QED
    BY <1>1, <1>2, BoundInvariant, PTL DEF Spec, KeepsContract, Promise!Spec

=============================================================================
