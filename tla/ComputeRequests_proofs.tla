----------------------- MODULE ComputeRequests_proofs -----------------------
(***************************************************************************)
(* Proofs about ComputeRequests for every number of users, projects,       *)
(* resources, requests, changes and concurrent transactions: the invariant *)
(* of the tables and of what transactions rely on, and that what a request *)
(* grants is the sum of what its audit trail says.                         *)
(***************************************************************************)
EXTENDS ComputeRequests, TLAPS, FiniteSetTheorems, WellFoundedInduction

\* The inductive invariant: what the tables promise (the last two conjuncts)
\* rests on what every transaction in flight may still rely on.
Inv ==
    /\ TypeOK
    /\ TransactionsIsolated
    /\ ClockMatchesGrant
    /\ OpenChangeIsCurrent

-----------------------------------------------------------------------------
(* Reading the type invariant *)

\* What the type of a transaction record says of each kind of transaction.
LEMMA TxTyped ==
    ASSUME TypeOK, NEW h \in Handlers
    PROVE  /\ tx[h].locks \subseteq Lockable
           /\ tx[h].op = "submit" => tx[h].row \in RequestRow
           /\ tx[h].op = "review" => tx[h].req \in Requests /\ tx[h].verdict \in Verdicts
           /\ tx[h].op = "propose" => tx[h].row \in ChangeRow
           /\ tx[h].op = "reviewChange" => tx[h].chg \in Changes /\ tx[h].verdict \in Verdicts
           /\ tx[h].op = "disable" => tx[h].entity \in Entities
           /\ tx[h].op \in {"receive", "report"} =>
                /\ tx[h].req \in Requests /\ tx[h].at \in Nat
                /\ tx[h].expires \in Nat \cup {Never}
           /\ tx[h].op \in {"idle", "submit", "review", "propose", "reviewChange",
                            "disable", "receive", "report"}
  <1>1. tx[h] \in TxRecord
    BY DEF TypeOK
  <1>2. QED
    BY <1>1 DEF TxRecord, Idle

\* A row that is not absent has all its columns.
LEMMA RowsTyped ==
    ASSUME TypeOK
    PROVE  /\ \A q \in Requests : req[q].status # "absent" => req[q] \in RequestRow
           /\ \A c \in Changes : chg[c].status # "absent" => chg[c] \in ChangeRow
           /\ \A q \in Requests : req[q] = Absent \/ req[q] \in RequestRow
           /\ \A c \in Changes : chg[c] = Absent \/ chg[c] \in ChangeRow
  BY DEF TypeOK, Absent

\* Replacing one transaction by a well-typed record keeps the type of tx.
LEMMA TxReplaced ==
    ASSUME TypeOK, NEW h \in Handlers, NEW record \in TxRecord,
           tx' = [tx EXCEPT ![h] = record]
    PROVE  tx' \in [Handlers -> TxRecord]
  BY DEF TypeOK

-----------------------------------------------------------------------------
(* What other transactions rely on *)

\* A transaction that did not move still may rely on what it read if the rows
\* it has locked did not change (those that exist), approved requests stay approved on their
\* resource, and the request whose clock it is about to start was not touched.
LEMMA Undisturbed ==
    ASSUME Inv, NEW k \in Handlers, tx'[k] = tx[k],
           \A q \in Requests :
                q \in tx[k].locks /\ req[q].status # "absent" => req'[q] = req[q],
           \A c \in Changes :
                c \in tx[k].locks /\ chg[c].status # "absent" => chg'[c] = chg[c],
           \A q \in Requests : req[q].status = "approved" =>
                req'[q].status = "approved" /\ req'[q].resource = req[q].resource,
           tx[k].op = "report" /\ tx[k].expires # Never =>
                /\ req'[tx[k].req].started = req[tx[k].req].started
                /\ req'[tx[k].req].days = req[tx[k].req].days
    PROVE  ReadsStillHold(k)'
  <1>1. ReadsStillHold(k) /\ TypeOK
    BY DEF Inv, TransactionsIsolated
  <1>2. CASE tx[k].op \in {"idle", "submit"}
    BY <1>1, <1>2 DEF ReadsStillHold
  <1>3. CASE tx[k].op = "review"
    BY <1>1, <1>3, TxTyped DEF ReadsStillHold
  <1>4. CASE tx[k].op = "propose"
    <2>1. tx[k].row.req \in Requests
      BY <1>1, <1>4, TxTyped DEF ChangeRow
    <2>2. QED
      BY <1>1, <1>4, <2>1 DEF ReadsStillHold, ValueBefore, ValueAfter
  <1>5. CASE tx[k].op = "reviewChange"
    BY <1>1, <1>5, TxTyped DEF ReadsStillHold, PendingChanges
  <1>6. CASE tx[k].op = "disable"
    BY <1>1, <1>6 DEF ReadsStillHold, PendingChanges, PendingRequests
  <1>7. CASE tx[k].op = "receive"
    BY <1>1, <1>7, TxTyped DEF ReadsStillHold
  <1>8. CASE tx[k].op = "report"
    BY <1>1, <1>8, TxTyped DEF ReadsStillHold, Advisory
  <1>9. QED
    BY <1>1, <1>2, <1>3, <1>4, <1>5, <1>6, <1>7, <1>8, TxTyped

\* The tables did not change: nothing a resting transaction relies on did.
LEMMA UndisturbedByReads ==
    ASSUME Inv, NEW k \in Handlers, tx'[k] = tx[k], UNCHANGED <<req, chg>>
    PROVE  ReadsStillHold(k)'
  BY Undisturbed

\* Locks are taken only on rows no other transaction holds, or given up.
LEMMA LocksStayExclusive ==
    ASSUME Inv, NEW h \in Handlers, tx' \in [Handlers -> TxRecord],
           \A k \in Handlers \ {h} : tx'[k] = tx[k],
           NEW rows, tx'[h].locks \subseteq tx[h].locks \cup rows, Unlocked(h, rows)
    PROVE  LocksExclusive'
  BY DEF Inv, TransactionsIsolated, LocksExclusive, Unlocked

\* A step that only reads: the handler's new record is all there is to check.
LEMMA ReadStep ==
    ASSUME Inv, NEW h \in Handlers, NEW record \in TxRecord,
           tx' = [tx EXCEPT ![h] = record], UNCHANGED <<db, now>>,
           NEW rows, record.locks \subseteq tx[h].locks \cup rows, Unlocked(h, rows),
           ReadsStillHold(h)'
    PROVE  Inv'
  <1> USE DEF db
  <1>1. tx' \in [Handlers -> TxRecord] /\ tx'[h] = record
    BY TxReplaced DEF Inv, TypeOK
  <1>2. \A k \in Handlers \ {h} : tx'[k] = tx[k]
    BY DEF Inv, TypeOK
  <1>3. TypeOK'
    BY <1>1 DEF Inv, TypeOK
  <1>4. LocksExclusive'
    BY <1>1, <1>2, LocksStayExclusive
  <1>5. \A k \in Handlers : ReadsStillHold(k)'
    BY <1>2, UndisturbedByReads
  <1>6. ClockMatchesGrant' /\ OpenChangeIsCurrent'
    BY DEF Inv, ClockMatchesGrant, OpenChangeIsCurrent, PendingOf, PendingChanges,
           ValueBefore, ValueAfter
  <1>7. QED
    BY <1>3, <1>4, <1>5, <1>6 DEF Inv, TransactionsIsolated

\* A step that ends a transaction gives its locks up.
LEMMA CommitStep ==
    ASSUME Inv, NEW h \in Handlers, Finish(h), TypeOK',
           \A k \in Handlers \ {h} : ReadsStillHold(k)'
    PROVE  TransactionsIsolated'
  <1>1. tx'[h] = Idle /\ \A k \in Handlers \ {h} : tx'[k] = tx[k]
    BY DEF Finish, Inv, TypeOK
  <1>2. LocksExclusive'
    BY <1>1 DEF Inv, TransactionsIsolated, LocksExclusive, Idle
  <1>3. ReadsStillHold(h)'
    BY <1>1 DEF ReadsStillHold, Idle
  <1>4. QED
    BY <1>2, <1>3 DEF TransactionsIsolated

\* The type of tx when a transaction ends.
LEMMA FinishTyped ==
    ASSUME TypeOK, NEW h \in Handlers, Finish(h)
    PROVE  tx' \in [Handlers -> TxRecord]
  BY DEF TypeOK, Finish, TxRecord

-----------------------------------------------------------------------------
(* The steps that read and lock *)

LEMMA SubmitReadKeeps ==
    ASSUME Inv, NEW h \in Handlers, SubmitRead(h)
    PROVE  Inv'
  <1>1. PICK u \in Users, p \in Projects, r \in Resources, g \in 1..MaxGpu, d \in 1..MaxDays :
            Begin(h, [op |-> "submit", locks |-> {},
                      row |-> [status |-> "pending", applicant |-> u, project |-> p,
                               resource |-> r, gpus |-> g, days |-> d,
                               started |-> Never, expires |-> Never]])
    BY DEF SubmitRead
  <1> DEFINE row == [status |-> "pending", applicant |-> u, project |-> p,
                     resource |-> r, gpus |-> g, days |-> d,
                     started |-> Never, expires |-> Never]
             record == [op |-> "submit", locks |-> {}, row |-> row]
  <1>2. g \in Nat /\ d \in Nat /\ g >= 1 /\ d >= 1
    BY BoundsAssumption
  <1>3. record \in TxRecord
    BY <1>2 DEF TxRecord, RequestRow
  <1>4. tx' = [tx EXCEPT ![h] = record] /\ UNCHANGED <<db, now>>
    BY <1>1 DEF Begin, SubmitRead
  <1>5. ReadsStillHold(h)'
    <2>1. tx'[h] = record
      BY <1>4 DEF Inv, TypeOK
    <2>2. QED
      BY <2>1, <1>2 DEF ReadsStillHold
  <1>6. Unlocked(h, {})
    BY DEF Unlocked
  <1>7. record.locks \subseteq tx[h].locks \cup {}
    OBVIOUS
  <1> HIDE DEF record
  <1>8. QED
    BY <1>3, <1>4, <1>5, <1>6, <1>7, ReadStep

LEMMA ReviewReadKeeps ==
    ASSUME Inv, NEW h \in Handlers, ReviewRead(h)
    PROVE  Inv'
  <1>1. PICK q \in PendingRequests, verdict \in Verdicts :
            /\ Unlocked(h, ReviewLocks(q))
            /\ Begin(h, [op |-> "review", locks |-> ReviewLocks(q), req |-> q,
                         verdict |-> verdict])
    BY DEF ReviewRead
  <1> DEFINE record == [op |-> "review", locks |-> ReviewLocks(q), req |-> q,
                        verdict |-> verdict]
  <1>2. q \in Requests /\ req[q].status = "pending"
    BY DEF PendingRequests
  <1>3. record \in TxRecord
    BY <1>2 DEF TxRecord, ReviewLocks, Lockable
  <1>4. tx' = [tx EXCEPT ![h] = record] /\ UNCHANGED <<db, now>>
    BY <1>1 DEF Begin, ReviewRead
  <1>5. ReadsStillHold(h)'
    <2>1. tx'[h] = record
      BY <1>4 DEF Inv, TypeOK
    <2>2. QED
      BY <2>1, <1>2, <1>4 DEF ReadsStillHold, ReviewLocks, db
  <1>6. record.locks \subseteq tx[h].locks \cup ReviewLocks(q)
    OBVIOUS
  <1> HIDE DEF record
  <1>7. QED
    BY <1>1, <1>3, <1>4, <1>5, <1>6, ReadStep

LEMMA ProposeReadKeeps ==
    ASSUME Inv, NEW h \in Handlers, ProposeRead(h)
    PROVE  Inv'
  <1>1. PICK q \in Requests, kind \in Kinds, amount \in 1..(MaxGpu + MaxDays) :
            /\ req[q].status = "approved"
            /\ Unlocked(h, ProposeLocks(q))
            /\ HasReported(q)
            /\ ValueAllowed(q, kind, ValueAfter(q, kind, amount))
            /\ Begin(h, [op |-> "propose", locks |-> ProposeLocks(q),
                         row |-> [status |-> "pending", req |-> q, kind |-> kind,
                                  amount |-> amount, before |-> ValueBefore(q, kind),
                                  after |-> ValueAfter(q, kind, amount)]])
            /\ UNCHANGED <<db, now>>
    BY Zenon DEF ProposeRead
  <1> DEFINE row == [status |-> "pending", req |-> q, kind |-> kind,
                     amount |-> amount, before |-> ValueBefore(q, kind),
                     after |-> ValueAfter(q, kind, amount)]
             record == [op |-> "propose", locks |-> ProposeLocks(q), row |-> row]
  <1>2. req[q] \in RequestRow
    BY <1>1, RowsTyped DEF Inv
  <1>3. amount \in Nat /\ amount >= 1
    BY BoundsAssumption
  <1>4. ValueBefore(q, kind) \in Nat
    BY <1>2 DEF ValueBefore, RequestRow
  <1>5. ValueAfter(q, kind, amount) \in Nat
    BY <1>1, <1>3, <1>4 DEF ValueAfter, ValueAllowed
  <1>6. row \in ChangeRow
    BY <1>3, <1>4, <1>5 DEF ChangeRow
  <1>7. record \in TxRecord
    BY <1>6 DEF TxRecord, ProposeLocks, Lockable
  <1>8. tx' = [tx EXCEPT ![h] = record]
    BY <1>1 DEF Begin
  <1>9. ReadsStillHold(h)'
    <2>1. tx'[h] = record
      BY <1>8 DEF Inv, TypeOK
    <2>2. ValueBefore(q, kind)' = ValueBefore(q, kind)
          /\ ValueAfter(q, kind, amount)' = ValueAfter(q, kind, amount)
      BY <1>1 DEF db, ValueBefore, ValueAfter
    <2>3. req' = req
      BY <1>1 DEF db
    <2>4. QED
      BY <2>1, <2>2, <2>3, <1>1 DEF ReadsStillHold, ProposeLocks, HasReported
  <1>10. record.locks \subseteq tx[h].locks \cup ProposeLocks(q)
    OBVIOUS
  <1> HIDE DEF record
  <1>11. QED
    BY <1>1, <1>7, <1>8, <1>9, <1>10, ReadStep

LEMMA ReviewChangeReadKeeps ==
    ASSUME Inv, NEW h \in Handlers, ReviewChangeRead(h)
    PROVE  Inv'
  <1>1. PICK c \in PendingChanges, verdict \in Verdicts :
            /\ Unlocked(h, ReviewChangeLocks(c))
            /\ Begin(h, [op |-> "reviewChange", locks |-> ReviewChangeLocks(c),
                         chg |-> c, verdict |-> verdict])
            /\ UNCHANGED <<db, now>>
    BY DEF ReviewChangeRead, Verdicts
  <1> DEFINE record == [op |-> "reviewChange", locks |-> ReviewChangeLocks(c),
                        chg |-> c, verdict |-> verdict]
  <1>2. c \in Changes /\ chg[c] \in ChangeRow
    BY RowsTyped DEF Inv, PendingChanges
  <1>3. record \in TxRecord
    BY <1>2 DEF TxRecord, ReviewChangeLocks, Lockable, ChangeRow
  <1>4. tx' = [tx EXCEPT ![h] = record]
    BY <1>1 DEF Begin
  <1>5. ReadsStillHold(h)'
    <2>1. tx'[h] = record
      BY <1>4 DEF Inv, TypeOK
    <2>2. chg' = chg
      BY <1>1 DEF db
    <2>3. QED
      BY <2>1, <2>2 DEF ReadsStillHold, ReviewChangeLocks, PendingChanges
  <1>6. record.locks \subseteq tx[h].locks \cup ReviewChangeLocks(c)
    OBVIOUS
  <1> HIDE DEF record
  <1>7. QED
    BY <1>1, <1>3, <1>4, <1>5, <1>6, ReadStep

LEMMA DisableBeginKeeps ==
    ASSUME Inv, NEW h \in Handlers, DisableBegin(h)
    PROVE  Inv'
  <1>1. PICK e \in Entities, step \in {"requests", "commit"} :
            /\ Unlocked(h, {e})
            /\ Begin(h, [op |-> "disable", locks |-> {e}, entity |-> e, step |-> step])
            /\ UNCHANGED <<db, now>>
    BY DEF DisableBegin
  <1> DEFINE record == [op |-> "disable", locks |-> {e}, entity |-> e, step |-> step]
  <1>2. record \in TxRecord
    BY DEF TxRecord, Lockable
  <1>3. tx' = [tx EXCEPT ![h] = record]
    BY <1>1 DEF Begin
  <1>4. ReadsStillHold(h)'
    <2>1. tx'[h] = record
      BY <1>3 DEF Inv, TypeOK
    <2>2. e \notin Requests /\ e \notin Changes
      BY RowsAssumption
    <2>3. QED
      BY <2>1, <2>2 DEF ReadsStillHold
  <1>5. record.locks \subseteq tx[h].locks \cup {e}
    OBVIOUS
  <1> HIDE DEF record
  <1>6. QED
    BY <1>1, <1>2, <1>3, <1>4, <1>5, ReadStep

\* Both UPDATE statements of the disabling transaction.
LEMMA DisableStatementKeeps ==
    ASSUME Inv, NEW h \in Handlers, NEW step,
           NEW next \in {"changes", "commit"},
           NEW rows \in (SUBSET PendingRequests) \cup (SUBSET PendingChanges),
           DisableStatement(h, step, next, rows)
    PROVE  Inv'
  <1> DEFINE record == [tx[h] EXCEPT !.step = next, !.locks = @ \cup rows]
  <1>1. tx[h].op = "disable" /\ Unlocked(h, rows) /\ UNCHANGED <<db, now>>
    BY DEF DisableStatement
  <1>2. tx' = [tx EXCEPT ![h] = record]
    BY DEF DisableStatement
  <1>3. rows \subseteq Lockable
    BY DEF PendingRequests, PendingChanges, Lockable
  <1>4. tx[h] \in [op: {"disable"}, locks: SUBSET Lockable, entity: Entities,
                   step: {"requests", "changes", "commit"}]
    BY <1>1 DEF Inv, TypeOK, TxRecord, Idle
  <1>5. record \in TxRecord /\ record.op = "disable" /\ record.locks = tx[h].locks \cup rows
    BY <1>3, <1>4 DEF TxRecord
  <1>6. ReadsStillHold(h)'
    <2>1. tx'[h] = record
      BY <1>2 DEF Inv, TypeOK
    <2>2. rows \cap Requests \subseteq PendingRequests /\ rows \cap Changes \subseteq PendingChanges
      BY RowsAssumption DEF PendingRequests, PendingChanges
    <2>3. /\ tx[h].locks \cap Requests \subseteq PendingRequests
          /\ tx[h].locks \cap Changes \subseteq PendingChanges
      BY <1>1 DEF Inv, TransactionsIsolated, ReadsStillHold
    <2>4. PendingRequests' = PendingRequests /\ PendingChanges' = PendingChanges
      BY <1>1 DEF db, PendingRequests, PendingChanges
    <2> HIDE DEF record
    <2>5. QED
      BY <2>1, <2>2, <2>3, <2>4, <1>5 DEF ReadsStillHold
  <1> HIDE DEF record
  <1>7. QED
    BY <1>1, <1>2, <1>5, <1>6, ReadStep

LEMMA ReportReceiveKeeps ==
    ASSUME Inv, NEW h \in Handlers, ReportReceive(h)
    PROVE  Inv'
  <1>1. PICK q \in Requests :
            /\ req[q].status = "approved"
            /\ Begin(h, [op |-> "receive", locks |-> {}, req |-> q,
                         at |-> now, expires |-> Never])
            /\ UNCHANGED <<db, now>>
    BY DEF ReportReceive
  <1> DEFINE record == [op |-> "receive", locks |-> {}, req |-> q,
                        at |-> now, expires |-> Never]
  <1>2. record \in TxRecord
    BY DEF TxRecord, Inv, TypeOK
  <1>3. tx' = [tx EXCEPT ![h] = record]
    BY <1>1 DEF Begin
  <1>4. ReadsStillHold(h)'
    <2>1. tx'[h] = record /\ req' = req
      BY <1>1, <1>3 DEF Inv, TypeOK, db
    <2>2. QED
      BY <2>1, <1>1 DEF ReadsStillHold
  <1>5. Unlocked(h, {}) /\ record.locks \subseteq tx[h].locks \cup {}
    BY DEF Unlocked
  <1> HIDE DEF record
  <1>6. QED
    BY <1>1, <1>2, <1>3, <1>4, <1>5, ReadStep

LEMMA ReportLockKeeps ==
    ASSUME Inv, NEW h \in Handlers, ReportLock(h)
    PROVE  Inv'
  <1> DEFINE q == tx[h].req
             expires == IF req[q].started = Never THEN tx[h].at + req[q].days ELSE Never
             record == [tx[h] EXCEPT !.op = "report", !.locks = ReportLocks(q),
                                     !.expires = expires]
  <1>1. tx[h].op = "receive" /\ Unlocked(h, ReportLocks(q)) /\ UNCHANGED <<db, now>>
    BY DEF ReportLock
  <1>2. tx' = [tx EXCEPT ![h] = record]
    BY DEF ReportLock
  <1>3. tx[h] \in [op: {"receive", "report"}, locks: SUBSET Lockable, req: Requests,
                   at: Nat, expires: Nat \cup {Never}]
    BY <1>1 DEF Inv, TypeOK, TxRecord, Idle
  <1>4. req[q].status = "approved" /\ req[q] \in RequestRow
    BY <1>1, <1>3, RowsTyped DEF Inv, TransactionsIsolated, ReadsStillHold
  <1>5. expires \in Nat \cup {Never}
    BY <1>3, <1>4 DEF RequestRow
  <1>6. ReportLocks(q) \subseteq Lockable
    BY <1>4 DEF ReportLocks, Lockable, RequestRow
  <1>7. /\ record \in TxRecord /\ record.op = "report" /\ record.req = q
        /\ record.at = tx[h].at
        /\ record.expires = expires /\ record.locks = ReportLocks(q)
    BY <1>3, <1>5, <1>6 DEF TxRecord
  <1>8. ReadsStillHold(h)'
    <2>1. tx'[h] = record /\ req' = req
      BY <1>1, <1>2 DEF Inv, TypeOK, db
    <2>2. Advisory(req[q].resource) \in ReportLocks(q)
      BY DEF ReportLocks
    <2> HIDE DEF record
    <2>3. QED
      BY <2>1, <2>2, <1>4, <1>7 DEF ReadsStillHold
  <1> HIDE DEF record
  <1>9. record.locks \subseteq tx[h].locks \cup ReportLocks(q)
    BY <1>7
  <1>10. QED
    BY <1>1, <1>2, <1>7, <1>8, <1>9, ReadStep

-----------------------------------------------------------------------------
(* The steps that commit *)

LEMMA SubmitCommitKeeps ==
    ASSUME Inv, NEW h \in Handlers, SubmitCommit(h)
    PROVE  Inv'
  <1> DEFINE row == tx[h].row
  <1>1. PICK q \in Requests :
            /\ req[q] = Absent
            /\ req' = [req EXCEPT ![q] = row]
            /\ asked' = [asked EXCEPT ![q] = [gpus |-> row.gpus, days |-> row.days]]
    BY DEF SubmitCommit
  <1>2. /\ tx[h].op = "submit" /\ Finish(h)
        /\ UNCHANGED <<active, members, capacity, chg, now>>
    BY DEF SubmitCommit
  <1>3. /\ row \in RequestRow /\ row.status = "pending"
        /\ row.started = Never /\ row.expires = Never
    BY <1>2, TxTyped DEF Inv, TransactionsIsolated, ReadsStillHold
  <1>4. TypeOK'
    <2>1. req' \in [Requests -> {Absent} \cup RequestRow]
      BY <1>1, <1>3 DEF Inv, TypeOK
    <2>2. asked' \in [Requests -> [gpus: Nat, days: Nat]]
      BY <1>1, <1>3 DEF Inv, TypeOK, RequestRow
    <2>3. QED
      BY <2>1, <2>2, <1>2, FinishTyped DEF Inv, TypeOK
  <1>5. /\ req[q].status = "absent" /\ req'[q] = row
        /\ \A p \in Requests \ {q} : req'[p] = req[p]
    BY <1>1 DEF Absent, Inv, TypeOK
  <1>6. \A k \in Handlers \ {h} : ReadsStillHold(k)'
    <2>1. SUFFICES ASSUME NEW k \in Handlers \ {h} PROVE ReadsStillHold(k)'
      OBVIOUS
    <2>2. tx'[k] = tx[k]
      BY <1>2 DEF Finish, Inv, TypeOK
    <2>3. tx[k].op = "report" => tx[k].req # q
      BY <1>5 DEF Inv, TransactionsIsolated, ReadsStillHold
    <2>4. tx[k].op = "report" => tx[k].req \in Requests
      BY TxTyped DEF Inv
    <2>5. QED
      BY <2>2, <2>3, <2>4, <1>2, <1>5, Undisturbed
  <1>7. ClockMatchesGrant'
    BY <1>3, <1>5 DEF Inv, ClockMatchesGrant
  <1>8. OpenChangeIsCurrent'
    <2>1. \A c \in PendingChanges : chg[c].req # q /\ chg[c].req \in Requests
      BY <1>5, RowsTyped DEF Inv, OpenChangeIsCurrent, PendingChanges, ChangeRow
    <2>2. PendingChanges' = PendingChanges
      BY <1>2 DEF PendingChanges
    <2>3. QED
      BY <2>1, <2>2, <1>2, <1>5
         DEF Inv, OpenChangeIsCurrent, PendingOf, ValueBefore, ValueAfter
  <1>9. QED
    BY <1>2, <1>4, <1>6, <1>7, <1>8, CommitStep DEF Inv

LEMMA ReviewCommitKeeps ==
    ASSUME Inv, NEW h \in Handlers, ReviewCommit(h)
    PROVE  Inv'
  <1> DEFINE q == tx[h].req
  <1>1. /\ tx[h].op = "review" /\ Finish(h)
        /\ req' = [req EXCEPT ![q].status = tx[h].verdict]
        /\ UNCHANGED <<active, members, capacity, chg, asked, now>>
    BY DEF ReviewCommit
  <1>2. /\ q \in Requests /\ tx[h].verdict \in Verdicts
        /\ q \in tx[h].locks /\ req[q].status = "pending"
    BY <1>1, TxTyped DEF Inv, TransactionsIsolated, ReadsStillHold
  <1>3. req[q] \in RequestRow
    BY <1>2, RowsTyped DEF Inv
  <1>4. req' \in [Requests -> {Absent} \cup RequestRow]
    <2>1. [req[q] EXCEPT !.status = tx[h].verdict] \in RequestRow
      BY <1>2, <1>3 DEF RequestRow
    <2>2. QED
      BY <2>1, <1>1 DEF Inv, TypeOK
  <1>5. TypeOK'
    BY <1>1, <1>4, FinishTyped DEF Inv, TypeOK
  <1>6. /\ req'[q] = [req[q] EXCEPT !.status = tx[h].verdict]
        /\ \A p \in Requests \ {q} : req'[p] = req[p]
    BY <1>1, <1>2 DEF Inv, TypeOK
  <1>7. \A k \in Handlers \ {h} : ReadsStillHold(k)'
    <2>1. SUFFICES ASSUME NEW k \in Handlers \ {h} PROVE ReadsStillHold(k)'
      OBVIOUS
    <2>2. tx'[k] = tx[k]
      BY <1>1 DEF Finish, Inv, TypeOK
    <2>3. q \notin tx[k].locks
      BY <1>2 DEF Inv, TransactionsIsolated, LocksExclusive
    <2>4. tx[k].op = "report" => tx[k].req # q /\ tx[k].req \in Requests
      BY <1>2, TxTyped DEF Inv, TransactionsIsolated, ReadsStillHold
    <2>5. QED
      BY <2>2, <2>3, <2>4, <1>1, <1>2, <1>6, Undisturbed
  <1>8. ClockMatchesGrant'
    <2>1. SUFFICES ASSUME NEW p \in Requests, req'[p] # Absent
                   PROVE  (IF req[p].started = Never
                           THEN req[p].expires = Never
                           ELSE /\ req[p].status = "approved"
                                /\ req[p].expires = req[p].started + req[p].days)'
      BY DEF ClockMatchesGrant
    <2>2. CASE p = q
      <3>1. req[q].started = Never /\ req[q].expires = Never
        BY <1>2, <1>3 DEF Inv, ClockMatchesGrant, Absent
      <3>2. QED
        BY <2>2, <3>1, <1>3, <1>6 DEF RequestRow
    <2>3. CASE p # q
      BY <2>1, <2>3, <1>6 DEF Inv, ClockMatchesGrant
    <2>4. QED
      BY <2>2, <2>3
  <1>9. OpenChangeIsCurrent'
    <2>1. \A c \in PendingChanges : chg[c].req # q /\ chg[c].req \in Requests
      BY <1>2, RowsTyped DEF Inv, OpenChangeIsCurrent, PendingChanges, ChangeRow
    <2>2. PendingChanges' = PendingChanges
      BY <1>1 DEF PendingChanges
    <2>3. QED
      BY <2>1, <2>2, <1>1, <1>6
         DEF Inv, OpenChangeIsCurrent, PendingOf, ValueBefore, ValueAfter
  <1>10. QED
    BY <1>1, <1>5, <1>7, <1>8, <1>9, CommitStep DEF Inv

LEMMA ProposeCommitKeeps ==
    ASSUME Inv, NEW h \in Handlers, ProposeCommit(h)
    PROVE  Inv'
  <1> DEFINE row == tx[h].row
             q == row.req
  <1>1. PICK c \in Changes : chg[c] = Absent /\ chg' = [chg EXCEPT ![c] = row]
    BY DEF ProposeCommit
  <1>2. /\ tx[h].op = "propose" /\ PendingOf(q) = {} /\ Finish(h)
        /\ UNCHANGED <<active, members, capacity, req, asked, now>>
    BY DEF ProposeCommit
  <1>3. row \in ChangeRow
    BY <1>2, TxTyped DEF Inv
  <1>4. /\ row.status = "pending"
        /\ req[q].status = "approved" /\ req[q].started # Never
        /\ row.before = ValueBefore(q, row.kind)
        /\ row.after = ValueAfter(q, row.kind, row.amount)
    BY <1>2 DEF Inv, TransactionsIsolated, ReadsStillHold
  <1>5. TypeOK'
    BY <1>1, <1>2, <1>3, FinishTyped DEF Inv, TypeOK
  <1>6. /\ chg[c].status = "absent" /\ chg'[c] = row
        /\ \A d \in Changes \ {c} : chg'[d] = chg[d]
    BY <1>1 DEF Absent, Inv, TypeOK
  <1>7. \A k \in Handlers \ {h} : ReadsStillHold(k)'
    <2>1. SUFFICES ASSUME NEW k \in Handlers \ {h} PROVE ReadsStillHold(k)'
      OBVIOUS
    <2>2. tx'[k] = tx[k]
      BY <1>2 DEF Finish, Inv, TypeOK
    <2>3. QED
      BY <2>2, <1>2, <1>6, Undisturbed
  <1>8. ClockMatchesGrant'
    BY <1>2 DEF Inv, ClockMatchesGrant
  <1>9. OpenChangeIsCurrent'
    <2>1. PendingChanges' = PendingChanges \cup {c} /\ c \notin PendingChanges
      BY <1>4, <1>6 DEF PendingChanges
    <2>2. \A d \in PendingChanges : chg[d].req # q
      BY <1>2 DEF PendingOf
    <2>3. {d \in PendingChanges' : chg'[d].req = q} = {c}
      <3>1. \A d \in PendingChanges : d \in Changes \ {c} /\ chg'[d] = chg[d]
        BY <2>1, <1>6 DEF PendingChanges
      <3>2. chg'[c].req = q
        BY <1>6
      <3>3. QED
        BY <3>1, <3>2, <2>1, <2>2
    <2>4. \A d \in PendingChanges :
            {e \in PendingChanges' : chg'[e].req = chg'[d].req} = PendingOf(chg[d].req)
      <3>1. \A d \in PendingChanges : d \in Changes \ {c} /\ chg'[d] = chg[d]
        BY <2>1, <1>6 DEF PendingChanges
      <3>2. QED
        BY <3>1, <2>1, <2>2, <1>6 DEF PendingOf
    <2>5. SUFFICES ASSUME NEW d \in PendingChanges'
                   PROVE  /\ req'[chg'[d].req].status = "approved"
                          /\ req'[chg'[d].req].started # Never
                          /\ PendingOf(chg[d].req)' = {d}
                          /\ chg'[d].before = ValueBefore(chg[d].req, chg[d].kind)'
                          /\ chg'[d].after
                             = ValueAfter(chg[d].req, chg[d].kind, chg[d].amount)'
      BY DEF OpenChangeIsCurrent
    <2>6. CASE d = c
      BY <2>3, <2>6, <1>2, <1>4, <1>6 DEF PendingOf, ValueBefore, ValueAfter
    <2>7. CASE d # c
      <3>1. d \in PendingChanges /\ chg'[d] = chg[d]
        BY <2>1, <2>7, <1>6 DEF PendingChanges
      <3>2. QED
        BY <3>1, <2>4, <1>2 DEF Inv, OpenChangeIsCurrent, ValueBefore, ValueAfter, PendingOf
    <2>8. QED
      BY <2>6, <2>7
  <1>10. QED
    BY <1>2, <1>5, <1>7, <1>8, <1>9, CommitStep DEF Inv

LEMMA ReviewChangeCommitKeeps ==
    ASSUME Inv, NEW h \in Handlers, ReviewChangeCommit(h)
    PROVE  Inv'
  <1> DEFINE c == tx[h].chg
             q == chg[c].req
             row == IF tx[h].verdict = "approved" THEN Applied(req[q], chg[c]) ELSE req[q]
  <1>1. /\ tx[h].op = "reviewChange" /\ Finish(h)
        /\ chg' = [chg EXCEPT ![c].status = tx[h].verdict]
        /\ req' = IF tx[h].verdict = "approved"
                  THEN [req EXCEPT ![q] = Applied(@, chg[c])] ELSE req
        /\ UNCHANGED <<active, members, capacity, asked, now>>
    BY DEF ReviewChangeCommit
  <1>2. /\ c \in Changes /\ tx[h].verdict \in Verdicts
        /\ {c, q} \subseteq tx[h].locks /\ c \in PendingChanges
    BY <1>1, TxTyped DEF Inv, TransactionsIsolated, ReadsStillHold
  <1>3. chg[c] \in ChangeRow /\ chg[c].status = "pending" /\ q \in Requests
    BY <1>2, RowsTyped DEF Inv, PendingChanges, ChangeRow
  <1>4. /\ req[q].status = "approved" /\ req[q].started # Never
        /\ PendingOf(q) = {c}
        /\ chg[c].before = ValueBefore(q, chg[c].kind)
        /\ chg[c].after = ValueAfter(q, chg[c].kind, chg[c].amount)
    BY <1>2 DEF Inv, OpenChangeIsCurrent
  <1>5. /\ req[q] \in RequestRow
        /\ req[q].expires = req[q].started + req[q].days
        /\ req[q].started \in Nat /\ req[q].expires \in Nat
    <2>1. req[q] \in RequestRow
      BY <1>3, <1>4, RowsTyped DEF Inv
    <2>2. req[q].expires = req[q].started + req[q].days
      BY <1>3, <1>4 DEF Inv, ClockMatchesGrant, Absent
    <2>3. QED
      BY <2>1, <2>2, <1>4 DEF RequestRow, Never
  <1>6. /\ row \in RequestRow
        /\ row.status = "approved" /\ row.started = req[q].started
        /\ row.applicant = req[q].applicant /\ row.project = req[q].project
        /\ row.resource = req[q].resource
        /\ row.expires = row.started + row.days
    <2>1. CASE tx[h].verdict = "approved" /\ chg[c].kind = "extend"
      <3>1. row = [req[q] EXCEPT !.days = chg[c].after,
                                 !.expires = req[q].expires + chg[c].amount]
        <4>1. req[q].expires # Never
          BY <1>5 DEF Never
        <4>2. row = Applied(req[q], chg[c])
          BY <2>1
        <4>3. QED
          BY <4>1, <4>2, <2>1 DEF Applied
      <3>2. chg[c].after = req[q].days + chg[c].amount
        BY <2>1, <1>4 DEF ValueAfter, ValueBefore
      <3>3. chg[c].amount \in Nat /\ chg[c].after \in Nat
        BY <1>3 DEF ChangeRow
      <3>4. req[q].expires + chg[c].amount \in Nat \cup {Never}
        BY <3>3, <1>5
      <3> HIDE DEF row, c, q
      <3>5. /\ row \in RequestRow
            /\ row.days = chg[c].after /\ row.expires = req[q].expires + chg[c].amount
            /\ row.status = req[q].status /\ row.started = req[q].started
            /\ row.applicant = req[q].applicant /\ row.project = req[q].project
            /\ row.resource = req[q].resource
        BY <3>1, <3>3, <3>4, <1>5 DEF RequestRow
      <3>6. req[q].days \in Nat
        BY <1>5 DEF RequestRow
      <3>7. QED
        BY <3>2, <3>3, <3>5, <3>6, <1>4, <1>5
    <2>2. CASE tx[h].verdict = "approved" /\ chg[c].kind # "extend"
      <3>1. row = [req[q] EXCEPT !.gpus = chg[c].after]
        BY <2>2 DEF Applied
      <3>2. chg[c].after \in Nat
        BY <1>3 DEF ChangeRow
      <3> HIDE DEF row
      <3>3. QED
        BY <3>1, <3>2, <1>4, <1>5 DEF RequestRow
    <2>3. CASE tx[h].verdict # "approved"
      BY <2>3, <1>4, <1>5
    <2>4. QED
      BY <2>1, <2>2, <2>3
  <1>7. req'[q] = row /\ \A p \in Requests \ {q} : req'[p] = req[p]
    BY <1>1, <1>3 DEF Inv, TypeOK
  <1>8. /\ chg'[c] = [chg[c] EXCEPT !.status = tx[h].verdict]
        /\ \A d \in Changes \ {c} : chg'[d] = chg[d]
    BY <1>1, <1>2 DEF Inv, TypeOK
  <1> HIDE DEF row
  <1>9. TypeOK'
    <2>1. req' \in [Requests -> {Absent} \cup RequestRow]
      BY <1>1, <1>6, <1>7 DEF Inv, TypeOK
    <2>2. [chg[c] EXCEPT !.status = tx[h].verdict] \in ChangeRow
      BY <1>2, <1>3 DEF ChangeRow
    <2>3. chg' \in [Changes -> {Absent} \cup ChangeRow]
      BY <2>2, <1>1 DEF Inv, TypeOK
    <2>4. QED
      BY <2>1, <2>3, <1>1, FinishTyped DEF Inv, TypeOK
  <1>10. \A k \in Handlers \ {h} : ReadsStillHold(k)'
    <2>1. SUFFICES ASSUME NEW k \in Handlers \ {h} PROVE ReadsStillHold(k)'
      OBVIOUS
    <2>2. tx'[k] = tx[k]
      BY <1>1 DEF Finish, Inv, TypeOK
    <2>3. q \notin tx[k].locks /\ c \notin tx[k].locks
      BY <1>2 DEF Inv, TransactionsIsolated, LocksExclusive
    <2>4. tx[k].op = "report" /\ tx[k].expires # Never
            => tx[k].req # q /\ tx[k].req \in Requests
      BY <1>4, TxTyped DEF Inv, TransactionsIsolated, ReadsStillHold
    <2>5. QED
      BY <2>2, <2>3, <2>4, <1>4, <1>6, <1>7, <1>8, Undisturbed
  <1>11. ClockMatchesGrant'
    BY <1>5, <1>6, <1>7 DEF Inv, ClockMatchesGrant, Never
  <1>12. OpenChangeIsCurrent'
    <2>1. PendingChanges' = PendingChanges \ {c}
      <3>1. chg'[c].status # "pending"
        BY <1>2, <1>3, <1>8 DEF ChangeRow, Verdicts
      <3>2. QED
        BY <3>1, <1>2, <1>8 DEF PendingChanges
    <2>2. \A d \in PendingChanges' : chg[d].req # q /\ chg[d].req \in Requests /\ chg'[d] = chg[d]
      BY <2>1, <1>4, <1>8, RowsTyped DEF PendingOf, PendingChanges, Inv, ChangeRow
    <2>3. \A d \in PendingChanges' :
            {e \in PendingChanges' : chg'[e].req = chg'[d].req} = PendingOf(chg[d].req)
      BY <2>1, <2>2, <1>4 DEF PendingOf
    <2>4. QED
      BY <2>1, <2>2, <2>3, <1>7
         DEF Inv, OpenChangeIsCurrent, PendingOf, ValueBefore, ValueAfter
  <1>13. QED
    BY <1>1, <1>9, <1>10, <1>11, <1>12, CommitStep DEF Inv

LEMMA ReportCommitKeeps ==
    ASSUME Inv, NEW h \in Handlers, ReportCommit(h)
    PROVE  Inv'
  <1> DEFINE q == tx[h].req
             row == IF tx[h].expires = Never THEN req[q]
                    ELSE [req[q] EXCEPT !.started = tx[h].at, !.expires = tx[h].expires]
  <1>1. /\ tx[h].op = "report" /\ Finish(h)
        /\ req' = IF tx[h].expires = Never THEN req
                  ELSE [req EXCEPT ![q].started = tx[h].at, ![q].expires = tx[h].expires]
        /\ UNCHANGED <<active, members, capacity, chg, asked, now>>
    BY DEF ReportCommit
  <1>2. /\ q \in Requests /\ tx[h].at \in Nat /\ tx[h].expires \in Nat \cup {Never}
        /\ Advisory(req[q].resource) \in tx[h].locks
        /\ req[q].status = "approved"
        /\ tx[h].expires # Never =>
            req[q].started = Never /\ tx[h].expires = tx[h].at + req[q].days
    BY <1>1, TxTyped DEF Inv, TransactionsIsolated, ReadsStillHold
  <1>3. req[q] \in RequestRow
    BY <1>2, RowsTyped DEF Inv
  <1>4. /\ row \in RequestRow
        /\ row.status = "approved" /\ row.resource = req[q].resource
        /\ row.days = req[q].days /\ row.gpus = req[q].gpus
        /\ req[q].started # Never => row = req[q]
        /\ tx[h].expires # Never => row.started # Never
        /\ IF row.started = Never THEN row.expires = Never
           ELSE row.expires = row.started + row.days
    <2>1. CASE tx[h].expires = Never
      BY <2>1, <1>2, <1>3 DEF Inv, ClockMatchesGrant, Absent
    <2>2. CASE tx[h].expires # Never
      <3>1. row = [req[q] EXCEPT !.started = tx[h].at, !.expires = tx[h].expires]
        BY <2>2
      <3> HIDE DEF row, q
      <3>2. /\ row \in RequestRow
            /\ row.started = tx[h].at /\ row.expires = tx[h].expires
            /\ row.status = req[q].status /\ row.days = req[q].days
            /\ row.gpus = req[q].gpus /\ row.resource = req[q].resource
        BY <3>1, <1>2, <1>3 DEF RequestRow
      <3>3. QED
        BY <3>2, <2>2, <1>2 DEF Never
    <2>3. QED
      BY <2>1, <2>2
  <1>5. req'[q] = row /\ \A p \in Requests \ {q} : req'[p] = req[p]
    BY <1>1, <1>2 DEF Inv, TypeOK
  <1>6. tx[h].expires = Never => req' = req
    BY <1>1
  <1> HIDE DEF row
  <1>7. TypeOK'
    <2>1. req' \in [Requests -> {Absent} \cup RequestRow]
      <3>1. req' \in [Requests -> {Absent} \cup RequestRow]
            \/ req' = [req EXCEPT ![q] = row]
        BY <1>1, <1>2, <1>5 DEF Inv, TypeOK
      <3>2. QED
        BY <3>1, <1>4 DEF Inv, TypeOK
    <2>2. QED
      BY <2>1, <1>1, FinishTyped DEF Inv, TypeOK
  <1>8. \A k \in Handlers \ {h} : ReadsStillHold(k)'
    <2>1. SUFFICES ASSUME NEW k \in Handlers \ {h} PROVE ReadsStillHold(k)'
      OBVIOUS
    <2>2. tx'[k] = tx[k]
      BY <1>1 DEF Finish, Inv, TypeOK
    <2>3. CASE tx[h].expires = Never
      BY <2>2, <2>3, <1>1, <1>6, UndisturbedByReads
    <2>4. CASE tx[h].expires # Never
      <3>1. tx[k].op = "report" => tx[k].req # q /\ tx[k].req \in Requests
        BY <1>2, TxTyped DEF Inv, TransactionsIsolated, ReadsStillHold, LocksExclusive
      <3>2. Unlocked(h, {q})
        BY <2>4, <1>1 DEF ReportCommit
      <3>3. q \notin tx[k].locks
        BY <3>2 DEF Unlocked
      <3>4. QED
        BY <2>2, <3>1, <3>3, <1>1, <1>4, <1>5, Undisturbed
    <2>5. QED
      BY <2>3, <2>4
  <1>9. ClockMatchesGrant'
    BY <1>4, <1>5 DEF Inv, ClockMatchesGrant
  <1>10. OpenChangeIsCurrent'
    <2>1. PendingChanges' = PendingChanges
      BY <1>1 DEF PendingChanges
    <2>2. \A c \in PendingChanges : chg[c].req \in Requests
      BY RowsTyped DEF PendingChanges, Inv, ChangeRow
    <2>3. \A c \in PendingChanges :
            LET p == chg[c].req
            IN  /\ req'[p].status = "approved" /\ req'[p].started # Never
                /\ req'[p].days = req[p].days /\ req'[p].gpus = req[p].gpus
      BY <2>2, <1>4, <1>5 DEF Inv, OpenChangeIsCurrent
    <2>4. \A c \in PendingChanges :
            /\ PendingOf(chg[c].req)' = PendingOf(chg[c].req)
            /\ ValueBefore(chg[c].req, chg[c].kind)' = ValueBefore(chg[c].req, chg[c].kind)
      BY <2>1, <2>3, <1>1 DEF PendingOf, ValueBefore
    <2>5. \A c \in PendingChanges :
            ValueAfter(chg[c].req, chg[c].kind, chg[c].amount)'
            = ValueAfter(chg[c].req, chg[c].kind, chg[c].amount)
      BY <2>4, <1>1 DEF ValueAfter
    <2>6. QED
      BY <2>1, <2>3, <2>4, <2>5, <1>1 DEF Inv, OpenChangeIsCurrent
  <1>11. QED
    BY <1>1, <1>7, <1>8, <1>9, <1>10, CommitStep DEF Inv

\* Rejecting pending requests and changes that no other transaction has locked
\* keeps everything but the type of tx and the ending transaction.
LEMMA RejectionKeeps ==
    ASSUME Inv, NEW rqs \in SUBSET PendingRequests, NEW rcs \in SUBSET PendingChanges,
           req' = [q \in Requests |->
                    IF q \in rqs THEN [req[q] EXCEPT !.status = "rejected"] ELSE req[q]],
           chg' = [c \in Changes |->
                    IF c \in rcs THEN [chg[c] EXCEPT !.status = "rejected"] ELSE chg[c]]
    PROVE  /\ req' \in [Requests -> {Absent} \cup RequestRow]
           /\ chg' \in [Changes -> {Absent} \cup ChangeRow]
           /\ ClockMatchesGrant'
           /\ OpenChangeIsCurrent'
           /\ \A k \in Handlers :
                /\ tx'[k] = tx[k]
                /\ tx[k].locks \cap (rqs \cup rcs) = {}
                => ReadsStillHold(k)'
  <1>1. \A q \in rqs : q \in Requests /\ req[q].status = "pending" /\ req[q] \in RequestRow
    BY RowsTyped DEF Inv, PendingRequests
  <1>2. \A c \in rcs : c \in Changes /\ chg[c].status = "pending" /\ chg[c] \in ChangeRow
    BY RowsTyped DEF Inv, PendingChanges
  <1>3. \A q \in rqs :
            LET new == [req[q] EXCEPT !.status = "rejected"]
            IN  /\ new \in RequestRow /\ new.status = "rejected"
                /\ new.started = req[q].started /\ new.expires = req[q].expires
    BY <1>1 DEF RequestRow, Verdicts
  <1>4. \A c \in rcs :
            LET new == [chg[c] EXCEPT !.status = "rejected"]
            IN  new \in ChangeRow /\ new.status = "rejected"
    BY <1>2 DEF ChangeRow, Verdicts
  <1>5. /\ \A q \in rqs : req'[q] = [req[q] EXCEPT !.status = "rejected"]
        /\ \A q \in Requests \ rqs : req'[q] = req[q]
        /\ \A c \in rcs : chg'[c] = [chg[c] EXCEPT !.status = "rejected"]
        /\ \A c \in Changes \ rcs : chg'[c] = chg[c]
    BY <1>1, <1>2
  <1>6. req' \in [Requests -> {Absent} \cup RequestRow]
    BY <1>3 DEF Inv, TypeOK
  <1>7. chg' \in [Changes -> {Absent} \cup ChangeRow]
    BY <1>4 DEF Inv, TypeOK
  <1>8. ClockMatchesGrant'
    <2>1. \A q \in rqs : req[q].started = Never /\ req[q].expires = Never
      BY <1>1 DEF Inv, ClockMatchesGrant, Absent
    <2>2. \A q \in rqs : req'[q].started = Never /\ req'[q].expires = Never
      BY <2>1, <1>3, <1>5
    <2>3. QED
      BY <2>2, <1>5 DEF Inv, ClockMatchesGrant
  <1>9. OpenChangeIsCurrent'
    <2>1. PendingChanges' = PendingChanges \ rcs
      BY <1>4, <1>5 DEF PendingChanges
    <2>2. \A c \in PendingChanges' : chg'[c] = chg[c] /\ c \in PendingChanges
      BY <2>1, <1>5 DEF PendingChanges
    <2>3. \A c \in PendingChanges :
            chg[c].req \in Requests /\ req[chg[c].req].status = "approved"
      BY RowsTyped DEF Inv, OpenChangeIsCurrent, PendingChanges, ChangeRow
    <2>4. \A c \in PendingChanges : req'[chg[c].req] = req[chg[c].req]
      BY <2>3, <1>1, <1>5
    <2>5. \A c \in PendingChanges' : PendingOf(chg[c].req) = {c}
      BY <2>2 DEF Inv, OpenChangeIsCurrent
    <2>6. \A c \in PendingChanges' : {d \in PendingChanges' : chg'[d].req = chg'[c].req} = {c}
      BY <2>1, <2>2, <2>5 DEF PendingOf
    <2>7. \A c \in PendingChanges' :
            /\ req[chg[c].req].status = "approved" /\ req[chg[c].req].started # Never
            /\ chg[c].before = ValueBefore(chg[c].req, chg[c].kind)
            /\ chg[c].after = ValueAfter(chg[c].req, chg[c].kind, chg[c].amount)
      BY <2>2 DEF Inv, OpenChangeIsCurrent
    <2>8. ASSUME NEW c \in PendingChanges'
          PROVE  /\ req'[chg'[c].req].status = "approved" /\ req'[chg'[c].req].started # Never
                 /\ PendingOf(chg[c].req)' = {c}
                 /\ chg'[c].before = ValueBefore(chg[c].req, chg[c].kind)'
                 /\ chg'[c].after = ValueAfter(chg[c].req, chg[c].kind, chg[c].amount)'
      <3>1. chg'[c] = chg[c] /\ req'[chg[c].req] = req[chg[c].req]
        BY <2>2, <2>4
      <3>2. PendingOf(chg[c].req)' = {c}
        BY <2>6 DEF PendingOf
      <3>3. ValueBefore(chg[c].req, chg[c].kind)' = ValueBefore(chg[c].req, chg[c].kind)
        BY <3>1 DEF ValueBefore
      <3>4. ValueAfter(chg[c].req, chg[c].kind, chg[c].amount)'
            = ValueAfter(chg[c].req, chg[c].kind, chg[c].amount)
        BY <3>1, <3>3 DEF ValueAfter
      <3>5. QED
        BY <3>1, <3>2, <3>3, <3>4, <2>7
    <2>9. QED
      BY <2>8 DEF OpenChangeIsCurrent
  <1>10. ASSUME NEW k \in Handlers, tx'[k] = tx[k], tx[k].locks \cap (rqs \cup rcs) = {}
         PROVE  ReadsStillHold(k)'
    <2>1. \A q \in Requests : req[q].status = "approved" => req'[q] = req[q]
      BY <1>1, <1>5
    <2>2. tx[k].op = "report" => tx[k].req \in Requests /\ req[tx[k].req].status = "approved"
      BY TxTyped DEF Inv, TransactionsIsolated, ReadsStillHold
    <2>3. \A q \in Requests : q \in tx[k].locks => req'[q] = req[q]
      BY <1>10, <1>5
    <2>4. \A c \in Changes : c \in tx[k].locks => chg'[c] = chg[c]
      BY <1>10, <1>5
    <2>5. QED
      BY <2>1, <2>2, <2>3, <2>4, <1>10, Undisturbed
  <1>11. QED
    BY <1>6, <1>7, <1>8, <1>9, <1>10

LEMMA DisableCommitKeeps ==
    ASSUME Inv, NEW h \in Handlers, DisableCommit(h)
    PROVE  Inv'
  <1> DEFINE rqs == tx[h].locks \cap Requests
             rcs == tx[h].locks \cap Changes
  <1>1. /\ tx[h].op = "disable" /\ Finish(h)
        /\ active' = active \ {tx[h].entity}
        /\ req' = [q \in Requests |->
                    IF q \in rqs THEN [req[q] EXCEPT !.status = "rejected"] ELSE req[q]]
        /\ chg' = [c \in Changes |->
                    IF c \in rcs THEN [chg[c] EXCEPT !.status = "rejected"] ELSE chg[c]]
        /\ UNCHANGED <<members, capacity, asked, now>>
    BY DEF DisableCommit
  <1>2. rqs \in SUBSET PendingRequests /\ rcs \in SUBSET PendingChanges
    BY <1>1 DEF Inv, TransactionsIsolated, ReadsStillHold
  <1>3. \A k \in Handlers \ {h} : tx'[k] = tx[k] /\ tx[k].locks \cap (rqs \cup rcs) = {}
    BY <1>1 DEF Finish, Inv, TypeOK, TransactionsIsolated, LocksExclusive
  <1> HIDE DEF rqs, rcs
  <1>4. /\ req' \in [Requests -> {Absent} \cup RequestRow]
        /\ chg' \in [Changes -> {Absent} \cup ChangeRow]
        /\ ClockMatchesGrant' /\ OpenChangeIsCurrent'
        /\ \A k \in Handlers \ {h} : ReadsStillHold(k)'
    BY <1>1, <1>2, <1>3, RejectionKeeps
  <1>5. TypeOK'
    BY <1>1, <1>4, FinishTyped DEF Inv, TypeOK
  <1>6. QED
    BY <1>1, <1>4, <1>5, CommitStep DEF Inv

LEMMA WorkerRejectExpiredKeeps ==
    ASSUME Inv, WorkerRejectExpired
    PROVE  Inv'
  <1>1. /\ chg' = [c \in Changes |->
                    IF c \in DueChanges THEN [chg[c] EXCEPT !.status = "rejected"] ELSE chg[c]]
        /\ UNCHANGED <<active, members, capacity, req, asked, tx, now>>
    BY DEF WorkerRejectExpired
  <1>2. DueChanges \in SUBSET PendingChanges /\ {} \in SUBSET PendingRequests
    BY DEF DueChanges
  <1>3. req' = [q \in Requests |->
                 IF q \in {} THEN [req[q] EXCEPT !.status = "rejected"] ELSE req[q]]
    BY <1>1 DEF Inv, TypeOK
  <1>4. \A k \in Handlers : tx'[k] = tx[k] /\ tx[k].locks \cap ({} \cup DueChanges) = {}
    BY <1>1 DEF DueChanges
  <1>5. /\ chg' \in [Changes -> {Absent} \cup ChangeRow]
        /\ ClockMatchesGrant' /\ OpenChangeIsCurrent'
        /\ \A k \in Handlers : ReadsStillHold(k)'
    BY <1>1, <1>2, <1>3, <1>4, RejectionKeeps
  <1>6. LocksExclusive'
    BY <1>1 DEF Inv, TransactionsIsolated, LocksExclusive
  <1>7. QED
    BY <1>1, <1>5, <1>6 DEF Inv, TypeOK, TransactionsIsolated

LEMMA AbortKeeps ==
    ASSUME Inv, NEW h \in Handlers, Abort(h)
    PROVE  Inv'
  <1>1. Finish(h) /\ UNCHANGED <<active, members, capacity, req, chg, asked, now>>
    BY DEF Abort, db
  <1>2. TypeOK'
    BY <1>1, FinishTyped DEF Inv, TypeOK
  <1>3. \A k \in Handlers \ {h} : tx'[k] = tx[k]
    BY <1>1 DEF Finish, Inv, TypeOK
  <1>4. \A k \in Handlers \ {h} : ReadsStillHold(k)'
    BY <1>1, <1>3, UndisturbedByReads
  <1>5. ClockMatchesGrant' /\ OpenChangeIsCurrent'
    BY <1>1 DEF Inv, ClockMatchesGrant, OpenChangeIsCurrent, PendingOf, PendingChanges,
                ValueBefore, ValueAfter
  <1>6. QED
    BY <1>1, <1>2, <1>4, <1>5, CommitStep DEF Inv

\* The transactions of one step that touch neither requests nor changes.
LEMMA OtherTablesKeep ==
    ASSUME Inv,
           \/ \E e \in Entities : Enable(e)
           \/ \E r \in Resources, n \in 1..MaxGpu : UpdateResource(r, n)
           \/ \E p \in Projects, us \in SUBSET Users : UpdateProject(p, us)
           \/ Tick
           \/ UNCHANGED vars
    PROVE  Inv'
  <1>1. UNCHANGED <<req, chg, asked, tx>>
    BY DEF Enable, UpdateResource, UpdateProject, Tick, vars, db
  <1>2. TypeOK'
    <2>1. CASE \E e \in Entities : Enable(e)
      BY <2>1 DEF Enable, Inv, TypeOK
    <2>2. CASE \E r \in Resources, n \in 1..MaxGpu : UpdateResource(r, n)
      BY <2>2 DEF UpdateResource, Inv, TypeOK
    <2>3. CASE \E p \in Projects, us \in SUBSET Users : UpdateProject(p, us)
      <3>1. PICK p \in Projects, us \in SUBSET Users :
                members' = {m \in members : m[1] # p} \cup {<<p, u>> : u \in us}
        BY <2>3 DEF UpdateProject
      <3>2. members' \in SUBSET (Projects \X Users)
        BY <3>1 DEF Inv, TypeOK
      <3>3. QED
        BY <2>3, <3>2, <1>1 DEF UpdateProject, Inv, TypeOK
    <2>4. CASE Tick
      BY <2>4 DEF Tick, db, Inv, TypeOK
    <2>5. CASE UNCHANGED vars
      BY <2>5 DEF vars, db, Inv, TypeOK
    <2>6. QED
      BY <2>1, <2>2, <2>3, <2>4, <2>5
  <1>3. \A k \in Handlers : ReadsStillHold(k)'
    BY <1>1, UndisturbedByReads
  <1>4. LocksExclusive' /\ ClockMatchesGrant' /\ OpenChangeIsCurrent'
    BY <1>1 DEF Inv, TransactionsIsolated, LocksExclusive, ClockMatchesGrant,
                OpenChangeIsCurrent, PendingOf, PendingChanges, ValueBefore, ValueAfter
  <1>5. QED
    BY <1>2, <1>3, <1>4 DEF Inv, TransactionsIsolated

-----------------------------------------------------------------------------
(* The invariant *)

LEMMA InitInv == Init => Inv
  <1> SUFFICES ASSUME Init PROVE Inv
    OBVIOUS
  <1>1. TypeOK
    BY DEF Init, TypeOK, TxRecord
  <1>2. TransactionsIsolated
    BY DEF Init, TransactionsIsolated, LocksExclusive, ReadsStillHold, Idle
  <1>3. ClockMatchesGrant /\ OpenChangeIsCurrent
    BY DEF Init, ClockMatchesGrant, OpenChangeIsCurrent, PendingChanges, Absent
  <1>4. QED
    BY <1>1, <1>2, <1>3 DEF Inv

LEMMA NextInv == Inv /\ [Next]_vars => Inv'
  <1> SUFFICES ASSUME Inv, [Next]_vars PROVE Inv'
    OBVIOUS
  <1>1. ASSUME NEW h \in Handlers, DisableRequests(h) \/ DisableChanges(h) PROVE Inv'
    <2>1. CASE DisableRequests(h)
      <3>1. {q \in PendingRequests : tx[h].entity \in Relations(req[q])}
            \in (SUBSET PendingRequests) \cup (SUBSET PendingChanges)
        OBVIOUS
      <3>2. QED
        BY <2>1, <3>1, DisableStatementKeeps DEF DisableRequests
    <2>2. CASE DisableChanges(h)
      <3>1. {c \in PendingChanges : tx[h].entity \in Relations(req[chg[c].req])}
            \in (SUBSET PendingRequests) \cup (SUBSET PendingChanges)
        OBVIOUS
      <3>2. QED
        BY <2>2, <3>1, DisableStatementKeeps DEF DisableChanges
    <2>3. QED
      BY <1>1, <2>1, <2>2
  <1>2. ASSUME NEW h \in Handlers, Proceed(h) PROVE Inv'
    BY <1>1, <1>2, SubmitCommitKeeps, ReviewCommitKeeps, ProposeCommitKeeps,
       ReviewChangeCommitKeeps, DisableCommitKeeps, ReportLockKeeps, ReportCommitKeeps,
       AbortKeeps DEF Proceed
  <1>3. QED
    BY <1>2, SubmitReadKeeps, ReviewReadKeeps, ProposeReadKeeps, ReviewChangeReadKeeps,
       DisableBeginKeeps, ReportReceiveKeeps, WorkerRejectExpiredKeeps, OtherTablesKeep
       DEF Next

\* The parts that the steps of the handlers and of the worker need of each other.
THEOREM Invariance == Spec => []Inv
  BY InitInv, NextInv, PTL DEF Spec

\* Every table and every transaction in flight keeps its type.
THEOREM TypeCorrect == Spec => []TypeOK
  BY Invariance, PTL DEF Inv

\* What a handler has read and locked still holds when it writes, and no row is
\* locked twice.
THEOREM Isolation == Spec => []TransactionsIsolated
  BY Invariance, PTL DEF Inv

\* A request runs for exactly the days it has been granted: extending it (under
\* the row lock) and starting its clock (under the advisory lock) never collide.
THEOREM ClockCorrect == Spec => []ClockMatchesGrant
  BY Invariance, PTL DEF Inv

\* One open change per request, computed from the values the request still has.
THEOREM OpenChangeCorrect == Spec => []OpenChangeIsCurrent
  BY Invariance, PTL DEF Inv

-----------------------------------------------------------------------------
(* Bounds *)

\* What a transaction carries stays within the instance's bounds, and a release
\* that was proposed leaves a GPU.
InBounds(t) ==
    /\ t.op = "submit" =>
        {t.row.gpus, t.row.days} \subseteq 1..(MaxGpu + MaxDays)
    /\ t.op = "propose" =>
        /\ t.row.amount \in 1..(MaxGpu + MaxDays)
        /\ t.row.kind = "release" => t.row.after >= 1
    /\ t.op \in {"receive", "report"} => t.at <= MaxTime

BoundInv == Inv /\ now <= MaxTime /\ \A k \in Handlers : InBounds(tx[k])

\* A transaction that reads carries values it was given within the bounds.
LEMMA ReadsInBounds ==
    ASSUME BoundInv, NEW h \in Handlers,
           SubmitRead(h) \/ ProposeRead(h) \/ ReportReceive(h)
    PROVE  \A k \in Handlers : InBounds(tx'[k])
  <1>1. tx \in [Handlers -> TxRecord] /\ MaxGpu \in Nat /\ MaxDays \in Nat
    BY BoundsAssumption DEF BoundInv, Inv, TypeOK
  <1>2. ASSUME NEW r, tx' = [tx EXCEPT ![h] = r], InBounds(r)
        PROVE  \A k \in Handlers : InBounds(tx'[k])
    BY <1>1, <1>2 DEF BoundInv
  <1>3. CASE SubmitRead(h)
    <2>1. PICK u \in Users, p \in Projects, res \in Resources,
               g \in 1..MaxGpu, d \in 1..MaxDays :
            tx' = [tx EXCEPT ![h] =
                [op |-> "submit", locks |-> {},
                 row |-> [status |-> "pending", applicant |-> u, project |-> p,
                          resource |-> res, gpus |-> g, days |-> d,
                          started |-> Never, expires |-> Never]]]
      BY <1>3 DEF SubmitRead, Begin
    <2>2. PICK r : r = [op |-> "submit", locks |-> {},
                 row |-> [status |-> "pending", applicant |-> u, project |-> p,
                          resource |-> res, gpus |-> g, days |-> d,
                          started |-> Never, expires |-> Never]]
      OBVIOUS
    <2>3. r.op = "submit" /\ r.row.gpus = g /\ r.row.days = d
      BY <2>2
    <2>4. g \in 1..(MaxGpu + MaxDays) /\ d \in 1..(MaxGpu + MaxDays)
      BY <1>1
    <2>5. InBounds(r)
      BY <2>3, <2>4 DEF InBounds
    <2>6. QED
      BY <1>2, <2>1, <2>2, <2>5
  <1>4. CASE ProposeRead(h)
    <2>1. PICK q, kind, amount, before, after :
            /\ q \in Requests /\ kind \in Kinds /\ amount \in 1..(MaxGpu + MaxDays)
            /\ kind = "release" => after >= 1
            /\ tx' = [tx EXCEPT ![h] =
                [op |-> "propose", locks |-> ProposeLocks(q),
                 row |-> [status |-> "pending", req |-> q, kind |-> kind,
                          amount |-> amount, before |-> before, after |-> after]]]
      <3>1. PICK q \in Requests, kind \in Kinds, amount \in 1..(MaxGpu + MaxDays) :
              /\ ValueAllowed(q, kind, ValueAfter(q, kind, amount))
              /\ Begin(h, [op |-> "propose", locks |-> ProposeLocks(q),
                           row |-> [status |-> "pending", req |-> q, kind |-> kind,
                                    amount |-> amount, before |-> ValueBefore(q, kind),
                                    after |-> ValueAfter(q, kind, amount)]])
        BY <1>4, Zenon DEF ProposeRead
      <3>2. PICK before, after :
              before = ValueBefore(q, kind) /\ after = ValueAfter(q, kind, amount)
        OBVIOUS
      <3>3. kind = "release" => after >= 1
        BY <3>1, <3>2 DEF ValueAllowed
      <3>4. tx' = [tx EXCEPT ![h] =
                [op |-> "propose", locks |-> ProposeLocks(q),
                 row |-> [status |-> "pending", req |-> q, kind |-> kind,
                          amount |-> amount, before |-> before, after |-> after]]]
        BY <3>1, <3>2 DEF Begin
      <3>5. QED
        BY <3>3, <3>4
    <2>2. PICK r : r = [op |-> "propose", locks |-> ProposeLocks(q),
                 row |-> [status |-> "pending", req |-> q, kind |-> kind,
                          amount |-> amount, before |-> before, after |-> after]]
      OBVIOUS
    <2>3. r.op = "propose" /\ r.row.amount = amount /\ r.row.kind = kind /\ r.row.after = after
      BY <2>2
    <2>4. InBounds(r)
      BY <2>1, <2>3 DEF InBounds
    <2>5. QED
      BY <1>2, <2>1, <2>2, <2>4
  <1>5. CASE ReportReceive(h)
    <2>1. PICK q : tx' = [tx EXCEPT ![h] = [op |-> "receive", locks |-> {}, req |-> q,
                                            at |-> now, expires |-> Never]]
      BY <1>5 DEF ReportReceive, Begin
    <2>2. PICK r : r = [op |-> "receive", locks |-> {}, req |-> q,
                        at |-> now, expires |-> Never]
      OBVIOUS
    <2>3. r.op = "receive" /\ r.at = now
      BY <2>2
    <2>4. InBounds(r)
      BY <2>3 DEF InBounds, BoundInv
    <2>5. QED
      BY <1>2, <2>1, <2>2, <2>4
  <1>6. QED
    BY <1>3, <1>4, <1>5

\* Every other step of a handler ends its transaction, begins one that carries
\* nothing, or advances it without touching what it carries.
LEMMA OthersInBounds ==
    ASSUME BoundInv, NEW h \in Handlers,
           \/ ReviewRead(h) \/ ReviewChangeRead(h) \/ DisableBegin(h) \/ Proceed(h)
    PROVE  \A k \in Handlers : InBounds(tx'[k])
  <1>1. tx \in [Handlers -> TxRecord]
    BY DEF BoundInv, Inv, TypeOK
  <1>2. ASSUME NEW r, tx' = [tx EXCEPT ![h] = r], InBounds(r)
        PROVE  \A k \in Handlers : InBounds(tx'[k])
    BY <1>1, <1>2 DEF BoundInv
  <1>3. ASSUME NEW r, tx' = [tx EXCEPT ![h] = r],
               r.op \in {"idle", "review", "reviewChange", "disable"}
        PROVE  \A k \in Handlers : InBounds(tx'[k])
    <2>1. InBounds(r)
      BY <1>3 DEF InBounds
    <2>2. QED
      BY <1>2, <1>3, <2>1
  <1>4. CASE Finish(h)
    <2>1. Idle.op = "idle" /\ tx' = [tx EXCEPT ![h] = Idle]
      BY <1>4 DEF Idle, Finish
    <2>2. QED
      BY <1>3, <2>1
  <1>5. CASE ReviewRead(h)
    <2>1. PICK q, verdict :
            tx' = [tx EXCEPT ![h] = [op |-> "review", locks |-> ReviewLocks(q),
                                     req |-> q, verdict |-> verdict]]
      BY <1>5 DEF ReviewRead, Begin
    <2>2. PICK r : r = [op |-> "review", locks |-> ReviewLocks(q),
                        req |-> q, verdict |-> verdict]
      OBVIOUS
    <2>3. r.op = "review"
      BY <2>2
    <2>4. QED
      BY <1>3, <2>1, <2>2, <2>3
  <1>6. CASE ReviewChangeRead(h)
    <2>1. PICK c, verdict :
            tx' = [tx EXCEPT ![h] = [op |-> "reviewChange", locks |-> ReviewChangeLocks(c),
                                     chg |-> c, verdict |-> verdict]]
      BY <1>6 DEF ReviewChangeRead, Begin
    <2>2. PICK r : r = [op |-> "reviewChange", locks |-> ReviewChangeLocks(c),
                        chg |-> c, verdict |-> verdict]
      OBVIOUS
    <2>3. r.op = "reviewChange"
      BY <2>2
    <2>4. QED
      BY <1>3, <2>1, <2>2, <2>3
  <1>7. CASE DisableBegin(h)
    <2>1. PICK e, step :
            tx' = [tx EXCEPT ![h] = [op |-> "disable", locks |-> {e}, entity |-> e,
                                     step |-> step]]
      BY <1>7 DEF DisableBegin, Begin
    <2>2. PICK r : r = [op |-> "disable", locks |-> {e}, entity |-> e, step |-> step]
      OBVIOUS
    <2>3. r.op = "disable"
      BY <2>2
    <2>4. QED
      BY <1>3, <2>1, <2>2, <2>3
  <1>8. PICK old : old = tx[h]
    OBVIOUS
  <1>9. CASE DisableRequests(h) \/ DisableChanges(h)
    <2>1. PICK next, rows :
            /\ old.op = "disable"
            /\ tx' = [tx EXCEPT ![h].step = next, ![h].locks = @ \cup rows]
      BY <1>8, <1>9 DEF DisableRequests, DisableChanges, DisableStatement
    <2>2. old \in [op: {"disable"}, locks: SUBSET Lockable, entity: Entities,
                   step: {"requests", "changes", "commit"}]
      BY <1>1, <1>8, <2>1 DEF TxRecord, Idle
    <2>3. PICK r : r = [old EXCEPT !.step = next, !.locks = old.locks \cup rows]
      OBVIOUS
    <2>4. r.op = "disable"
      BY <2>2, <2>3
    <2>5. tx' = [tx EXCEPT ![h] = r]
      BY <1>1, <1>8, <2>1, <2>3
    <2>6. QED
      BY <1>3, <2>4, <2>5
  <1>10. CASE ReportLock(h)
    <2>1. PICK locks, expires :
            /\ old.op = "receive"
            /\ tx' = [tx EXCEPT ![h].op = "report", ![h].locks = locks, ![h].expires = expires]
      BY <1>8, <1>10 DEF ReportLock
    <2>2. old \in [op: {"receive", "report"}, locks: SUBSET Lockable, req: Requests,
                   at: Nat, expires: Nat \cup {Never}]
      BY <1>1, <1>8, <2>1 DEF TxRecord, Idle
    <2>3. PICK r : r = [old EXCEPT !.op = "report", !.locks = locks, !.expires = expires]
      OBVIOUS
    <2>4. r.op = "report" /\ r.at = old.at
      BY <2>2, <2>3
    <2>5. old.at <= MaxTime
      BY <1>8, <2>1 DEF BoundInv, InBounds
    <2>6. InBounds(r)
      BY <2>4, <2>5 DEF InBounds
    <2>7. tx' = [tx EXCEPT ![h] = r]
      BY <1>1, <1>8, <2>1, <2>3
    <2>8. QED
      BY <1>2, <2>6, <2>7
  <1>11. QED
    BY <1>4, <1>5, <1>6, <1>7, <1>9, <1>10
       DEF Proceed, SubmitCommit, ReviewCommit, ProposeCommit, ReviewChangeCommit,
           DisableCommit, ReportCommit, Abort

LEMMA BoundInvariant == Spec => []BoundInv
  <1>1. Init => BoundInv
    BY InitInv, BoundsAssumption DEF Init, BoundInv, InBounds, Idle
  <1>2. ASSUME BoundInv, [Next]_vars
        PROVE  BoundInv'
    <2>1. Inv'
      BY <1>2, NextInv DEF BoundInv
    <2>2. (\A k \in Handlers : InBounds(tx'[k])) => \A k \in Handlers : InBounds(tx[k])'
      OBVIOUS
    <2>3. ASSUME UNCHANGED <<tx, now>>
          PROVE  BoundInv'
      BY <1>2, <2>1, <2>3 DEF BoundInv, InBounds
    <2>4. ASSUME NEW h \in Handlers,
                 \/ SubmitRead(h) \/ ReviewRead(h) \/ ProposeRead(h) \/ ReviewChangeRead(h)
                 \/ DisableBegin(h) \/ ReportReceive(h)
                 \/ Proceed(h)
          PROVE  UNCHANGED now
      BY <2>4 DEF SubmitRead, ReviewRead, ProposeRead, ReviewChangeRead, DisableBegin,
                  ReportReceive, Proceed, SubmitCommit, ReviewCommit, ProposeCommit,
                  ReviewChangeCommit, DisableRequests, DisableChanges, DisableStatement,
                  DisableCommit, ReportLock, ReportCommit, Abort
    <2>5. CASE Tick
      <3>1. now' <= MaxTime
        BY <1>2, <2>5, BoundsAssumption DEF Tick, BoundInv, Inv, TypeOK
      <3>2. UNCHANGED tx
        BY <2>5 DEF Tick
      <3>3. QED
        BY <1>2, <2>1, <3>1, <3>2 DEF BoundInv, InBounds
    <2>6. CASE \/ \E e \in Entities : Enable(e)
               \/ \E r \in Resources, n \in 1..MaxGpu : UpdateResource(r, n)
               \/ \E p \in Projects, us \in SUBSET Users : UpdateProject(p, us)
               \/ WorkerRejectExpired
               \/ UNCHANGED vars
      <3>1. UNCHANGED <<tx, now>>
        BY <2>6 DEF Enable, UpdateResource, UpdateProject, WorkerRejectExpired, vars
      <3>2. QED
        BY <2>3, <3>1
    <2>7. ASSUME NEW h \in Handlers,
                 \/ SubmitRead(h) \/ ReviewRead(h) \/ ProposeRead(h) \/ ReviewChangeRead(h)
                 \/ DisableBegin(h) \/ ReportReceive(h)
                 \/ Proceed(h)
          PROVE  BoundInv'
      <3>1. \A k \in Handlers : InBounds(tx'[k])
        BY <1>2, <2>7, ReadsInBounds, OthersInBounds
      <3>2. now' <= MaxTime
        BY <1>2, <2>4, <2>7 DEF BoundInv
      <3>3. QED
        BY <2>1, <3>1, <3>2 DEF BoundInv, InBounds
    <2>8. QED
      BY <1>2, <2>5, <2>6, <2>7 DEF Next
  <1>3. QED
    BY <1>1, <1>2, PTL DEF Spec

-----------------------------------------------------------------------------
(* Sums over finite sets *)

Less == {pair \in Nat \X Nat : pair[1] < pair[2]}

\* A set of natural numbers that is not empty has a least element.
LEMMA LeastElement ==
    ASSUME NEW S \in SUBSET Nat, S # {}
    PROVE  \E m \in S : \A n \in S : m <= n
  <1>1. IsWellFoundedOn(Less, Nat)
    BY NatLessThanWellFounded DEF OpToRel, Less
  <1>2. PICK m \in S : \A n \in S : <<n, m>> \notin Less
    BY <1>1, WFMin
  <1>3. ASSUME NEW n \in S
        PROVE  m <= n
    <2>1. m \in Nat /\ n \in Nat /\ <<n, m>> \notin Less
      BY <1>2
    <2>2. <<n, m>> \in Nat \X Nat
      BY <2>1
    <2>3. ~(n < m)
      <3> SUFFICES ASSUME n < m
                   PROVE  FALSE
        OBVIOUS
      <3>1. <<n, m>>[1] < <<n, m>>[2]
        BY <2>1
      <3>2. QED
        BY <2>1, <2>2, <3>1, Zenon DEF Less
    <2>4. QED
      BY <2>1, <2>3
  <1>4. QED
    BY <1>2, <1>3

\* Of any subsets of a finite set, one has no other below it.
LEMMA SmallestSubset ==
    ASSUME NEW U, IsFiniteSet(U), NEW bad \in SUBSET (SUBSET U), bad # {}
    PROVE  \E T \in bad : \A x \in T : T \ {x} \notin bad
  <1>1. \A T \in bad : IsFiniteSet(T) /\ Cardinality(T) \in Nat
    BY FS_Subset, FS_CardinalityType
  <1>2. PICK sizes : sizes = {Cardinality(T) : T \in bad}
    OBVIOUS
  <1>3. sizes \in SUBSET Nat /\ sizes # {}
    BY <1>1, <1>2
  <1>4. PICK n \in sizes : \A m \in sizes : n <= m
    BY <1>3, LeastElement
  <1>5. PICK T \in bad : Cardinality(T) = n
    BY <1>2, <1>4
  <1>6. ASSUME NEW x \in T, T \ {x} \in bad
        PROVE  FALSE
    <2>1. Cardinality(T \ {x}) = Cardinality(T) - 1
      BY <1>1, <1>6, FS_RemoveElement
    <2>2. Cardinality(T \ {x}) \in sizes /\ Cardinality(T) \in Nat
      BY <1>1, <1>2, <1>6
    <2>3. n <= Cardinality(T) - 1
      BY <1>4, <2>1, <2>2
    <2>4. QED
      BY <1>5, <2>2, <2>3
  <1>7. QED
    BY <1>5, <1>6

\* The sum of the amounts that a table has for the elements of a set, as
\* MapThenSumSet computes it: one element after the other, in the order of CHOOSE.
Totals(table, S) ==
    CHOOSE total : total = [s \in SUBSET S |->
        IF s = {} THEN 0
        ELSE LET x == CHOOSE x \in s : TRUE
             IN  table[x].amount + total[s \ {x}]]

Total(table, S) == Totals(table, S)[S]

\* One step of the recursion.
Summed(table, total, s) ==
    IF s = {} THEN 0
    ELSE LET x == CHOOSE x \in s : TRUE
         IN  table[x].amount + total[s \ {x}]

UpTo(U, n) == {s \in SUBSET U : Cardinality(s) <= n}

\* Sums of sets up to a size exist, by the least size for which they would not.
LEMMA PartialTotals ==
    ASSUME NEW U, IsFiniteSet(U), NEW table, NEW n \in Nat
    PROVE  \E total : total = [s \in UpTo(U, n) |-> Summed(table, total, s)]
  <1>1. PICK bad : bad = {k \in Nat : ~\E total : total = [s \in UpTo(U, k) |-> Summed(table, total, s)]}
    OBVIOUS
  <1>2. SUFFICES ASSUME bad # {} PROVE FALSE
    BY <1>1
  <1>3. PICK k \in bad : \A m \in bad : k <= m
    BY <1>1, <1>2, LeastElement
  <1>4. k \in Nat /\ ~\E total : total = [s \in UpTo(U, k) |-> Summed(table, total, s)]
    BY <1>1, <1>3
  <1>5. \A s \in SUBSET U : IsFiniteSet(s) /\ Cardinality(s) \in Nat
    BY FS_Subset, FS_CardinalityType
  <1>6. CASE k = 0
    <2>1. \A s \in UpTo(U, k) : s = {}
      BY <1>5, <1>6, FS_EmptySet DEF UpTo
    <2>2. PICK total : total = [s \in UpTo(U, k) |-> 0]
      OBVIOUS
    <2>3. total = [s \in UpTo(U, k) |-> Summed(table, total, s)]
      BY <2>1, <2>2 DEF Summed
    <2>4. QED
      BY <1>4, <2>3
  <1>7. CASE k # 0
    <2>1. k - 1 \in Nat /\ k - 1 \notin bad
      BY <1>3, <1>4, <1>7
    <2>2. PICK old : old = [s \in UpTo(U, k - 1) |-> Summed(table, old, s)]
      BY <1>1, <2>1
    <2>3. PICK total : total = [s \in UpTo(U, k) |-> Summed(table, old, s)]
      OBVIOUS
    <2>4. \A s \in UpTo(U, k - 1) : s \in UpTo(U, k) /\ total[s] = old[s]
      <3>1. \A s \in UpTo(U, k - 1) : s \in UpTo(U, k)
        BY <1>4, <1>5 DEF UpTo
      <3>2. \A s \in UpTo(U, k - 1) : old[s] = Summed(table, old, s)
        BY <2>2
      <3>3. QED
        BY <2>3, <3>1, <3>2
    <2>5. ASSUME NEW s \in UpTo(U, k)
          PROVE  Summed(table, old, s) = Summed(table, total, s)
      <3>1. CASE s = {}
        BY <3>1 DEF Summed
      <3>2. CASE s # {}
        <4>1. PICK x : x = CHOOSE y \in s : TRUE
          OBVIOUS
        <4>2. x \in s
          BY <3>2, <4>1
        <4>3. s \in SUBSET U /\ IsFiniteSet(s) /\ Cardinality(s) \in Nat /\ Cardinality(s) <= k
          BY <1>5 DEF UpTo
        <4>4. Cardinality(s \ {x}) = Cardinality(s) - 1
          BY <4>2, <4>3, FS_RemoveElement
        <4>5. s \ {x} \in UpTo(U, k - 1)
          BY <1>4, <4>3, <4>4 DEF UpTo
        <4>6. QED
          BY <2>4, <3>2, <4>1, <4>5 DEF Summed
      <3>3. QED
        BY <3>1, <3>2
    <2>6. total = [s \in UpTo(U, k) |-> Summed(table, total, s)]
      BY <2>3, <2>5
    <2>7. QED
      BY <1>4, <2>6
  <1>8. QED
    BY <1>6, <1>7

\* The recursion defines what it says.
LEMMA TotalsEquation ==
    ASSUME NEW U, IsFiniteSet(U), NEW table
    PROVE  \A s \in SUBSET U : Totals(table, U)[s] = Summed(table, Totals(table, U), s)
  <1>1. Cardinality(U) \in Nat
    BY FS_CardinalityType
  <1>2. PICK n \in Nat : n = Cardinality(U)
    BY <1>1
  <1>3. UpTo(U, n) = SUBSET U
    BY <1>2, FS_Subset DEF UpTo
  <1>4. \E total : total = [s \in SUBSET U |-> Summed(table, total, s)]
    <2>1. PICK total : total = [s \in UpTo(U, n) |-> Summed(table, total, s)]
      BY PartialTotals, Z3
    <2>2. total = [s \in SUBSET U |-> Summed(table, total, s)]
      BY <1>3, <2>1
    <2>3. QED
      BY <2>2
  <1>5. PICK T : T = Totals(table, U)
    OBVIOUS
  <1>6. T = [s \in SUBSET U |-> Summed(table, T, s)]
    BY <1>4, <1>5 DEF Totals, Summed
  <1>7. \A s \in SUBSET U : T[s] = Summed(table, T, s)
    BY <1>6
  <1>8. QED
    BY <1>5, <1>7

LEMMA TotalAt ==
    ASSUME NEW U, IsFiniteSet(U), NEW table, NEW s \in SUBSET U
    PROVE  /\ s = {} => Totals(table, U)[s] = 0
           /\ s # {} => \E x \in s : /\ x = CHOOSE y \in s : TRUE
                                    /\ Totals(table, U)[s] =
                                        table[x].amount + Totals(table, U)[s \ {x}]
  <1>1. Totals(table, U)[s] = Summed(table, Totals(table, U), s)
    BY TotalsEquation
  <1>2. CASE s # {}
    <2>1. PICK x : x = CHOOSE y \in s : TRUE
      OBVIOUS
    <2>2. x \in s
      BY <1>2, <2>1
    <2>3. Totals(table, U)[s] = table[x].amount + Totals(table, U)[s \ {x}]
      BY <1>1, <1>2, <2>1 DEF Summed
    <2>4. QED
      BY <1>2, <2>1, <2>2, <2>3
  <1>3. CASE s = {}
    BY <1>1, <1>3 DEF Summed
  <1>4. QED
    BY <1>2, <1>3

LEMMA TotalsType ==
    ASSUME NEW U, IsFiniteSet(U), NEW table, \A x \in U : table[x].amount \in Nat
    PROVE  \A s \in SUBSET U : Totals(table, U)[s] \in Nat
  <1>1. PICK bad : bad = {s \in SUBSET U : Totals(table, U)[s] \notin Nat}
    OBVIOUS
  <1>2. SUFFICES ASSUME bad # {} PROVE FALSE
    BY <1>1
  <1>3. bad \in SUBSET (SUBSET U)
    BY <1>1
  <1>4. PICK s \in bad : \A x \in s : s \ {x} \notin bad
    BY <1>2, <1>3, SmallestSubset
  <1>5. s \in SUBSET U /\ Totals(table, U)[s] \notin Nat
    BY <1>1
  <1>6. s # {}
    BY <1>5, TotalAt
  <1>7. PICK x \in s : Totals(table, U)[s] = table[x].amount + Totals(table, U)[s \ {x}]
    BY <1>5, <1>6, TotalAt
  <1>8. Totals(table, U)[s \ {x}] \in Nat /\ table[x].amount \in Nat
    BY <1>1, <1>4, <1>5
  <1>9. QED
    BY <1>5, <1>7, <1>8

\* The sum does not depend on the element that CHOOSE takes first.
LEMMA TotalRemove ==
    ASSUME NEW U, IsFiniteSet(U), NEW table, \A x \in U : table[x].amount \in Nat
    PROVE  \A s \in SUBSET U : \A c \in s :
                Totals(table, U)[s] = table[c].amount + Totals(table, U)[s \ {c}]
  <1>1. PICK T : T = Totals(table, U)
    OBVIOUS
  <1>2. PICK bad : bad = {s \in SUBSET U :
                            ~\A c \in s : T[s] = table[c].amount + T[s \ {c}]}
    OBVIOUS
  <1>3. SUFFICES ASSUME bad # {} PROVE FALSE
    BY <1>1, <1>2
  <1>4. bad \in SUBSET (SUBSET U)
    BY <1>2
  <1>5. PICK s \in bad : \A x \in s : s \ {x} \notin bad
    BY <1>3, <1>4, SmallestSubset
  <1>6. PICK c \in s : T[s] # table[c].amount + T[s \ {c}]
    BY <1>2
  <1>7. s \in SUBSET U
    BY <1>2
  <1>8. PICK x \in s : x = (CHOOSE y \in s : TRUE) /\ T[s] = table[x].amount + T[s \ {x}]
    BY <1>1, <1>6, <1>7, TotalAt
  <1>9. x # c
    BY <1>6, <1>8
  <1>10. /\ T[s \ {x}] = table[c].amount + T[(s \ {x}) \ {c}]
         /\ T[s \ {c}] = table[x].amount + T[(s \ {c}) \ {x}]
    BY <1>2, <1>5, <1>6, <1>7, <1>8, <1>9
  <1>11. (s \ {x}) \ {c} = (s \ {c}) \ {x}
    OBVIOUS
  <1>12. /\ table[c].amount \in Nat /\ table[x].amount \in Nat
         /\ T[(s \ {x}) \ {c}] \in Nat
    BY <1>1, <1>7, TotalsType
  <1>13. PICK a \in Nat, b \in Nat, r \in Nat :
            /\ a = table[c].amount /\ b = table[x].amount /\ r = T[(s \ {x}) \ {c}]
    BY <1>12
  <1>14. T[s] = b + (a + r) /\ T[s \ {c}] = b + r
    BY <1>8, <1>10, <1>11, <1>13
  <1>15. T[s] # a + T[s \ {c}]
    BY <1>6, <1>13
  <1>16. QED
    BY <1>14, <1>15

\* The sum over a set depends on the amounts of its members only.
LEMMA TotalsAgree ==
    ASSUME NEW U, IsFiniteSet(U), NEW V, IsFiniteSet(V), NEW table, NEW other,
           NEW S \in SUBSET U, S \in SUBSET V,
           \A x \in S : table[x].amount = other[x].amount
    PROVE  Totals(table, U)[S] = Totals(other, V)[S]
  <1>1. PICK T, R : T = Totals(table, U) /\ R = Totals(other, V)
    OBVIOUS
  <1>2. PICK bad : bad = {s \in SUBSET S : T[s] # R[s]}
    OBVIOUS
  <1>3. SUFFICES ASSUME bad # {} PROVE FALSE
    BY <1>1, <1>2
  <1>4. bad \in SUBSET (SUBSET S) /\ IsFiniteSet(S)
    BY <1>2, FS_Subset
  <1>5. PICK s \in bad : \A x \in s : s \ {x} \notin bad
    BY <1>3, <1>4, SmallestSubset
  <1>6. s \in SUBSET S /\ s \in SUBSET U /\ s \in SUBSET V /\ T[s] # R[s]
    BY <1>2
  <1>7. s # {}
    BY <1>1, <1>6, TotalAt
  <1>8. PICK x \in s : x = (CHOOSE y \in s : TRUE) /\ T[s] = table[x].amount + T[s \ {x}]
    BY <1>1, <1>6, <1>7, TotalAt
  <1>9. PICK z \in s : z = (CHOOSE y \in s : TRUE) /\ R[s] = other[z].amount + R[s \ {z}]
    BY <1>1, <1>6, <1>7, TotalAt
  <1>10. x = z
    BY <1>8, <1>9
  <1>11. T[s \ {x}] = R[s \ {x}] /\ table[x].amount = other[x].amount
    BY <1>2, <1>5, <1>6
  <1>12. QED
    BY <1>6, <1>8, <1>9, <1>10, <1>11

LEMMA TotalFacts ==
    ASSUME NEW S, IsFiniteSet(S), NEW table, \A x \in S : table[x].amount \in Nat
    PROVE  /\ Total(table, S) \in Nat
           /\ \A c \in S : Total(table, S) = table[c].amount + Total(table, S \ {c})
  <1>1. Total(table, S) \in Nat
    BY TotalsType DEF Total
  <1>2. ASSUME NEW c \in S
        PROVE  Total(table, S) = table[c].amount + Total(table, S \ {c})
    <2>1. IsFiniteSet(S \ {c})
      BY FS_Subset
    <2>2. Totals(table, S)[S \ {c}] = Totals(table, S \ {c})[S \ {c}]
      <3>1. PICK V : V = S \ {c}
        OBVIOUS
      <3>2. IsFiniteSet(V) /\ V \in SUBSET S /\ V \in SUBSET V
        BY <2>1, <3>1
      <3>3. Totals(table, S)[V] = Totals(table, V)[V]
        BY <3>2, TotalsAgree
      <3>4. QED
        BY <3>1, <3>3
    <2>3. Totals(table, S)[S] = table[c].amount + Totals(table, S)[S \ {c}]
      BY TotalRemove
    <2>4. QED
      BY <2>2, <2>3 DEF Total
  <1>3. QED
    BY <1>1, <1>2

LEMMA TotalSame ==
    ASSUME NEW S, IsFiniteSet(S), NEW table, NEW other,
           \A x \in S : table[x].amount = other[x].amount
    PROVE  Total(table, S) = Total(other, S)
  BY TotalsAgree DEF Total

LEMMA TotalEmpty == ASSUME NEW table PROVE Total(table, {}) = 0
  BY TotalAt, FS_EmptySet DEF Total

-----------------------------------------------------------------------------
(* What is granted is what the audit trail adds up to *)

ApprovedOf(table, q, kind) ==
    {c \in Changes : table[c].status = "approved" /\ table[c].req = q /\ table[c].kind = kind}
GrantIn(table, q, kind) == Total(table, ApprovedOf(table, q, kind))

LEMMA GrantedIs ==
    ASSUME NEW q, NEW kind
    PROVE  /\ Granted(q, kind) = GrantIn(chg, q, kind)
           /\ Granted(q, kind)' = GrantIn(chg', q, kind)
  <1>1. Granted(q, kind) = GrantIn(chg, q, kind)
    BY DEF Granted, MapThenSumSet, MapThenFoldSet, GrantIn, Total, Totals, ApprovedOf
  <1>2. Granted(q, kind)' = GrantIn(chg', q, kind)
    BY DEF Granted, MapThenSumSet, MapThenFoldSet, GrantIn, Total, Totals, ApprovedOf
  <1>3. QED
    BY <1>1, <1>2

\* Amounts that can be added up.
Summable(table) ==
    \A c \in Changes : table[c].status = "approved" => table[c].amount \in Nat

LEMMA GrantTypes ==
    ASSUME NEW table, Summable(table), NEW q, NEW kind
    PROVE  /\ IsFiniteSet(ApprovedOf(table, q, kind))
           /\ GrantIn(table, q, kind) \in Nat
           /\ \A c \in ApprovedOf(table, q, kind) :
                GrantIn(table, q, kind) =
                    table[c].amount + Total(table, ApprovedOf(table, q, kind) \ {c})
  <1>1. PICK S : S = ApprovedOf(table, q, kind)
    OBVIOUS
  <1>2. IsFiniteSet(Changes) /\ S \in SUBSET Changes
    BY <1>1, RowsAssumption DEF ApprovedOf
  <1>3. IsFiniteSet(S)
    BY <1>2, FS_Subset
  <1>4. \A x \in S : table[x].amount \in Nat
    BY <1>1 DEF ApprovedOf, Summable
  <1>5. /\ Total(table, S) \in Nat
        /\ \A c \in S : Total(table, S) = table[c].amount + Total(table, S \ {c})
    BY <1>3, <1>4, TotalFacts
  <1>6. QED
    BY <1>1, <1>3, <1>5 DEF GrantIn

\* Changes that are not approved do not count.
LEMMA SameGrant ==
    ASSUME NEW table, NEW next, NEW q, NEW kind, Summable(table),
           \A c \in Changes :
                \/ next[c] = table[c]
                \/ table[c].status # "approved" /\ next[c].status # "approved"
    PROVE  GrantIn(next, q, kind) = GrantIn(table, q, kind)
  <1>1. PICK S : S = ApprovedOf(table, q, kind)
    OBVIOUS
  <1>2. ApprovedOf(next, q, kind) = S
    BY <1>1 DEF ApprovedOf
  <1>3. \A x \in S : table[x].amount = next[x].amount
    BY <1>1 DEF ApprovedOf
  <1>4. IsFiniteSet(S)
    BY <1>1, GrantTypes
  <1>5. Total(table, S) = Total(next, S)
    BY <1>3, <1>4, TotalSame
  <1>6. QED
    BY <1>1, <1>2, <1>5 DEF GrantIn

\* One more approval adds its amount to its request and kind, and to no other.
LEMMA OneMoreGrant ==
    ASSUME NEW table, NEW next, Summable(table), NEW c \in Changes,
           table[c].status # "approved",
           next[c].status = "approved", next[c].amount \in Nat,
           \A d \in Changes \ {c} : next[d] = table[d],
           NEW q, NEW kind
    PROVE  GrantIn(next, q, kind) =
                IF next[c].req = q /\ next[c].kind = kind
                THEN next[c].amount + GrantIn(table, q, kind)
                ELSE GrantIn(table, q, kind)
  <1>1. PICK S, R : S = ApprovedOf(table, q, kind) /\ R = ApprovedOf(next, q, kind)
    OBVIOUS
  <1>2. Summable(next)
    BY DEF Summable
  <1>3. IsFiniteSet(S) /\ IsFiniteSet(R)
    BY <1>1, <1>2, GrantTypes
  <1>4. c \notin S /\ \A x \in S : table[x].amount = next[x].amount
    BY <1>1 DEF ApprovedOf
  <1>5. Total(table, S) = Total(next, S)
    BY <1>3, <1>4, TotalSame
  <1>6. CASE next[c].req = q /\ next[c].kind = kind
    <2>1. c \in R /\ R \ {c} = S
      BY <1>1, <1>4, <1>6 DEF ApprovedOf
    <2>2. GrantIn(next, q, kind) = next[c].amount + Total(next, R \ {c})
      BY <1>1, <1>2, <2>1, GrantTypes
    <2>3. QED
      BY <1>1, <1>5, <1>6, <2>1, <2>2 DEF GrantIn
  <1>7. CASE ~(next[c].req = q /\ next[c].kind = kind)
    <2>1. R = S
      BY <1>1, <1>4, <1>7 DEF ApprovedOf
    <2>2. QED
      BY <1>1, <1>5, <1>7, <2>1 DEF GrantIn
  <1>8. QED
    BY <1>6, <1>7

\* The balance of one request.
Balanced(row, first, table, q) ==
    /\ row.days = first.days + GrantIn(table, q, "extend")
    /\ row.gpus = first.gpus + GrantIn(table, q, "expand") - GrantIn(table, q, "release")
    /\ row.gpus >= 1

LEMMA AuditIsBalance ==
    /\ GrantMatchesAudit <=>
        \A q \in Requests : req[q] # Absent => Balanced(req[q], asked[q], chg, q)
    /\ GrantMatchesAudit' <=>
        \A q \in Requests : req'[q] # Absent => Balanced(req'[q], asked'[q], chg', q)
  <1>1. GrantMatchesAudit <=>
            \A q \in Requests : req[q] # Absent => Balanced(req[q], asked[q], chg, q)
    BY GrantedIs DEF GrantMatchesAudit, Balanced
  <1>2. ASSUME NEW q \in Requests
        PROVE  /\ Granted(q, "extend")' = GrantIn(chg', q, "extend")
               /\ Granted(q, "expand")' = GrantIn(chg', q, "expand")
               /\ Granted(q, "release")' = GrantIn(chg', q, "release")
    BY GrantedIs
  <1>3. GrantMatchesAudit' <=>
            \A q \in Requests : req'[q] # Absent => Balanced(req'[q], asked'[q], chg', q)
    BY <1>2 DEF GrantMatchesAudit, Balanced
  <1>4. QED
    BY <1>1, <1>3

\* A change belongs to a request that exists, and a release that waits for its
\* review leaves a GPU.
ChangesMadeSense ==
    /\ \A c \in Changes : chg[c].status # "absent" =>
        chg[c].req \in Requests /\ req[chg[c].req] # Absent
    /\ \A c \in Changes : chg[c].status = "pending" /\ chg[c].kind = "release" =>
        chg[c].after >= 1

AuditInv == BoundInv /\ ChangesMadeSense /\ GrantMatchesAudit

LEMMA AuditFacts ==
    ASSUME AuditInv
    PROVE  /\ TypeOK /\ Inv
           /\ Summable(chg)
           /\ \A q \in Requests : req[q] # Absent => Balanced(req[q], asked[q], chg, q)
           /\ \A q \in Requests : req[q] = Absent => \A kind \in Kinds : GrantIn(chg, q, kind) = 0
  <1>1. TypeOK /\ Inv
    BY DEF AuditInv, BoundInv, Inv
  <1>2. Summable(chg)
    BY <1>1, RowsTyped DEF Summable, ChangeRow
  <1>3. \A q \in Requests : req[q] # Absent => Balanced(req[q], asked[q], chg, q)
    BY AuditIsBalance DEF AuditInv
  <1>4. ASSUME NEW q \in Requests, req[q] = Absent, NEW kind \in Kinds
        PROVE  GrantIn(chg, q, kind) = 0
    <2>1. ApprovedOf(chg, q, kind) = {}
      BY <1>4 DEF ApprovedOf, AuditInv, ChangesMadeSense
    <2>2. QED
      BY <2>1, TotalEmpty DEF GrantIn
  <1>5. QED
    BY <1>1, <1>2, <1>3, <1>4

\* A step that approves no change, and alters neither the quantities of a request
\* nor what was asked for.
LEMMA QuietStepBalances ==
    ASSUME AuditInv, UNCHANGED asked,
           \A q \in Requests : req'[q] # Absent =>
                /\ req[q] # Absent
                /\ req'[q].days = req[q].days /\ req'[q].gpus = req[q].gpus,
           \A q \in Requests : req[q] # Absent => req'[q] # Absent,
           \A c \in Changes :
                \/ chg'[c] = chg[c]
                \/ /\ chg[c].status # "approved" /\ chg'[c].status # "approved"
                   /\ chg'[c].req \in Requests /\ req[chg'[c].req] # Absent
                   /\ chg'[c].status = "pending" /\ chg'[c].kind = "release" =>
                        chg'[c].after >= 1
    PROVE  ChangesMadeSense' /\ GrantMatchesAudit'
  <1>1. ASSUME NEW q \in Requests, req'[q] # Absent
        PROVE  Balanced(req'[q], asked'[q], chg', q)
    <2>1. \A kind \in Kinds : GrantIn(chg', q, kind) = GrantIn(chg, q, kind)
      BY AuditFacts, SameGrant
    <2>2. Balanced(req[q], asked[q], chg, q)
      BY <1>1, AuditFacts
    <2>3. QED
      BY <1>1, <2>1, <2>2 DEF Balanced, Kinds
  <1>2. GrantMatchesAudit'
    BY <1>1, AuditIsBalance
  <1>3. ChangesMadeSense'
    BY DEF AuditInv, ChangesMadeSense
  <1>4. QED
    BY <1>2, <1>3

LEMMA SubmitCommitBalances ==
    ASSUME AuditInv, NEW h \in Handlers, SubmitCommit(h)
    PROVE  ChangesMadeSense' /\ GrantMatchesAudit'
  <1>1. PICK row : row = tx[h].row
    OBVIOUS
  <1>2. PICK q \in Requests :
            /\ req[q] = Absent /\ req' = [req EXCEPT ![q] = row]
            /\ asked' = [asked EXCEPT ![q] = [gpus |-> row.gpus, days |-> row.days]]
    BY <1>1 DEF SubmitCommit
  <1>3. UNCHANGED chg
    BY DEF SubmitCommit
  <1>4. row \in RequestRow /\ row.gpus >= 1
    BY <1>1, AuditFacts, TxTyped DEF SubmitCommit, Inv, TransactionsIsolated, ReadsStillHold
  <1>5. row.gpus \in Nat /\ row.days \in Nat /\ row # Absent
    BY <1>4 DEF RequestRow, Absent, Verdicts
  <1>6. /\ req'[q] = row /\ \A p \in Requests \ {q} : req'[p] = req[p]
        /\ asked'[q] = [gpus |-> row.gpus, days |-> row.days]
        /\ \A p \in Requests \ {q} : asked'[p] = asked[p]
    BY <1>2, AuditFacts DEF TypeOK
  <1>7. asked'[q].gpus = row.gpus /\ asked'[q].days = row.days
    BY <1>6
  <1>8. /\ GrantIn(chg, q, "extend") = 0 /\ GrantIn(chg, q, "expand") = 0
        /\ GrantIn(chg, q, "release") = 0
    BY <1>2, AuditFacts DEF Kinds
  <1>9. Balanced(req'[q], asked'[q], chg', q)
    BY <1>3, <1>4, <1>5, <1>6, <1>7, <1>8 DEF Balanced
  <1>10. ASSUME NEW p \in Requests \ {q}, req'[p] # Absent
         PROVE  Balanced(req'[p], asked'[p], chg', p)
    BY <1>3, <1>6, <1>10, AuditFacts
  <1>11. GrantMatchesAudit'
    BY <1>9, <1>10, AuditIsBalance
  <1>12. ChangesMadeSense'
    BY <1>3, <1>5, <1>6 DEF AuditInv, ChangesMadeSense
  <1>13. QED
    BY <1>11, <1>12

\* The approval of a change adds its amount to what the request grants.
LEMMA AcceptanceBalances ==
    ASSUME AuditInv, NEW h \in Handlers, ReviewChangeCommit(h), tx[h].verdict = "approved"
    PROVE  ChangesMadeSense' /\ GrantMatchesAudit'
  <1>1. PICK c : c = tx[h].chg
    OBVIOUS
  <1>2. c \in PendingChanges
    BY <1>1, AuditFacts DEF Inv, TransactionsIsolated, ReadsStillHold, ReviewChangeCommit
  <1>3. c \in Changes /\ chg[c].status = "pending" /\ chg[c] \in ChangeRow
    BY <1>2, AuditFacts, RowsTyped DEF PendingChanges
  <1>4. PICK q \in Requests, kind \in Kinds, amount \in Nat, after \in Nat :
            /\ q = chg[c].req /\ kind = chg[c].kind
            /\ amount = chg[c].amount /\ after = chg[c].after
    BY <1>3 DEF ChangeRow
  <1>5. req[q].status = "approved" /\ after = ValueAfter(q, kind, amount)
    BY <1>2, <1>4, AuditFacts DEF Inv, OpenChangeIsCurrent
  <1>6. PICK row \in RequestRow : row = req[q] /\ req[q] # Absent
    BY <1>5, AuditFacts, RowsTyped DEF Absent
  <1>7. row.gpus \in Nat /\ row.days \in Nat
    BY DEF RequestRow
  <1>8. PICK new : new = Applied(row, chg[c])
    OBVIOUS
  <1>9. /\ chg' = [chg EXCEPT ![c].status = "approved"]
        /\ req' = [req EXCEPT ![q] = new] /\ UNCHANGED asked
    BY <1>1, <1>4, <1>6, <1>8 DEF ReviewChangeCommit
  <1>10. /\ req'[q] = new /\ \A p \in Requests \ {q} : req'[p] = req[p]
         /\ chg'[c] = [chg[c] EXCEPT !.status = "approved"]
         /\ \A d \in Changes \ {c} : chg'[d] = chg[d]
    BY <1>3, <1>9, AuditFacts DEF TypeOK
  <1>11. /\ chg'[c].status = "approved" /\ chg'[c].amount = amount
         /\ chg'[c].req = q /\ chg'[c].kind = kind
    BY <1>3, <1>4, <1>10 DEF ChangeRow
  <1>12. ASSUME NEW p, NEW k
         PROVE  GrantIn(chg', p, k) =
                    IF q = p /\ kind = k THEN amount + GrantIn(chg, p, k)
                    ELSE GrantIn(chg, p, k)
    <2>1. PICK next : next = chg'
      OBVIOUS
    <2>2. Summable(chg) /\ chg[c].status # "approved"
      BY <1>3, AuditFacts
    <2>3. \A d \in Changes \ {c} : next[d] = chg[d]
      BY <1>10, <2>1
    <2>4. next[c].status = "approved" /\ next[c].amount = amount /\ next[c].req = q
          /\ next[c].kind = kind
      BY <1>11, <2>1
    <2>5. GrantIn(next, p, k) =
                IF next[c].req = p /\ next[c].kind = k
                THEN next[c].amount + GrantIn(chg, p, k)
                ELSE GrantIn(chg, p, k)
      BY <1>3, <2>2, <2>3, <2>4, OneMoreGrant
    <2>6. QED
      BY <2>1, <2>4, <2>5
  <1>13. PICK e \in Nat, x \in Nat, r \in Nat :
            /\ e = GrantIn(chg, q, "extend") /\ x = GrantIn(chg, q, "expand")
            /\ r = GrantIn(chg, q, "release")
    BY AuditFacts, GrantTypes
  <1>14. /\ row.days = asked[q].days + e
         /\ row.gpus = asked[q].gpus + x - r
         /\ row.gpus >= 1
    BY <1>6, <1>13, AuditFacts DEF Balanced
  <1>15. asked[q].days \in Nat /\ asked[q].gpus \in Nat
    BY AuditFacts DEF TypeOK
  <1>16. /\ new \in RequestRow
         /\ new.days = IF kind = "extend" THEN after ELSE row.days
         /\ new.gpus = IF kind = "extend" THEN row.gpus ELSE after
    <2>1. CASE kind = "extend"
      <3>1. PICK end : end = IF row.expires = Never THEN Never ELSE row.expires + amount
        OBVIOUS
      <3>2. new = [row EXCEPT !.days = after, !.expires = end]
        BY <1>4, <1>8, <2>1, <3>1 DEF Applied
      <3>3. PICK longer : longer = [row EXCEPT !.days = after]
        OBVIOUS
      <3>4. new = [longer EXCEPT !.expires = end]
        BY <3>2, <3>3
      <3>5. longer \in RequestRow /\ longer.days = after /\ longer.gpus = row.gpus
        BY <3>3 DEF RequestRow
      <3>6. end \in Nat \cup {Never}
        <4>1. row.expires \in Nat \cup {Never}
          BY DEF RequestRow
        <4>2. QED
          BY <3>1, <4>1
      <3>7. QED
        BY <2>1, <3>4, <3>5, <3>6 DEF RequestRow
    <2>2. CASE kind # "extend"
      <3>1. new = [row EXCEPT !.gpus = after]
        BY <1>4, <1>8, <2>2 DEF Applied
      <3>2. QED
        BY <2>2, <3>1 DEF RequestRow
    <2>3. QED
      BY <2>1, <2>2
  <1>17. new # Absent
    BY <1>16 DEF RequestRow, Absent, Verdicts
  <1>18. Balanced(req'[q], asked'[q], chg', q)
    <2>1. asked'[q] = asked[q] /\ req'[q] = new
      BY <1>9, <1>10
    <2>2. CASE kind = "extend"
      <3>1. /\ GrantIn(chg', q, "extend") = amount + e
            /\ GrantIn(chg', q, "expand") = x /\ GrantIn(chg', q, "release") = r
        BY <1>12, <1>13, <2>2
      <3>2. after = row.days + amount
        BY <1>5, <1>6, <2>2 DEF ValueAfter, ValueBefore
      <3>3. QED
        BY <1>7, <1>14, <1>15, <1>16, <2>1, <2>2, <3>1, <3>2 DEF Balanced
    <2>3. CASE kind = "expand"
      <3>1. /\ GrantIn(chg', q, "extend") = e
            /\ GrantIn(chg', q, "expand") = amount + x /\ GrantIn(chg', q, "release") = r
        BY <1>12, <1>13, <2>3
      <3>2. after = row.gpus + amount
        BY <1>5, <1>6, <2>3 DEF ValueAfter, ValueBefore
      <3>3. QED
        BY <1>7, <1>14, <1>15, <1>16, <2>1, <2>3, <3>1, <3>2 DEF Balanced
    <2>4. CASE kind = "release"
      <3>1. /\ GrantIn(chg', q, "extend") = e
            /\ GrantIn(chg', q, "expand") = x /\ GrantIn(chg', q, "release") = amount + r
        BY <1>12, <1>13, <2>4
      <3>2. after = row.gpus - amount
        BY <1>5, <1>6, <2>4 DEF ValueAfter, ValueBefore
      <3>3. after >= 1
        BY <1>3, <1>4, <2>4 DEF AuditInv, ChangesMadeSense
      <3>4. QED
        BY <1>7, <1>14, <1>15, <1>16, <2>1, <2>4, <3>1, <3>2, <3>3 DEF Balanced
    <2>5. QED
      BY <2>2, <2>3, <2>4 DEF Kinds
  <1>19. ASSUME NEW p \in Requests \ {q}, req'[p] # Absent
         PROVE  Balanced(req'[p], asked'[p], chg', p)
    <2>1. req'[p] = req[p] /\ asked'[p] = asked[p]
      BY <1>9, <1>10
    <2>2. Balanced(req[p], asked[p], chg, p)
      BY <1>19, <2>1, AuditFacts
    <2>3. /\ GrantIn(chg', p, "extend") = GrantIn(chg, p, "extend")
          /\ GrantIn(chg', p, "expand") = GrantIn(chg, p, "expand")
          /\ GrantIn(chg', p, "release") = GrantIn(chg, p, "release")
      BY <1>12, <1>19
    <2>4. QED
      BY <2>1, <2>2, <2>3 DEF Balanced
  <1>20. GrantMatchesAudit'
    BY <1>18, <1>19, AuditIsBalance
  <1>21. ChangesMadeSense'
    BY <1>10, <1>11, <1>17 DEF AuditInv, ChangesMadeSense
  <1>22. QED
    BY <1>20, <1>21

LEMMA ReviewCommitBalances ==
    ASSUME AuditInv, NEW h \in Handlers, ReviewCommit(h)
    PROVE  ChangesMadeSense' /\ GrantMatchesAudit'
  <1>1. PICK q : q = tx[h].req
    OBVIOUS
  <1>2. q \in Requests /\ req[q].status = "pending" /\ tx[h].verdict \in Verdicts
    BY <1>1, AuditFacts, TxTyped
       DEF Inv, TransactionsIsolated, ReadsStillHold, ReviewCommit
  <1>3. req[q] \in RequestRow /\ req[q] # Absent
    BY <1>2, AuditFacts, RowsTyped DEF Absent
  <1>4. /\ req'[q] = [req[q] EXCEPT !.status = tx[h].verdict]
        /\ \A p \in Requests \ {q} : req'[p] = req[p]
        /\ UNCHANGED <<chg, asked>>
    BY <1>1, <1>2, AuditFacts DEF ReviewCommit, TypeOK
  <1>5. /\ req'[q].days = req[q].days /\ req'[q].gpus = req[q].gpus
        /\ req'[q].status \in Verdicts
    BY <1>2, <1>3, <1>4 DEF RequestRow
  <1>6. req'[q] # Absent
    BY <1>5 DEF Verdicts, Absent
  <1>7. QED
    BY <1>3, <1>4, <1>5, <1>6, QuietStepBalances

LEMMA ReportCommitBalances ==
    ASSUME AuditInv, NEW h \in Handlers, ReportCommit(h)
    PROVE  ChangesMadeSense' /\ GrantMatchesAudit'
  <1>1. PICK q : q = tx[h].req
    OBVIOUS
  <1>2. q \in Requests /\ req[q].status = "approved"
    BY <1>1, AuditFacts, TxTyped DEF Inv, TransactionsIsolated, ReadsStillHold, ReportCommit
  <1>3. req[q] \in RequestRow /\ req[q] # Absent
    BY <1>2, AuditFacts, RowsTyped DEF Absent
  <1>4. /\ \/ req' = req
           \/ req' = [req EXCEPT ![q].started = tx[h].at, ![q].expires = tx[h].expires]
        /\ UNCHANGED <<chg, asked>>
    BY <1>1 DEF ReportCommit
  <1>5. /\ \/ req'[q] = req[q]
           \/ req'[q] = [req[q] EXCEPT !.started = tx[h].at, !.expires = tx[h].expires]
        /\ \A p \in Requests \ {q} : req'[p] = req[p]
    BY <1>2, <1>4, AuditFacts DEF TypeOK
  <1>6. /\ req'[q].days = req[q].days /\ req'[q].gpus = req[q].gpus
        /\ req'[q].status = "approved"
    BY <1>2, <1>3, <1>5 DEF RequestRow
  <1>7. req'[q] # Absent
    BY <1>6 DEF Absent
  <1>8. QED
    BY <1>3, <1>4, <1>5, <1>6, <1>7, QuietStepBalances

LEMMA ProposeCommitBalances ==
    ASSUME AuditInv, NEW h \in Handlers, ProposeCommit(h)
    PROVE  ChangesMadeSense' /\ GrantMatchesAudit'
  <1>1. PICK row : row = tx[h].row
    OBVIOUS
  <1>2. PICK c \in Changes : chg[c] = Absent /\ chg' = [chg EXCEPT ![c] = row]
    BY <1>1 DEF ProposeCommit
  <1>3. /\ row \in ChangeRow /\ row.status = "pending"
        /\ req[row.req].status = "approved"
    BY <1>1, AuditFacts, TxTyped
       DEF Inv, TransactionsIsolated, ReadsStillHold, ProposeCommit
  <1>4. row.req \in Requests /\ req[row.req] # Absent
    BY <1>3 DEF ChangeRow, Absent
  <1>5. row.kind = "release" => row.after >= 1
    BY <1>1 DEF AuditInv, BoundInv, InBounds, ProposeCommit
  <1>6. chg'[c] = row /\ \A d \in Changes \ {c} : chg'[d] = chg[d]
    BY <1>2, AuditFacts DEF TypeOK
  <1>7. UNCHANGED <<req, asked>>
    BY DEF ProposeCommit
  <1>8. chg[c].status # "approved"
    BY <1>2 DEF Absent
  <1>9. QED
    BY <1>3, <1>4, <1>5, <1>6, <1>7, <1>8, QuietStepBalances

\* Rejections: of a change by its reviewer, of everything pending by a disable, and
\* of expired changes by the worker.
LEMMA RejectionBalances ==
    ASSUME AuditInv, NEW rqs \in SUBSET PendingRequests, NEW rcs \in SUBSET PendingChanges,
           req' = [q \in Requests |->
                    IF q \in rqs THEN [req[q] EXCEPT !.status = "rejected"] ELSE req[q]],
           chg' = [c \in Changes |->
                    IF c \in rcs THEN [chg[c] EXCEPT !.status = "rejected"] ELSE chg[c]],
           UNCHANGED asked
    PROVE  ChangesMadeSense' /\ GrantMatchesAudit'
  <1>1. \A q \in rqs : q \in Requests /\ req[q] \in RequestRow /\ req[q] # Absent
    BY AuditFacts, RowsTyped DEF PendingRequests, Absent
  <1>2. \A c \in rcs : c \in Changes /\ chg[c] \in ChangeRow /\ chg[c].status = "pending"
    BY AuditFacts, RowsTyped DEF PendingChanges
  <1>3. ASSUME NEW q \in rqs
        PROVE  /\ req'[q] # Absent /\ req'[q].days = req[q].days
               /\ req'[q].gpus = req[q].gpus
    <2>1. req'[q] = [req[q] EXCEPT !.status = "rejected"] /\ req[q] \in RequestRow
      BY <1>1, <1>3
    <2>2. /\ req'[q].status = "rejected" /\ req'[q].days = req[q].days
          /\ req'[q].gpus = req[q].gpus
      BY <2>1 DEF RequestRow
    <2>3. QED
      BY <2>2 DEF Absent
  <1>4. ASSUME NEW c \in rcs
        PROVE  /\ chg[c].status # "approved" /\ chg'[c].status = "rejected"
               /\ chg'[c].req \in Requests /\ req[chg'[c].req] # Absent
    <2>1. chg'[c] = [chg[c] EXCEPT !.status = "rejected"] /\ chg[c] \in ChangeRow
      BY <1>2, <1>4
    <2>2. chg'[c].status = "rejected" /\ chg'[c].req = chg[c].req
      BY <2>1 DEF ChangeRow
    <2>3. chg[c].status = "pending" /\ c \in Changes
      BY <1>2, <1>4
    <2>4. QED
      BY <2>2, <2>3 DEF AuditInv, ChangesMadeSense
  <1>5. /\ \A q \in Requests \ rqs : req'[q] = req[q]
        /\ \A c \in Changes \ rcs : chg'[c] = chg[c]
    OBVIOUS
  <1>6. \A q \in Requests : req'[q] # Absent =>
                /\ req[q] # Absent
                /\ req'[q].days = req[q].days /\ req'[q].gpus = req[q].gpus
    BY <1>1, <1>3, <1>5
  <1>7. \A q \in Requests : req[q] # Absent => req'[q] # Absent
    BY <1>3, <1>5
  <1>8. \A c \in Changes :
                \/ chg'[c] = chg[c]
                \/ /\ chg[c].status # "approved" /\ chg'[c].status # "approved"
                   /\ chg'[c].req \in Requests /\ req[chg'[c].req] # Absent
                   /\ chg'[c].status = "pending" /\ chg'[c].kind = "release" =>
                        chg'[c].after >= 1
    BY <1>4, <1>5
  <1>9. QED
    BY <1>6, <1>7, <1>8, QuietStepBalances

LEMMA RejectingStepsBalance ==
    ASSUME AuditInv,
           \/ \E h \in Handlers : DisableCommit(h)
           \/ \E h \in Handlers : ReviewChangeCommit(h) /\ tx[h].verdict # "approved"
           \/ WorkerRejectExpired
    PROVE  ChangesMadeSense' /\ GrantMatchesAudit'
  <1>1. CASE \E h \in Handlers : DisableCommit(h)
    <2>1. PICK h \in Handlers : DisableCommit(h)
      BY <1>1
    <2>2. PICK rqs, rcs : rqs = tx[h].locks \cap Requests /\ rcs = tx[h].locks \cap Changes
      OBVIOUS
    <2>3. rqs \in SUBSET PendingRequests /\ rcs \in SUBSET PendingChanges
      BY <2>1, <2>2, AuditFacts DEF Inv, TransactionsIsolated, ReadsStillHold, DisableCommit
    <2>4. /\ req' = [q \in Requests |->
                    IF q \in rqs THEN [req[q] EXCEPT !.status = "rejected"] ELSE req[q]]
          /\ chg' = [c \in Changes |->
                    IF c \in rcs THEN [chg[c] EXCEPT !.status = "rejected"] ELSE chg[c]]
          /\ UNCHANGED asked
      BY <2>1, <2>2 DEF DisableCommit
    <2>5. QED
      BY <2>3, <2>4, RejectionBalances
  <1>2. CASE \E h \in Handlers : ReviewChangeCommit(h) /\ tx[h].verdict # "approved"
    <2>1. PICK h \in Handlers : ReviewChangeCommit(h) /\ tx[h].verdict # "approved"
      BY <1>2
    <2>2. PICK rqs, rcs : rqs = {} /\ rcs = {tx[h].chg}
      OBVIOUS
    <2>3. tx[h].chg \in PendingChanges /\ tx[h].verdict = "rejected"
      BY <2>1, AuditFacts, TxTyped
         DEF Inv, TransactionsIsolated, ReadsStillHold, ReviewChangeCommit, Verdicts
    <2>4. rqs \in SUBSET PendingRequests /\ rcs \in SUBSET PendingChanges
      BY <2>2, <2>3
    <2>5. req' = [q \in Requests |->
                    IF q \in rqs THEN [req[q] EXCEPT !.status = "rejected"] ELSE req[q]]
      BY <2>1, <2>2, AuditFacts DEF ReviewChangeCommit, TypeOK
    <2>6. chg' = [c \in Changes |->
                    IF c \in rcs THEN [chg[c] EXCEPT !.status = "rejected"] ELSE chg[c]]
      BY <2>1, <2>2, <2>3, AuditFacts DEF ReviewChangeCommit, TypeOK
    <2>7. UNCHANGED asked
      BY <2>1 DEF ReviewChangeCommit
    <2>8. QED
      BY <2>4, <2>5, <2>6, <2>7, RejectionBalances
  <1>3. CASE WorkerRejectExpired
    <2>1. PICK rqs, rcs : rqs = {} /\ rcs = DueChanges
      OBVIOUS
    <2>2. rqs \in SUBSET PendingRequests /\ rcs \in SUBSET PendingChanges
      BY <2>1 DEF DueChanges
    <2>3. req' = [q \in Requests |->
                    IF q \in rqs THEN [req[q] EXCEPT !.status = "rejected"] ELSE req[q]]
      BY <1>3, <2>1, AuditFacts DEF WorkerRejectExpired, TypeOK
    <2>4. /\ chg' = [c \in Changes |->
                    IF c \in rcs THEN [chg[c] EXCEPT !.status = "rejected"] ELSE chg[c]]
          /\ UNCHANGED asked
      BY <1>3, <2>1 DEF WorkerRejectExpired
    <2>5. QED
      BY <2>2, <2>3, <2>4, RejectionBalances
  <1>4. QED
    BY <1>1, <1>2, <1>3

LEMMA StepsBalance == AuditInv /\ [Next]_vars => ChangesMadeSense' /\ GrantMatchesAudit'
  <1> SUFFICES ASSUME AuditInv, [Next]_vars PROVE ChangesMadeSense' /\ GrantMatchesAudit'
    OBVIOUS
  <1>1. ASSUME UNCHANGED <<req, chg, asked>>
        PROVE  ChangesMadeSense' /\ GrantMatchesAudit'
    BY <1>1, QuietStepBalances
  <1>2. ASSUME NEW h \in Handlers,
               \/ SubmitRead(h) \/ ReviewRead(h) \/ ProposeRead(h) \/ ReviewChangeRead(h)
               \/ DisableBegin(h) \/ ReportReceive(h)
        PROVE  UNCHANGED <<req, chg, asked>>
    BY <1>2 DEF SubmitRead, ReviewRead, ProposeRead, ReviewChangeRead, DisableBegin,
                ReportReceive, db
  <1>3. ASSUME NEW h \in Handlers,
               \/ DisableRequests(h) \/ DisableChanges(h) \/ ReportLock(h) \/ Abort(h)
        PROVE  UNCHANGED <<req, chg, asked>>
    BY <1>3 DEF DisableRequests, DisableChanges, DisableStatement, ReportLock, Abort, db
  <1>4. ASSUME \/ \E e \in Entities : Enable(e)
               \/ \E r \in Resources, n \in 1..MaxGpu : UpdateResource(r, n)
               \/ \E p \in Projects, us \in SUBSET Users : UpdateProject(p, us)
               \/ Tick
               \/ UNCHANGED vars
        PROVE  UNCHANGED <<req, chg, asked>>
    BY <1>4 DEF Enable, UpdateResource, UpdateProject, Tick, vars, db
  <1>5. ASSUME NEW h \in Handlers, Proceed(h)
        PROVE  ChangesMadeSense' /\ GrantMatchesAudit'
    BY <1>1, <1>3, <1>5, SubmitCommitBalances, ReviewCommitBalances, ProposeCommitBalances,
       AcceptanceBalances, ReportCommitBalances, RejectingStepsBalance DEF Proceed
  <1>6. QED
    BY <1>1, <1>2, <1>4, <1>5, RejectingStepsBalance DEF Next

\* The days and GPUs a request grants are those first asked for, plus every approved
\* extension and expansion, less every approved release, and never no GPU at all: the
\* values that change_values computes under the request's lock are those that
\* review_compute_request_change stores.
THEOREM GrantMatchesAuditAlways == Spec => []GrantMatchesAudit
  <1>1. Init => ChangesMadeSense /\ GrantMatchesAudit
    BY DEF Init, ChangesMadeSense, GrantMatchesAudit, Absent
  <1>2. AuditInv /\ [Next]_vars => ChangesMadeSense' /\ GrantMatchesAudit'
    BY StepsBalance
  <1>3. QED
    BY <1>1, <1>2, BoundInvariant, PTL DEF Spec, AuditInv

=============================================================================
