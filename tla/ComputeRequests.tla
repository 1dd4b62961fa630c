--------------------------- MODULE ComputeRequests ---------------------------
(***************************************************************************)
(* Compute requests and their changes, as the management API, the sample   *)
(* collector and the worker share them in one PostgreSQL database          *)
(* (src/monitoring/backend/src/computedock_monitor).                       *)
(*                                                                         *)
(* A handler is one database transaction in flight.  The database runs     *)
(* READ COMMITTED: a statement sees what is committed when it executes,    *)
(* SELECT ... FOR UPDATE and UPDATE wait for a locked row, an INSERT takes *)
(* FOR KEY SHARE on the rows its foreign keys name.  So every transaction  *)
(* that reads, decides and then writes is split into its steps; what it    *)
(* wrote becomes visible in its last step, where its locks are released.   *)
(* A transaction of a single step is one action.                           *)
(*                                                                         *)
(* Time is counted in days.  MaxGpu, MaxDays and MaxTime only bound the    *)
(* instance: the largest resource, the longest duration and the end of     *)
(* time.                                                                   *)
(***************************************************************************)
EXTENDS Integers, FiniteSets, FiniteSetsExt

CONSTANTS
    Users, Projects, Resources,  \* rows of users, projects, compute_resources
    Requests, Changes,           \* primary keys of compute_requests and changes
    Handlers,                    \* transactions that can be in flight at once
    MaxGpu, MaxDays, MaxTime

ASSUME BoundsAssumption ==
    /\ MaxGpu \in Nat \ {0}
    /\ MaxDays \in Nat \ {0}
    /\ MaxTime \in Nat

Entities == Users \cup Projects \cup Resources

ASSUME RowsAssumption ==
    /\ IsFiniteSet(Changes)
    /\ Requests \cap Changes = {}
    /\ Entities \cap (Requests \cup Changes) = {}
    /\ Users \cap Projects = {} /\ Users \cap Resources = {}
    /\ Projects \cap Resources = {}

VARIABLES
    active,    \* committed: the entities that are not disabled
    members,   \* committed: <<project, user>> pairs of project_members
    capacity,  \* committed: gpu_count of each resource
    req,       \* committed: compute_requests by primary key
    chg,       \* committed: compute_request_changes by primary key
    asked,     \* audit_events "compute_request.create": what was first asked for
    tx,        \* the transaction each handler is executing
    now        \* the clock

db == <<active, members, capacity, req, chg, asked>>
vars == <<db, tx, now>>

-----------------------------------------------------------------------------
(* Rows *)

Never == -1                      \* NULL of started_at and expires_at
Verdicts == {"approved", "rejected"}
Kinds == {"extend", "expand", "release"}

RequestRow ==
    [status: {"pending"} \cup Verdicts,
     applicant: Users, project: Projects, resource: Resources,
     gpus: Nat, days: Nat, started: Nat \cup {Never}, expires: Nat \cup {Never}]

ChangeRow ==
    [status: {"pending"} \cup Verdicts, req: Requests, kind: Kinds,
     amount: Nat, before: Nat, after: Nat]

Absent == [status |-> "absent"]

Relations(row) == {row.applicant, row.project, row.resource}

PendingRequests == {q \in Requests : req[q].status = "pending"}
PendingChanges == {c \in Changes : chg[c].status = "pending"}
PendingOf(q) == {c \in PendingChanges : chg[c].req = q}

\* request.expires_at is not None and as_utc(request.expires_at) <= utcnow()
Expired(q) == req[q].expires # Never /\ req[q].expires <= now

-----------------------------------------------------------------------------
(* Transactions and locks *)

Advisory(r) == <<"resource lifecycle", r>>
Lockable == Requests \cup Changes \cup Entities \cup {Advisory(r) : r \in Resources}

Idle == [op |-> "idle", locks |-> {}]

TxRecord ==
    {Idle}
    \cup [op: {"submit"}, locks: {{}}, row: RequestRow]
    \cup [op: {"review"}, locks: SUBSET Lockable, req: Requests, verdict: Verdicts]
    \cup [op: {"propose"}, locks: SUBSET Lockable, row: ChangeRow]
    \cup [op: {"reviewChange"}, locks: SUBSET Lockable, chg: Changes, verdict: Verdicts]
    \cup [op: {"disable"}, locks: SUBSET Lockable, entity: Entities,
          step: {"requests", "changes", "commit"}]
    \cup [op: {"receive", "report"}, locks: SUBSET Lockable, req: Requests,
          at: Nat, expires: Nat \cup {Never}]

\* No transaction other than h's holds a lock on a row of the set.
Unlocked(h, rows) == \A k \in Handlers \ {h} : tx[k].locks \cap rows = {}

Begin(h, record) == tx[h] = Idle /\ tx' = [tx EXCEPT ![h] = record]
Finish(h) == tx' = [tx EXCEPT ![h] = Idle]

-----------------------------------------------------------------------------
(* Validation shared by the handlers *)

\* All four checks of validate_request_relations, on what is committed now.
Eligible(row) ==
    /\ Relations(row) \subseteq active
    /\ <<row.project, row.applicant>> \in members

\* change_values: the value a change starts from and the one it asks for.
ValueBefore(q, kind) == IF kind = "extend" THEN req[q].days ELSE req[q].gpus
ValueAfter(q, kind, amount) ==
    IF kind = "release" THEN ValueBefore(q, kind) - amount
    ELSE ValueBefore(q, kind) + amount

-----------------------------------------------------------------------------
(* What each transaction locks, and waits for *)

\* Mutant: the request is read without FOR UPDATE before it is reviewed.
ReviewLocks_Unlocked(q) == {}
ReviewLocks(q) == {q}

\* Mutant: a change is prepared from a request that is not locked.
ProposeLocks_Unlocked(q) == {}
ProposeLocks(q) == {q}

ReviewChangeLocks(c) == {chg[c].req, c}

\* Mutant: reports of one resource are not serialised.
ReportLocks_Concurrent(q) == {}
ReportLocks(q) == {Advisory(req[q].resource)}

-----------------------------------------------------------------------------
(* POST /compute-requests *)

\* Reads applicant, project, membership and capacity; locks nothing.
SubmitRead(h) ==
    \E u \in Users, p \in Projects, r \in Resources, g \in 1..MaxGpu, d \in 1..MaxDays :
        LET row == [status |-> "pending", applicant |-> u, project |-> p,
                    resource |-> r, gpus |-> g, days |-> d,
                    started |-> Never, expires |-> Never]
        IN  /\ Eligible(row)
            /\ g <= capacity[r]
            /\ Begin(h, [op |-> "submit", locks |-> {}, row |-> row])
            /\ UNCHANGED <<db, now>>

\* INSERT and COMMIT: the foreign keys wait for a row that is being disabled.
SubmitCommit(h) ==
    /\ tx[h].op = "submit"
    /\ Unlocked(h, Relations(tx[h].row))
    /\ \E q \in Requests :
        /\ req[q] = Absent
        /\ req' = [req EXCEPT ![q] = tx[h].row]
        /\ asked' = [asked EXCEPT ![q] = [gpus |-> tx[h].row.gpus, days |-> tx[h].row.days]]
    /\ Finish(h)
    /\ UNCHANGED <<active, members, capacity, chg, now>>

-----------------------------------------------------------------------------
(* POST /compute-requests/{id}/review *)

ReviewRead(h) ==
    \E q \in PendingRequests, verdict \in Verdicts :
        /\ Unlocked(h, ReviewLocks(q))
        /\ verdict = "approved" =>
            Eligible(req[q]) /\ req[q].gpus <= capacity[req[q].resource]
        /\ Begin(h, [op |-> "review", locks |-> ReviewLocks(q), req |-> q, verdict |-> verdict])
        /\ UNCHANGED <<db, now>>

ReviewCommit(h) ==
    /\ tx[h].op = "review"
    /\ req' = [req EXCEPT ![tx[h].req].status = tx[h].verdict]
    /\ Finish(h)
    /\ UNCHANGED <<active, members, capacity, chg, asked, now>>

-----------------------------------------------------------------------------
(* POST /compute-requests/{id}/changes *)

\* Mutant: a change may be asked for before the first report.
HasReported_NotRequired(q) == TRUE
HasReported(q) == req[q].started # Never

\* Mutant: a release may ask for more GPUs than the request has.
ValueAllowed_AnyRelease(q, kind, after) ==
    /\ kind = "expand" => after <= capacity[req[q].resource]
    /\ kind = "extend" => after <= MaxDays

\* Mutant: a release may take the last GPU.
ValueAllowed_LastGpu(q, kind, after) ==
    /\ kind = "release" => after >= 0
    /\ kind = "expand" => after <= capacity[req[q].resource]
    /\ kind = "extend" => after <= MaxDays

\* Only the extension has no limit in the code; MaxDays bounds it here.
ValueAllowed(q, kind, after) ==
    /\ kind = "release" => after >= 1
    /\ kind = "expand" => after <= capacity[req[q].resource]
    /\ kind = "extend" => after <= MaxDays

\* The same checks for the applicant himself: require_user has read his status in an
\* earlier statement, when he was active, and the session does not read it again.
EligibleSoFar(row) ==
    /\ Relations(row) \ {row.applicant} \subseteq active
    /\ <<row.project, row.applicant>> \in members

\* Locks the request, then checks that it is approved, reporting, not expired,
\* eligible and without an open change, and computes both values.
ProposeRead(h) ==
    \E q \in Requests, kind \in Kinds, amount \in 1..(MaxGpu + MaxDays) :
        LET after == ValueAfter(q, kind, amount)
        IN  /\ req[q].status = "approved"
            /\ Unlocked(h, ProposeLocks(q))
            /\ HasReported(q)
            /\ ~Expired(q)
            /\ EligibleSoFar(req[q])
            /\ PendingOf(q) = {}
            /\ ValueAllowed(q, kind, after)
            /\ Begin(h, [op |-> "propose", locks |-> ProposeLocks(q),
                         row |-> [status |-> "pending", req |-> q, kind |-> kind,
                                  amount |-> amount, before |-> ValueBefore(q, kind),
                                  after |-> after]])
            /\ UNCHANGED <<db, now>>

\* The partial unique index admits one pending change of a request, and the
\* foreign key to the requester waits while that user is being disabled.
ProposeCommit(h) ==
    /\ tx[h].op = "propose"
    /\ Unlocked(h, {req[tx[h].row.req].applicant})
    /\ PendingOf(tx[h].row.req) = {}
    /\ \E c \in Changes :
        /\ chg[c] = Absent
        /\ chg' = [chg EXCEPT ![c] = tx[h].row]
    /\ Finish(h)
    /\ UNCHANGED <<active, members, capacity, req, asked, now>>

-----------------------------------------------------------------------------
(* POST /compute-requests/{id}/changes/{change}/review *)

\* An expired request rejects the change whatever the reviewer decided.
ReviewChangeRead(h) ==
    \E c \in PendingChanges, decision \in Verdicts :
        LET q == chg[c].req
            verdict == IF Expired(q) THEN "rejected" ELSE decision
        IN  /\ Unlocked(h, ReviewChangeLocks(c))
            /\ verdict = "approved" =>
                /\ Eligible(req[q])
                /\ chg[c].kind = "expand" => chg[c].after <= capacity[req[q].resource]
            /\ Begin(h, [op |-> "reviewChange", locks |-> ReviewChangeLocks(c), chg |-> c,
                         verdict |-> verdict])
            /\ UNCHANGED <<db, now>>

\* Mutant: a change of GPUs stores its amount for the new value.
Applied_Amount(row, change) ==
    IF change.kind = "extend"
    THEN [row EXCEPT !.days = change.after, !.expires = @ + change.amount]
    ELSE [row EXCEPT !.gpus = change.amount]

\* What an approved change does to its request.
Applied(row, change) ==
    IF change.kind = "extend"
    THEN [row EXCEPT !.days = change.after,
                     !.expires = IF row.expires = Never THEN Never
                                 ELSE row.expires + change.amount]
    ELSE [row EXCEPT !.gpus = change.after]

ReviewChangeCommit(h) ==
    /\ tx[h].op = "reviewChange"
    /\ LET c == tx[h].chg
       IN  /\ chg' = [chg EXCEPT ![c].status = tx[h].verdict]
           /\ req' = IF tx[h].verdict = "approved"
                     THEN [req EXCEPT ![chg[c].req] = Applied(@, chg[c])]
                     ELSE req
    /\ Finish(h)
    /\ UNCHANGED <<active, members, capacity, asked, now>>

-----------------------------------------------------------------------------
(* Disabling and enabling a user, a project or a resource *)

DisableBegin(h) ==
    \E e \in Entities :
        /\ Unlocked(h, {e})
        /\ Begin(h, [op |-> "disable", locks |-> {e}, entity |-> e,
                     step |-> IF e \in active THEN "requests" ELSE "commit"])
        /\ UNCHANGED <<db, now>>

\* Mutant: the rejection skips the rows that are being reviewed.
DisableStatement_SkipLocked(h, step, next, rows) ==
    /\ tx[h].op = "disable" /\ tx[h].step = step
    /\ tx' = [tx EXCEPT ![h].step = next,
                        ![h].locks = @ \cup {row \in rows : Unlocked(h, {row})}]
    /\ UNCHANGED <<db, now>>

DisableStatement(h, step, next, rows) ==
    /\ tx[h].op = "disable" /\ tx[h].step = step
    /\ Unlocked(h, rows)
    /\ tx' = [tx EXCEPT ![h].step = next, ![h].locks = @ \cup rows]
    /\ UNCHANGED <<db, now>>

\* UPDATE compute_requests: waits for the pending rows that are locked.
DisableRequests(h) ==
    DisableStatement(h, "requests", "changes",
        {q \in PendingRequests : tx[h].entity \in Relations(req[q])})

\* UPDATE compute_request_changes: the same, through the request they belong to.
DisableChanges(h) ==
    DisableStatement(h, "changes", "commit",
        {c \in PendingChanges : tx[h].entity \in Relations(req[chg[c].req])})

DisableCommit(h) ==
    /\ tx[h].op = "disable" /\ tx[h].step = "commit"
    /\ active' = active \ {tx[h].entity}
    /\ req' = [q \in Requests |->
                IF q \in tx[h].locks THEN [req[q] EXCEPT !.status = "rejected"] ELSE req[q]]
    /\ chg' = [c \in Changes |->
                IF c \in tx[h].locks THEN [chg[c] EXCEPT !.status = "rejected"] ELSE chg[c]]
    /\ Finish(h)
    /\ UNCHANGED <<members, capacity, asked, now>>

Enable(e) ==
    /\ \A h \in Handlers : e \notin tx[h].locks
    /\ active' = active \cup {e}
    /\ UNCHANGED <<members, capacity, req, chg, asked, tx, now>>

-----------------------------------------------------------------------------
(* POST /agent/samples with a request token: the first report starts the clock *)

\* The token of an approved request is accepted; received_at is taken here.
ReportReceive(h) ==
    \E q \in Requests :
        /\ req[q].status = "approved"
        /\ Begin(h, [op |-> "receive", locks |-> {}, req |-> q,
                     at |-> now, expires |-> Never])
        /\ UNCHANGED <<db, now>>

\* lock_resource_lifecycle, refresh and start_compute_request.
ReportLock(h) ==
    LET q == tx[h].req
    IN  /\ tx[h].op = "receive"
        /\ Unlocked(h, ReportLocks(q))
        /\ tx' = [tx EXCEPT ![h].op = "report", ![h].locks = ReportLocks(q),
                  ![h].expires = IF req[q].started = Never
                                 THEN tx[h].at + req[q].days ELSE Never]
        /\ UNCHANGED <<db, now>>

\* The batch commits and with it the start; the UPDATE waits for the request row.
ReportCommit(h) ==
    /\ tx[h].op = "report"
    /\ LET q == tx[h].req
       IN  IF tx[h].expires = Never
           THEN req' = req
           ELSE /\ Unlocked(h, {q})
                /\ req' = [req EXCEPT ![q].started = tx[h].at, ![q].expires = tx[h].expires]
    /\ Finish(h)
    /\ UNCHANGED <<active, members, capacity, chg, asked, now>>

-----------------------------------------------------------------------------
(* Everything else that writes these tables *)

\* A transaction that ends without COMMIT: an HTTP error raised late, a failed
\* constraint, a deadlock victim, a lost connection or a killed process.
Abort(h) == tx[h] # Idle /\ Finish(h) /\ UNCHANGED <<db, now>>

\* Mutant: locked rows are not skipped.
DueChanges_IgnoreLocks == {c \in PendingChanges : Expired(chg[c].req)}

\* Mutant: only extensions are looked at.
DueChanges_ExtensionsOnly ==
    {c \in PendingChanges :
        /\ chg[c].kind = "extend"
        /\ Expired(chg[c].req)
        /\ \A h \in Handlers : tx[h].locks \cap {c, chg[c].req} = {}}

DueChanges ==
    {c \in PendingChanges :
        /\ Expired(chg[c].req)
        /\ \A h \in Handlers : tx[h].locks \cap {c, chg[c].req} = {}}

\* auto_reject_expired_changes: one worker transaction, FOR UPDATE SKIP LOCKED.
WorkerRejectExpired ==
    LET due == DueChanges
    IN  /\ due # {}
        /\ chg' = [c \in Changes |->
                    IF c \in due THEN [chg[c] EXCEPT !.status = "rejected"] ELSE chg[c]]
        /\ UNCHANGED <<active, members, capacity, req, asked, tx, now>>

\* update_resource may change gpu_count whatever has been granted.
UpdateResource(r, n) ==
    /\ \A h \in Handlers : r \notin tx[h].locks
    /\ capacity' = [capacity EXCEPT ![r] = n]
    /\ UNCHANGED <<active, members, req, chg, asked, tx, now>>

\* update_project replaces the whole member list by active users.
UpdateProject(p, us) ==
    /\ us \subseteq active
    /\ \A h \in Handlers : tx[h].locks \cap ({p} \cup us) = {}
    /\ members' = {m \in members : m[1] # p} \cup {<<p, u>> : u \in us}
    /\ UNCHANGED <<active, capacity, req, chg, asked, tx, now>>

Tick ==
    /\ now < MaxTime
    /\ now' = now + 1
    /\ UNCHANGED <<db, tx>>

-----------------------------------------------------------------------------
Init ==
    /\ active = Entities
    /\ members = {}
    /\ capacity \in [Resources -> 1..MaxGpu]
    /\ req = [q \in Requests |-> Absent]
    /\ chg = [c \in Changes |-> Absent]
    /\ asked = [q \in Requests |-> [gpus |-> 0, days |-> 0]]
    /\ tx = [h \in Handlers |-> Idle]
    /\ now = 0

\* The steps of a transaction that has begun, up to its end.
Proceed(h) ==
    \/ SubmitCommit(h)
    \/ ReviewCommit(h)
    \/ ProposeCommit(h)
    \/ ReviewChangeCommit(h)
    \/ DisableRequests(h) \/ DisableChanges(h) \/ DisableCommit(h)
    \/ ReportLock(h) \/ ReportCommit(h)
    \/ Abort(h)

Next ==
    \/ \E h \in Handlers :
        \/ SubmitRead(h) \/ ReviewRead(h) \/ ProposeRead(h) \/ ReviewChangeRead(h)
        \/ DisableBegin(h) \/ ReportReceive(h)
        \/ Proceed(h)
    \/ \E e \in Entities : Enable(e)
    \/ \E r \in Resources, n \in 1..MaxGpu : UpdateResource(r, n)
    \/ \E p \in Projects, us \in SUBSET Users : UpdateProject(p, us)
    \/ WorkerRejectExpired
    \/ Tick

Spec == Init /\ [][Next]_vars

\* Every transaction ends (each handler is straight-line code on one session,
\* and PostgreSQL breaks deadlocks).  The worker polls forever and skips locked
\* rows; the handlers' locks are short, so a change that is unlocked again and
\* again is found unlocked by some poll.
Fairness ==
    /\ \A h \in Handlers : WF_vars(Proceed(h))
    /\ SF_vars(WorkerRejectExpired)

FairSpec == Spec /\ Fairness

-----------------------------------------------------------------------------
(* Properties *)

\* The contract this implements: the tables without what is in flight.
OpenProposal(q) ==
    IF PendingOf(q) = {} THEN Absent
    ELSE LET c == CHOOSE c \in PendingOf(q) : TRUE
         IN  [kind |-> chg[c].kind, amount |-> chg[c].amount]

Promise == INSTANCE RequestContract WITH
    Quantities <- 1..(MaxGpu + MaxDays),
    Times <- 0..MaxTime,
    contract <- [q \in Requests |->
        IF req[q] = Absent THEN Absent
        ELSE [status |-> req[q].status, gpus |-> req[q].gpus, days |-> req[q].days,
              started |-> req[q].started, expires |-> req[q].expires]],
    proposal <- [q \in Requests |-> OpenProposal(q)]

TypeOK ==
    /\ active \in SUBSET Entities
    /\ members \in SUBSET (Projects \X Users)
    /\ capacity \in [Resources -> 1..MaxGpu]
    /\ req \in [Requests -> {Absent} \cup RequestRow]
    /\ chg \in [Changes -> {Absent} \cup ChangeRow]
    /\ asked \in [Requests -> [gpus: Nat, days: Nat]]
    /\ tx \in [Handlers -> TxRecord]
    /\ now \in Nat

\* No row is locked by two transactions.
LocksExclusive ==
    \A h, k \in Handlers : h # k => tx[h].locks \cap tx[k].locks = {}

\* What a transaction has read still holds when it writes: a row it decided to
\* approve or reject is still pending, the request a change was computed from
\* still has the values it was computed from, and a report that is going to
\* start the clock is the one that still may.
ReadsStillHold(h) ==
    LET t == tx[h]
    IN  /\ t.op = "idle" => t = Idle
        /\ t.op = "submit" =>
            /\ t.row.status = "pending" /\ t.row.gpus >= 1 /\ t.row.days >= 1
            /\ t.row.started = Never /\ t.row.expires = Never
        /\ t.op = "review" => t.req \in t.locks /\ req[t.req].status = "pending"
        /\ t.op = "propose" =>
            /\ t.row.req \in t.locks
            /\ t.row.status = "pending"
            /\ req[t.row.req].status = "approved"
            /\ req[t.row.req].started # Never
            /\ t.row.before = ValueBefore(t.row.req, t.row.kind)
            /\ t.row.after = ValueAfter(t.row.req, t.row.kind, t.row.amount)
        /\ t.op = "reviewChange" =>
            {t.chg, chg[t.chg].req} \subseteq t.locks /\ t.chg \in PendingChanges
        /\ t.op = "disable" =>
            /\ t.locks \cap Requests \subseteq PendingRequests
            /\ t.locks \cap Changes \subseteq PendingChanges
        /\ t.op = "receive" => t.locks = {} /\ req[t.req].status = "approved"
        /\ t.op = "report" =>
            /\ Advisory(req[t.req].resource) \in t.locks
            /\ req[t.req].status = "approved"
            /\ t.expires # Never =>
                req[t.req].started = Never /\ t.expires = t.at + req[t.req].days

TransactionsIsolated == LocksExclusive /\ \A h \in Handlers : ReadsStillHold(h)

\* Extending and reporting never disagree about the end of a request: it runs
\* from its first report for exactly its granted days, and only an approved
\* request runs.  start_compute_request writes expires_at from the days it read
\* under the advisory lock, an approved extension adds to expires_at under the
\* row lock; the two locks differ, and only the "started" guard of
\* create_compute_request_change keeps them apart.
ClockMatchesGrant ==
    \A q \in Requests : req[q] # Absent =>
        IF req[q].started = Never
        THEN req[q].expires = Never
        ELSE /\ req[q].status = "approved"
             /\ req[q].expires = req[q].started + req[q].days

\* Only a request whose clock runs has a pending change, it has at most one, and
\* approving it cannot overwrite an approval that came in between: the absolute
\* values the change carries still start from what the request has now.
OpenChangeIsCurrent ==
    \A c \in PendingChanges :
        LET q == chg[c].req
        IN  /\ req[q].status = "approved" /\ req[q].started # Never
            /\ PendingOf(q) = {c}
            /\ chg[c].before = ValueBefore(q, chg[c].kind)
            /\ chg[c].after = ValueAfter(q, chg[c].kind, chg[c].amount)

\* What the request grants is what the audit trail adds up to: the days and GPUs
\* first asked for, plus every approved extension and expansion, less every
\* approved release; a release never takes the last GPU.
Granted(q, kind) ==
    MapThenSumSet(LAMBDA c : chg[c].amount,
        {c \in Changes : chg[c].status = "approved" /\ chg[c].req = q /\ chg[c].kind = kind})

GrantMatchesAudit ==
    \A q \in Requests : req[q] # Absent =>
        /\ req[q].days = asked[q].days + Granted(q, "extend")
        /\ req[q].gpus = asked[q].gpus + Granted(q, "expand") - Granted(q, "release")
        /\ req[q].gpus >= 1

\* A decision is final: two reviewers, a reviewer and a disabled entity, or a
\* reviewer and the worker never decide the same row twice.
Decided(row) == row.status \in Verdicts

KeepsDecisions ==
    /\ \A q \in Requests : Decided(req[q]) => req'[q].status = req[q].status
    /\ \A c \in Changes : Decided(chg[c]) => chg'[c] = chg[c]

\* The clock of a request starts once and only ever moves forward, also when
\* several containers send their first report at the same time.
KeepsClocks ==
    \A q \in Requests : req[q] # Absent /\ req[q].started # Never =>
        /\ req'[q].started = req[q].started
        /\ req'[q].expires >= req[q].expires

\* No step takes back a decision that was made or time that was granted.
NothingIsTakenBack == [][KeepsDecisions /\ KeepsClocks]_vars

\* An approval never lands behind a disable: when a request becomes approved
\* its applicant, project and resource are active, because the disabling
\* transaction waits for the reviewer's row lock.  Of a change this holds for
\* the applicant, whose row the insertion of the change has to share.
ApprovalPrecedesDisable ==
    [][/\ \A q \in Requests :
            req[q].status = "pending" /\ req'[q].status = "approved"
                => Relations(req[q]) \subseteq active
       /\ \A c \in Changes :
            chg[c].status = "pending" /\ chg'[c].status = "approved"
                => req[chg[c].req].applicant \in active]_vars

\* The worker's promise: a change that is still open when its request has
\* expired does not stay open.
ExpiredChangeIsClosed ==
    \A c \in Changes :
        (c \in PendingChanges /\ Expired(chg[c].req)) ~> c \notin PendingChanges

\* "Disabling a user, project or resource automatically rejects the requests and
\* changes still pending" (monitoring/README.md): nothing pending refers to a
\* disabled entity.
DisabledHasNothingPending ==
    /\ \A q \in PendingRequests : Relations(req[q]) \subseteq active
    /\ \A c \in PendingChanges : Relations(req[chg[c].req]) \subseteq active

\* However their transactions interleave, the tables keep the request contract:
\* every commit is one of its steps, or none.
KeepsContract == Promise!Spec
=============================================================================
