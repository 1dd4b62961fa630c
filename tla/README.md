# ComputeDock: models and proofs

TLA+ modules for ComputeDock: a service through which users apply for GPU
resources, administrators grant them, containers report what their GPUs do, and
a worker sends mail, closes what has expired and aggregates history. The code is
Python (FastAPI, SQLAlchemy, PostgreSQL) under `src/monitoring/backend`, a Python
agent under `src/agent`, and shell scripts that create and run containers. `B/`
below is `src/monitoring/backend/src/computedock_monitor/`.

`PROJECT.json` names, for each definition, the source lines it models, and for
each run, theorem and hazard what it is about.

Run `tlc -config X.cfg M` for the rows of section 4 and `tlapm M.tla` for the
modules of section 5.

## 1. Inventory

| Part | State | Operations | Interacts through | What makes it correct |
| --- | --- | --- | --- | --- |
| Compute requests (`B/routers/compute_requests.py`) | `compute_requests`, `compute_request_changes` | submit, review, ask for a change, review a change | rows shared with every part that disables, reports or expires | each row is decided once; grant, clock and audit trail agree |
| Users, projects, resources (`B/routers/{users,projects,resources}.py`) | `users`, `projects`, `project_members`, `compute_resources` | create, update, disable, enable, replace members | a disable rejects pending requests and changes | nothing is approved behind a disable; an administrator always remains |
| Sample ingestion (`B/services.py`, `B/routers/agent.py`) | `container_instances`, `sample_batches`, `gpu_samples` | a report; removal of a container | the first report starts the clock of its request | what was acknowledged is stored; summaries agree with the batches |
| Worker (`B/worker.py`) | `notification_outbox`, `hourly_gpu_rollups`, `worker_checkpoints` | reject expired changes, schedule mails, send, aggregate | the same database; SMTP | no mail lost or sent without limit; no day skipped |
| Accounts (`B/routers/auth.py`, `B/auth.py`, `B/notifications.py`) | `admin_sessions`, `registration_requests`, `email_action_tokens` | register, verify, login, logout, password and e-mail changes | tokens and mails | accounts need a verified mail; old sessions and links end |
| Agent (`src/agent`) | `identity.json`, the next deadline | load or create the identity, collect, report, stop | HTTP to the collector | one name per state directory; a grid without drift; stops when told |
| Container services (`run_agent_service.sh`, `healthcheck.sh`, `init_container.sh`, `supervisord.conf`) | PID file, agent process | start, restart, stop, health check | signals, files | a stopped service leaves no agent; healthy means running |
| Container creation (`create_container.sh`) | Docker containers, ports, CPU and GPU sets | ask, check conflicts, create | Docker | a port or an overlap is shared by consent or through the gap only |
| Settings, history, overviews (`B/routers/{settings,history}.py`, `B/smtp.py`) | one SMTP row; none | read, replace | the tables above | |
| Frontend (`src/monitoring/frontend`) | none the server trusts | calls the API | HTTP | |

Behaviour that is hard to test, and so what the properties are for: every API
handler is one READ COMMITTED transaction that reads, decides and writes, and
two of them interleave at their row locks, advisory locks and foreign key
checks; the worker skips locked rows; mails are sent outside of any transaction
and the worker may die there; reports arrive late, twice and out of order;
several agents share one state directory; the agent and its supervisor race
with signals and files. `PROJECT.json` lists each hazard with its line and the
properties that watch it, or why none does.

## 2. Modules

| Module | Models | Checked by |
| --- | --- | --- |
| `ComputeRequests` | requests, changes, disabling, first report, expiry | `requests_safety`, `requests_liveness`, `requests_disabled` |
| `RequestContract` | what one compute request promises, abstractly | `KeepsContract` in `requests_safety` |
| `ComputeRequests_proofs` | the invariant of `ComputeRequests`, sums over its audit trail | proved |
| `ComputeRequests_steps` | what a step of `ComputeRequests` may never do; that it implements `RequestContract` | proved |
| `AdminRoster` | roles, statuses and sessions of administrators | `admin_two`, `admin_three` |
| `AdminRoster_proofs` | theorems about `AdminRoster` | proved |
| `AccountTokens` | passwords, e-mail changes, their links and sessions | `account_links` |
| `AccountTokens_proofs` | theorems about `AccountTokens` | proved |
| `Registrations` | registration, its links and its review | `registration_safety`, `registration_reopen` |
| `Registrations_proofs` | theorems about `Registrations` | proved |
| `MailOutbox` | the mails that become due and cease to be, the outbox, the workers that deliver it | `worker_all`, `mail_queue` |
| `HourlyRollup` | the daily aggregation with its checkpoint | `worker_all` |
| `OnlineTime` | the online time of an hour, computed from samples | `worker_all` |
| `Worker_proofs` | theorems about `MailOutbox`, `HourlyRollup` and `OnlineTime` | proved |
| `SampleIngest` | reports, container generations, removal | `containers_all` |
| `CreateContainer` | the script that creates containers, on a host that changes | `containers_all` |
| `Containers_proofs` | theorems about `SampleIngest` and `CreateContainer` | proved |
| `Agent` | identity, loop and signals of agent processes | `agent_all` |
| `AgentService` | the restarting wrapper, supervisord and the health check | `agent_all` |
| `Agent_proofs` | theorems about `Agent` and `AgentService` | proved |

`MCComputeRequests`, `MCAdminRoster`, `MCAccountTokens` and `MCRegistrations`
extend a module with the symmetry of its instance. `MCWorker`, `MCContainers` and
`MCAgent` check parts that share no state in one run: a variable `part`, fixed in
the initial state, says which part moves, so each behaviour is one of one part,
each state space is the sum and not the product, and a property of a part is
checked on exactly its behaviours. Where parts do share state they are in one
module: everything that touches a compute request is in `ComputeRequests`, the
wrapper, supervisord and the health check in `AgentService`. Runs with a liveness
property use no symmetry.

## 3. How the modules correspond to the code

**Transactions.** A handler of the API is one SQLAlchemy session and one READ
COMMITTED transaction (`B/database.py`). In `ComputeRequests`, `AdminRoster`,
`SampleIngest`, `Registrations` and `AccountTokens` a handler has a record `tx[h]` with what
it has read and locked. Its first action is the code up to the last check; it
waits for the rows it selects `FOR UPDATE`, and is disabled when a check
refuses. Its last action writes what the code writes, after it has waited for
the rows its statements and foreign keys need, and releases the locks. A handler
that locks rows one statement after the other has a step for each (disabling).
`Abort` is every other end: an HTTP error, a violated constraint, a deadlock
victim, a lost connection. What a transaction wrote becomes visible only at its
commit, so variables hold what is committed.

Three simplifications hold in all five modules. Authentication and validation
reads that precede the lock are taken together with it, unless something the
properties look at can change in between (the session and status check of
`AdminRoster`, the reception time of a report, the status of an applicant who
waits for his request). A refused request changes
nothing and is an `Abort`, or no step at all. Row locks that can only delay and
never order two writes (a `FOR KEY SHARE` between two inserts) are left out.

**`ComputeRequests`.** `req`, `chg`, `active`, `members`, `capacity` are the
tables, `asked` is the audit event of the creation, `now` is in days.
`SubmitRead/Commit`, `ReviewRead/Commit`, `ProposeRead/Commit` and
`ReviewChangeRead/Commit` are the four endpoints of
`B/routers/compute_requests.py`. `require_user` reads the status of an applicant
before `ProposeRead` waits for his request and nothing reads it again, so
`EligibleSoFar` has no condition on it. For a reviewer who is the applicant
nothing is lost by reading late: a disable in between rejects the row he waits
for, so he finds it decided. `SubmitRead` takes the reads of three entities in
one step; the insert comes later, and so does any disable of them. `DisableBegin`, `DisableRequests`,
`DisableChanges`, `DisableCommit` are the disabling of a user, project or
resource: lock the entity, then two UPDATEs that lock the pending rows that are
committed when they execute. `ReportReceive/Lock/Commit` is the part of
`ingest_sample` that starts a request: `received_at` is taken before the
advisory lock, the decision to start under it. `WorkerRejectExpired` is
`auto_reject_expired_changes` (FOR UPDATE SKIP LOCKED). `UpdateResource` and
`UpdateProject` change capacity and membership behind open requests.

**`RequestContract`** knows none of that: a request with status, GPUs, days and
clock, and at most one open proposal. `KeepsContract` maps the tables to it.
`Reject` takes sets of requests and proposals because one disable decides many.

**`AdminRoster`.** `Authenticate` (require_admin_csrf), `LockTarget` (FOR UPDATE
and the checks of `update_user`, with the unlocked count) and `Commit`, which
waits for the actor's row because the audit event refers to it. A login checks
first and inserts its session later. An administrator who patches himself sees
the user object his session loaded.

**`AccountTokens`.** One account and the addresses of all others. `LoginRead`
checks the password, `LoginCommit` inserts the session. `ChangeRead` and
`FollowRead` are the checks of a password change and of a followed link, which
is locked; `Write` is the UPDATE of the user and the DELETE of the sessions that
are committed then, `PasswordCommit` the end of both. `IssueRead` and
`IssueCommit` are `issue_action_token`: its UPDATE finds the unconsumed links that
are committed, waits for those that are being followed, and replaces them.
`ConfirmCommit` moves the account to the address of the link unless the unique
index refuses. A session keeps the password it was opened with and the last one
whose change had begun by its commit: that is how far it may be out of date.

**`MailOutbox`.** `offer` is what the worker's queries select, for each
idempotency key. `Begin` makes a mail due: a rejection, which is offered for ever,
or a request whose `expires_at` comes within a day. That one is offered for this
day only: then `Expire` replaces its key by the key of the expired mail, which is
offered for ever, or `Extend`, an approved extension, takes it away. `Schedule` and
`Insert` are one of the two functions of the worker that insert mails, each a
transaction of its own (`enqueue_notification`): it looks for the keys that are
missing and inserts them at the end, all or none. `Enqueue` is the API, which
inserts a mail with its reason. `Claim` is the first
transaction of `process_one_notification` including the takeover of mails that
are "sending" for more than 15 minutes; `SendSucceeds` and `SendFails` are the
SMTP call with the second one. A worker that is overtaken keeps its copy of the
attempts and writes its result over whatever the row has become. `cutOff` is
history: mails whose last attempt a crash ended, which stay "sending" for ever
(`Settled` says what else a mail may end as). Time is in minutes and relative, so
there is no end of time.

**`SampleIngest`.** `Receive` validates the collection time, `Lock` takes the
advisory lock, locks or will create the container generation, refuses a
different payload for a stored time, `Commit` writes batch and summary.
`RemoveRead/Commit` is the removal by an administrator. A removal is a boolean
here: two concurrent ones both succeed and the later one overwrites
`removed_at`, which is not shown.

**`Registrations`.** One name stands for a username and its e-mail.
`VerifyRead` locks the link, not the registration; `ReviewRead` locks the
registration; `ResendRead` fixes the links its UPDATE finds; `RegisterCommit`
rejects stale registrations it found earlier. The unique indexes on open
registrations and users are guards of the commits.

**`HourlyRollup`.** `StartPass` reads or creates the checkpoint, `Aggregate` is
the INSERT ... SELECT of a day, `CommitDay` commits it with the checkpoint. A
rollup is the set of samples it was made of. Time is in days, and `Arrive`
accepts what `validate_collection_time` does: the last 24 hours and the next five
minutes, so a day back and, just before midnight, a day ahead. The promise is
about samples stored before the day of their date is over: README.md:130 of the
monitoring service excludes late ones ("不考虑迟到补传"). There is one exception,
which `ahead` records. `aggregate_pending_days` puts the first checkpoint before the
earliest sample; when that is dated tomorrow, because the service is started for
the first time in the last minutes of a day and the clocks of all agents so far
are fast, today counts as done and its later samples are not aggregated. Both
properties of the module say so, and say that it can happen to no other day.

**`OnlineTime`.** `bucket_start`, `next_collected_at` and `online_seconds` are the
expressions of ROLLUP_SQL for one GPU of one container; the property compares
their sum with the number of seconds that were covered, for every set of
samples. Averages and maxima are aggregate functions of SQL and left out.

**`CreateContainer`.** An operator's `dialog` goes through the script:
`prompt_port`, `prompt_container_name`, `Review` and `Recheck` (both look for
overlaps with running containers and ask for consent), `prepare_mount_path` with
`Mkdir` and `Chown`, `docker_run`. Ports, names and overlaps are looked up where the
script does, and used later. It asks Docker for ports in two ways. The
recommended one is compared with the `HostConfig.PortBindings` of all containers
and with what listens (`recommend_ssh_port`, any set of ports here). A typed one,
and any port at the recheck, is looked for with `docker ps -a --filter publish=`
(`port_is_in_use`), which knows what is published at the moment: a stopped
container publishes nothing, so its port can be typed and passes both checks. With
`SSH_PORT_RANGE=0` nothing is recommended and every port is a typed one. `RunOther`, `Stop`, `Start` and `Remove` are what others do
with Docker. CPU lists are normalised to ranges and expanded again as the
script does; GPUs of a container are known by their device IDs, or unknown. A
container remembers with which others it was compared and found different:
`sawRunning` for CPUs and GPUs, where those that were listed to the operator as
overlapping are left out, because he consented to them and to no others;
`sawPorts` for ports, by whichever of the two queries.

**`Agent`.** The steps of `load_or_create_identity` (exists, link, read back) and
of `Agent.run`. The temporary file is written and synced before it is linked,
so the name appears at once. SIGTERM sets the event in the loop and ends the
process before it.

**`AgentService`.** A step of `wrapper` is a command of `run_agent_service.sh`; a
signal during a command runs its trap when the command is complete (`Complete`,
`Trap`). `Fork` and `Record` are apart because the trap may run between them, and
so are `Waited` and `Forget` (lines 50 and 52): in between the shell has the PID of
a process that is gone, and a trap may end another program that has got it.
`Publish` is the rename of the PID file; it may fail. The `mkdir -p` of line 30
cannot: `init_container.sh` makes the directory before it starts supervisord. `Stop`, `KillGroup`, `Reap`
and `Respawn` are supervisord with its `stopasgroup`, `killasgroup`, `exitcodes`
and `autorestart`. `CheckStep` is a command of `healthcheck.sh`, which keeps the
PID it has read while the process it names ends and the PID is used again.
`ContainerEnds` ends all processes and keeps the PID file, which
`init_container.sh` removes. `watch`, `kills` and `windows` are history: what held
all through a check, and why a wrapper may have left an agent behind. A program
that supervisord cannot spawn at all (BACKOFF, FATAL) is not modelled, nor is a
signal handler of the agent that runs inside of `Event.wait`.

## 4. What the runs show

| Run | Instance | Shows |
| --- | --- | --- |
| `requests_safety` | 1 user, project, resource, request; 2 changes; 2 transactions; 2 GPUs, 2 days, time 0..1 | `TransactionsIsolated`: what was read under a lock still holds at commit. `ClockMatchesGrant`: a request expires exactly its granted days after its first report, although reports and extensions use different locks. `OpenChangeIsCurrent`: the absolute values of an open change are not stale. `GrantMatchesAudit`: the grant is the sum of what was asked for and approved. `NothingIsTakenBack`: no decision is overturned, no clock restarted or set back. `ApprovalPrecedesDisable`. `KeepsContract`: all of it implements the contract. |
| `requests_liveness` | the same with 1 change | `ExpiredChangeIsClosed`: a change that is open when its request expires is rejected or decided. |
| `requests_disabled` | 2 transactions, 1 GPU, 1 day | violated: a request validated before a disable and inserted after it stays pending on a disabled entity (README.md:40 of the monitoring service). |
| `admin_two` | 2 administrators, 3 transactions | `AlwaysAnActiveAdmin` holds: the two wait for each other's row. `NoSessionSurvivesChange`: whoever's role or status changes has no session afterwards. |
| `admin_three` | 3 administrators, 2 transactions | violated: two concurrent changes of two different targets leave no active administrator (users.py:213). |
| `account_links` | 2 addresses, 2 sessions, 2 links, 2 transactions, 2 further passwords | `NoSessionOutlivesPassword`: a session of an old password is there only if its login, or the change, was still in flight, and never after the next change. `WorksOnceWhileNewest`: a link works once, and not after a new one was issued, even when it was being followed meanwhile. |
| `registration_safety` | 2 names, 2 registrations, 3 links, 3 transactions | `AccountNeedsVerifiedMail`: no account without a followed link. `LinkWorksOnce`. |
| `registration_reopen` | 1 name, 2 transactions | violated: a verification moves a registration that was decided meanwhile back to review (auth.py:240). |
| `worker_all` | mails: 2 mails, 2 workers, 2 attempts, takeover after 1 minute; rollups: 1 sample a day, 2 workers, 2 crashes, 3 days; online time: 3 hours of 4 seconds, offline after 3 | `DuplicatesNeedTakeover`. `SendsAreLimited`: confirmed sends and those in flight are within the attempts, which count a send that a crash cut off as well. `NoMailIsForgotten`: a mail that is due is inserted, unless it announces an expiry whose last day ends first; one that is inserted ends sent, "failed", or with a last attempt that a crash cut off or that overlapped with an overtaken one. `NothingOnTimeIsSkipped`, `EverySampleIsAggregated`: rollups up to the checkpoint are complete, and catch up, but for the day of a first start that saw only samples of the next. `OnlineTimeIsCoverage`: no second is counted twice or left out, for each of the 4096 sets of samples. |
| `mail_queue` | 1 mail, 1 worker, the code's 5 attempts and 15 minutes | violated: without SMTP a mail leaves the retry queue after five attempts (README.md:29). |
| `containers_all` | reports: 1 container name, 2 payloads, 2 transactions, 2 generations, age and skew 1; host: 2 operators, 2 names, 2 ports of which one is not free, 2 wishes that overlap in a CPU | `SummaryMatchesBatches`, `AcknowledgedIsStored`, `OnlyNewestIsActive`, `RemovedIsFrozen`. `SharingNeedsConsentOrGap`: two containers share a CPU or a GPU by consent, or because neither ran when the script looked; they have one port only when neither was there for the checks of the other, which for a typed port means that neither ran. Its three mutants lose a range of a CPU list, recommend the port of a stopped container, and look only once. `HomeIsOwnedUnlessCut`: a data directory is root's only when a script ended between mkdir and chown. |
| `agent_all` | processes: 2 agents, 2 names, interval 3, time 0..7; service: 2 PIDs, one kill of the wrapper, one stop, one start | `OneNameForEver`, `NextSlotWithoutDrift`, `SignalStops`. `OrphansNeedKillOrWindow`: no agent outlives its wrapper unless the wrapper was killed, or took the signal between fork and `agent_pid=$!`. `VerdictIsFair`: the check does not call healthy what had no agent all the time, nor unhealthy what served all the time. `ConfigErrorIsFinal`: a refused configuration stays refused, as the status of the agent, of the script and of the program, until the container or an operator starts it again, a stop is under way, or the refused script is killed or could not publish its PID. `FailedAgentComesBack`. |

**Bounds.** Two transactions show every pairwise interleaving; the properties
that three could break are those where two wait for a third (`admin_two`,
`registration_safety` use three). One request suffices because no handler reads
two requests except the disable and the worker, which treat each row alike; the
theorems lift this one bound and all the others. Two changes are needed for a
stale change, two GPUs and two days for each kind of change to be possible and
to be refused, one day of time for a request to expire. Two generations show a
removal with its recreation. Two attempts make a first and a last one, and two
mails an expiring one with the expired one that replaces it. Three days are a
first day, one that a pass may meet late, and one ahead; with two crashes a
worker dies in two of its passes. Two passwords after the first
show a session that is out of date by one and by two. With two PIDs
an agent and another program, or an orphan and the next agent, live at once, and
each PID is used again by any of them. Two names and two ports let two operators
collide on one and choose the other. The agent's interval of 3 in 8 seconds has collections that end
early, on the deadline, and one or two intervals late. `MaxTime`, `MaxDay`,
`MaxGpu`, `MaxDays`, `MaxGenerations`, `MaxCrashes`, `MaxChanges`, `MaxKills`,
`MaxStops` and `MaxStarts` bound the instances only. `CHECK_DEADLOCK FALSE` stands where the instance runs out of names
(`Registrations`).

**Fairness.** `ComputeRequests`: each transaction that has begun ends (straight
code; PostgreSQL ends deadlocks), and the worker's poll is strongly fair: it
skips rows that are locked, the locks are short, and it polls for ever.
`MailOutbox`: workers poll, SMTP calls time out, the clock goes on. `Insert` is
strongly fair: a worker does not crash in every one of its passes, though the
property must hold when it does so any finite number of times.
`HourlyRollup`: days go by up to the last of the instance, for which
`EverySampleIsAggregated` is stated; workers poll and are restarted. `Agent`: the HTTP
client and NVML return and a set event wakes its waiter. `AgentService`: commands
of the shell end (not its wait), supervisord looks after its programs, and other
programs give their PIDs back. None of them assumes
that a user, an administrator or a reporter does anything.

**Findings.** The four violated runs, each quoted in `PROJECT.json` with the
line it contradicts.

## 5. What is proved

Every safety invariant and every action property that a passing run checks is
proved for all values of the constants, with one exception: that an active
administrator always remains, which is false in general (`admin_three`) and is
proved where it is true. Sets of rows, transactions, processes, mails or samples
may be of any size, and counters go as far as one likes.

Each theorem follows the same way: an inductive invariant, one lemma for each
action that preserves it, and a last step that combines them. TLC checked each
invariant on the instance of its run before it was proved.

**`ComputeRequests_proofs`** (assumptions: bounds are natural numbers, the sets of
rows are disjoint, the set of changes is finite):

| Theorem | States |
| --- | --- |
| `TypeCorrect` | `Spec => []TypeOK` |
| `Isolation` | `Spec => []TransactionsIsolated` |
| `ClockCorrect` | `Spec => []ClockMatchesGrant` |
| `OpenChangeCorrect` | `Spec => []OpenChangeIsCurrent` |
| `GrantMatchesAuditAlways` | `Spec => []GrantMatchesAudit` |

The first four follow from `Inv`, their conjunction; the last two of them are not
inductive alone. That an extension keeps the clock right
needs the values it was computed from to be current (`OpenChangeIsCurrent`);
that they are current at commit needs what the transaction read to still hold
(`ReadsStillHold`); and that needs locks to be exclusive. Conversely a
transaction may rely on what it read only because no row that is locked by
another one is written, which is what `Undisturbed` states: a transaction that
does not move keeps what it relies on if the rows it locked did not change and
the clock it is going to start was not started. Each action has one lemma; the
two rejections (`DisableCommit`, `WorkerRejectExpired`) share `RejectionKeeps`.

`GrantMatchesAudit` is a sum over a set. `BoundInv` adds that what a transaction
carries is within the bounds, `AuditInv` that a change which is open or approved
made sense when it was proposed (`ChangesMadeSense`). The section "Sums over finite
sets" proves that the fold of the community modules computes such a sum: it
exists, does not depend on the order in which `CHOOSE` takes the elements, and
loses exactly the amount of an element that is removed. An approval then moves the
grant and one of the sums by the same amount.

**`ComputeRequests_steps`** (the same assumptions):

| Theorem | States |
| --- | --- |
| `NothingTakenBack` | `Spec => NothingIsTakenBack` |
| `ApprovalPrecedesDisableAlways` | `Spec => ApprovalPrecedesDisable` |
| `ContractKept` | `Spec => KeepsContract` |

A commit relies on what its transaction read (`ReadsStillHold`), so the row it
decides is still pending and the clock it starts is still stopped; an approved
change moves the end of its request by an amount that is not negative.
For the second one, `HoldInv` adds what a transaction in flight keeps others from
doing: a disable holds its entity and, after each UPDATE, every pending row that
refers to it; and what a reviewer found active is active still. The third is the
refinement of `RequestContract`: initial states map to its initial state, reads and
refusals to stutters, and each commit to one of its actions (one lemma each,
over the views `Contract` and `Proposal` of the tables).
`OpenChangeIsCurrent` is the link: an approved change stores an absolute value,
the contract adds an amount to what is granted at that moment, and the two are the
same.

**`AdminRoster_proofs`** (assumptions: finitely many users, one administrator at
first):

| Theorem | States |
| --- | --- |
| `TypeCorrect` | `Spec => []TypeOK` |
| `NoSessionSurvivesChangeAlways` | `Spec => NoSessionSurvivesChange` |
| `TwoUsersKeepAnAdmin` | `Spec => []AlwaysAnActiveAdmin`, if there are at most two users |
| `RequestsInTurnKeepAnAdmin` | `Spec => []AlwaysAnActiveAdmin`, if there is at most one handler |

The two hypotheses of the last two are what `admin_three` leaves: three users and
two requests at once are enough to lose everyone. With two users the count is not
locked either; what saves the last one is the foreign key of the audit event
(`ActorStays`: whoever takes an active administrator away is one himself, and
nobody can commit a change of him first). In turn, what the count has seen holds
until the commit (`OtherStays`): the check as such is right.

**`AccountTokens_proofs`** (assumptions: the number of password changes is a
natural number, the mark of a link without an address is no address):

| Theorem | States |
| --- | --- |
| `TypeCorrect` | `Spec => []TypeOK` |
| `OldSessionsEnd` | `Spec => []NoSessionOutlivesPassword` |
| `LinksWorkOnce` | `Spec => WorksOnceWhileNewest` |

The first two need each other, three facts about transactions in flight, and
nothing else: one password is written at a time (`OneWriter`); a session that
the writer neither ends nor keeps was committed after its DELETE and is allowed
to outlive it (`WriterIsKnown`); and links in use are there (`LinksAreThere`).
The third adds `LinkInv`: a link that is open, or locked by a transaction, has
not been followed and is not one that a committed link replaced, and no link is
locked by two. An issue preserves it because its UPDATE waits for the links it
replaces, a use because it locks an open link that nobody else has locked.

**`Registrations_proofs`** (assumptions: finitely many registrations, which are no
links):

| Theorem | States |
| --- | --- |
| `TypeCorrect` | `Spec => []TypeOK` |
| `AccountNeedsVerifiedMailAlways` | `Spec => []AccountNeedsVerifiedMail` |
| `LinkWorksOnceAlways` | `Spec => []LinkWorksOnce` |

`RegInv`: the link a handler follows is locked by it alone and not consumed
(`HeldOnce`, `Sound`), a consumed link is the only kind that was used
(`UsedIsConsumed`), and a registration that waits for review has a used link
(`PendingIsVerified`). That a verification may move a registration which was
decided meanwhile back to review (`registration_reopen`) does not break it: also
then its link was followed.

**`Worker_proofs`** (assumptions: finitely many mails, workers and samples of a
day; an hour has at least a second; the bounds are natural numbers):

| Theorem | States |
| --- | --- |
| `DuplicatesNeedTakeoverAlways` | `Spec => []DuplicatesNeedTakeover` |
| `SendsAreLimitedAlways` | `Spec => []SendsAreLimited` |
| `NothingOnTimeIsSkippedAlways` | `Rollup!Spec => []NothingOnTimeIsSkipped` |
| `OnlineTimeIsCoverageAlways` | `Online!Spec => []OnlineTimeIsCoverage` |
| `WorkerTypes` | `MCSpec => []TypesOK` |

Mails: the sends of a mail that have succeeded and the workers that are still
sending it are together at most its attempts (`AttemptsCover`), and at most its
takeovers, and one more once it was claimed (`TakeoversCover`). Neither the
confirmed sends nor the attempts say enough alone: an overtaken worker may yet
succeed. Rollups: every day up to the checkpoint is complete (`Complete`) and over,
or else a day that `ahead` excepts (`Past`), so that no sample is still to come for
it in time; the same is true of the days before the target of each pass
(`Reading`); and what a pass has read of its target, a day that is over, holds all
samples that came in time (`Found`), so that a worker with an old target replaces
a day by nothing less. No stored sample is dated later than tomorrow, which
bounds the first checkpoint. Online time: the interval of a sample is the set
of seconds after it that are before the next sample, the end of the hour and the
limit (`TakenIs`); a covered second is in the interval of the last sample before it
and in no other (`CoveredIsTaken`); so the sum of lengths is the size of the union
(`TotalsAreTaken`).

**`Containers_proofs`** (assumptions: finitely many streams of reports, `none` is no
payload; the CPUs an operator may wish for are finite sets of natural numbers, GPUs
are natural numbers, what is busy are ports):

| Theorem | States |
| --- | --- |
| `SummaryMatchesBatchesAlways` | `Spec => []SummaryMatchesBatches` |
| `AcknowledgedIsStoredAlways` | `Spec => []AcknowledgedIsStored` |
| `OnlyNewestIsActiveAlways` | `Spec => []OnlyNewestIsActive` |
| `RemovedIsFrozenAlways` | `Spec => RemovedIsFrozen` |
| `SharingNeedsConsentOrGapAlways` | `Creation!Spec => []SharingNeedsConsentOrGap` |
| `HomeIsOwnedUnlessCutAlways` | `Creation!Spec => []HomeIsOwnedUnlessCut` |
| `ContainerTypes` | `MCSpec => []TypesOK` |

Ingestion (`IngestInv`): a handler between its lock and its commit holds its stream
or its row alone and has read what is committed (`Holds`, `OneLocked`); the
summary of a container is the least and the latest time of its batches
(`Summary`); generations have no gap (`Dense`). Creation (`CreationInv`): before a
check nothing was compared (`Begun`); a container that a script, or a container it
made, was compared with is there still and shares nothing with it (`Apart`,
`RowsApart`), because a removal is the end of it and a container never changes its
CPUs, GPUs or port. A typed port is compared with what runs only, so a stopped
container of that port is not in `sawPorts` and the theorem promises nothing about
it. The lemmas on CPU lists show
that normalising to ranges and expanding again loses no CPU.

**`Agent_proofs`** (assumptions: the interval is a positive number; the mark of a
missing process is no PID; the bounds are natural numbers):

| Theorem | States |
| --- | --- |
| `OneName` | `Spec => []OneNameForEver` |
| `NextSlotWithoutDriftAlways` | `Spec => []NextSlotWithoutDrift` |
| `OrphansNeedKillOrWindowAlways` | `Service!Spec => []OrphansNeedKillOrWindow` |
| `VerdictIsFairAlways` | `Service!Spec => []VerdictIsFair` |
| `ConfigErrorIsFinalAlways` | `MCSpec => ConfigErrorIsFinal` |
| `AgentTypes` | `MCSpec => []TypesOK` |

The identity file gets its name once, in a state where no agent has run yet, and an
agent runs only under the name that is in the file. The grid is arithmetic: a
multiple of the interval is skipped, and `CeilDivBounds` says which. The service
(`ServiceInv`): the PID the script holds as its child's belongs to a living
process of its own (`ChildThere`), the PID file names the agent it waits for
(`PublishedWaits`), every orphan was counted when it was left
(`OrphansCounted`), and the script has a signal to handle only while supervisord
is stopping it (`Signals`, in `ProgramFits`), which is why the status of a refused
configuration is lost in no other stop. The health check (`CheckInv`): while the service has served all
the time since the check began, the PID the check has read is the child's.

**Sums and least elements.** The provers have no induction with an operator as its
parameter, so nothing is proved by the induction theorems of the library. Where a
proof goes over a finite set or a recursion, it takes a least counterexample
instead: the library's `WFMin` gives every nonempty set of natural numbers a least
element, and so every nonempty set of finite sets one that is smallest
(`SmallestSubset`).

**Model-checked only:** liveness (`ExpiredChangeIsClosed`, `NoMailIsForgotten`,
`EverySampleIsAggregated`, `SignalStops`, `FailedAgentComesBack`), because fairness and
ENABLED are out of the prover's reach; and the four violated runs, which are
counterexamples.

## 6. What is not modelled

- Histories, overviews and charts: read-only queries over tables that other
  modules keep.
- Settings: one row each, which nothing else is derived from. Two administrators
  who save at once leave a mixture of both; no document says what should happen,
  so it is a hazard in `PROJECT.json` and not a property.
- Creation of projects and resources: an insert behind a unique index.
- Averages, maxima and other formatting; schemas; the audit trail except where
  `GrantMatchesAudit` reads it.
- Daylight saving in the business timezone (the default has none), where two
  hours of a day share a rollup.
- Collection through NVML, transport over HTTP, configuration parsing, the
  installation script, migrations, images and the frontend.

Deadlock victims and lost connections are aborts; that PostgreSQL detects
deadlocks, keeps what it committed and enforces its unique indexes and foreign
keys is assumed. A process that dies is restarted by its container runtime or
supervisord. `PROJECT.json` gives the reason for each part.

## 7. Plan

1. What the other violated runs leave: that no request stays pending on a disabled
   entity, and no decided registration comes back, when transactions do not
   overlap.
2. An abstract specification of the outbox (a mail is due, sent, or given up) and
   of ingestion (a set of acknowledged reports), with refinements like
   `ContractKept`.
