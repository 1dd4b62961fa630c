----------------------------- MODULE AdminRoster -----------------------------
(***************************************************************************)
(* PATCH /users/{id} and web sessions: administrators change the role and  *)
(* the status of users (routers/users.py, routers/auth.py, auth.py of the  *)
(* management API).  Nobody may disable or demote himself, nobody may take *)
(* the last administrator away, and a change of role or status ends the    *)
(* sessions of the user it is about.                                       *)
(*                                                                         *)
(* A handler is a transaction in flight.  PATCH checks the caller, locks   *)
(* the target's row FOR UPDATE, counts rows it does not lock, and commits  *)
(* with an audit event whose foreign key shares the caller's row: the      *)
(* commit waits while another transaction has locked it.  So does the      *)
(* insertion of a session for the row of its user.                         *)
(***************************************************************************)
EXTENDS FiniteSets, Naturals

CONSTANTS Users, Handlers, InitialAdmins

ASSUME RosterAssumption ==
    /\ IsFiniteSet(Users)
    /\ InitialAdmins \subseteq Users /\ InitialAdmins # {}

VARIABLES
    role,      \* committed users.role
    status,    \* committed users.status
    sessions,  \* committed: the users with a session in admin_sessions
    tx         \* the request each handler is executing

vars == <<role, status, sessions, tx>>

Roles == {"admin", "user"}
Statuses == {"active", "disabled"}
Unset == "unset"                 \* an optional field that is not in the body

Patch == [actor: Users, target: Users,
          role: Roles \cup {Unset}, status: Statuses \cup {Unset}]

Idle == [step |-> "idle"]

TxRecord ==
    {Idle}
    \cup [step: {"login"}, user: Users]
    \cup [step: {"authorised"}, patch: Patch]
    \cup [step: {"locked"}, patch: Patch, role: Roles, status: Statuses]

IsActiveAdmin(u) == role[u] = "admin" /\ status[u] = "active"
ActiveAdmins == {u \in Users : IsActiveAdmin(u)}

LockedByOther(h, u) ==
    \E k \in Handlers \ {h} : tx[k].step = "locked" /\ tx[k].patch.target = u

Begin(h, record) == tx[h] = Idle /\ tx' = [tx EXCEPT ![h] = record]
Finish(h) == tx' = [tx EXCEPT ![h] = Idle]

-----------------------------------------------------------------------------
(* Sessions *)

LoginRead(h) ==
    \E u \in Users :
        /\ status[u] = "active"
        /\ Begin(h, [step |-> "login", user |-> u])
        /\ UNCHANGED <<role, status, sessions>>

LoginCommit(h) ==
    /\ tx[h].step = "login"
    /\ ~LockedByOther(h, tx[h].user)
    /\ sessions' = sessions \cup {tx[h].user}
    /\ Finish(h)
    /\ UNCHANGED <<role, status>>

\* Logout, or the deletion of an expired session.
SessionEnds(u) ==
    /\ u \in sessions
    /\ sessions' = sessions \ {u}
    /\ UNCHANGED <<role, status, tx>>

-----------------------------------------------------------------------------
(* PATCH /users/{id} *)

\* require_admin_csrf, for any change of any user.
Authenticate(h) ==
    \E patch \in Patch :
        /\ patch.actor \in sessions
        /\ IsActiveAdmin(patch.actor)
        /\ Begin(h, [step |-> "authorised", patch |-> patch])
        /\ UNCHANGED <<role, status, sessions>>

\* Mutant: the last administrator is not counted.
MayLose_Always(u) == TRUE

\* The count is taken from what is committed now, without a lock.
MayLose(u) == Cardinality(ActiveAdmins) > 1

\* Mutant: a field that is not in the body is stored like one that is.
Chosen_StoresUnset(field, current) == field

Chosen(field, current) == IF field = Unset THEN current ELSE field

\* The target is locked and every check passes; a check that fails is an Abort.
\* The session object of the caller is loaded already: a caller who patches
\* himself sees the active administrator that was authenticated.
LockTarget(h) ==
    LET patch == tx[h].patch
        self == patch.target = patch.actor
        newRole == Chosen(patch.role, IF self THEN "admin" ELSE role[patch.target])
        newStatus == Chosen(patch.status, IF self THEN "active" ELSE status[patch.target])
        keeps == newRole = "admin" /\ newStatus = "active"
    IN  /\ tx[h].step = "authorised"
        /\ ~LockedByOther(h, patch.target)
        /\ self => keeps
        /\ ~self /\ IsActiveAdmin(patch.target) /\ ~keeps => MayLose(patch.target)
        /\ tx' = [tx EXCEPT ![h] = [step |-> "locked", patch |-> patch,
                                    role |-> newRole, status |-> newStatus]]
        /\ UNCHANGED <<role, status, sessions>>

\* Mutant: the audit event does not refer to the row of its actor.
CommitMayProceed_NoForeignKey(h) == TRUE

CommitMayProceed(h) == ~LockedByOther(h, tx[h].patch.actor)

\* Mutant: only disabling a user ends his sessions.
EndsSessions_OnDisable(h) == tx[h].status = "disabled"

EndsSessions(h) ==
    LET u == tx[h].patch.target
    IN  tx[h].role # role[u] \/ tx[h].status # status[u]

\* Only a changed attribute is written, so a caller who patches himself, and
\* sees what was authenticated, writes nothing.
Commit(h) ==
    /\ tx[h].step = "locked"
    /\ CommitMayProceed(h)
    /\ IF tx[h].patch.target = tx[h].patch.actor
       THEN UNCHANGED <<role, status, sessions>>
       ELSE /\ role' = [role EXCEPT ![tx[h].patch.target] = tx[h].role]
            /\ status' = [status EXCEPT ![tx[h].patch.target] = tx[h].status]
            /\ sessions' = IF EndsSessions(h)
                           THEN sessions \ {tx[h].patch.target} ELSE sessions
    /\ Finish(h)

\* A refused check, a deadlock victim or a lost connection.
Abort(h) ==
    /\ tx[h] # Idle
    /\ Finish(h)
    /\ UNCHANGED <<role, status, sessions>>

-----------------------------------------------------------------------------
Init ==
    /\ role = [u \in Users |-> IF u \in InitialAdmins THEN "admin" ELSE "user"]
    /\ status = [u \in Users |-> "active"]
    /\ sessions = {}
    /\ tx = [h \in Handlers |-> Idle]

Next ==
    \/ \E h \in Handlers :
        \/ LoginRead(h) \/ LoginCommit(h)
        \/ Authenticate(h) \/ LockTarget(h) \/ Commit(h)
        \/ Abort(h)
    \/ \E u \in Users : SessionEnds(u)

Spec == Init /\ [][Next]_vars

-----------------------------------------------------------------------------
\* Roles and statuses stay what the columns admit; every transaction knows the
\* role and the status it is going to store.
TypeOK ==
    /\ role \in [Users -> Roles]
    /\ status \in [Users -> Statuses]
    /\ sessions \subseteq Users
    /\ tx \in [Handlers -> TxRecord]

\* "cannot remove the last administrator" (update_user): there always is an
\* active administrator, whoever changes whom at the same time.
AlwaysAnActiveAdmin == ActiveAdmins # {}

\* A session that a login in flight left on a user who was disabled meanwhile
\* never becomes usable: whoever is enabled or promoted starts without sessions.
NoSessionSurvivesChange ==
    [][\A u \in Users :
        (role'[u] # role[u] \/ status'[u] # status[u]) => u \notin sessions']_vars
=============================================================================
