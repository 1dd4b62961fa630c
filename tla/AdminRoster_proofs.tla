-------------------------- MODULE AdminRoster_proofs --------------------------
(***************************************************************************)
(* Theorems about AdminRoster, for any users, first administrators and     *)
(* number of handlers.  A change of role or status leaves no session; and  *)
(* the last administrator is safe between two users, or when requests are  *)
(* served in turn.  The run "admin_three" shows that nothing more is true. *)
(***************************************************************************)
EXTENDS AdminRoster, FiniteSetTheorems, TLAPS

LEMMA TypeInit ==
    ASSUME Init
    PROVE  TypeOK
  BY RosterAssumption DEF Init, TypeOK, Roles, Statuses, TxRecord, Idle

\* The columns keep admitting what they hold, and a transaction that has locked
\* its target holds the role and the status of a row, never "not in the body".
LEMMA TypeStep ==
    ASSUME TypeOK, [Next]_vars
    PROVE  TypeOK'
  <1>1. ASSUME NEW h \in Handlers, LoginRead(h) \/ LoginCommit(h)
        PROVE  TypeOK'
    BY <1>1 DEF LoginRead, LoginCommit, Begin, Finish, TypeOK, TxRecord, Idle
  <1>2. ASSUME NEW h \in Handlers, Authenticate(h)
        PROVE  TypeOK'
    BY <1>2 DEF Authenticate, Begin, TypeOK, TxRecord, Idle
  <1>3. ASSUME NEW h \in Handlers, LockTarget(h)
        PROVE  TypeOK'
    <2>1. PICK patch : patch = tx[h].patch
      OBVIOUS
    <2>2. patch \in Patch
      BY <1>3, <2>1 DEF LockTarget, TypeOK, TxRecord, Idle
    <2>3. PICK newRole, newStatus :
            /\ newRole \in Roles /\ newStatus \in Statuses
            /\ tx' = [tx EXCEPT ![h] = [step |-> "locked", patch |-> patch,
                                        role |-> newRole, status |-> newStatus]]
      BY <1>3, <2>1, <2>2
         DEF LockTarget, Chosen, TypeOK, Patch, Roles, Statuses, Unset
    <2>4. QED
      BY <1>3, <2>2, <2>3 DEF LockTarget, TypeOK, TxRecord
  <1>4. ASSUME NEW h \in Handlers, Commit(h)
        PROVE  TypeOK'
    <2>1. tx[h].role \in Roles /\ tx[h].status \in Statuses
      BY <1>4 DEF Commit, TypeOK, TxRecord, Idle
    <2>2. role' \in [Users -> Roles] /\ status' \in [Users -> Statuses]
      BY <1>4, <2>1 DEF Commit, TypeOK
    <2>3. sessions' \subseteq Users
      BY <1>4 DEF Commit, TypeOK
    <2>4. QED
      BY <1>4, <2>2, <2>3 DEF Commit, Finish, TypeOK, TxRecord
  <1>5. ASSUME NEW h \in Handlers, Abort(h)
        PROVE  TypeOK'
    BY <1>5 DEF Abort, Finish, TypeOK, TxRecord
  <1>6. ASSUME NEW u \in Users, SessionEnds(u)
        PROVE  TypeOK'
    BY <1>6 DEF SessionEnds, TypeOK
  <1>7. CASE UNCHANGED vars
    BY <1>7 DEF vars, TypeOK
  <1>8. QED
    BY <1>1, <1>2, <1>3, <1>4, <1>5, <1>6, <1>7 DEF Next

\* The columns role and status, the sessions, and what PATCH /users/{id} remembers
\* between its checks and its commit, are of their types: no request stores a field
\* that its body leaves out.
THEOREM TypeCorrect == Spec => []TypeOK
  <1>1. Init => TypeOK
    BY TypeInit
  <1>2. TypeOK /\ [Next]_vars => TypeOK'
    BY TypeStep
  <1>3. QED
    BY <1>1, <1>2, PTL DEF Spec

-----------------------------------------------------------------------------
(* Sessions *)

LEMMA ChangeEndsSessions ==
    ASSUME TypeOK, [Next]_vars, NEW u \in Users,
           role'[u] # role[u] \/ status'[u] # status[u]
    PROVE  u \notin sessions'
  <1>1. PICK h \in Handlers : Commit(h)
    BY DEF Next, vars, LoginRead, LoginCommit, Authenticate, LockTarget, Abort,
           SessionEnds
  <1>2. PICK t : t = tx[h].patch.target
    OBVIOUS
  <1>3. t # tx[h].patch.actor
    BY <1>1, <1>2 DEF Commit
  <1>4. /\ role' = [role EXCEPT ![t] = tx[h].role]
        /\ status' = [status EXCEPT ![t] = tx[h].status]
        /\ EndsSessions(h) => sessions' = sessions \ {t}
    BY <1>1, <1>2, <1>3 DEF Commit
  <1>5. u = t
    BY <1>4 DEF TypeOK
  <1>6. tx[h].role # role[t] \/ tx[h].status # status[t]
    BY <1>4, <1>5 DEF TypeOK
  <1>7. QED
    BY <1>2, <1>4, <1>5, <1>6 DEF EndsSessions

\* update_user deletes the sessions of the user whose role or status it changes in
\* the same transaction, however many requests and logins are in flight.
THEOREM NoSessionSurvivesChangeAlways == Spec => NoSessionSurvivesChange
  <1>1. TypeOK /\ [Next]_vars
        => [\A u \in Users :
                (role'[u] # role[u] \/ status'[u] # status[u]) => u \notin sessions']_vars
    BY ChangeEndsSessions
  <1>2. QED
    BY <1>1, TypeCorrect, PTL DEF Spec, NoSessionSurvivesChange

-----------------------------------------------------------------------------
(* The last administrator, among two users.  MayLose counts rows that are   *)
(* not locked; what saves the administrator who is left is the foreign key  *)
(* of the audit event: nobody else commits a change of him before, because  *)
(* that change would need the row that this one has locked.                 *)

Keeps(record) == record.role = "admin" /\ record.status = "active"

\* A transaction that is going to take an active administrator away.
TakesAway(h) ==
    /\ tx[h].step = "locked"
    /\ tx[h].patch.target # tx[h].patch.actor
    /\ ~Keeps(tx[h])

\* A row is locked by one transaction, and whoever takes an active administrator
\* away is an active administrator himself, still.
OneLocker ==
    \A h, k \in Handlers :
        (tx[h].step = "locked" /\ tx[k].step = "locked"
         /\ tx[h].patch.target = tx[k].patch.target) => h = k

ActorStays ==
    \A h \in Handlers :
        TakesAway(h) /\ IsActiveAdmin(tx[h].patch.target)
            => IsActiveAdmin(tx[h].patch.actor)

RosterInv == TypeOK /\ OneLocker /\ ActorStays /\ AlwaysAnActiveAdmin

NoThird == \A u, v, w \in Users : u = v \/ u = w \/ v = w

LEMMA TwoUsers ==
    ASSUME Cardinality(Users) <= 2
    PROVE  NoThird
  <1> SUFFICES ASSUME NEW u \in Users, NEW v \in Users, NEW w \in Users,
                      u # v, u # w, v # w
               PROVE  FALSE
    BY DEF NoThird
  <1>1. PICK two : two = {u, v}
    OBVIOUS
  <1>2. IsFiniteSet(two) /\ Cardinality(two) = 2
    <2>1. PICK one : one = {u}
      OBVIOUS
    <2>2. IsFiniteSet(one) /\ Cardinality(one) = 1 /\ v \notin one
      BY <2>1, FS_Singleton
    <2>3. two = one \cup {v}
      BY <1>1, <2>1
    <2>4. QED
      BY <2>2, <2>3, FS_AddElement
  <1>3. PICK three : three = two \cup {w}
    OBVIOUS
  <1>4. w \notin two
    BY <1>1
  <1>5. Cardinality(three) = 3
    BY <1>2, <1>3, <1>4, FS_AddElement
  <1>6. three \subseteq Users
    BY <1>1, <1>3
  <1>7. Cardinality(three) <= Cardinality(Users) /\ Cardinality(Users) \in Nat
    BY <1>6, RosterAssumption, FS_Subset, FS_CardinalityType
  <1>8. QED
    BY <1>5, <1>7

\* What the count tells the handler when there are two users: the other one is an
\* active administrator.
LEMMA CountSeesActor ==
    ASSUME NoThird, NEW t \in Users, NEW a \in Users, t # a, MayLose(t)
    PROVE  IsActiveAdmin(a)
  <1> SUFFICES ASSUME ~IsActiveAdmin(a)
               PROVE  FALSE
    OBVIOUS
  <1>1. ActiveAdmins \subseteq {t}
    BY DEF ActiveAdmins, NoThird
  <1>2. IsFiniteSet({t}) /\ Cardinality({t}) = 1
    BY FS_Singleton
  <1>3. Cardinality(ActiveAdmins) <= 1 /\ Cardinality(ActiveAdmins) \in Nat
    BY <1>1, <1>2, FS_Subset, FS_CardinalityType
  <1>4. QED
    BY <1>3 DEF MayLose

LEMMA RosterInit ==
    ASSUME Init
    PROVE  RosterInv
  <1>1. TypeOK
    BY TypeInit
  <1>2. OneLocker /\ ActorStays
    BY DEF Init, OneLocker, ActorStays, TakesAway, Idle
  <1>3. AlwaysAnActiveAdmin
    BY RosterAssumption DEF Init, AlwaysAnActiveAdmin, ActiveAdmins, IsActiveAdmin
  <1>4. QED
    BY <1>1, <1>2, <1>3 DEF RosterInv

\* A step that locks nothing and changes no role or status.
LEMMA NothingLocked ==
    ASSUME RosterInv, TypeOK', NEW h \in Handlers, NEW r,
           tx' = [tx EXCEPT ![h] = r], r.step # "locked",
           UNCHANGED <<role, status>>
    PROVE  RosterInv'
  <1>1. \A k \in Handlers : tx'[k].step = "locked" => tx'[k] = tx[k]
    BY DEF RosterInv, TypeOK
  <1>2. OneLocker'
    BY <1>1 DEF RosterInv, OneLocker
  <1>3. ActorStays'
    BY <1>1 DEF RosterInv, ActorStays, TakesAway, Keeps, IsActiveAdmin
  <1>4. AlwaysAnActiveAdmin'
    BY DEF RosterInv, AlwaysAnActiveAdmin, ActiveAdmins, IsActiveAdmin
  <1>5. QED
    BY <1>2, <1>3, <1>4 DEF RosterInv

LEMMA LockTargetKeeps ==
    ASSUME RosterInv, TypeOK', NoThird, NEW h \in Handlers, LockTarget(h)
    PROVE  RosterInv'
  <1>1. PICK p : p = tx[h].patch
    OBVIOUS
  <1>2. p.target \in Users /\ p.actor \in Users
    BY <1>1 DEF LockTarget, RosterInv, TypeOK, TxRecord, Idle, Patch
  <1>3. PICK r :
          /\ tx' = [tx EXCEPT ![h] = r] /\ r.step = "locked" /\ r.patch = p
          /\ p.target # p.actor /\ IsActiveAdmin(p.target) /\ ~Keeps(r)
                => MayLose(p.target)
    <2>1. PICK newRole, newStatus :
            /\ tx' = [tx EXCEPT ![h] = [step |-> "locked", patch |-> p,
                                        role |-> newRole, status |-> newStatus]]
            /\ p.target # p.actor /\ IsActiveAdmin(p.target)
                  /\ ~(newRole = "admin" /\ newStatus = "active") => MayLose(p.target)
      BY <1>1 DEF LockTarget
    <2>2. PICK r : r = [step |-> "locked", patch |-> p,
                        role |-> newRole, status |-> newStatus]
      OBVIOUS
    <2>3. r.step = "locked" /\ r.patch = p /\ r.role = newRole /\ r.status = newStatus
      BY <2>2
    <2>4. QED
      BY <2>1, <2>2, <2>3 DEF Keeps
  <1>4. ~LockedByOther(h, p.target) /\ UNCHANGED <<role, status>>
    BY <1>1 DEF LockTarget
  <1>5. tx'[h] = r /\ \A k \in Handlers \ {h} : tx'[k] = tx[k]
    BY <1>3 DEF RosterInv, TypeOK
  <1>6. OneLocker'
    BY <1>3, <1>4, <1>5 DEF RosterInv, OneLocker, LockedByOther
  <1>7. ASSUME NEW k \in Handlers, TakesAway(k)', IsActiveAdmin(tx'[k].patch.target)
        PROVE  IsActiveAdmin(tx'[k].patch.actor)
    <2>1. CASE k = h
      BY <1>2, <1>3, <1>5, <1>7, <2>1, CountSeesActor DEF TakesAway, Keeps
    <2>2. CASE k # h
      BY <1>5, <1>7, <2>2 DEF RosterInv, ActorStays, TakesAway, Keeps
    <2>3. QED
      BY <2>1, <2>2
  <1>8. ActorStays'
    BY <1>4, <1>7 DEF ActorStays, IsActiveAdmin
  <1>9. AlwaysAnActiveAdmin'
    BY <1>4 DEF RosterInv, AlwaysAnActiveAdmin, ActiveAdmins, IsActiveAdmin
  <1>10. QED
    BY <1>6, <1>8, <1>9 DEF RosterInv

LEMMA CommitKeeps ==
    ASSUME RosterInv, TypeOK', NoThird, NEW h \in Handlers, Commit(h)
    PROVE  RosterInv'
  <1>1. CASE tx[h].patch.target = tx[h].patch.actor
    <2>1. tx' = [tx EXCEPT ![h] = Idle] /\ UNCHANGED <<role, status>>
      BY <1>1 DEF Commit, Finish
    <2>2. Idle.step # "locked"
      BY DEF Idle
    <2>3. QED
      BY <2>1, <2>2, NothingLocked
  <1>2. CASE tx[h].patch.target # tx[h].patch.actor
    <2>1. PICK t, a : t = tx[h].patch.target /\ a = tx[h].patch.actor
      OBVIOUS
    <2>2. t \in Users /\ a \in Users /\ t # a /\ tx[h].step = "locked"
      BY <1>2, <2>1 DEF Commit, RosterInv, TypeOK, TxRecord, Idle, Patch
    <2>3. /\ role' = [role EXCEPT ![t] = tx[h].role]
          /\ status' = [status EXCEPT ![t] = tx[h].status]
          /\ tx' = [tx EXCEPT ![h] = Idle]
      BY <1>2, <2>1 DEF Commit, Finish
    <2>4. /\ \A u \in Users \ {t} : IsActiveAdmin(u)' <=> IsActiveAdmin(u)
          /\ IsActiveAdmin(t)' <=> Keeps(tx[h])
      BY <2>2, <2>3 DEF IsActiveAdmin, Keeps, RosterInv, TypeOK
    <2>5. \A k \in Handlers : tx'[k].step = "locked" => k # h /\ tx'[k] = tx[k]
      BY <2>3 DEF Idle, RosterInv, TypeOK
    <2>6. OneLocker'
      BY <2>5 DEF OneLocker, RosterInv
    <2>7. ASSUME NEW k \in Handlers, k # h, TakesAway(k),
                 tx[k].patch.target # t
          PROVE  FALSE
      \* Two users: the other transaction wants to change the actor of this one,
      \* whose commit waits for it.
      <3>1. tx[k].patch.target \in Users
        BY <2>7 DEF TakesAway, RosterInv, TypeOK, TxRecord, Idle, Patch
      <3>2. tx[k].patch.target = a
        BY <2>2, <2>7, <3>1 DEF NoThird
      <3>3. LockedByOther(h, a)
        BY <2>7, <3>2 DEF LockedByOther, TakesAway
      <3>4. QED
        BY <2>1, <3>3 DEF Commit, CommitMayProceed
    <2>8. ASSUME NEW k \in Handlers, k # h, TakesAway(k)
          PROVE  FALSE
      <3>1. tx[k].patch.target # t
        BY <2>1, <2>2, <2>8 DEF RosterInv, OneLocker, TakesAway
      <3>2. QED
        BY <2>7, <2>8, <3>1
    <2>9. ActorStays'
      BY <2>5, <2>8 DEF ActorStays, TakesAway, Keeps
    <2>10. AlwaysAnActiveAdmin'
      <3>1. CASE Keeps(tx[h])
        BY <2>2, <2>4, <3>1 DEF AlwaysAnActiveAdmin, ActiveAdmins
      <3>2. CASE ~Keeps(tx[h])
        <4>1. PICK u \in Users : IsActiveAdmin(u)
          BY DEF RosterInv, AlwaysAnActiveAdmin, ActiveAdmins
        <4>2. PICK w \in Users \ {t} : IsActiveAdmin(w)
          BY <1>2, <2>1, <2>2, <3>2, <4>1
             DEF RosterInv, ActorStays, TakesAway
        <4>3. IsActiveAdmin(w)'
          BY <2>4, <4>2
        <4>4. QED
          BY <4>3 DEF AlwaysAnActiveAdmin, ActiveAdmins
      <3>3. QED
        BY <3>1, <3>2
    <2>11. QED
      BY <2>6, <2>9, <2>10 DEF RosterInv
  <1>3. QED
    BY <1>1, <1>2

LEMMA RosterStep ==
    ASSUME NoThird, RosterInv, [Next]_vars
    PROVE  RosterInv'
  <1>1. TypeOK'
    BY TypeStep DEF RosterInv
  <1>2. ASSUME NEW h \in Handlers,
               LoginRead(h) \/ LoginCommit(h) \/ Authenticate(h) \/ Abort(h)
        PROVE  RosterInv'
    <2>1. PICK r : tx' = [tx EXCEPT ![h] = r] /\ r.step # "locked"
      BY <1>2 DEF LoginRead, LoginCommit, Authenticate, Abort, Begin, Finish, Idle
    <2>2. UNCHANGED <<role, status>>
      BY <1>2 DEF LoginRead, LoginCommit, Authenticate, Abort
    <2>3. QED
      BY <1>1, <2>1, <2>2, NothingLocked
  <1>3. ASSUME UNCHANGED <<role, status, tx>>
        PROVE  RosterInv'
    BY <1>1, <1>3 DEF RosterInv, OneLocker, ActorStays, TakesAway, Keeps, IsActiveAdmin,
                      AlwaysAnActiveAdmin, ActiveAdmins
  <1>4. QED
    BY <1>1, <1>2, <1>3, LockTargetKeeps, CommitKeeps DEF Next, SessionEnds, vars

\* "cannot remove the last administrator" (update_user): where there are two users,
\* no interleaving of requests takes the last active administrator away.
THEOREM TwoUsersKeepAnAdmin ==
    ASSUME Cardinality(Users) <= 2
    PROVE  Spec => []AlwaysAnActiveAdmin
  <1>1. NoThird
    BY TwoUsers
  <1>2. Init => RosterInv
    BY RosterInit
  <1>3. RosterInv /\ [Next]_vars => RosterInv'
    BY <1>1, RosterStep
  <1>4. RosterInv => AlwaysAnActiveAdmin
    BY DEF RosterInv
  <1>5. QED
    BY <1>2, <1>3, <1>4, PTL DEF Spec

-----------------------------------------------------------------------------
(* The last administrator, among any number of users, when requests are     *)
(* served in turn: what the count has seen holds until the commit.           *)

OtherStays ==
    \A h \in Handlers :
        TakesAway(h) /\ IsActiveAdmin(tx[h].patch.target)
            => ActiveAdmins \ {tx[h].patch.target} # {}

SerialInv == TypeOK /\ OtherStays /\ AlwaysAnActiveAdmin

InTurn == \A h, k \in Handlers : h = k

\* What the count tells the handler: there is another active administrator.
LEMMA CountSeesAnother ==
    ASSUME NEW t \in Users, MayLose(t)
    PROVE  ActiveAdmins \ {t} # {}
  <1> SUFFICES ASSUME ActiveAdmins \subseteq {t}
               PROVE  FALSE
    OBVIOUS
  <1>1. IsFiniteSet({t}) /\ Cardinality({t}) = 1
    BY FS_Singleton
  <1>2. Cardinality(ActiveAdmins) <= 1 /\ Cardinality(ActiveAdmins) \in Nat
    BY <1>1, FS_Subset, FS_CardinalityType
  <1>3. QED
    BY <1>2 DEF MayLose

LEMMA SerialStep ==
    ASSUME InTurn, SerialInv, [Next]_vars
    PROVE  SerialInv'
  <1>1. TypeOK /\ TypeOK'
    BY TypeStep DEF SerialInv
  <1>2. ASSUME NEW h \in Handlers,
               LoginRead(h) \/ LoginCommit(h) \/ Authenticate(h) \/ Abort(h)
        PROVE  SerialInv'
    <2>1. PICK r : tx' = [tx EXCEPT ![h] = r] /\ r.step # "locked"
      BY <1>2 DEF LoginRead, LoginCommit, Authenticate, Abort, Begin, Finish, Idle
    <2>2. UNCHANGED <<role, status>> /\ ActiveAdmins' = ActiveAdmins
      BY <1>2 DEF LoginRead, LoginCommit, Authenticate, Abort, ActiveAdmins, IsActiveAdmin
    <2>3. \A k \in Handlers : ~TakesAway(k)'
      BY <1>1, <2>1 DEF InTurn, TakesAway, TypeOK
    <2>4. QED
      BY <1>1, <2>2, <2>3 DEF SerialInv, OtherStays, AlwaysAnActiveAdmin
  <1>3. ASSUME NEW h \in Handlers, LockTarget(h)
        PROVE  SerialInv'
    <2>1. PICK p : p = tx[h].patch
      OBVIOUS
    <2>2. p.target \in Users
      BY <1>1, <1>3, <2>1 DEF LockTarget, TypeOK, TxRecord, Idle, Patch
    <2>3. PICK newRole, newStatus :
            /\ tx' = [tx EXCEPT ![h] = [step |-> "locked", patch |-> p,
                                        role |-> newRole, status |-> newStatus]]
            /\ p.target # p.actor /\ IsActiveAdmin(p.target)
                  /\ ~(newRole = "admin" /\ newStatus = "active") => MayLose(p.target)
      BY <1>3, <2>1 DEF LockTarget
    <2>4. PICK r : r = [step |-> "locked", patch |-> p,
                        role |-> newRole, status |-> newStatus]
      OBVIOUS
    <2>5. r.patch = p /\ r.role = newRole /\ r.status = newStatus
      BY <2>4
    <2>6. tx'[h] = r
      BY <1>1, <2>3, <2>4 DEF TypeOK
    <2>7. UNCHANGED <<role, status>> /\ ActiveAdmins' = ActiveAdmins
      BY <1>3 DEF LockTarget, ActiveAdmins, IsActiveAdmin
    <2>8. TakesAway(h)' /\ IsActiveAdmin(p.target) => ActiveAdmins \ {p.target} # {}
      BY <2>2, <2>3, <2>5, <2>6, CountSeesAnother DEF TakesAway, Keeps
    <2>9. OtherStays'
      BY <2>5, <2>6, <2>7, <2>8 DEF InTurn, OtherStays, IsActiveAdmin
    <2>10. QED
      BY <1>1, <2>7, <2>9 DEF SerialInv, AlwaysAnActiveAdmin
  <1>4. ASSUME NEW h \in Handlers, Commit(h)
        PROVE  SerialInv'
    <2>1. \A k \in Handlers : ~TakesAway(k)'
      BY <1>1, <1>4 DEF Commit, Finish, Idle, InTurn, TakesAway, TypeOK
    <2>2. CASE tx[h].patch.target = tx[h].patch.actor
      <3>1. ActiveAdmins' = ActiveAdmins
        BY <1>4, <2>2 DEF Commit, ActiveAdmins, IsActiveAdmin
      <3>2. QED
        BY <1>1, <2>1, <3>1 DEF SerialInv, OtherStays, AlwaysAnActiveAdmin
    <2>3. CASE tx[h].patch.target # tx[h].patch.actor
      <3>1. PICK t : t = tx[h].patch.target
        OBVIOUS
      <3>2. t \in Users /\ tx[h].step = "locked"
        BY <1>1, <1>4, <3>1 DEF Commit, TypeOK, TxRecord, Idle, Patch
      <3>3. /\ role' = [role EXCEPT ![t] = tx[h].role]
            /\ status' = [status EXCEPT ![t] = tx[h].status]
        BY <1>4, <2>3, <3>1 DEF Commit
      <3>4. /\ \A u \in Users \ {t} : IsActiveAdmin(u)' <=> IsActiveAdmin(u)
            /\ IsActiveAdmin(t)' <=> Keeps(tx[h])
        BY <1>1, <3>2, <3>3 DEF IsActiveAdmin, Keeps, TypeOK
      <3>5. PICK u \in Users : IsActiveAdmin(u) /\ (u # t \/ Keeps(tx[h]))
        <4>1. PICK u \in Users : IsActiveAdmin(u)
          BY DEF SerialInv, AlwaysAnActiveAdmin, ActiveAdmins
        <4>2. CASE u # t \/ Keeps(tx[h])
          BY <4>1, <4>2
        <4>3. CASE u = t /\ ~Keeps(tx[h])
          <5>1. ActiveAdmins \ {t} # {}
            BY <2>3, <3>1, <3>2, <4>1, <4>3 DEF SerialInv, OtherStays, TakesAway
          <5>2. QED
            BY <5>1 DEF ActiveAdmins
        <4>4. QED
          BY <4>2, <4>3
      <3>6. IsActiveAdmin(u)'
        BY <3>4, <3>5
      <3>7. QED
        BY <1>1, <2>1, <3>6 DEF SerialInv, OtherStays, AlwaysAnActiveAdmin, ActiveAdmins
    <2>4. QED
      BY <2>2, <2>3
  <1>5. CASE UNCHANGED <<role, status, tx>>
    BY <1>1, <1>5 DEF SerialInv, OtherStays, TakesAway, Keeps, IsActiveAdmin,
                      AlwaysAnActiveAdmin, ActiveAdmins
  <1>6. QED
    BY <1>2, <1>3, <1>4, <1>5 DEF Next, SessionEnds, vars

\* The count of update_user is right as far as one request is concerned: where no two
\* are served at the same time, any number of users keeps an active administrator.
\* What "admin_three" shows is due to requests that overlap, and to nothing else.
THEOREM RequestsInTurnKeepAnAdmin ==
    ASSUME \A h, k \in Handlers : h = k
    PROVE  Spec => []AlwaysAnActiveAdmin
  <1>1. InTurn
    BY DEF InTurn
  <1>2. Init => SerialInv
    BY RosterInit DEF SerialInv, RosterInv, OtherStays, Init, TakesAway, Idle
  <1>3. SerialInv /\ [Next]_vars => SerialInv'
    BY <1>1, SerialStep
  <1>4. SerialInv => AlwaysAnActiveAdmin
    BY DEF SerialInv
  <1>5. QED
    BY <1>2, <1>3, <1>4, PTL DEF Spec

=============================================================================
