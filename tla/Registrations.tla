---------------------------- MODULE Registrations ----------------------------
(***************************************************************************)
(* Registration of users: register, resend the link, verify the e-mail and *)
(* review (routers/auth.py, routers/users.py and notifications.py of the   *)
(* management API), on the tables registration_requests,                   *)
(* email_action_tokens and users.                                          *)
(*                                                                         *)
(* A handler is a READ COMMITTED transaction.  Its first step reads, its   *)
(* second one writes and commits.  Verify holds the row lock of its token  *)
(* in between and a review that of the registration; nobody else holds     *)
(* one.  A name stands for a username with its e-mail address.             *)
(***************************************************************************)
EXTENDS FiniteSets, Naturals

CONSTANTS Names, Rows, Tokens, Handlers

ASSUME RegistrationAssumption == IsFiniteSet(Rows) /\ Rows \cap Tokens = {}

VARIABLES
    reg,       \* committed: registration_requests
    token,     \* committed: email_action_tokens for "registration_verify"
    accounts,  \* committed: the names of users
    tx,        \* the request each handler is executing
    verified,  \* history: names whose owner has followed a link
    used       \* history: how often each link has verified

vars == <<reg, token, accounts, tx, verified, used>>
history == <<verified, used>>

Open == {"email_pending", "pending"}
RegStatus == Open \cup {"approved", "rejected"}
Row == [name: Names, status: RegStatus]
TokenRow == [row: Rows, consumed: BOOLEAN, expired: BOOLEAN]

Absent == [absent |-> TRUE]
Idle == [op |-> "idle"]

TxRecord ==
    {Idle}
    \cup [op: {"register"}, name: Names, stale: SUBSET Rows]
    \cup [op: {"resend"}, row: Rows, seen: SUBSET Tokens]
    \cup [op: {"verify"}, token: Tokens, taken: BOOLEAN]
    \cup [op: {"review"}, row: Rows, decision: {"approved", "rejected"}]

HasStatus(r, statuses) == reg[r] # Absent /\ reg[r].status \in statuses
OpenRows(name) == {r \in Rows : HasStatus(r, Open) /\ reg[r].name = name}

\* consumed_at IS NULL, and also expires_at > now
Unconsumed(r) == {t \in Tokens : token[t] # Absent /\ token[t].row = r /\ ~token[t].consumed}
Valid(r) == {t \in Unconsumed(r) : ~token[t].expired}

Locks(k) == CASE tx[k].op = "verify" -> {tx[k].token}
              [] tx[k].op = "review" -> {tx[k].row}
              [] OTHER -> {}
Unlocked(h, rows) == \A k \in Handlers \ {h} : Locks(k) \cap rows = {}

Begin(h, record) == tx[h] = Idle /\ tx' = [tx EXCEPT ![h] = record]
Finish(h) == tx' = [tx EXCEPT ![h] = Idle]

\* Mutant: the link is stored without the registration it is for.
FreshToken_Orphan(r) == [row |-> "none", consumed |-> FALSE, expired |-> FALSE]

FreshToken(r) == [row |-> r, consumed |-> FALSE, expired |-> FALSE]

-----------------------------------------------------------------------------
(* POST /auth/register *)

\* matching_active_registration rejects open registrations whose links have all
\* expired; any other open registration of the name refuses the new one.
RegisterRead(h) ==
    \E name \in Names :
        /\ name \notin accounts
        /\ \A r \in OpenRows(name) : HasStatus(r, {"email_pending"}) /\ Valid(r) = {}
        /\ Begin(h, [op |-> "register", name |-> name, stale |-> OpenRows(name)])
        /\ UNCHANGED <<reg, token, accounts, history>>

\* The rejection is written whatever the row has become; the unique index on
\* open names is the only check at commit.
RegisterCommit(h) ==
    LET stale == tx[h].stale
    IN  /\ tx[h].op = "register"
        /\ Unlocked(h, stale)
        /\ OpenRows(tx[h].name) \subseteq stale
        /\ \E r \in Rows, t \in Tokens :
            /\ reg[r] = Absent /\ token[t] = Absent
            /\ reg' = [x \in Rows |->
                        IF x = r THEN [name |-> tx[h].name, status |-> "email_pending"]
                        ELSE IF x \in stale THEN [reg[x] EXCEPT !.status = "rejected"]
                        ELSE reg[x]]
            /\ token' = [token EXCEPT ![t] = FreshToken(r)]
        /\ Finish(h)
        /\ UNCHANGED <<accounts, history>>

-----------------------------------------------------------------------------
(* POST /auth/registration/resend *)

\* Reads the registration and starts the statement of issue_action_token that
\* consumes its links: it will find those that are committed now.
ResendRead(h) ==
    \E r \in Rows :
        /\ HasStatus(r, {"email_pending"})
        /\ Begin(h, [op |-> "resend", row |-> r, seen |-> Unconsumed(r)])
        /\ UNCHANGED <<reg, token, accounts, history>>

\* The statement waits for a link that is being followed, the foreign key of
\* the new link for a registration that is being reviewed.
ResendCommit(h) ==
    /\ tx[h].op = "resend"
    /\ Unlocked(h, tx[h].seen \cup {tx[h].row})
    /\ \E t \in Tokens :
        /\ token[t] = Absent
        /\ token' = [x \in Tokens |->
                      IF x = t THEN FreshToken(tx[h].row)
                      ELSE IF x \in tx[h].seen THEN [token[x] EXCEPT !.consumed = TRUE]
                      ELSE token[x]]
    /\ Finish(h)
    /\ UNCHANGED <<reg, accounts, history>>

-----------------------------------------------------------------------------
(* POST /auth/verify-email *)

\* Mutant: the link is read without FOR UPDATE.
LinkFree_NoLock(h, t) == TRUE
LinkFree(h, t) == Unlocked(h, {t})

\* "registration is no longer pending" is checked here, on an unlocked row.
VerifyRead(h) ==
    \E t \in Tokens :
        /\ token[t] # Absent
        /\ LinkFree(h, t)
        /\ t \in Valid(token[t].row)
        /\ HasStatus(token[t].row, {"email_pending"})
        /\ Begin(h, [op |-> "verify", token |-> t,
                     taken |-> reg[token[t].row].name \in accounts])
        /\ UNCHANGED <<reg, token, accounts, history>>

VerifyCommit(h) ==
    LET t == tx[h].token
        r == token[t].row
    IN  /\ tx[h].op = "verify"
        /\ Unlocked(h, {r})
        /\ ~tx[h].taken => OpenRows(reg[r].name) \subseteq {r}
        /\ reg' = [reg EXCEPT ![r].status = IF tx[h].taken THEN "rejected" ELSE "pending"]
        /\ token' = [token EXCEPT ![t].consumed = TRUE]
        /\ verified' = IF tx[h].taken THEN verified ELSE verified \cup {reg[r].name}
        /\ used' = [used EXCEPT ![t] = @ + 1]
        /\ Finish(h)
        /\ UNCHANGED accounts

-----------------------------------------------------------------------------
(* POST /users/registrations/{id}/review *)

\* Mutant: every open registration can be reviewed.
Reviewable_Open(r) == HasStatus(r, Open)
Reviewable(r) == HasStatus(r, {"pending"})

ReviewRead(h) ==
    \E r \in Rows, decision \in {"approved", "rejected"} :
        /\ Reviewable(r)
        /\ Unlocked(h, {r})
        /\ decision = "approved" => reg[r].name \notin accounts
        /\ Begin(h, [op |-> "review", row |-> r, decision |-> decision])
        /\ UNCHANGED <<reg, token, accounts, history>>

\* The unique indexes of users are checked when the account is inserted.
ReviewCommit(h) ==
    LET r == tx[h].row
    IN  /\ tx[h].op = "review"
        /\ reg' = [reg EXCEPT ![r].status = tx[h].decision]
        /\ IF tx[h].decision = "approved"
           THEN reg[r].name \notin accounts /\ accounts' = accounts \cup {reg[r].name}
           ELSE accounts' = accounts
        /\ Finish(h)
        /\ UNCHANGED <<token, history>>

-----------------------------------------------------------------------------
\* A user confirms a change of his e-mail to one that is being registered.
EmailTaken(name) ==
    /\ name \notin accounts
    /\ accounts' = accounts \cup {name}
    /\ verified' = verified \cup {name}
    /\ UNCHANGED <<reg, token, tx, used>>

LinkExpires(t) ==
    /\ token[t] # Absent /\ ~token[t].expired
    /\ token' = [token EXCEPT ![t].expired = TRUE]
    /\ UNCHANGED <<reg, accounts, tx, history>>

\* An error after the first step, a violated index or a lost connection.
Abort(h) ==
    /\ tx[h] # Idle
    /\ Finish(h)
    /\ UNCHANGED <<reg, token, accounts, history>>

Init ==
    /\ reg = [r \in Rows |-> Absent]
    /\ token = [t \in Tokens |-> Absent]
    /\ accounts = {}
    /\ tx = [h \in Handlers |-> Idle]
    /\ verified = {}
    /\ used = [t \in Tokens |-> 0]

Next ==
    \/ \E h \in Handlers :
        \/ RegisterRead(h) \/ RegisterCommit(h)
        \/ ResendRead(h) \/ ResendCommit(h)
        \/ VerifyRead(h) \/ VerifyCommit(h)
        \/ ReviewRead(h) \/ ReviewCommit(h)
        \/ Abort(h)
    \/ \E name \in Names : EmailTaken(name)
    \/ \E t \in Tokens : LinkExpires(t)

Spec == Init /\ [][Next]_vars

-----------------------------------------------------------------------------
TypeOK ==
    /\ reg \in [Rows -> {Absent} \cup Row]
    /\ token \in [Tokens -> {Absent} \cup TokenRow]
    /\ accounts \subseteq Names
    /\ tx \in [Handlers -> TxRecord]
    /\ verified \subseteq Names
    /\ used \in [Tokens -> Nat]

\* Whatever is resent, expires or is reviewed at the same time, an account is
\* made only for a name whose owner has followed a link.
AccountNeedsVerifiedMail == accounts \subseteq verified

\* A link verifies at most once, also when it is followed twice at once.
LinkWorksOnce == \A t \in Tokens : used[t] <= 1

\* "registration is no longer pending" (verify_registration_email): only a
\* registration that waits for its e-mail is moved to review.
VerifiesOnlyWaiting ==
    [][\A r \in Rows :
        HasStatus(r, {"approved", "rejected"}) => reg'[r].status # "pending"]_vars

=============================================================================
