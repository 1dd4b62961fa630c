----------------------------- MODULE AccountTokens -----------------------------
(***************************************************************************)
(* Passwords, e-mail addresses and the links that change them: login,      *)
(* password change, password reset and change of the e-mail address        *)
(* (routers/auth.py, notifications.py and auth.py of the management API),  *)
(* on users, admin_sessions and email_action_tokens.                       *)
(*                                                                         *)
(* A handler is a READ COMMITTED transaction.  Following a link locks its  *)
(* row FOR UPDATE.  Writing a password locks the row of the user, and the  *)
(* DELETE that follows finds the sessions that are committed then.         *)
(* Accounts depend on each other only by the addresses they have, so this  *)
(* is one account and the addresses of all others.  Who is disabled is in  *)
(* AdminRoster, what becomes of an open registration in Registrations.     *)
(***************************************************************************)
EXTENDS Naturals, FiniteSets

CONSTANTS
    Addresses,
    Sessions,    \* rows of admin_sessions
    Links,       \* rows of email_action_tokens
    Clients,     \* transactions that can be in flight at once
    MaxChanges   \* bound of the instance: passwords after the first one

VARIABLES
    password,  \* committed: users.password_hash, counted from 0
    email,     \* committed: users.email
    others,    \* committed: users.email of the other users
    session,   \* committed: admin_sessions
    link,      \* committed: email_action_tokens
    tx         \* the request each client is waiting for

vars == <<password, email, others, session, link, tx>>

Absent == [absent |-> TRUE]
Idle == [op |-> "idle"]
NoAddress == "none"

ASSUME AccountAssumption == MaxChanges \in Nat /\ NoAddress \notin Addresses

Purposes == {"password_reset", "email_change"}

\* verified and upto are history: the password the session was opened with, and
\* the last one whose change had begun when it was committed.
SessionRow == [verified: 0..MaxChanges, upto: 0..(MaxChanges + 1)]

\* open: neither consumed nor expired.  uses and after are history: how often the
\* link was followed, and the links its issue could replace.
LinkRow ==
    {row \in [purpose: Purposes, address: Addresses \cup {NoAddress},
              open: BOOLEAN, uses: Nat, after: SUBSET Links] :
        row.purpose = "email_change" <=> row.address # NoAddress}

TxRecord ==
    {Idle}
    \cup [op: {"login"}, verified: 0..MaxChanges]
    \cup [op: {"change"}, keeps: SUBSET Sessions]
    \cup [op: {"follow"}, link: Links]
    \cup [op: {"write"}, ends: SUBSET Sessions, keeps: SUBSET Sessions,
          consumes: SUBSET Links]
    \cup [op: {"issue"}, purpose: Purposes, address: Addresses \cup {NoAddress},
          seen: SUBSET Links]

Begin(c, record) == tx[c] = Idle /\ tx' = [tx EXCEPT ![c] = record]
Continue(c, record) == tx' = [tx EXCEPT ![c] = record]
Finish(c) == tx' = [tx EXCEPT ![c] = Idle]

\* A row that is gone is nobody's any more; its place in Sessions is used again.
Forget(record, gone) ==
    CASE record.op = "change" -> [record EXCEPT !.keeps = @ \ gone]
      [] record.op = "write" -> [record EXCEPT !.keeps = @ \ gone, !.ends = @ \ gone]
      [] OTHER -> record

Committed == {s \in Sessions : session[s] # Absent}
LinksFor(purpose) == {t \in Links : link[t] # Absent /\ link[t].purpose = purpose}

\* The link a transaction has locked.
Held(c) == CASE tx[c].op = "follow" -> {tx[c].link}
             [] tx[c].op = "write" -> tx[c].consumes
             [] OTHER -> {}
Unlocked(c, links) == \A k \in Clients \ {c} : Held(k) \cap links = {}

Writing == {c \in Clients : tx[c].op = "write"}

Follow(links) ==
    [t \in Links |->
        IF t \in links THEN [link[t] EXCEPT !.open = FALSE, !.uses = @ + 1] ELSE link[t]]

-----------------------------------------------------------------------------
(* Sessions *)

\* POST /auth/login
LoginRead(c) ==
    /\ Begin(c, [op |-> "login", verified |-> password])
    /\ UNCHANGED <<password, email, others, session, link>>

Opened(c) ==
    [verified |-> tx[c].verified, upto |-> password + Cardinality(Writing)]

LoginCommit(c) ==
    /\ tx[c].op = "login"
    /\ \E s \in Sessions :
        session[s] = Absent /\ session' = [session EXCEPT ![s] = Opened(c)]
    /\ Finish(c)
    /\ UNCHANGED <<password, email, others, link>>

\* POST /auth/logout, expiry, and the other reasons of AdminRoster
SessionEnds(s) ==
    /\ session[s] # Absent
    /\ session' = [session EXCEPT ![s] = Absent]
    /\ tx' = [c \in Clients |-> Forget(tx[c], {s})]
    /\ UNCHANGED <<password, email, others, link>>

-----------------------------------------------------------------------------
(* Passwords *)

\* POST /auth/password: the session and the current password are checked.
ChangeRead(c) ==
    \E s \in Committed :
        /\ Begin(c, [op |-> "change", keeps |-> {s}])
        /\ UNCHANGED <<password, email, others, session, link>>

\* Mutant: a change ends its own session, and all others are kept.
Ends_Own(keeps) == Committed \cap keeps
Ends(keeps) == Committed \ keeps

\* UPDATE of the password, which waits for another one, and DELETE of sessions.
Write(c, keeps, consumes) ==
    /\ Writing = {}
    /\ password < MaxChanges
    /\ Continue(c, [op |-> "write", ends |-> Ends(keeps), keeps |-> keeps,
                    consumes |-> consumes])
    /\ UNCHANGED <<password, email, others, session, link>>

ChangeWrite(c) ==
    /\ tx[c].op = "change"
    /\ Write(c, tx[c].keeps, {})

\* Mutant: links are read without FOR UPDATE.
LinkFree_NoLock(c, t) == TRUE
LinkFree(c, t) == Unlocked(c, {t})

\* POST /auth/password/reset and POST /auth/email/change-confirm
FollowRead(c) ==
    \E t \in Links :
        /\ link[t] # Absent /\ LinkFree(c, t) /\ link[t].open
        /\ Begin(c, [op |-> "follow", link |-> t])
        /\ UNCHANGED <<password, email, others, session, link>>

Follows(c, purpose) == tx[c].op = "follow" /\ link[tx[c].link].purpose = purpose

ResetWrite(c) ==
    /\ Follows(c, "password_reset")
    /\ Write(c, {}, {tx[c].link})

\* The changed password is the one a kept session stands for.
PasswordCommit(c) ==
    /\ tx[c].op = "write"
    /\ password' = password + 1
    /\ session' = [s \in Sessions |->
                    IF s \in tx[c].ends THEN Absent
                    ELSE IF s \in tx[c].keeps THEN [verified |-> password', upto |-> password']
                    ELSE session[s]]
    /\ link' = Follow(tx[c].consumes)
    /\ tx' = [k \in Clients |-> IF k = c THEN Idle ELSE Forget(tx[k], tx[c].ends)]
    /\ UNCHANGED <<email, others>>

-----------------------------------------------------------------------------
(* Links *)

\* What each purpose needs: the session that asks for another address is one of
\* the account, the address is not another user's.
Asks(purpose, address) ==
    IF purpose = "password_reset" THEN address = NoAddress
    ELSE Committed # {} /\ address \in Addresses \ others

\* POST /auth/password/reset-request, /users/{id}/password-reset and
\* /auth/email/change-request.  issue_action_token starts its UPDATE: it finds the
\* links that are committed now.
IssueRead(c) ==
    \E purpose \in Purposes, address \in Addresses \cup {NoAddress} :
        /\ Asks(purpose, address)
        /\ Begin(c, [op |-> "issue", purpose |-> purpose, address |-> address,
                     seen |-> LinksFor(purpose)])
        /\ UNCHANGED <<password, email, others, session, link>>

\* Mutant: the UPDATE does not wait for a link that is being followed.
MayReplace_NoWait(c) == TRUE
MayReplace(c) == Unlocked(c, tx[c].seen)

\* Mutant: pending_email is not stored.
Issued_NoAddress(c) ==
    [purpose |-> tx[c].purpose, address |-> NoAddress,
     open |-> TRUE, uses |-> 0, after |-> tx[c].seen]

Issued(c) ==
    [purpose |-> tx[c].purpose, address |-> tx[c].address,
     open |-> TRUE, uses |-> 0, after |-> tx[c].seen]

Replaced(c) == tx[c].seen

IssueCommit(c) ==
    /\ tx[c].op = "issue"
    /\ MayReplace(c)
    /\ \E t \in Links :
        /\ link[t] = Absent
        /\ link' = [k \in Links |->
                     IF k = t THEN Issued(c)
                     ELSE IF k \in Replaced(c) THEN [link[k] EXCEPT !.open = FALSE]
                     ELSE link[k]]
    /\ Finish(c)
    /\ UNCHANGED <<password, email, others, session>>

IndexAllows(address) == address \notin others

\* confirm_email_change has looked for another user with the address, on rows it
\* does not lock; the unique index looks again.
ConfirmCommit(c) ==
    /\ Follows(c, "email_change")
    /\ IndexAllows(link[tx[c].link].address)
    /\ email' = link[tx[c].link].address
    /\ link' = Follow({tx[c].link})
    /\ Finish(c)
    /\ UNCHANGED <<password, others, session>>

\* Other users confirm a change, or their registration is approved.
OthersTake(address) ==
    /\ address \notin others \cup {email}
    /\ others' = others \cup {address}
    /\ UNCHANGED <<password, email, session, link, tx>>

OthersGive(address) ==
    /\ address \in others
    /\ others' = others \ {address}
    /\ UNCHANGED <<password, email, session, link, tx>>

LinkExpires(t) ==
    /\ link[t] # Absent /\ link[t].open
    /\ link' = [link EXCEPT ![t].open = FALSE]
    /\ UNCHANGED <<password, email, others, session, tx>>

\* A refusal after the first step, a violated index or a lost connection.
Abort(c) ==
    /\ tx[c] # Idle
    /\ Finish(c)
    /\ UNCHANGED <<password, email, others, session, link>>

-----------------------------------------------------------------------------
Init ==
    /\ password = 0
    /\ email \in Addresses
    /\ others = {}
    /\ session = [s \in Sessions |-> Absent]
    /\ link = [t \in Links |-> Absent]
    /\ tx = [c \in Clients |-> Idle]

Next ==
    \/ \E c \in Clients :
        \/ LoginRead(c) \/ LoginCommit(c)
        \/ ChangeRead(c) \/ ChangeWrite(c) \/ FollowRead(c) \/ ResetWrite(c)
        \/ PasswordCommit(c)
        \/ IssueRead(c) \/ IssueCommit(c) \/ ConfirmCommit(c) \/ Abort(c)
    \/ \E s \in Sessions : SessionEnds(s)
    \/ \E t \in Links : LinkExpires(t)
    \/ \E address \in Addresses : OthersTake(address) \/ OthersGive(address)

Spec == Init /\ [][Next]_vars

-----------------------------------------------------------------------------
TypeOK ==
    /\ password \in 0..MaxChanges
    /\ email \in Addresses
    /\ others \subseteq Addresses
    /\ session \in [Sessions -> {Absent} \cup SessionRow]
    /\ link \in [Links -> {Absent} \cup LinkRow]
    /\ tx \in [Clients -> TxRecord]

\* delete(AdminSession) of change_password and reset_password: a session of an
\* earlier password is left only when that very change, or a later login that was
\* verified before it, was still in flight; the next change ends it.
NoSessionOutlivesPassword ==
    \A s \in Committed :
        session[s].verified # password => password <= session[s].upto

\* consumed_at (reset_password, confirm_email_change) and issue_action_token: a link
\* works once, also when it is followed twice at once, and not any more when a new
\* link is committed in whose request it could be seen, even if it was being
\* followed then.
FollowsNewest ==
    \A t \in Links :
        link[t] # Absent /\ link'[t].uses > link[t].uses =>
            /\ link[t].uses = 0
            /\ \A k \in Links : link[k] # Absent => t \notin link[k].after

WorksOnceWhileNewest == [][FollowsNewest]_vars
=============================================================================
