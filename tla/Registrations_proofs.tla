------------------------- MODULE Registrations_proofs -------------------------
(***************************************************************************)
(* Registration, for any number of names, registrations, links and         *)
(* handlers: an account is made only for a name whose owner has followed a *)
(* link, and a link verifies once.  Both rest on what a handler has read   *)
(* in its first step still being so when it writes.                        *)
(***************************************************************************)
EXTENDS Registrations, TLAPS

\* What a handler has read still holds: its rows and links are there; the link it
\* follows, which it has locked, is not consumed; and what is reviewed is verified.
Sound(p) ==
    /\ p.op = "register" => \A r \in p.stale : reg[r] # Absent
    /\ p.op = "resend" => \A t \in p.seen : token[t] # Absent
    /\ p.op = "verify" =>
        /\ token[p.token] # Absent /\ ~token[p.token].consumed
        /\ reg[token[p.token].row] # Absent
    /\ p.op = "review" => reg[p.row] # Absent /\ reg[p.row].name \in verified

\* A link that has verified is consumed.
UsedIsConsumed ==
    \A t \in Tokens : used[t] = 0 \/ (used[t] = 1 /\ token[t] # Absent /\ token[t].consumed)

HeldOnce ==
    \A h, k \in Handlers :
        tx[h].op = "verify" /\ tx[k].op = "verify" /\ tx[h].token = tx[k].token => h = k

PendingIsVerified ==
    \A r \in Rows : HasStatus(r, {"pending"}) => reg[r].name \in verified

HandlersSound == (\A h \in Handlers : Sound(tx[h])) /\ HeldOnce

RegInv ==
    /\ TypeOK /\ HandlersSound
    /\ UsedIsConsumed /\ PendingIsVerified /\ AccountNeedsVerifiedMail

-----------------------------------------------------------------------------
(* Types *)

LEMMA TxTyped ==
    ASSUME TypeOK, NEW h \in Handlers
    PROVE  /\ tx[h].op \in {"idle", "register", "resend", "verify", "review"}
           /\ tx[h].op = "register" => tx[h].name \in Names /\ tx[h].stale \subseteq Rows
           /\ tx[h].op = "resend" => tx[h].row \in Rows /\ tx[h].seen \subseteq Tokens
           /\ tx[h].op = "verify" => tx[h].token \in Tokens /\ tx[h].taken \in BOOLEAN
           /\ tx[h].op = "review" =>
                tx[h].row \in Rows /\ tx[h].decision \in {"approved", "rejected"}
  <1>1. tx[h] \in TxRecord
    BY DEF TypeOK
  <1>2. QED
    BY <1>1 DEF TxRecord, Idle

LEMMA RowTyped ==
    ASSUME TypeOK, NEW r \in Rows, reg[r] # Absent
    PROVE  reg[r] \in Row /\ reg[r].name \in Names
  BY DEF TypeOK, Row

LEMMA TokenTyped ==
    ASSUME TypeOK, NEW t \in Tokens, token[t] # Absent
    PROVE  /\ token[t] \in TokenRow /\ token[t].row \in Rows
           /\ token[t].consumed \in BOOLEAN
  BY DEF TypeOK, TokenRow

\* No row and no link is the absent one.
LEMMA NotAbsent ==
    Absent \notin Row /\ Absent \notin TokenRow
  BY DEF Absent, Row, TokenRow

-----------------------------------------------------------------------------
(* What every step keeps *)

\* Registrations and links are not deleted, and their names and rows do not change.
RowsStay == \A r \in Rows : reg[r] # Absent => reg'[r] # Absent /\ reg'[r].name = reg[r].name
LinksStay ==
    \A t \in Tokens : token[t] # Absent => token'[t] # Absent /\ token'[t].row = token[t].row

\* A step that writes: the handlers that go on find what they had read.
LEMMA WriteKeeps ==
    ASSUME RegInv, RowsStay, LinksStay, verified \subseteq verified',
           \A k \in Handlers : tx'[k] = tx[k] \/ tx'[k] = Idle,
           \A k \in Handlers : tx'[k].op = "verify" =>
                token'[tx[k].token].consumed = token[tx[k].token].consumed
    PROVE  HandlersSound'
  <1>1. ASSUME NEW k \in Handlers
        PROVE  Sound(tx[k])'
    <2>1. TypeOK /\ Sound(tx[k])
      BY DEF RegInv, HandlersSound
    <2>2. CASE tx'[k] = Idle
      BY <2>2 DEF Idle, Sound
    <2>3. CASE tx'[k] = tx[k]
      <3>1. CASE tx[k].op = "verify"
        <4>1. tx[k].token \in Tokens /\ token[tx[k].token].row \in Rows
          BY <2>1, <3>1, TxTyped, TokenTyped DEF Sound
        <4>2. QED
          BY <2>1, <2>3, <3>1, <4>1 DEF Sound, RowsStay, LinksStay
      <3>2. CASE tx[k].op # "verify"
        BY <2>1, <2>3, <3>2, TxTyped DEF Sound, RowsStay, LinksStay
      <3>3. QED
        BY <3>1, <3>2
    <2>4. QED
      BY <2>2, <2>3
  <1>2. HeldOnce'
    BY DEF RegInv, HandlersSound, HeldOnce, Idle
  <1>3. QED
    BY <1>1, <1>2 DEF HandlersSound

\* A step that only reads, begins or gives up.
LEMMA ReadKeeps ==
    ASSUME RegInv, NEW h \in Handlers, NEW record \in TxRecord, Sound(record),
           tx' = [tx EXCEPT ![h] = record],
           UNCHANGED <<reg, token, accounts, verified, used>>,
           \A k \in Handlers \ {h} :
                ~(record.op = "verify" /\ tx[k].op = "verify" /\ tx[k].token = record.token)
    PROVE  RegInv'
  <1>1. TypeOK'
    BY DEF RegInv, TypeOK
  <1>2. \A k \in Handlers : tx'[k] = IF k = h THEN record ELSE tx[k]
    BY DEF RegInv, TypeOK
  <1>3. HandlersSound'
    <2>1. ASSUME NEW k \in Handlers
          PROVE  Sound(tx[k])'
      BY <1>2 DEF RegInv, HandlersSound, Sound
    <2>2. HeldOnce'
      BY <1>2 DEF RegInv, HandlersSound, HeldOnce
    <2>3. QED
      BY <2>1, <2>2 DEF HandlersSound
  <1>4. QED
    BY <1>1, <1>3
       DEF RegInv, UsedIsConsumed, PendingIsVerified, AccountNeedsVerifiedMail, HasStatus

-----------------------------------------------------------------------------
(* The first steps, and giving up *)

LEMMA ReadsKeep ==
    ASSUME RegInv, NEW h \in Handlers,
           RegisterRead(h) \/ ResendRead(h) \/ VerifyRead(h) \/ ReviewRead(h) \/ Abort(h)
    PROVE  RegInv'
  <1>1. TypeOK
    BY DEF RegInv
  <1>2. CASE RegisterRead(h)
    <2>1. PICK name, record :
            /\ name \in Names
            /\ record = [op |-> "register", name |-> name, stale |-> OpenRows(name)]
            /\ tx' = [tx EXCEPT ![h] = record] /\ UNCHANGED <<reg, token, accounts, history>>
      BY <1>2 DEF RegisterRead, Begin
    <2>2. record \in TxRecord /\ Sound(record) /\ record.op # "verify"
      BY <2>1 DEF TxRecord, OpenRows, HasStatus, Sound
    <2>3. QED
      BY <2>1, <2>2, ReadKeeps DEF history
  <1>3. CASE ResendRead(h)
    <2>1. PICK r, record :
            /\ r \in Rows
            /\ record = [op |-> "resend", row |-> r, seen |-> Unconsumed(r)]
            /\ tx' = [tx EXCEPT ![h] = record] /\ UNCHANGED <<reg, token, accounts, history>>
      BY <1>3 DEF ResendRead, Begin
    <2>2. record \in TxRecord /\ Sound(record) /\ record.op # "verify"
      BY <2>1 DEF TxRecord, Unconsumed, Sound
    <2>3. QED
      BY <2>1, <2>2, ReadKeeps DEF history
  <1>4. CASE VerifyRead(h)
    <2>1. PICK t, record :
            /\ t \in Tokens
            /\ record = [op |-> "verify", token |-> t,
                         taken |-> reg[token[t].row].name \in accounts]
            /\ token[t] # Absent /\ LinkFree(h, t) /\ t \in Valid(token[t].row)
            /\ HasStatus(token[t].row, {"email_pending"})
            /\ tx' = [tx EXCEPT ![h] = record] /\ UNCHANGED <<reg, token, accounts, history>>
      BY <1>4 DEF VerifyRead, Begin
    <2>2. record \in TxRecord /\ Sound(record)
      BY <2>1 DEF TxRecord, Sound, Valid, Unconsumed, HasStatus
    <2>3. \A k \in Handlers \ {h} : ~(tx[k].op = "verify" /\ tx[k].token = t)
      BY <2>1 DEF LinkFree, Unlocked, Locks
    <2>4. QED
      BY <2>1, <2>2, <2>3, ReadKeeps DEF history
  <1>5. CASE ReviewRead(h)
    <2>1. PICK r, decision, record :
            /\ r \in Rows /\ decision \in {"approved", "rejected"}
            /\ record = [op |-> "review", row |-> r, decision |-> decision]
            /\ Reviewable(r)
            /\ tx' = [tx EXCEPT ![h] = record] /\ UNCHANGED <<reg, token, accounts, history>>
      BY <1>5 DEF ReviewRead, Begin
    <2>2. record \in TxRecord /\ Sound(record) /\ record.op # "verify"
      BY <2>1 DEF TxRecord, Sound, Reviewable, HasStatus, RegInv, PendingIsVerified
    <2>3. QED
      BY <2>1, <2>2, ReadKeeps DEF history
  <1>6. CASE Abort(h)
    <2>1. PICK record : /\ record = Idle /\ tx' = [tx EXCEPT ![h] = record]
                        /\ UNCHANGED <<reg, token, accounts, history>>
      BY <1>6 DEF Abort, Finish
    <2>2. record \in TxRecord /\ Sound(record) /\ record.op # "verify"
      BY <2>1 DEF TxRecord, Sound, Idle
    <2>3. QED
      BY <2>1, <2>2, ReadKeeps DEF history
  <1>7. QED
    BY <1>2, <1>3, <1>4, <1>5, <1>6

-----------------------------------------------------------------------------
(* The second steps *)

LEMMA RegisterCommitKeeps ==
    ASSUME RegInv, NEW h \in Handlers, RegisterCommit(h)
    PROVE  RegInv'
  <1>1. TypeOK /\ Sound(tx[h]) /\ tx[h].op = "register"
    BY DEF RegInv, HandlersSound, RegisterCommit
  <1>2. PICK stale, name : stale = tx[h].stale /\ name = tx[h].name
    OBVIOUS
  <1>3. PICK r \in Rows, t \in Tokens :
          /\ reg[r] = Absent /\ token[t] = Absent
          /\ reg' = [x \in Rows |->
                       IF x = r THEN [name |-> name, status |-> "email_pending"]
                       ELSE IF x \in stale THEN [reg[x] EXCEPT !.status = "rejected"]
                       ELSE reg[x]]
          /\ token' = [token EXCEPT ![t] = FreshToken(r)]
          /\ tx' = [tx EXCEPT ![h] = Idle] /\ UNCHANGED <<accounts, history>>
    BY <1>2 DEF RegisterCommit, Finish
  <1>4. name \in Names /\ stale \subseteq Rows /\ \A x \in stale : reg[x] # Absent
    BY <1>1, <1>2, <1>3, TxTyped DEF Sound
  <1>5. FreshToken(r) \in TokenRow /\ FreshToken(r) # Absent
    <2>1. FreshToken(r) \in TokenRow
      BY DEF FreshToken, TokenRow
    <2>2. QED
      BY <2>1, NotAbsent
  <1>6. /\ reg'[r] \in Row /\ reg'[r].status = "email_pending"
        /\ \A x \in stale : /\ reg'[x] \in Row /\ reg'[x].name = reg[x].name
                           /\ reg'[x].status = "rejected"
        /\ \A x \in Rows : x # r /\ x \notin stale => reg'[x] = reg[x]
    <2>1. reg'[r] = [name |-> name, status |-> "email_pending"]
      BY <1>2, <1>3
    <2>2. [name |-> name, status |-> "email_pending"] \in Row
      BY <1>4 DEF Row, RegStatus, Open
    <2>3. ASSUME NEW x \in stale
          PROVE  /\ reg'[x] \in Row /\ reg'[x].name = reg[x].name
                 /\ reg'[x].status = "rejected"
      <3>1. reg[x] \in Row /\ x # r /\ x \in Rows
        BY <1>1, <1>2, <1>3, <1>4, RowTyped
      <3>2. reg'[x] = [reg[x] EXCEPT !.status = "rejected"]
        BY <1>2, <1>3, <3>1
      <3>3. QED
        BY <3>1, <3>2 DEF Row, RegStatus
    <2>4. QED
      BY <1>2, <1>3, <2>1, <2>2, <2>3
  <1>7. TypeOK'
    <2>1. reg' \in [Rows -> {Absent} \cup Row]
      <3>1. \A x \in Rows : reg'[x] \in {Absent} \cup Row
        BY <1>1, <1>6 DEF TypeOK
      <3>2. DOMAIN reg' = Rows /\ reg' = [x \in Rows |-> reg'[x]]
        BY <1>2, <1>3
      <3>3. QED
        BY <3>1, <3>2
    <2>2. /\ token' \in [Tokens -> {Absent} \cup TokenRow]
          /\ tx' \in [Handlers -> TxRecord]
      BY <1>1, <1>2, <1>3, <1>5 DEF TypeOK, TxRecord
    <2>3. QED
      BY <1>1, <1>2, <1>3, <2>1, <2>2 DEF TypeOK, history
  <1>8. RowsStay
    BY <1>1, <1>2, <1>3, <1>6, NotAbsent DEF RowsStay
  <1>9. LinksStay /\ \A x \in Tokens : token[x] # Absent => token'[x] = token[x]
    BY <1>1, <1>2, <1>3 DEF LinksStay, TypeOK
  <1>10. HandlersSound'
    <2>1. \A k \in Handlers : tx'[k] = IF k = h THEN Idle ELSE tx[k]
      BY <1>1, <1>2, <1>3 DEF TypeOK
    <2>2. ASSUME NEW k \in Handlers, tx'[k].op = "verify"
          PROVE  token'[tx[k].token].consumed = token[tx[k].token].consumed
      <3>1. tx[k].op = "verify"
        BY <2>1, <2>2 DEF Idle
      <3>2. tx[k].token \in Tokens /\ token[tx[k].token] # Absent
        BY <1>1, <3>1, TxTyped DEF RegInv, HandlersSound, Sound
      <3>3. QED
        BY <1>9, <3>2
    <2>3. QED
      BY <1>2, <1>3, <1>8, <1>9, <2>1, <2>2, WriteKeeps DEF history
  <1>11. UsedIsConsumed'
    BY <1>2, <1>3, <1>9 DEF RegInv, UsedIsConsumed, history
  <1>12. PendingIsVerified'
    BY <1>2, <1>3, <1>6 DEF RegInv, PendingIsVerified, HasStatus, history
  <1>13. QED
    BY <1>2, <1>3, <1>7, <1>10, <1>11, <1>12 DEF RegInv, AccountNeedsVerifiedMail, history

LEMMA ResendCommitKeeps ==
    ASSUME RegInv, NEW h \in Handlers, ResendCommit(h)
    PROVE  RegInv'
  <1>1. TypeOK /\ Sound(tx[h]) /\ tx[h].op = "resend"
    BY DEF RegInv, HandlersSound, ResendCommit
  <1>2. PICK row, seen : row = tx[h].row /\ seen = tx[h].seen
    OBVIOUS
  <1>3. PICK t \in Tokens :
          /\ token[t] = Absent /\ Unlocked(h, seen \cup {row})
          /\ token' = [x \in Tokens |->
                         IF x = t THEN FreshToken(row)
                         ELSE IF x \in seen THEN [token[x] EXCEPT !.consumed = TRUE]
                         ELSE token[x]]
          /\ tx' = [tx EXCEPT ![h] = Idle] /\ UNCHANGED <<reg, accounts, history>>
    BY <1>2 DEF ResendCommit, Finish
  <1>4. row \in Rows /\ seen \subseteq Tokens /\ \A x \in seen : token[x] # Absent
    BY <1>1, <1>2, <1>3, TxTyped DEF Sound
  <1>5. FreshToken(row) \in TokenRow /\ FreshToken(row) # Absent
    <2>1. FreshToken(row) \in TokenRow
      BY <1>4 DEF FreshToken, TokenRow
    <2>2. QED
      BY <2>1, NotAbsent
  <1>6. /\ token'[t] \in TokenRow
        /\ \A x \in seen : /\ token'[x] \in TokenRow /\ token'[x].row = token[x].row
                          /\ token'[x].consumed
        /\ \A x \in Tokens : x # t /\ x \notin seen => token'[x] = token[x]
    <2>1. ASSUME NEW x \in seen
          PROVE  /\ token'[x] \in TokenRow /\ token'[x].row = token[x].row
                 /\ token'[x].consumed
      <3>1. token[x] \in TokenRow /\ x # t /\ x \in Tokens
        BY <1>1, <1>2, <1>3, <1>4, TokenTyped
      <3>2. token'[x] = [token[x] EXCEPT !.consumed = TRUE]
        BY <1>2, <1>3, <3>1
      <3>3. QED
        BY <3>1, <3>2 DEF TokenRow
    <2>2. QED
      BY <1>2, <1>3, <1>5, <2>1
  <1>7. TypeOK'
    <2>1. token' \in [Tokens -> {Absent} \cup TokenRow]
      <3>1. \A x \in Tokens : token'[x] \in {Absent} \cup TokenRow
        BY <1>1, <1>6 DEF TypeOK
      <3>2. DOMAIN token' = Tokens /\ token' = [x \in Tokens |-> token'[x]]
        BY <1>2, <1>3
      <3>3. QED
        BY <3>1, <3>2
    <2>2. tx' \in [Handlers -> TxRecord]
      BY <1>1, <1>2, <1>3 DEF TypeOK, TxRecord
    <2>3. QED
      BY <1>1, <1>2, <1>3, <2>1, <2>2 DEF TypeOK, history
  <1>8. RowsStay
    BY <1>2, <1>3 DEF RowsStay
  <1>9. LinksStay
    BY <1>2, <1>3, <1>4, <1>6, NotAbsent DEF LinksStay
  <1>10. HandlersSound'
    <2>1. \A k \in Handlers : tx'[k] = IF k = h THEN Idle ELSE tx[k]
      BY <1>1, <1>2, <1>3 DEF TypeOK
    <2>2. ASSUME NEW k \in Handlers, tx'[k].op = "verify"
          PROVE  token'[tx[k].token].consumed = token[tx[k].token].consumed
      <3>1. tx[k].op = "verify" /\ k # h
        BY <2>1, <2>2 DEF Idle
      <3>2. tx[k].token \in Tokens /\ token[tx[k].token] # Absent
        BY <1>1, <3>1, TxTyped DEF RegInv, HandlersSound, Sound
      <3>3. tx[k].token \notin seen
        BY <1>2, <1>3, <3>1 DEF Unlocked, Locks
      <3>4. QED
        BY <1>2, <1>3, <1>6, <3>2, <3>3
    <2>3. QED
      BY <1>2, <1>3, <1>8, <1>9, <2>1, <2>2, WriteKeeps DEF history
  <1>11. UsedIsConsumed'
    BY <1>2, <1>3, <1>4, <1>6, NotAbsent DEF RegInv, UsedIsConsumed, history
  <1>12. QED
    BY <1>2, <1>3, <1>7, <1>10, <1>11
       DEF RegInv, PendingIsVerified, HasStatus, AccountNeedsVerifiedMail, history

\* The token is locked and not consumed, and its registration there: the name that
\* waits for a review from now on is one whose link was followed.
LEMMA VerifyCommitKeeps ==
    ASSUME RegInv, NEW h \in Handlers, VerifyCommit(h)
    PROVE  RegInv'
  <1>1. TypeOK /\ Sound(tx[h]) /\ tx[h].op = "verify"
    BY DEF RegInv, HandlersSound, VerifyCommit
  <1>2. PICK t, r, taken : t = tx[h].token /\ r = token[t].row /\ taken = tx[h].taken
    OBVIOUS
  <1>3. /\ reg' = [reg EXCEPT ![r].status = IF taken THEN "rejected" ELSE "pending"]
        /\ token' = [token EXCEPT ![t].consumed = TRUE]
        /\ verified' = IF taken THEN verified ELSE verified \cup {reg[r].name}
        /\ used' = [used EXCEPT ![t] = @ + 1]
        /\ tx' = [tx EXCEPT ![h] = Idle] /\ UNCHANGED accounts
    BY <1>2 DEF VerifyCommit, Finish
  <1>4. /\ t \in Tokens /\ token[t] # Absent /\ ~token[t].consumed /\ reg[r] # Absent
        /\ r \in Rows /\ reg[r] \in Row /\ token[t] \in TokenRow
    <2>1. t \in Tokens /\ token[t] # Absent /\ ~token[t].consumed /\ reg[r] # Absent
      BY <1>1, <1>2, TxTyped DEF Sound
    <2>2. token[t] \in TokenRow /\ r \in Rows
      BY <1>1, <1>2, <2>1, TokenTyped
    <2>3. QED
      BY <1>1, <2>1, <2>2, RowTyped
  <1>5. /\ reg'[r] \in Row /\ reg'[r].name = reg[r].name
        /\ reg'[r].status = (IF taken THEN "rejected" ELSE "pending")
        /\ \A x \in Rows \ {r} : reg'[x] = reg[x]
    BY <1>1, <1>3, <1>4 DEF TypeOK, Row, RegStatus, Open
  <1>6. /\ token'[t] \in TokenRow /\ token'[t].row = token[t].row /\ token'[t].consumed
        /\ \A x \in Tokens \ {t} : token'[x] = token[x]
    BY <1>1, <1>3, <1>4 DEF TypeOK, TokenRow
  <1>7. TypeOK'
    <2>1. reg' \in [Rows -> {Absent} \cup Row] /\ token' \in [Tokens -> {Absent} \cup TokenRow]
      BY <1>1, <1>3, <1>5, <1>6 DEF TypeOK
    <2>2. verified' \subseteq Names
      BY <1>1, <1>3, <1>4 DEF TypeOK, Row
    <2>3. used' \in [Tokens -> Nat] /\ tx' \in [Handlers -> TxRecord]
      BY <1>1, <1>3, <1>4 DEF TypeOK, TxRecord
    <2>4. QED
      BY <1>1, <1>3, <2>1, <2>2, <2>3 DEF TypeOK
  <1>8. RowsStay /\ LinksStay /\ verified \subseteq verified'
    BY <1>3, <1>4, <1>5, <1>6, NotAbsent DEF RowsStay, LinksStay
  <1>9. HandlersSound'
    <2>1. \A k \in Handlers : tx'[k] = IF k = h THEN Idle ELSE tx[k]
      BY <1>1, <1>3 DEF TypeOK
    <2>2. ASSUME NEW k \in Handlers, tx'[k].op = "verify"
          PROVE  token'[tx[k].token].consumed = token[tx[k].token].consumed
      <3>1. tx[k].op = "verify" /\ k # h
        BY <2>1, <2>2 DEF Idle
      <3>2. tx[k].token # t
        BY <1>1, <1>2, <3>1 DEF RegInv, HandlersSound, HeldOnce
      <3>3. tx[k].token \in Tokens
        BY <1>1, <3>1, TxTyped
      <3>4. QED
        BY <1>6, <3>2, <3>3
    <2>3. QED
      BY <1>8, <2>1, <2>2, WriteKeeps
  <1>10. UsedIsConsumed'
    <2>1. used[t] = 0
      BY <1>4 DEF RegInv, UsedIsConsumed
    <2>2. used'[t] = 1 /\ \A x \in Tokens \ {t} : used'[x] = used[x]
      BY <1>1, <1>3, <1>4, <2>1 DEF TypeOK
    <2>3. token'[t] # Absent
      BY <1>6, NotAbsent
    <2>4. QED
      BY <1>6, <2>2, <2>3 DEF RegInv, UsedIsConsumed
  <1>11. PendingIsVerified'
    <2>1. taken \in BOOLEAN
      BY <1>1, <1>2, TxTyped
    <2>2. ~taken => reg[r].name \in verified'
      BY <1>3
    <2>3. reg'[r].status = "pending" => ~taken
      BY <1>5
    <2>4. QED
      BY <1>5, <1>8, <2>2, <2>3 DEF RegInv, PendingIsVerified, HasStatus
  <1>12. QED
    BY <1>3, <1>7, <1>8, <1>9, <1>10, <1>11 DEF RegInv, AccountNeedsVerifiedMail

LEMMA ReviewCommitKeeps ==
    ASSUME RegInv, NEW h \in Handlers, ReviewCommit(h)
    PROVE  RegInv'
  <1>1. TypeOK /\ Sound(tx[h]) /\ tx[h].op = "review"
    BY DEF RegInv, HandlersSound, ReviewCommit
  <1>2. PICK r, decision : r = tx[h].row /\ decision = tx[h].decision
    OBVIOUS
  <1>3. /\ reg' = [reg EXCEPT ![r].status = decision]
        /\ accounts' \in {accounts, accounts \cup {reg[r].name}}
        /\ tx' = [tx EXCEPT ![h] = Idle] /\ UNCHANGED <<token, history>>
    BY <1>2 DEF ReviewCommit, Finish
  <1>4. /\ r \in Rows /\ reg[r] # Absent /\ reg[r].name \in verified
        /\ decision \in {"approved", "rejected"} /\ reg[r] \in Row
    BY <1>1, <1>2, TxTyped, RowTyped DEF Sound
  <1>5. /\ reg'[r] \in Row /\ reg'[r].name = reg[r].name /\ reg'[r].status = decision
        /\ \A x \in Rows \ {r} : reg'[x] = reg[x]
    BY <1>1, <1>3, <1>4 DEF TypeOK, Row, RegStatus, Open
  <1>6. TypeOK'
    <2>1. reg' \in [Rows -> {Absent} \cup Row] /\ tx' \in [Handlers -> TxRecord]
      BY <1>1, <1>3, <1>5 DEF TypeOK, TxRecord
    <2>2. accounts' \subseteq Names
      BY <1>1, <1>3, <1>4 DEF TypeOK, Row
    <2>3. QED
      BY <1>1, <1>3, <2>1, <2>2 DEF TypeOK, history
  <1>7. RowsStay /\ LinksStay
    BY <1>3, <1>4, <1>5, NotAbsent DEF RowsStay, LinksStay
  <1>8. HandlersSound'
    <2>1. \A k \in Handlers : tx'[k] = IF k = h THEN Idle ELSE tx[k]
      BY <1>1, <1>3 DEF TypeOK
    <2>2. QED
      BY <1>3, <1>7, <2>1, WriteKeeps DEF history
  <1>9. UsedIsConsumed'
    BY <1>3 DEF RegInv, UsedIsConsumed, history
  <1>10. PendingIsVerified'
    BY <1>3, <1>4, <1>5 DEF RegInv, PendingIsVerified, HasStatus, history
  <1>11. AccountNeedsVerifiedMail'
    BY <1>3, <1>4 DEF RegInv, AccountNeedsVerifiedMail, history
  <1>12. QED
    BY <1>6, <1>8, <1>9, <1>10, <1>11 DEF RegInv

\* An e-mail address is confirmed elsewhere, or a link expires.
LEMMA OutsideKeeps ==
    ASSUME RegInv, (\E name \in Names : EmailTaken(name)) \/ (\E t \in Tokens : LinkExpires(t))
    PROVE  RegInv'
  <1>1. TypeOK
    BY DEF RegInv
  <1>2. ASSUME NEW name \in Names, EmailTaken(name)
        PROVE  RegInv'
    <2>1. /\ accounts' = accounts \cup {name} /\ verified' = verified \cup {name}
          /\ UNCHANGED <<reg, token, tx, used>>
      BY <1>2 DEF EmailTaken
    <2>2. TypeOK'
      BY <1>1, <2>1 DEF TypeOK
    <2>3. HandlersSound'
      <3>1. RowsStay /\ LinksStay
        BY <2>1 DEF RowsStay, LinksStay
      <3>2. QED
        BY <2>1, <3>1, WriteKeeps
    <2>4. QED
      BY <2>1, <2>2, <2>3
         DEF RegInv, UsedIsConsumed, PendingIsVerified, HasStatus, AccountNeedsVerifiedMail
  <1>3. ASSUME NEW t \in Tokens, LinkExpires(t)
        PROVE  RegInv'
    <2>1. /\ token[t] # Absent /\ token' = [token EXCEPT ![t].expired = TRUE]
          /\ UNCHANGED <<reg, accounts, tx, verified, used>>
      BY <1>3 DEF LinkExpires, history
    <2>2. /\ token'[t] \in TokenRow /\ token'[t].row = token[t].row
          /\ token'[t].consumed = token[t].consumed
          /\ \A x \in Tokens \ {t} : token'[x] = token[x]
      <3>1. token[t] \in TokenRow
        BY <1>1, <2>1, TokenTyped
      <3>2. QED
        BY <1>1, <2>1, <3>1 DEF TypeOK, TokenRow
    <2>3. TypeOK'
      BY <1>1, <2>1, <2>2 DEF TypeOK
    <2>4. token'[t] # Absent
      BY <2>2, NotAbsent
    <2>5. HandlersSound'
      <3>1. RowsStay /\ LinksStay
        BY <2>1, <2>2, <2>4 DEF RowsStay, LinksStay
      <3>2. \A k \in Handlers : tx[k].op = "verify" =>
                token'[tx[k].token].consumed = token[tx[k].token].consumed
        BY <1>1, <2>2, TxTyped
      <3>3. QED
        BY <2>1, <3>1, <3>2, WriteKeeps
    <2>6. UsedIsConsumed'
      BY <2>1, <2>2, <2>4 DEF RegInv, UsedIsConsumed
    <2>7. QED
      BY <2>1, <2>3, <2>5, <2>6
         DEF RegInv, PendingIsVerified, HasStatus, AccountNeedsVerifiedMail
  <1>4. QED
    BY <1>2, <1>3

-----------------------------------------------------------------------------
(* The invariant *)

LEMMA RegInit ==
    ASSUME Init
    PROVE  RegInv
  <1>1. TypeOK
    BY DEF Init, TypeOK, TxRecord
  <1>2. HandlersSound
    BY DEF Init, HandlersSound, Sound, HeldOnce, Idle
  <1>3. QED
    BY <1>1, <1>2 DEF Init, RegInv, UsedIsConsumed, PendingIsVerified, HasStatus,
                      AccountNeedsVerifiedMail

LEMMA RegStep ==
    ASSUME RegInv, [Next]_vars
    PROVE  RegInv'
  <1>1. CASE UNCHANGED vars
    <2>1. UNCHANGED <<reg, token, accounts, tx, verified, used>>
      BY <1>1 DEF vars, history
    <2>2. TypeOK' /\ HandlersSound'
      BY <2>1 DEF RegInv, TypeOK, HandlersSound, Sound, HeldOnce
    <2>3. QED
      BY <2>1, <2>2
         DEF RegInv, UsedIsConsumed, PendingIsVerified, HasStatus, AccountNeedsVerifiedMail
  <1>2. CASE Next
    BY <1>2, ReadsKeep, RegisterCommitKeeps, ResendCommitKeeps, VerifyCommitKeeps,
       ReviewCommitKeeps, OutsideKeeps DEF Next
  <1>3. QED
    BY <1>1, <1>2

LEMMA RegInvariant == Spec => []RegInv
  <1>1. Init => RegInv
    BY RegInit
  <1>2. RegInv /\ [Next]_vars => RegInv'
    BY RegStep
  <1>3. QED
    BY <1>1, <1>2, PTL DEF Spec

\* The tables of registrations, links and accounts, and what the handlers of
\* routers/auth.py and routers/users.py remember between two statements, are of
\* their types: no handler writes to a row that is not there.
THEOREM TypeCorrect == Spec => []TypeOK
  <1>1. RegInv => TypeOK
    BY DEF RegInv
  <1>2. QED
    BY <1>1, RegInvariant, PTL

\* review_registration and the confirmation of an e-mail make accounts only for names
\* whose owner has followed a link, whatever is registered again, resent, expired,
\* followed or reviewed between the two statements of a handler.
THEOREM AccountNeedsVerifiedMailAlways == Spec => []AccountNeedsVerifiedMail
  <1>1. RegInv => AccountNeedsVerifiedMail
    BY DEF RegInv
  <1>2. QED
    BY <1>1, RegInvariant, PTL

\* verify_registration_email consumes a link under its row lock: it verifies at most
\* once, however many requests follow it at the same time.
THEOREM LinkWorksOnceAlways == Spec => []LinkWorksOnce
  <1>1. RegInv => LinkWorksOnce
    BY DEF RegInv, UsedIsConsumed, LinkWorksOnce
  <1>2. QED
    BY <1>1, RegInvariant, PTL

=============================================================================
