------------------------- MODULE AccountTokens_proofs -------------------------
(***************************************************************************)
(* For every set of addresses, sessions, links and transactions, and any   *)
(* number of password changes: which sessions a new password may leave,    *)
(* and how often a link works.                                             *)
(***************************************************************************)
EXTENDS AccountTokens, TLAPS, FiniteSetTheorems

\* A password is written by one transaction at a time, and each session that is
\* committed after its DELETE and before its end knows of it.
OneWriter == \A c, k \in Writing : c = k
WriterIsKnown ==
    \A c \in Writing :
        /\ password < MaxChanges
        /\ \A s \in Committed \ (tx[c].ends \cup tx[c].keeps) : session[s].upto > password

\* The links a transaction follows or replaces are there, and a new one has the
\* address its purpose needs.
LinksAreThere ==
    \A c \in Clients :
        /\ \A t \in Held(c) : link[t] # Absent
        /\ tx[c].op = "issue" =>
            /\ \A t \in tx[c].seen : link[t] # Absent
            /\ tx[c].purpose = "email_change" <=> tx[c].address # NoAddress

Inv == TypeOK /\ LinksAreThere /\ OneWriter /\ WriterIsKnown /\ NoSessionOutlivesPassword

-----------------------------------------------------------------------------
(* Reading the type invariant *)

LEMMA TxTyped ==
    ASSUME TypeOK, NEW c \in Clients
    PROVE  /\ tx[c].op = "login" => tx[c].verified \in 0..MaxChanges
           /\ tx[c].op = "change" => tx[c].keeps \subseteq Sessions
           /\ tx[c].op = "follow" => tx[c].link \in Links
           /\ tx[c].op = "write" =>
                /\ tx[c].ends \subseteq Sessions /\ tx[c].keeps \subseteq Sessions
                /\ tx[c].consumes \subseteq Links
           /\ tx[c].op = "issue" =>
                /\ tx[c].purpose \in Purposes /\ tx[c].address \in Addresses \cup {NoAddress}
                /\ tx[c].seen \subseteq Links
           /\ tx[c].op \in {"idle", "login", "change", "follow", "write", "issue"}
  <1>1. tx[c] \in TxRecord
    BY DEF TypeOK
  <1>2. QED
    BY <1>1 DEF TxRecord, Idle

LEMMA RowsTyped ==
    ASSUME TypeOK
    PROVE  /\ \A s \in Committed : session[s] \in SessionRow
           /\ \A t \in Links : link[t] # Absent => link[t] \in LinkRow
  BY DEF TypeOK, Committed

\* A row that is forgotten leaves a record of the same kind behind.
LEMMA Forgotten ==
    ASSUME TypeOK, NEW c \in Clients, NEW gone \in SUBSET Sessions
    PROVE  /\ Forget(tx[c], gone) \in TxRecord
           /\ Forget(tx[c], gone).op = tx[c].op
           /\ tx[c].op \notin {"change", "write"} => Forget(tx[c], gone) = tx[c]
           /\ tx[c].op = "write" =>
                /\ Forget(tx[c], gone).ends = tx[c].ends \ gone
                /\ Forget(tx[c], gone).keeps = tx[c].keeps \ gone
                /\ Forget(tx[c], gone).consumes = tx[c].consumes
  <1>1. tx[c] \in TxRecord
    BY DEF TypeOK
  <1>2. CASE tx[c].op = "change"
    BY <1>1, <1>2 DEF TxRecord, Idle, Forget
  <1>3. CASE tx[c].op = "write"
    <2>1. tx[c] \in [op: {"write"}, ends: SUBSET Sessions, keeps: SUBSET Sessions,
                     consumes: SUBSET Links]
      BY <1>1, <1>3 DEF TxRecord, Idle
    <2>2. Forget(tx[c], gone) = [tx[c] EXCEPT !.keeps = @ \ gone, !.ends = @ \ gone]
      BY <1>3 DEF Forget
    <2>3. Forget(tx[c], gone) \in [op: {"write"}, ends: SUBSET Sessions,
                                  keeps: SUBSET Sessions, consumes: SUBSET Links]
      BY <2>1, <2>2
    <2>4. Forget(tx[c], gone) \in TxRecord
      BY <2>3 DEF TxRecord
    <2>5. QED
      BY <1>3, <2>1, <2>2, <2>4
  <1>4. CASE tx[c].op \notin {"change", "write"}
    BY <1>1, <1>4 DEF Forget
  <1>5. QED
    BY <1>2, <1>3, <1>4

\* Links that are followed or replaced keep their types.
LEMMA FollowTyped ==
    ASSUME TypeOK, NEW links \in SUBSET Links, \A t \in links : link[t] # Absent
    PROVE  /\ Follow(links) \in [Links -> {Absent} \cup LinkRow]
           /\ \A t \in Links : link[t] # Absent => Follow(links)[t] # Absent
  <1>1. ASSUME NEW t \in links
        PROVE  [link[t] EXCEPT !.open = FALSE, !.uses = @ + 1] \in LinkRow
    <2>1. link[t] \in LinkRow
      BY <1>1, RowsTyped
    <2>2. link[t] \in [purpose: Purposes, address: Addresses \cup {NoAddress},
                       open: BOOLEAN, uses: Nat, after: SUBSET Links]
      BY <2>1 DEF LinkRow
    <2>3. link[t].uses + 1 \in Nat
      BY <2>2
    <2>4. QED
      BY <2>1, <2>2, <2>3 DEF LinkRow
  <1>2. \A row \in LinkRow : row # Absent
    BY DEF LinkRow, Absent
  <1>3. QED
    BY <1>1, <1>2 DEF Follow, TypeOK

\* At most one password is being written, so a new session's upto is in range
\* and beyond the password of a writer.
LEMMA OpenedTyped ==
    ASSUME Inv, NEW c \in Clients, tx[c].op = "login"
    PROVE  /\ Opened(c) \in SessionRow
           /\ Opened(c).upto >= password
           /\ Writing # {} => Opened(c).upto > password
  <1>1. password \in 0..MaxChanges /\ tx[c].verified \in 0..MaxChanges
    BY TxTyped DEF Inv, TypeOK
  <1>2. CASE Writing = {}
    <2>1. Cardinality(Writing) = 0
      BY <1>2, FS_EmptySet
    <2>2. QED
      BY <1>1, <1>2, <2>1, AccountAssumption DEF Opened, SessionRow
  <1>3. CASE Writing # {}
    <2>1. PICK k \in Writing : TRUE
      BY <1>3
    <2>2. Writing = {k}
      BY <2>1 DEF Inv, OneWriter
    <2>3. Cardinality(Writing) = 1
      BY <2>2, FS_Singleton
    <2>4. password < MaxChanges
      BY <2>1 DEF Inv, WriterIsKnown
    <2>5. QED
      BY <1>1, <2>3, <2>4, AccountAssumption DEF Opened, SessionRow
  <1>4. QED
    BY <1>2, <1>3

-----------------------------------------------------------------------------
(* Steps *)

\* What one transaction holds and replaces.
ItsLinksAreThere(c) ==
    /\ \A t \in Held(c) : link[t] # Absent
    /\ tx[c].op = "issue" =>
        /\ \A t \in tx[c].seen : link[t] # Absent
        /\ tx[c].purpose = "email_change" <=> tx[c].address # NoAddress

\* A transaction that does not move, or only forgets sessions, goes on holding
\* links that are there.
LEMMA LinksStay ==
    ASSUME Inv, NEW c \in Clients, NEW gone \in SUBSET Sessions,
           tx'[c] \in {tx[c], Forget(tx[c], gone)},
           \A t \in Links : link[t] # Absent => link'[t] # Absent
    PROVE  ItsLinksAreThere(c)'
  <1>1. ItsLinksAreThere(c) /\ TypeOK
    BY DEF Inv, LinksAreThere, ItsLinksAreThere
  <1>2. CASE tx[c].op = "write"
    BY <1>1, <1>2, TxTyped, Forgotten DEF ItsLinksAreThere, Held
  <1>3. CASE tx[c].op = "change"
    BY <1>1, <1>3, Forgotten DEF ItsLinksAreThere, Held
  <1>4. CASE tx[c].op \notin {"write", "change"}
    <2>1. tx'[c] = tx[c]
      BY <1>1, <1>4, Forgotten
    <2>2. QED
      BY <1>1, <1>4, <2>1, TxTyped DEF ItsLinksAreThere, Held
  <1>5. QED
    BY <1>2, <1>3, <1>4

\* A step that only moves its transaction to another record, not to a write.
LEMMA ReadStep ==
    ASSUME Inv, NEW c \in Clients, NEW record \in TxRecord, record.op # "write",
           tx' = [tx EXCEPT ![c] = record],
           UNCHANGED <<password, email, others, session, link>>,
           record.op = "follow" => link[record.link] # Absent,
           record.op = "issue" =>
                /\ \A t \in record.seen : link[t] # Absent
                /\ record.purpose = "email_change" <=> record.address # NoAddress
    PROVE  Inv'
  <1>1. TypeOK'
    BY DEF Inv, TypeOK
  <1>2. \A k \in Clients \ {c} : tx'[k] = tx[k]
    BY DEF Inv, TypeOK
  <1>3. tx'[c] = record
    BY DEF Inv, TypeOK
  <1>4. ItsLinksAreThere(c)'
    BY <1>3 DEF ItsLinksAreThere, Held
  <1>5. LinksAreThere'
    BY <1>2, <1>4, LinksStay DEF LinksAreThere, ItsLinksAreThere
  <1>6. Writing' \subseteq Writing /\ \A k \in Writing' : tx'[k] = tx[k]
    BY <1>2, <1>3 DEF Writing
  <1>7. Committed' = Committed
    BY DEF Committed
  <1>8. OneWriter' /\ WriterIsKnown'
    BY <1>6, <1>7 DEF Inv, OneWriter, WriterIsKnown
  <1>9. NoSessionOutlivesPassword'
    BY <1>7 DEF Inv, NoSessionOutlivesPassword
  <1>10. QED
    BY <1>1, <1>5, <1>8, <1>9 DEF Inv

LEMMA ReadsKeep ==
    ASSUME Inv, NEW c \in Clients,
           LoginRead(c) \/ ChangeRead(c) \/ FollowRead(c) \/ IssueRead(c) \/ Abort(c)
    PROVE  Inv'
  <1>1. CASE LoginRead(c)
    <2>1. [op |-> "login", verified |-> password] \in TxRecord
      BY DEF Inv, TypeOK, TxRecord
    <2>2. QED
      BY <1>1, <2>1, ReadStep DEF LoginRead, Begin
  <1>2. CASE ChangeRead(c)
    <2>1. PICK s \in Committed :
            /\ Begin(c, [op |-> "change", keeps |-> {s}])
            /\ UNCHANGED <<password, email, others, session, link>>
      BY <1>2 DEF ChangeRead
    <2>2. [op |-> "change", keeps |-> {s}] \in TxRecord
      BY DEF Committed, TxRecord
    <2>3. QED
      BY <2>1, <2>2, ReadStep DEF Begin
  <1>3. CASE FollowRead(c)
    <2>1. PICK t \in Links :
            /\ link[t] # Absent
            /\ Begin(c, [op |-> "follow", link |-> t])
            /\ UNCHANGED <<password, email, others, session, link>>
      BY <1>3 DEF FollowRead
    <2>2. [op |-> "follow", link |-> t] \in TxRecord
      BY DEF TxRecord
    <2>3. QED
      BY <2>1, <2>2, ReadStep DEF Begin
  <1>4. CASE IssueRead(c)
    <2>1. PICK purpose \in Purposes, address \in Addresses \cup {NoAddress} :
            /\ Asks(purpose, address)
            /\ Begin(c, [op |-> "issue", purpose |-> purpose, address |-> address,
                         seen |-> LinksFor(purpose)])
            /\ UNCHANGED <<password, email, others, session, link>>
      BY <1>4 DEF IssueRead
    <2>2. [op |-> "issue", purpose |-> purpose, address |-> address,
           seen |-> LinksFor(purpose)] \in TxRecord
      BY DEF LinksFor, TxRecord
    <2>3. purpose = "email_change" <=> address # NoAddress
      BY <2>1, AccountAssumption DEF Asks, Purposes
    <2>4. \A t \in LinksFor(purpose) : link[t] # Absent
      BY DEF LinksFor
    <2>5. QED
      BY <2>1, <2>2, <2>3, <2>4, ReadStep DEF Begin
  <1>5. CASE Abort(c)
    <2>1. Idle \in TxRecord /\ Idle.op = "idle"
      BY DEF TxRecord, Idle
    <2>2. QED
      BY <1>5, <2>1, ReadStep DEF Abort, Finish
  <1>6. QED
    BY <1>1, <1>2, <1>3, <1>4, <1>5

\* The other steps that end a transaction, other than the write of a password.
LEMMA FinishKeeps ==
    ASSUME Inv, NEW c \in Clients, tx[c].op # "write", Finish(c),
           \A t \in Links : link[t] # Absent => link'[t] # Absent
    PROVE  /\ tx' \in [Clients -> TxRecord]
           /\ LinksAreThere'
           /\ Writing' = Writing /\ \A k \in Writing : tx'[k] = tx[k]
  <1>1. /\ \A k \in Clients \ {c} : tx'[k] = tx[k]
        /\ tx'[c] = Idle
        /\ tx' \in [Clients -> TxRecord]
    BY DEF Finish, Inv, TypeOK, TxRecord
  <1>2. ItsLinksAreThere(c)'
    BY <1>1 DEF ItsLinksAreThere, Held, Idle
  <1>3. LinksAreThere'
    BY <1>1, <1>2, LinksStay DEF LinksAreThere, ItsLinksAreThere
  <1>4. Writing' = Writing
    BY <1>1 DEF Writing, Idle
  <1>5. QED
    BY <1>1, <1>3, <1>4 DEF Writing

LEMMA LoginCommitKeeps ==
    ASSUME Inv, NEW c \in Clients, LoginCommit(c)
    PROVE  Inv'
  <1>1. PICK s \in Sessions :
            session[s] = Absent /\ session' = [session EXCEPT ![s] = Opened(c)]
    BY DEF LoginCommit
  <1>2. UNCHANGED <<password, email, others, link>> /\ tx[c].op = "login" /\ Finish(c)
    BY DEF LoginCommit
  <1>3. /\ tx' \in [Clients -> TxRecord] /\ LinksAreThere'
        /\ Writing' = Writing /\ \A k \in Writing : tx'[k] = tx[k]
    BY <1>2, FinishKeeps
  <1>4. /\ Opened(c) \in SessionRow /\ Opened(c).upto >= password
        /\ Writing # {} => Opened(c).upto > password
    BY <1>2, OpenedTyped
  <1>5. TypeOK'
    BY <1>1, <1>2, <1>3, <1>4 DEF Inv, TypeOK
  <1>6. /\ session'[s] = Opened(c)
        /\ \A k \in Sessions \ {s} : session'[k] = session[k]
    BY <1>1 DEF Inv, TypeOK
  <1>7. Committed' \subseteq Committed \cup {s}
    BY <1>6 DEF Committed
  <1>8. NoSessionOutlivesPassword'
    BY <1>2, <1>4, <1>6, <1>7 DEF Inv, NoSessionOutlivesPassword, SessionRow, TypeOK, Committed
  <1>9. OneWriter'
    BY <1>3 DEF Inv, OneWriter
  <1>10. WriterIsKnown'
    BY <1>2, <1>3, <1>4, <1>6, <1>7 DEF Inv, WriterIsKnown, Committed
  <1>11. QED
    BY <1>3, <1>5, <1>8, <1>9, <1>10 DEF Inv

LEMMA SessionEndsKeeps ==
    ASSUME Inv, NEW s \in Sessions, SessionEnds(s)
    PROVE  Inv'
  <1>1. /\ session' = [session EXCEPT ![s] = Absent]
        /\ tx' = [c \in Clients |-> Forget(tx[c], {s})]
        /\ UNCHANGED <<password, email, others, link>>
    BY DEF SessionEnds
  <1>2. \A c \in Clients : tx'[c] = Forget(tx[c], {s})
    BY <1>1
  <1>3. tx' \in [Clients -> TxRecord]
    <2>1. TypeOK /\ {s} \in SUBSET Sessions
      BY DEF Inv
    <2>2. \A c \in Clients : Forget(tx[c], {s}) \in TxRecord
      BY <2>1, Forgotten
    <2>3. QED
      BY <1>1, <2>2
  <1>4. TypeOK'
    BY <1>1, <1>3 DEF Inv, TypeOK
  <1>5. LinksAreThere'
    <2>1. ASSUME NEW c \in Clients
          PROVE  ItsLinksAreThere(c)'
      <3>1. {s} \in SUBSET Sessions /\ \A t \in Links : link[t] # Absent => link'[t] # Absent
        BY <1>1
      <3>2. tx'[c] \in {tx[c], Forget(tx[c], {s})}
        BY <1>2
      <3>3. QED
        BY <3>1, <3>2, LinksStay
    <2>2. QED
      BY <2>1 DEF LinksAreThere, ItsLinksAreThere
  <1>6. ASSUME NEW c \in Clients
        PROVE  /\ tx'[c].op = tx[c].op
               /\ tx[c].op = "write" =>
                    tx'[c].ends = tx[c].ends \ {s} /\ tx'[c].keeps = tx[c].keeps \ {s}
    <2>1. TypeOK /\ {s} \in SUBSET Sessions
      BY DEF Inv
    <2>2. /\ Forget(tx[c], {s}).op = tx[c].op
          /\ tx[c].op = "write" =>
                /\ Forget(tx[c], {s}).ends = tx[c].ends \ {s}
                /\ Forget(tx[c], {s}).keeps = tx[c].keeps \ {s}
      BY <2>1, Forgotten
    <2>3. QED
      BY <1>2, <2>2
  <1>7. Committed' = Committed \ {s} /\ \A k \in Committed' : session'[k] = session[k]
    BY <1>1 DEF Committed, Inv, TypeOK
  <1>8. Writing' = Writing
    BY <1>6 DEF Writing
  <1>9. OneWriter' /\ WriterIsKnown'
    <2>1. OneWriter'
      BY <1>8 DEF Inv, OneWriter
    <2>2. ASSUME NEW c \in Writing', NEW k \in Committed' \ (tx'[c].ends \cup tx'[c].keeps)
          PROVE  session'[k].upto > password'
      <3>1. c \in Writing /\ c \in Clients /\ tx[c].op = "write"
        BY <1>8, <2>2 DEF Writing
      <3>2. k \in Committed \ (tx[c].ends \cup tx[c].keeps)
        BY <1>6, <1>7, <2>2, <3>1
      <3>3. QED
        BY <1>1, <1>7, <2>2, <3>1, <3>2 DEF Inv, WriterIsKnown
    <2>3. \A c \in Writing' : password' < MaxChanges
      BY <1>1, <1>8 DEF Inv, WriterIsKnown
    <2>4. QED
      BY <2>1, <2>2, <2>3 DEF WriterIsKnown
  <1>10. NoSessionOutlivesPassword'
    BY <1>1, <1>7 DEF Inv, NoSessionOutlivesPassword
  <1>11. QED
    BY <1>4, <1>5, <1>9, <1>10 DEF Inv

\* The first write of a password: nobody else writes one, and each committed
\* session is one the transaction ends or keeps.
LEMMA WriteKeeps ==
    ASSUME Inv, NEW c \in Clients, NEW keeps \in SUBSET Sessions,
           NEW consumes \in SUBSET Links, \A t \in consumes : link[t] # Absent,
           Write(c, keeps, consumes)
    PROVE  Inv'
  <1> DEFINE record == [op |-> "write", ends |-> Ends(keeps), keeps |-> keeps,
                        consumes |-> consumes]
  <1>1. /\ Writing = {} /\ password < MaxChanges
        /\ tx' = [tx EXCEPT ![c] = record]
        /\ UNCHANGED <<password, email, others, session, link>>
    BY DEF Write, Continue
  <1>2. record \in TxRecord
    BY DEF TxRecord, Ends, Committed
  <1>3. tx'[c] = record /\ \A k \in Clients \ {c} : tx'[k] = tx[k]
    BY <1>1 DEF Inv, TypeOK
  <1>4. TypeOK'
    BY <1>1, <1>2 DEF Inv, TypeOK
  <1>5. ItsLinksAreThere(c)'
    BY <1>1, <1>3 DEF ItsLinksAreThere, Held
  <1>6. LinksAreThere'
    BY <1>1, <1>3, <1>5, LinksStay DEF LinksAreThere, ItsLinksAreThere
  <1>7. Writing' = {c}
    BY <1>1, <1>3 DEF Writing
  <1>8. Committed' = Committed /\ Committed \ (Ends(keeps) \cup keeps) = {}
    BY <1>1 DEF Committed, Ends
  <1>9. OneWriter'
    BY <1>7 DEF OneWriter
  <1>10. WriterIsKnown'
    BY <1>1, <1>3, <1>7, <1>8 DEF WriterIsKnown
  <1>11. NoSessionOutlivesPassword'
    BY <1>1, <1>8 DEF Inv, NoSessionOutlivesPassword
  <1>12. QED
    BY <1>4, <1>6, <1>9, <1>10, <1>11 DEF Inv

LEMMA WritesKeep ==
    ASSUME Inv, NEW c \in Clients, ChangeWrite(c) \/ ResetWrite(c)
    PROVE  Inv'
  <1>1. CASE ChangeWrite(c)
    <2>1. tx[c].keeps \in SUBSET Sessions /\ Write(c, tx[c].keeps, {})
      BY <1>1, TxTyped DEF ChangeWrite, Inv
    <2>2. QED
      BY <2>1, WriteKeeps
  <1>2. CASE ResetWrite(c)
    <2>1. tx[c].op = "follow" /\ Write(c, {}, {tx[c].link})
      BY <1>2 DEF ResetWrite, Follows
    <2>2. tx[c].link \in Links /\ link[tx[c].link] # Absent
      BY <2>1, TxTyped DEF Inv, LinksAreThere, Held
    <2>3. QED
      BY <2>1, <2>2, WriteKeeps
  <1>3. QED
    BY <1>1, <1>2

\* The end of a change: no other one is being written.  A session that is left is
\* kept by the change, or was committed after its DELETE and knows of it.
LEMMA PasswordCommitKeeps ==
    ASSUME Inv, NEW c \in Clients, PasswordCommit(c)
    PROVE  Inv'
  <1> DEFINE ends == tx[c].ends
             keeps == tx[c].keeps
             row == [verified |-> password + 1, upto |-> password + 1]
  <1>1. /\ tx[c].op = "write"
        /\ password' = password + 1
        /\ session' = [s \in Sessions |-> IF s \in ends THEN Absent
                                         ELSE IF s \in keeps THEN row ELSE session[s]]
        /\ link' = Follow(tx[c].consumes)
        /\ tx' = [k \in Clients |-> IF k = c THEN Idle ELSE Forget(tx[k], ends)]
        /\ UNCHANGED <<email, others>>
    BY DEF PasswordCommit
  <1>2. /\ TypeOK /\ c \in Writing
        /\ ends \in SUBSET Sessions /\ keeps \in SUBSET Sessions
        /\ tx[c].consumes \in SUBSET Links
    BY <1>1, TxTyped DEF Inv, Writing
  <1>3. /\ password < MaxChanges /\ password \in 0..MaxChanges
        /\ \A s \in Committed \ (ends \cup keeps) : session[s].upto > password
    BY <1>2 DEF Inv, WriterIsKnown, TypeOK
  <1>4. /\ Follow(tx[c].consumes) \in [Links -> {Absent} \cup LinkRow]
        /\ \A t \in Links : link[t] # Absent => link'[t] # Absent
    <2>1. \A t \in tx[c].consumes : link[t] # Absent
      BY <1>1 DEF Inv, LinksAreThere, Held
    <2>2. QED
      BY <1>1, <1>2, <2>1, FollowTyped
  <1>5. tx' \in [Clients -> TxRecord]
    <2>1. \A k \in Clients : Forget(tx[k], ends) \in TxRecord
      BY <1>2, Forgotten
    <2>2. Idle \in TxRecord
      BY DEF TxRecord
    <2>3. QED
      BY <1>1, <2>1, <2>2
  <1>6. row \in SessionRow /\ password + 1 \in 0..MaxChanges
    BY <1>3, AccountAssumption DEF SessionRow
  <1>7. TypeOK'
    <2>1. session' \in [Sessions -> {Absent} \cup SessionRow]
      BY <1>1, <1>2, <1>6 DEF TypeOK
    <2>2. QED
      BY <1>1, <1>2, <1>4, <1>5, <1>6, <2>1 DEF TypeOK
  <1>8. LinksAreThere'
    <2>1. ItsLinksAreThere(c)'
      BY <1>1 DEF ItsLinksAreThere, Held, Idle
    <2>2. ASSUME NEW k \in Clients \ {c}
          PROVE  ItsLinksAreThere(k)'
      BY <1>1, <1>2, <1>4, LinksStay
    <2>3. QED
      BY <2>1, <2>2 DEF LinksAreThere, ItsLinksAreThere
  <1>9. Writing' = {}
    <2>1. tx'[c].op # "write"
      BY <1>1 DEF Idle
    <2>2. ASSUME NEW k \in Clients \ {c}
          PROVE  tx'[k].op # "write"
      <3>1. tx[k].op # "write"
        BY <1>2 DEF Inv, OneWriter, Writing
      <3>2. QED
        BY <1>1, <1>2, <3>1, Forgotten
    <2>3. QED
      BY <2>1, <2>2 DEF Writing
  <1>10. OneWriter' /\ WriterIsKnown'
    BY <1>9 DEF OneWriter, WriterIsKnown
  <1>11. NoSessionOutlivesPassword'
    <2>1. ASSUME NEW s \in Committed', session'[s].verified # password'
          PROVE  password' <= session'[s].upto
      <3>1. s \in Sessions /\ s \notin ends /\ s \notin keeps /\ session'[s] = session[s]
        BY <1>1, <2>1 DEF Committed
      <3>2. s \in Committed \ (ends \cup keeps)
        BY <2>1, <3>1 DEF Committed
      <3>3. session[s].upto \in 0..(MaxChanges + 1)
        BY <1>2, <3>2, RowsTyped DEF SessionRow
      <3>4. QED
        BY <1>1, <1>3, <3>1, <3>2, <3>3, AccountAssumption
    <2>2. QED
      BY <2>1 DEF NoSessionOutlivesPassword
  <1>12. QED
    BY <1>7, <1>8, <1>10, <1>11 DEF Inv

\* A step on links alone, with or without the end of its transaction.
LEMMA LinkSteps ==
    ASSUME Inv, link' \in [Links -> {Absent} \cup LinkRow],
           tx' \in [Clients -> TxRecord], LinksAreThere',
           Writing' = Writing, \A k \in Writing : tx'[k] = tx[k],
           email' \in Addresses, UNCHANGED <<password, others, session>>
    PROVE  Inv'
  <1>1. TypeOK'
    BY DEF Inv, TypeOK
  <1>2. Committed' = Committed
    BY DEF Committed
  <1>3. OneWriter' /\ WriterIsKnown'
    BY <1>2 DEF Inv, OneWriter, WriterIsKnown
  <1>4. NoSessionOutlivesPassword'
    BY <1>2 DEF Inv, NoSessionOutlivesPassword
  <1>5. QED
    BY <1>1, <1>3, <1>4 DEF Inv

\* A link that is not open any more is a link still.
LEMMA ClosedTyped ==
    ASSUME TypeOK, NEW t \in Links, link[t] # Absent
    PROVE  [link[t] EXCEPT !.open = FALSE] \in LinkRow
  <1>1. link[t] \in LinkRow
    BY RowsTyped
  <1>2. QED
    BY <1>1 DEF LinkRow

LEMMA IssueCommitKeeps ==
    ASSUME Inv, NEW c \in Clients, IssueCommit(c)
    PROVE  Inv'
  <1>1. PICK t \in Links :
            /\ link[t] = Absent
            /\ link' = [k \in Links |->
                         IF k = t THEN Issued(c)
                         ELSE IF k \in Replaced(c) THEN [link[k] EXCEPT !.open = FALSE]
                         ELSE link[k]]
    BY DEF IssueCommit
  <1>2. tx[c].op = "issue" /\ Finish(c) /\ UNCHANGED <<password, email, others, session>>
    BY DEF IssueCommit
  <1>3. /\ tx[c].purpose \in Purposes /\ tx[c].address \in Addresses \cup {NoAddress}
        /\ tx[c].seen \in SUBSET Links /\ TypeOK
        /\ \A k \in tx[c].seen : link[k] # Absent
        /\ tx[c].purpose = "email_change" <=> tx[c].address # NoAddress
    BY <1>2, TxTyped DEF Inv, LinksAreThere
  <1>4. Issued(c) \in LinkRow
    BY <1>3 DEF Issued, LinkRow
  <1>5. \A k \in Replaced(c) : [link[k] EXCEPT !.open = FALSE] \in LinkRow
    BY <1>3, ClosedTyped DEF Replaced
  <1>6. link' \in [Links -> {Absent} \cup LinkRow]
    BY <1>1, <1>3, <1>4, <1>5 DEF TypeOK
  <1>7. \A k \in Links : link[k] # Absent => link'[k] # Absent
    <2>1. \A row \in LinkRow : row # Absent
      BY DEF LinkRow, Absent
    <2>2. QED
      BY <1>1, <1>4, <1>5, <2>1
  <1>8. /\ tx' \in [Clients -> TxRecord] /\ LinksAreThere'
        /\ Writing' = Writing /\ \A k \in Writing : tx'[k] = tx[k]
    BY <1>2, <1>7, FinishKeeps
  <1>9. QED
    BY <1>2, <1>3, <1>6, <1>8, LinkSteps DEF TypeOK

LEMMA ConfirmCommitKeeps ==
    ASSUME Inv, NEW c \in Clients, ConfirmCommit(c)
    PROVE  Inv'
  <1>1. /\ tx[c].op = "follow" /\ link[tx[c].link].purpose = "email_change"
        /\ email' = link[tx[c].link].address /\ link' = Follow({tx[c].link})
        /\ Finish(c) /\ UNCHANGED <<password, others, session>>
    BY DEF ConfirmCommit, Follows
  <1>2. TypeOK /\ tx[c].link \in Links /\ link[tx[c].link] # Absent
    BY <1>1, TxTyped DEF Inv, LinksAreThere, Held
  <1>3. link[tx[c].link] \in LinkRow
    BY <1>2, RowsTyped
  <1>4. email' \in Addresses
    BY <1>1, <1>3 DEF LinkRow
  <1>5. /\ link' \in [Links -> {Absent} \cup LinkRow]
        /\ \A t \in Links : link[t] # Absent => link'[t] # Absent
    BY <1>1, <1>2, FollowTyped
  <1>6. /\ tx' \in [Clients -> TxRecord] /\ LinksAreThere'
        /\ Writing' = Writing /\ \A k \in Writing : tx'[k] = tx[k]
    BY <1>1, <1>5, FinishKeeps
  <1>7. QED
    BY <1>1, <1>4, <1>5, <1>6, LinkSteps

LEMMA LinkExpiresKeeps ==
    ASSUME Inv, NEW t \in Links, LinkExpires(t)
    PROVE  Inv'
  <1>1. /\ link[t] # Absent /\ link' = [link EXCEPT ![t] = [link[t] EXCEPT !.open = FALSE]]
        /\ UNCHANGED <<password, email, others, session, tx>>
    BY DEF LinkExpires
  <1>2. TypeOK
    BY DEF Inv
  <1>3. [link[t] EXCEPT !.open = FALSE] \in LinkRow
    BY <1>1, <1>2, ClosedTyped
  <1>4. link' \in [Links -> {Absent} \cup LinkRow]
    BY <1>1, <1>2, <1>3 DEF TypeOK
  <1>5. \A k \in Links : link[k] # Absent => link'[k] # Absent
    <2>1. \A row \in LinkRow : row # Absent
      BY DEF LinkRow, Absent
    <2>2. QED
      BY <1>1, <1>2, <1>3, <2>1 DEF TypeOK
  <1>6. LinksAreThere'
    BY <1>1, <1>5, LinksStay DEF LinksAreThere, ItsLinksAreThere
  <1>7. Writing' = Writing
    BY <1>1 DEF Writing
  <1>8. QED
    BY <1>1, <1>2, <1>4, <1>6, <1>7, LinkSteps DEF TypeOK

\* The address of another user changes; nothing the invariant reads of this
\* account does.
LEMMA OthersKeep ==
    ASSUME Inv, NEW address \in Addresses, OthersTake(address) \/ OthersGive(address)
    PROVE  Inv'
  <1>1. others' \subseteq Addresses /\ UNCHANGED <<password, email, session, link, tx>>
    BY DEF OthersTake, OthersGive, Inv, TypeOK
  <1>2. QED
    BY <1>1 DEF Inv, TypeOK, LinksAreThere, Held, OneWriter, WriterIsKnown, Writing,
                NoSessionOutlivesPassword, Committed

-----------------------------------------------------------------------------
(* The invariant *)

LEMMA InitInv == Init => Inv
  <1> SUFFICES ASSUME Init PROVE Inv
    OBVIOUS
  <1>1. TypeOK
    BY AccountAssumption DEF Init, TypeOK, TxRecord
  <1>2. Writing = {} /\ Committed = {}
    BY DEF Init, Writing, Idle, Committed
  <1>3. LinksAreThere
    BY DEF Init, LinksAreThere, Held, Idle
  <1>4. QED
    BY <1>1, <1>2, <1>3 DEF Inv, OneWriter, WriterIsKnown, NoSessionOutlivesPassword

LEMMA NextInv == Inv /\ [Next]_vars => Inv'
  <1> SUFFICES ASSUME Inv, [Next]_vars PROVE Inv'
    OBVIOUS
  <1>1. ASSUME NEW c \in Clients,
               LoginRead(c) \/ ChangeRead(c) \/ FollowRead(c) \/ IssueRead(c) \/ Abort(c)
        PROVE  Inv'
    BY <1>1, ReadsKeep
  <1>2. ASSUME NEW c \in Clients, LoginCommit(c) PROVE Inv'
    BY <1>2, LoginCommitKeeps
  <1>3. ASSUME NEW c \in Clients, ChangeWrite(c) \/ ResetWrite(c) PROVE Inv'
    BY <1>3, WritesKeep
  <1>4. ASSUME NEW c \in Clients, PasswordCommit(c) PROVE Inv'
    BY <1>4, PasswordCommitKeeps
  <1>5. ASSUME NEW c \in Clients, IssueCommit(c) PROVE Inv'
    BY <1>5, IssueCommitKeeps
  <1>6. ASSUME NEW c \in Clients, ConfirmCommit(c) PROVE Inv'
    BY <1>6, ConfirmCommitKeeps
  <1>7. ASSUME NEW s \in Sessions, SessionEnds(s) PROVE Inv'
    BY <1>7, SessionEndsKeeps
  <1>8. ASSUME NEW t \in Links, LinkExpires(t) PROVE Inv'
    BY <1>8, LinkExpiresKeeps
  <1>9. ASSUME NEW address \in Addresses, OthersTake(address) \/ OthersGive(address)
        PROVE  Inv'
    BY <1>9, OthersKeep
  <1>10. CASE UNCHANGED vars
    BY <1>10 DEF vars, Inv, TypeOK, LinksAreThere, Held, OneWriter, WriterIsKnown,
                 Writing, NoSessionOutlivesPassword, Committed
  <1>11. QED
    BY <1>1, <1>2, <1>3, <1>4, <1>5, <1>6, <1>7, <1>8, <1>9, <1>10 DEF Next

\* The parts that the steps need of each other: one password is written at a time,
\* and who logs in meanwhile knows of it.
THEOREM Invariance == Spec => []Inv
  BY InitInv, NextInv, PTL DEF Spec

\* Every reachable state is typed: the login, password and link handlers of
\* routers/auth.py leave well-formed rows of users, admin_sessions and
\* email_action_tokens.
THEOREM TypeCorrect == Spec => []TypeOK
  <1>1. Inv => TypeOK
    BY DEF Inv
  <1>2. QED
    BY <1>1, Invariance, PTL

\* change_password and reset_password: a session of an earlier password is left
\* only if the last change, or one after it, was in flight when it was committed.
THEOREM OldSessionsEnd == Spec => []NoSessionOutlivesPassword
  <1>1. Inv => NoSessionOutlivesPassword
    BY DEF Inv
  <1>2. QED
    BY <1>1, Invariance, PTL

-----------------------------------------------------------------------------
(* Links work once *)

\* Not followed yet, and not one that a committed link replaced.
Fresh(t) ==
    /\ link[t].uses = 0
    /\ \A k \in Links : link[k] # Absent => t \notin link[k].after

OpenIsFresh == \A t \in Links : link[t] # Absent /\ link[t].open => Fresh(t)
HeldIsFresh == \A c \in Clients : \A t \in Held(c) : Fresh(t)
HeldOnce == \A c, k \in Clients : c # k => Held(c) \cap Held(k) = {}
ReplacedAreThere ==
    \A k \in Links : link[k] # Absent => \A t \in link[k].after : link[t] # Absent

LinkInv == OpenIsFresh /\ HeldIsFresh /\ HeldOnce /\ ReplacedAreThere

\* What the handlers leave of a row when they close or consume it.
LEMMA RowFields ==
    ASSUME TypeOK, NEW t \in Links, link[t] # Absent
    PROVE  /\ link[t].uses \in Nat /\ link[t].after \subseteq Links
           /\ LET closed == [link[t] EXCEPT !.open = FALSE]
              IN  /\ closed # Absent /\ ~closed.open
                  /\ closed.uses = link[t].uses /\ closed.after = link[t].after
           /\ LET used == [link[t] EXCEPT !.open = FALSE, !.uses = @ + 1]
              IN  /\ used # Absent /\ ~used.open
                  /\ used.uses = link[t].uses + 1 /\ used.after = link[t].after
  <1>1. link[t] \in [purpose: Purposes, address: Addresses \cup {NoAddress},
                     open: BOOLEAN, uses: Nat, after: SUBSET Links]
    BY RowsTyped DEF LinkRow
  <1>2. /\ [link[t] EXCEPT !.open = FALSE] # Absent
        /\ [link[t] EXCEPT !.open = FALSE, !.uses = @ + 1] # Absent
    BY <1>1 DEF Absent
  <1>3. QED
    BY <1>1, <1>2

LEMMA HeldTyped ==
    ASSUME TypeOK, NEW c \in Clients
    PROVE  Held(c) \subseteq Links
  BY TxTyped DEF Held

\* Nothing is followed or issued: rows may be closed, transactions may let go.
LEMMA LinksRest ==
    ASSUME Inv, LinkInv,
           \A c \in Clients : Held(c)' \subseteq Held(c),
           \A t \in Links : (link'[t] = Absent) <=> (link[t] = Absent),
           \A t \in Links : link[t] # Absent =>
                /\ link'[t].uses = link[t].uses /\ link'[t].after = link[t].after
                /\ link'[t].open => link[t].open
    PROVE  LinkInv' /\ FollowsNewest
  <1>1. TypeOK /\ \A c \in Clients : \A t \in Held(c) : t \in Links /\ link[t] # Absent
    BY HeldTyped DEF Inv, LinksAreThere
  <1>2. \A t \in Links : link[t] # Absent /\ Fresh(t) => Fresh(t)'
    BY DEF Fresh
  <1>3. OpenIsFresh'
    BY <1>2 DEF LinkInv, OpenIsFresh
  <1>4. ReplacedAreThere'
    BY <1>1, RowFields DEF LinkInv, ReplacedAreThere
  <1>5. HeldIsFresh'
    BY <1>1, <1>2 DEF LinkInv, HeldIsFresh
  <1>6. HeldOnce'
    BY DEF LinkInv, HeldOnce
  <1>7. FollowsNewest
    <2>1. \A t \in Links : link[t] # Absent => link[t].uses \in Nat
      BY <1>1, RowFields
    <2>2. QED
      BY <2>1 DEF FollowsNewest
  <1>8. QED
    BY <1>3, <1>4, <1>5, <1>6, <1>7 DEF LinkInv

\* A transaction consumes what it has locked.
LEMMA LinksFollowed ==
    ASSUME Inv, LinkInv, NEW c \in Clients,
           link' = Follow(Held(c)), Held(c)' = {},
           \A k \in Clients \ {c} : Held(k)' = Held(k)
    PROVE  LinkInv' /\ FollowsNewest
  <1>1. /\ TypeOK
        /\ \A k \in Clients : \A t \in Held(k) : t \in Links /\ link[t] # Absent
    BY HeldTyped DEF Inv, LinksAreThere
  <1>2. ASSUME NEW t \in Links
        PROVE  /\ (link'[t] = Absent) <=> (link[t] = Absent)
               /\ link[t] # Absent => link'[t].after = link[t].after
               /\ t \notin Held(c) => link'[t] = link[t]
               /\ t \in Held(c) => ~link'[t].open
    <2>1. CASE t \in Held(c)
      BY <1>1, <2>1, RowFields DEF Follow
    <2>2. CASE t \notin Held(c)
      BY <2>2 DEF Follow
    <2>3. QED
      BY <2>1, <2>2
  <1>3. \A t \in Links \ Held(c) : Fresh(t) => Fresh(t)'
    BY <1>2 DEF Fresh
  <1>4. OpenIsFresh'
    BY <1>2, <1>3 DEF LinkInv, OpenIsFresh
  <1>5. HeldOnce'
    BY DEF LinkInv, HeldOnce
  <1>6. HeldIsFresh'
    <2>1. ASSUME NEW k \in Clients, NEW t \in Held(k)'
          PROVE  Fresh(t)'
      <3>1. k # c /\ t \in Held(k)
        BY <2>1
      <3>2. t \in Links \ Held(c) /\ Fresh(t)
        BY <1>1, <3>1 DEF LinkInv, HeldOnce, HeldIsFresh
      <3>3. QED
        BY <1>3, <3>2
    <2>2. QED
      BY <2>1 DEF HeldIsFresh
  <1>7. ReplacedAreThere'
    <2>1. \A k \in Links : link[k] # Absent => link[k].after \subseteq Links
      BY <1>1, RowFields
    <2>2. QED
      BY <1>2, <2>1 DEF LinkInv, ReplacedAreThere
  <1>8. FollowsNewest
    <2>1. ASSUME NEW t \in Links, link[t] # Absent, link'[t].uses > link[t].uses
          PROVE  Fresh(t)
      <3>1. link[t].uses \in Nat
        BY <1>1, <2>1, RowFields
      <3>2. t \in Held(c)
        BY <1>2, <2>1, <3>1
      <3>3. QED
        BY <3>2 DEF LinkInv, HeldIsFresh
    <2>2. QED
      BY <2>1 DEF FollowsNewest, Fresh
  <1>9. QED
    BY <1>4, <1>5, <1>6, <1>7, <1>8 DEF LinkInv

LEMMA HeldStays ==
    ASSUME TypeOK, NEW c \in Clients, NEW gone \in SUBSET Sessions,
           tx'[c] \in {tx[c], Forget(tx[c], gone)}
    PROVE  Held(c)' = Held(c)
  <1>1. CASE tx[c].op \in {"change", "write"}
    BY <1>1, Forgotten DEF Held
  <1>2. CASE tx[c].op \notin {"change", "write"}
    <2>1. tx'[c] = tx[c]
      BY <1>2, Forgotten
    <2>2. QED
      BY <2>1 DEF Held
  <1>3. QED
    BY <1>1, <1>2

\* The others go on holding what they hold when one transaction moves.
LEMMA OthersHold ==
    ASSUME Inv, NEW c \in Clients, NEW record, tx' = [tx EXCEPT ![c] = record]
    PROVE  tx'[c] = record /\ \A k \in Clients \ {c} : Held(k)' = Held(k)
  <1>1. TypeOK /\ {} \in SUBSET Sessions
    BY DEF Inv
  <1>2. tx'[c] = record /\ \A k \in Clients \ {c} : tx'[k] = tx[k]
    BY <1>1 DEF TypeOK
  <1>3. QED
    BY <1>1, <1>2, HeldStays

\* A transaction that moves without a link, or goes on with the one it has.
LEMMA MoveKeepsLinks ==
    ASSUME Inv, LinkInv, NEW c \in Clients, NEW record,
           tx' = [tx EXCEPT ![c] = record], link' = link, Held(c)' \subseteq Held(c)
    PROVE  LinkInv' /\ FollowsNewest
  <1>1. \A k \in Clients : Held(k)' \subseteq Held(k)
    BY OthersHold
  <1>2. QED
    BY <1>1, LinksRest

\* A write of a password goes on holding the link it was asked for with.
LEMMA WriteKeepsLinks ==
    ASSUME Inv, LinkInv, NEW c \in Clients, NEW keeps, NEW consumes,
           Write(c, keeps, consumes), consumes \subseteq Held(c)
    PROVE  LinkInv' /\ FollowsNewest
  <1> DEFINE record == [op |-> "write", ends |-> Ends(keeps), keeps |-> keeps,
                        consumes |-> consumes]
  <1>1. tx' = [tx EXCEPT ![c] = record] /\ link' = link
    BY DEF Write, Continue
  <1>2. tx'[c] = record
    BY <1>1, OthersHold
  <1>3. Held(c)' = consumes
    BY <1>2 DEF Held
  <1>4. QED
    BY <1>1, <1>3, MoveKeepsLinks

\* The link that is locked is open and nobody else's.
LEMMA FollowReadKeepsLinks ==
    ASSUME Inv, LinkInv, NEW c \in Clients, FollowRead(c)
    PROVE  LinkInv' /\ FollowsNewest
  <1>1. PICK t \in Links :
            /\ link[t] # Absent /\ Unlocked(c, {t}) /\ link[t].open
            /\ tx' = [tx EXCEPT ![c] = [op |-> "follow", link |-> t]]
            /\ UNCHANGED link
    BY DEF FollowRead, LinkFree, Begin
  <1>2. /\ Held(c)' = {t}
        /\ \A k \in Clients \ {c} : Held(k)' = Held(k) /\ t \notin Held(k)
    <2>1. tx'[c] = [op |-> "follow", link |-> t]
      BY <1>1, OthersHold
    <2>2. QED
      BY <1>1, <2>1, OthersHold DEF Held, Unlocked
  <1>3. \A k \in Links : Fresh(k) => Fresh(k)'
    BY <1>1 DEF Fresh
  <1>4. Fresh(t)
    BY <1>1 DEF LinkInv, OpenIsFresh
  <1>5. HeldIsFresh'
    <2>1. \A k \in Clients : \A l \in Held(k) : l \in Links
      BY HeldTyped DEF Inv
    <2>2. QED
      BY <1>2, <1>3, <1>4, <2>1 DEF LinkInv, HeldIsFresh
  <1>6. HeldOnce'
    BY <1>2 DEF LinkInv, HeldOnce
  <1>7. OpenIsFresh' /\ ReplacedAreThere'
    BY <1>1, <1>3 DEF LinkInv, OpenIsFresh, ReplacedAreThere
  <1>8. FollowsNewest
    <2>1. \A k \in Links : link[k] # Absent => link[k].uses \in Nat
      BY RowFields DEF Inv
    <2>2. QED
      BY <1>1, <2>1 DEF FollowsNewest
  <1>9. QED
    BY <1>5, <1>6, <1>7, <1>8 DEF LinkInv

\* A new link closes those it could see, which nobody is following.
LEMMA IssueCommitKeepsLinks ==
    ASSUME Inv, LinkInv, NEW c \in Clients, IssueCommit(c)
    PROVE  LinkInv' /\ FollowsNewest
  <1>1. PICK t \in Links :
            /\ link[t] = Absent
            /\ link' = [k \in Links |->
                         IF k = t THEN Issued(c)
                         ELSE IF k \in Replaced(c) THEN [link[k] EXCEPT !.open = FALSE]
                         ELSE link[k]]
    BY DEF IssueCommit
  <1>2. /\ tx[c].op = "issue" /\ tx' = [tx EXCEPT ![c] = Idle]
        /\ Unlocked(c, tx[c].seen)
    BY DEF IssueCommit, Finish, MayReplace
  <1>3. TypeOK /\ tx[c].seen \subseteq Links /\ \A k \in tx[c].seen : link[k] # Absent
    BY <1>2, TxTyped DEF Inv, LinksAreThere
  <1>4. /\ Held(c)' = {}
        /\ \A k \in Clients \ {c} : Held(k)' = Held(k) /\ Held(k) \cap tx[c].seen = {}
    <2>1. tx'[c] = Idle
      BY <1>2, OthersHold
    <2>2. QED
      BY <1>2, <2>1, OthersHold DEF Held, Unlocked, Idle
  <1>5. /\ link'[t].open /\ link'[t].uses = 0 /\ link'[t].after = tx[c].seen
        /\ link'[t] # Absent /\ t \notin tx[c].seen
    BY <1>1, <1>3 DEF Issued, Absent
  <1>6. ASSUME NEW k \in Links, link[k] # Absent
        PROVE  /\ k # t /\ link'[k] # Absent
               /\ link'[k].uses = link[k].uses /\ link'[k].after = link[k].after
               /\ link'[k].open => link[k].open /\ k \notin tx[c].seen
    <2>1. CASE k \in tx[c].seen
      BY <1>1, <1>3, <1>6, <2>1, RowFields DEF Replaced
    <2>2. CASE k \notin tx[c].seen
      BY <1>1, <1>6, <2>2 DEF Replaced
    <2>3. QED
      BY <2>1, <2>2
  <1>7. \A k \in Links \ {t} : (link'[k] = Absent) <=> (link[k] = Absent)
    BY <1>1, <1>3, <1>6 DEF Replaced
  <1>8. ASSUME NEW l \in Links, link[l] # Absent, l \notin tx[c].seen, Fresh(l)
        PROVE  Fresh(l)'
    BY <1>5, <1>6, <1>7, <1>8 DEF Fresh
  <1>9. Fresh(t)'
    <2>1. \A k \in Links : link[k] # Absent => t \notin link[k].after
      BY <1>1 DEF LinkInv, ReplacedAreThere
    <2>2. QED
      BY <1>5, <1>6, <1>7, <2>1 DEF Fresh
  <1>10. OpenIsFresh'
    BY <1>6, <1>7, <1>8, <1>9 DEF LinkInv, OpenIsFresh
  <1>11. HeldIsFresh'
    <2>1. ASSUME NEW k \in Clients \ {c}, NEW l \in Held(k)
          PROVE  l \in Links /\ link[l] # Absent /\ l \notin tx[c].seen /\ Fresh(l)
      BY <1>3, <1>4, <2>1, HeldTyped DEF Inv, LinksAreThere, LinkInv, HeldIsFresh
    <2>2. QED
      BY <1>4, <1>8, <2>1 DEF HeldIsFresh
  <1>12. HeldOnce'
    BY <1>4 DEF LinkInv, HeldOnce
  <1>13. ReplacedAreThere'
    <2>1. \A k \in Links : link[k] # Absent => link[k].after \subseteq Links
      BY <1>3, RowFields
    <2>2. QED
      BY <1>3, <1>5, <1>6, <1>7, <2>1 DEF LinkInv, ReplacedAreThere
  <1>14. FollowsNewest
    <2>1. \A k \in Links : link[k] # Absent => link[k].uses \in Nat
      BY <1>3, RowFields
    <2>2. QED
      BY <1>6, <2>1 DEF FollowsNewest
  <1>15. QED
    BY <1>10, <1>11, <1>12, <1>13, <1>14 DEF LinkInv

\* Which steps follow a link: the commits of a reset and of a change of address.
LEMMA StepKeepsLinks ==
    ASSUME Inv, LinkInv, [Next]_vars
    PROVE  LinkInv' /\ (FollowsNewest \/ UNCHANGED vars)
  <1>1. TypeOK
    BY DEF Inv
  <1>2. ASSUME UNCHANGED <<link, tx>>
        PROVE  LinkInv' /\ FollowsNewest
    BY <1>2, LinksRest DEF Held
  <1>3. ASSUME NEW c \in Clients, LoginRead(c) \/ ChangeRead(c) \/ IssueRead(c)
                                  \/ LoginCommit(c) \/ Abort(c)
        PROVE  LinkInv' /\ FollowsNewest
    <2>1. PICK record : /\ tx' = [tx EXCEPT ![c] = record] /\ link' = link
                        /\ record.op \notin {"follow", "write"}
      BY <1>3 DEF LoginRead, ChangeRead, IssueRead, LoginCommit, Abort, Begin, Finish, Idle
    <2>2. Held(c)' \subseteq Held(c)
      BY <2>1, OthersHold DEF Held
    <2>3. QED
      BY <2>1, <2>2, MoveKeepsLinks
  <1>4. ASSUME NEW c \in Clients, ChangeWrite(c) \/ ResetWrite(c)
        PROVE  LinkInv' /\ FollowsNewest
    <2>1. CASE ChangeWrite(c)
      BY <2>1, WriteKeepsLinks DEF ChangeWrite
    <2>2. CASE ResetWrite(c)
      <3>1. Write(c, {}, {tx[c].link}) /\ {tx[c].link} \subseteq Held(c)
        BY <2>2 DEF ResetWrite, Follows, Held
      <3>2. QED
        BY <3>1, WriteKeepsLinks
    <2>3. QED
      BY <1>4, <2>1, <2>2
  <1>5. ASSUME NEW c \in Clients, FollowRead(c)
        PROVE  LinkInv' /\ FollowsNewest
    BY <1>5, FollowReadKeepsLinks
  <1>6. ASSUME NEW c \in Clients, IssueCommit(c)
        PROVE  LinkInv' /\ FollowsNewest
    BY <1>6, IssueCommitKeepsLinks
  <1>7. ASSUME NEW c \in Clients, ConfirmCommit(c)
        PROVE  LinkInv' /\ FollowsNewest
    <2>1. link' = Follow(Held(c)) /\ tx' = [tx EXCEPT ![c] = Idle]
      BY <1>7 DEF ConfirmCommit, Follows, Finish, Held
    <2>2. tx'[c] = Idle /\ \A k \in Clients \ {c} : Held(k)' = Held(k)
      BY <2>1, OthersHold
    <2>3. Held(c)' = {}
      BY <2>2 DEF Held, Idle
    <2>4. QED
      BY <2>1, <2>2, <2>3, LinksFollowed
  <1>8. ASSUME NEW c \in Clients, PasswordCommit(c)
        PROVE  LinkInv' /\ FollowsNewest
    <2>1. /\ link' = Follow(Held(c)) /\ tx[c].op = "write"
          /\ tx' = [k \in Clients |-> IF k = c THEN Idle ELSE Forget(tx[k], tx[c].ends)]
      BY <1>8 DEF PasswordCommit, Held
    <2>2. tx[c].ends \in SUBSET Sessions
      BY <1>1, <2>1, TxTyped
    <2>3. Held(c)' = {}
      BY <2>1 DEF Held, Idle
    <2>4. ASSUME NEW k \in Clients \ {c}
          PROVE  Held(k)' = Held(k)
      BY <1>1, <2>1, <2>2, HeldStays
    <2>5. QED
      BY <2>1, <2>3, <2>4, LinksFollowed
  <1>9. ASSUME NEW s \in Sessions, SessionEnds(s)
        PROVE  LinkInv' /\ FollowsNewest
    <2>1. tx' = [c \in Clients |-> Forget(tx[c], {s})] /\ link' = link
      BY <1>9 DEF SessionEnds
    <2>2. {s} \in SUBSET Sessions
      OBVIOUS
    <2>3. ASSUME NEW c \in Clients
          PROVE  Held(c)' = Held(c)
      BY <1>1, <2>1, <2>2, HeldStays
    <2>4. QED
      BY <2>1, <2>3, LinksRest
  <1>10. ASSUME NEW t \in Links, LinkExpires(t)
         PROVE  LinkInv' /\ FollowsNewest
    <2>1. /\ link[t] # Absent /\ link' = [link EXCEPT ![t] = [link[t] EXCEPT !.open = FALSE]]
          /\ tx' = tx
      BY <1>10 DEF LinkExpires
    <2>2. link'[t] = [link[t] EXCEPT !.open = FALSE] /\ \A k \in Links \ {t} : link'[k] = link[k]
      BY <1>1, <2>1 DEF TypeOK
    <2>3. /\ link'[t] # Absent /\ ~link'[t].open
          /\ link'[t].uses = link[t].uses /\ link'[t].after = link[t].after
      BY <1>1, <2>1, <2>2, RowFields
    <2>4. \A c \in Clients : Held(c)' \subseteq Held(c)
      BY <2>1 DEF Held
    <2>5. QED
      BY <2>1, <2>2, <2>3, <2>4, LinksRest
  <1>11. ASSUME NEW address \in Addresses, OthersTake(address) \/ OthersGive(address)
         PROVE  LinkInv' /\ FollowsNewest
    BY <1>2, <1>11 DEF OthersTake, OthersGive
  <1>12. CASE UNCHANGED vars
    BY <1>2, <1>12 DEF vars
  <1>13. QED
    BY <1>3, <1>4, <1>5, <1>6, <1>7, <1>8, <1>9, <1>10, <1>11, <1>12 DEF Next

\* consumed_at (reset_password, confirm_email_change) and issue_action_token: a link
\* works once, and no longer when a link is committed that could see it.
THEOREM LinksWorkOnce == Spec => WorksOnceWhileNewest
  <1>1. Init => LinkInv
    <2> SUFFICES ASSUME Init PROVE LinkInv
      OBVIOUS
    <2>1. /\ \A t \in Links : link[t] = Absent
          /\ \A c \in Clients : Held(c) = {}
      BY DEF Init, Held, Idle
    <2>2. QED
      BY <2>1 DEF LinkInv, OpenIsFresh, HeldIsFresh, HeldOnce, ReplacedAreThere
  <1>2. Inv /\ LinkInv /\ [Next]_vars => LinkInv'
    BY StepKeepsLinks
  <1>3. Inv /\ LinkInv /\ [Next]_vars => [FollowsNewest]_vars
    BY StepKeepsLinks
  <1>4. QED
    BY <1>1, <1>2, <1>3, Invariance, PTL DEF Spec, WorksOnceWhileNewest

=============================================================================
