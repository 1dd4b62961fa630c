--------------------------- MODULE Containers_proofs ---------------------------
(***************************************************************************)
(* The containers of a host and what the API keeps of them, for any number *)
(* of containers, reports, operators and handlers.                         *)
(***************************************************************************)
EXTENDS MCContainers, TLAPS, FiniteSetTheorems, WellFoundedInduction

-----------------------------------------------------------------------------
(* Ingestion: the invariant *)

\* A container's row against its batches, without Min and Max.
Summary(c) ==
    IF Exists(c)
    THEN /\ batch[c][container[c].first] # None /\ batch[c][container[c].latest] # None
         /\ \A t \in Times : batch[c][t] # None =>
                container[c].first <= t /\ t <= container[c].latest
         /\ container[c].gpus = batch[c][container[c].latest]
    ELSE \A t \in Times : batch[c][t] = None

Dense(s) ==
    \E n \in 0..MaxGenerations :
        \A c \in Containers : c[1] = s => (Exists(c) <=> c[2] <= n) /\ (Active(c) => c[2] = n)

\* What a transaction has read still holds.  The generation that a report creates is
\* the one after those that exist; the one it adds to stays active, for its row is
\* locked, and has no other report of its time, for nobody else holds the advisory lock.
Holds(p) ==
    /\ p.step = "removing" => Exists(p.target)
    /\ p.step = "locked" =>
        /\ p.into[1] = p.report.stream
        /\ p.new => \A c \in Containers : c[1] = p.into[1] => (Exists(c) <=> c[2] < p.into[2])
        /\ ~p.new => /\ Active(p.into)
                     /\ batch[p.into][p.report.collected] \in {None, p.report.payload}

OneLocked ==
    \A h, k \in Handlers : tx[h].step = "locked" /\ tx[k].step = "locked" => h = k

HandlersHold == (\A h \in Handlers : Holds(tx[h])) /\ OneLocked

IngestInv ==
    /\ TypeOK /\ HandlersHold
    /\ \A c \in Containers : Summary(c)
    /\ \A s \in Streams : Dense(s)
    /\ AcknowledgedIsStored

-----------------------------------------------------------------------------
(* Values *)

LEMMA MaxOfTwo ==
    ASSUME NEW a \in Int, NEW b \in Int
    PROVE  Max({a, b}) \in {a, b} /\ Max({a, b}) >= a /\ Max({a, b}) >= b
  <1>1. \E m \in {a, b} : \A n \in {a, b} : m >= n
    OBVIOUS
  <1>2. Max({a, b}) \in {a, b} /\ \A n \in {a, b} : Max({a, b}) >= n
    BY <1>1 DEF Max
  <1>3. QED
    BY <1>2

LEMMA MinOfTwo ==
    ASSUME NEW a \in Int, NEW b \in Int
    PROVE  Min({a, b}) \in {a, b} /\ Min({a, b}) <= a /\ Min({a, b}) <= b
  <1>1. \E m \in {a, b} : \A n \in {a, b} : m =< n
    OBVIOUS
  <1>2. Min({a, b}) \in {a, b} /\ \A n \in {a, b} : Min({a, b}) =< n
    BY <1>1 DEF Min
  <1>3. QED
    BY <1>2

LEMMA RowsPresent ==
    Absent \notin ContainerRow
  BY DEF Absent, ContainerRow

LEMMA TimesAreIntegers ==
    Times \subseteq Int /\ MaxGenerations \in Nat
  BY IngestAssumption DEF Times

\* A container is its stream and its generation.
LEMMA SameContainer ==
    ASSUME NEW c \in Containers, NEW d \in Containers, c[1] = d[1], c[2] = d[2]
    PROVE  c = d
  BY DEF Containers

LEMMA ContainerTyped ==
    ASSUME NEW c \in Containers
    PROVE  c[1] \in Streams /\ c[2] \in 1..MaxGenerations /\ c[2] \in Int
  BY TimesAreIntegers DEF Containers

LEMMA IngestTxTyped ==
    ASSUME TypeOK, NEW h \in Handlers
    PROVE  /\ tx[h].step \in {"idle", "received", "locked", "removing"}
           /\ tx[h].step = "received" => tx[h].report \in Report /\ tx[h].at \in Times
           /\ tx[h].step = "locked" =>
                /\ tx[h].report \in Report /\ tx[h].at \in Times
                /\ tx[h].into \in Containers /\ tx[h].new \in BOOLEAN
           /\ tx[h].step = "removing" => tx[h].target \in Containers
  <1>1. tx[h] \in TxRecord
    BY DEF TypeOK
  <1>2. QED
    BY <1>1 DEF TxRecord, Idle

LEMMA CreatedRow ==
    ASSUME NEW report \in Report, NEW at \in Times
    PROVE  /\ Created(report, at) \in ContainerRow /\ ~Created(report, at).removed
           /\ Created(report, at).first = report.collected
           /\ Created(report, at).latest = report.collected
           /\ Created(report, at).gpus = report.payload
  BY DEF Created, Report, ContainerRow

LEMMA UpdatedRow ==
    ASSUME NEW row \in ContainerRow, NEW report \in Report, NEW at \in Times
    PROVE  LET newer == report.collected > row.latest
               updated == Updated(row, report, at)
           IN  /\ updated \in ContainerRow /\ updated.removed = row.removed
               /\ updated.first \in {row.first, report.collected}
               /\ updated.first <= row.first /\ updated.first <= report.collected
               /\ updated.latest = IF newer THEN report.collected ELSE row.latest
               /\ updated.gpus = IF newer THEN report.payload ELSE row.gpus
  <1>1. /\ row.first \in Times /\ row.latest \in Times /\ row.received \in Times
        /\ report.collected \in Times /\ report.payload \in Payloads /\ Times \subseteq Int
    BY TimesAreIntegers DEF ContainerRow, Report
  <1>2. Max({row.received, at}) \in Times
    BY <1>1, MaxOfTwo
  <1>3. /\ Min({row.first, report.collected}) \in {row.first, report.collected}
        /\ Min({row.first, report.collected}) <= row.first
        /\ Min({row.first, report.collected}) <= report.collected
    BY <1>1, MinOfTwo
  <1>4. QED
    BY <1>1, <1>2, <1>3 DEF Updated, ContainerRow

LEMMA RepeatedRow ==
    ASSUME NEW row \in ContainerRow, NEW at \in Times
    PROVE  /\ Repeated(row, at) \in ContainerRow /\ Repeated(row, at).removed = row.removed
           /\ Repeated(row, at).first = row.first /\ Repeated(row, at).latest = row.latest
           /\ Repeated(row, at).gpus = row.gpus
  <1>1. row.received \in Times /\ Times \subseteq Int
    BY TimesAreIntegers DEF ContainerRow
  <1>2. Max({row.received, at}) \in Times
    BY <1>1, MaxOfTwo
  <1>3. QED
    BY <1>2 DEF Repeated, ContainerRow

\* The generations of a stream, and the number of the next.
LEMMA GenerationsAre ==
    ASSUME TypeOK, NEW s \in Streams, NEW n \in 0..MaxGenerations,
           \A c \in Containers : c[1] = s => (Exists(c) <=> c[2] <= n)
    PROVE  Generations(s) = 1..n /\ NextGeneration(s) = n + 1
  <1>1. Generations(s) = 1..n
    <2>1. \A g \in Generations(s) : g \in 1..n
      BY ContainerTyped DEF Generations
    <2>2. ASSUME NEW g \in 1..n
          PROVE  g \in Generations(s)
      <3>1. <<s, g>> \in Containers
        BY TimesAreIntegers DEF Containers
      <3>2. Exists(<<s, g>>)
        BY <3>1
      <3>3. QED
        BY <3>1, <3>2 DEF Generations
    <2>3. QED
      BY <2>1, <2>2
  <1>2. Max(Generations(s) \cup {0}) = n
    <2>1. Generations(s) \cup {0} = 0..n
      BY <1>1, TimesAreIntegers
    <2>2. n \in 0..n /\ \A y \in 0..n : n >= y
      BY TimesAreIntegers
    <2>3. \A x \in 0..n : (\A y \in 0..n : x >= y) => x = n
      BY <2>2
    <2>4. QED
      BY <2>1, <2>2, <2>3 DEF Max
  <1>3. QED
    BY <1>1, <1>2 DEF NextGeneration

-----------------------------------------------------------------------------
(* Ingestion: the steps *)

\* A step that only reads, begins or gives up.
LEMMA IngestReadKeeps ==
    ASSUME IngestInv, NEW h \in Handlers, NEW record \in TxRecord, Holds(record),
           tx' = [tx EXCEPT ![h] = record], UNCHANGED <<container, batch, now, acked>>,
           record.step = "locked" => \A k \in Handlers \ {h} : tx[k].step # "locked"
    PROVE  IngestInv'
  <1>1. TypeOK'
    BY DEF IngestInv, TypeOK
  <1>2. \A k \in Handlers : tx'[k] = IF k = h THEN record ELSE tx[k]
    BY DEF IngestInv, TypeOK
  <1>3. ASSUME NEW k \in Handlers
        PROVE  Holds(tx[k])'
    BY <1>2 DEF IngestInv, HandlersHold, Holds, Exists, Active
  <1>4. OneLocked'
    BY <1>2 DEF IngestInv, HandlersHold, OneLocked
  <1>5. \A c \in Containers : Summary(c)'
    BY DEF IngestInv, Summary, Exists
  <1>6. \A s \in Streams : Dense(s)'
    BY DEF IngestInv, Dense, Exists, Active
  <1>7. AcknowledgedIsStored'
    BY DEF IngestInv, AcknowledgedIsStored
  <1>8. QED
    BY <1>1, <1>3, <1>4, <1>5, <1>6, <1>7 DEF IngestInv, HandlersHold

LEMMA LockKeeps ==
    ASSUME IngestInv, NEW h \in Handlers, Lock(h)
    PROVE  IngestInv'
  <1>1. PICK report, into, new, record :
          /\ report = tx[h].report /\ into = Target(report.stream)
          /\ new = (ActiveOf(report.stream) = {})
          /\ record = [step |-> "locked", report |-> report, at |-> tx[h].at,
                       into |-> into, new |-> new]
    OBVIOUS
  <1>2. /\ tx[h].step = "received" /\ LifecycleUnlocked(h) /\ ~Conflicts(report)
        /\ into \in Containers /\ tx' = [tx EXCEPT ![h] = record]
        /\ UNCHANGED <<container, batch, now, acked>>
    BY <1>1 DEF Lock
  <1>3. TypeOK /\ report \in Report /\ tx[h].at \in Times /\ report.stream \in Streams
    BY <1>1, <1>2, IngestTxTyped DEF IngestInv, Report
  <1>4. record \in TxRecord
    <2>1. new \in BOOLEAN
      BY <1>1
    <2>2. QED
      BY <1>1, <1>2, <1>3, <2>1 DEF TxRecord
  <1>5. CASE ActiveOf(report.stream) # {}
    <2>1. into \in ActiveOf(report.stream)
      BY <1>1, <1>5 DEF Target
    <2>2. into[1] = report.stream /\ Active(into)
      BY <2>1 DEF ActiveOf
    <2>3. batch[into][report.collected] \in {None, report.payload}
      BY <1>2, <2>1 DEF Conflicts
    <2>4. Holds(record)
      BY <1>1, <1>5, <2>2, <2>3 DEF Holds
    <2>5. QED
      BY <1>2, <1>4, <2>4, IngestReadKeeps DEF LifecycleUnlocked
  <1>6. CASE ActiveOf(report.stream) = {}
    <2>1. PICK n \in 0..MaxGenerations :
            \A c \in Containers : c[1] = report.stream => (Exists(c) <=> c[2] <= n)
      BY <1>3 DEF IngestInv, Dense
    <2>2. NextGeneration(report.stream) = n + 1
      BY <1>3, <2>1, GenerationsAre
    <2>3. into = <<report.stream, n + 1>>
      BY <1>1, <1>6, <2>2 DEF Target
    <2>4. \A c \in Containers : c[1] = into[1] => (Exists(c) <=> c[2] < into[2])
      BY <2>1, <2>3, ContainerTyped, TimesAreIntegers
    <2>5. Holds(record)
      <3>1. /\ record.step = "locked" /\ record.into = into /\ record.report = report
            /\ record.new = new /\ into[1] = report.stream
        BY <1>1, <2>3
      <3>2. new
        BY <1>1, <1>6, Zenon
      <3>3. QED
        BY <2>4, <3>1, <3>2 DEF Holds
    <2>6. QED
      BY <1>2, <1>4, <2>5, IngestReadKeeps DEF LifecycleUnlocked
  <1>7. QED
    BY <1>5, <1>6

LEMMA IngestReadsKeep ==
    ASSUME IngestInv, NEW h \in Handlers, Receive(h) \/ RemoveRead(h) \/ Abort(h)
    PROVE  IngestInv'
  <1>1. PICK record \in TxRecord :
          /\ record.step # "locked" /\ Holds(record)
          /\ tx' = [tx EXCEPT ![h] = record] /\ UNCHANGED <<container, batch, now, acked>>
    <2>1. CASE Receive(h)
      <3>1. now \in Times
        BY IngestAssumption DEF IngestInv, TypeOK, Times
      <3>2. PICK report \in Report :
              /\ tx' = [tx EXCEPT ![h] = [step |-> "received", report |-> report, at |-> now]]
              /\ UNCHANGED <<container, batch, now, acked>>
        BY <2>1 DEF Receive, Begin
      <3>3. PICK record : record = [step |-> "received", report |-> report, at |-> now]
        OBVIOUS
      <3>4. record \in TxRecord /\ Holds(record) /\ record.step # "locked"
        BY <3>1, <3>3 DEF TxRecord, Holds
      <3>5. QED
        BY <3>2, <3>3, <3>4
    <2>2. CASE RemoveRead(h)
      <3>1. PICK c \in Containers :
              /\ Active(c) /\ tx' = [tx EXCEPT ![h] = [step |-> "removing", target |-> c]]
              /\ UNCHANGED <<container, batch, now, acked>>
        BY <2>2 DEF RemoveRead, Begin
      <3>2. PICK record : record = [step |-> "removing", target |-> c]
        OBVIOUS
      <3>3. record \in TxRecord /\ Holds(record) /\ record.step # "locked"
        BY <3>1, <3>2 DEF TxRecord, Holds, Active
      <3>4. QED
        BY <3>1, <3>2, <3>3
    <2>3. CASE Abort(h)
      <3>1. PICK record : record = Idle
        OBVIOUS
      <3>2. record \in TxRecord /\ Holds(record) /\ record.step # "locked"
        BY <3>1 DEF TxRecord, Holds, Idle
      <3>3. QED
        BY <2>3, <3>1, <3>2 DEF Abort, Finish
    <2>4. QED
      BY <2>1, <2>2, <2>3
  <1>2. QED
    BY <1>1, IngestReadKeeps

\* The clock, and steps of the host.
LEMMA IngestFrame ==
    ASSUME IngestInv, UNCHANGED <<container, batch, tx, acked>>, now' \in 0..MaxTime
    PROVE  IngestInv'
  <1>1. TypeOK'
    BY DEF IngestInv, TypeOK
  <1>2. HandlersHold'
    BY DEF IngestInv, HandlersHold, OneLocked, Holds, Exists, Active
  <1>3. \A c \in Containers : Summary(c)'
    BY DEF IngestInv, Summary, Exists
  <1>4. \A s \in Streams : Dense(s)'
    BY DEF IngestInv, Dense, Exists, Active
  <1>5. AcknowledgedIsStored'
    BY DEF IngestInv, AcknowledgedIsStored
  <1>6. QED
    BY <1>1, <1>2, <1>3, <1>4, <1>5 DEF IngestInv

LEMMA RemoveCommitKeeps ==
    ASSUME IngestInv, NEW h \in Handlers, RemoveCommit(h)
    PROVE  IngestInv'
  <1>1. PICK target : target = tx[h].target
    OBVIOUS
  <1>2. /\ tx[h].step = "removing" /\ RowUnlocked(target)
        /\ container' = [container EXCEPT ![target].removed = TRUE]
        /\ tx' = [tx EXCEPT ![h] = Idle] /\ UNCHANGED <<batch, now, acked>>
    BY <1>1 DEF RemoveCommit, Finish
  <1>3. /\ TypeOK /\ target \in Containers /\ Exists(target)
        /\ container[target] \in ContainerRow
    <2>1. TypeOK /\ Holds(tx[h])
      BY DEF IngestInv, HandlersHold
    <2>2. target \in Containers /\ Exists(target)
      BY <1>1, <1>2, <2>1, IngestTxTyped DEF Holds
    <2>3. QED
      BY <2>1, <2>2 DEF TypeOK, Exists
  <1>4. /\ container'[target] \in ContainerRow /\ container'[target].removed
        /\ container'[target].first = container[target].first
        /\ container'[target].latest = container[target].latest
        /\ container'[target].gpus = container[target].gpus
        /\ \A c \in Containers \ {target} : container'[c] = container[c]
    BY <1>2, <1>3 DEF TypeOK, ContainerRow
  <1>5. \A c \in Containers :
            /\ container'[c] # Absent <=> container[c] # Absent
            /\ ~container'[c].removed => ~container[c].removed
    BY <1>3, <1>4, RowsPresent DEF Exists
  <1>6. TypeOK'
    <2>1. container' \in [Containers -> {Absent} \cup ContainerRow]
      BY <1>2, <1>3, <1>4 DEF TypeOK
    <2>2. tx' \in [Handlers -> TxRecord]
      BY <1>2, <1>3 DEF TypeOK, TxRecord
    <2>3. QED
      BY <1>2, <1>3, <2>1, <2>2 DEF TypeOK
  <1>7. HandlersHold'
    <2>1. \A k \in Handlers : tx'[k] = IF k = h THEN Idle ELSE tx[k]
      BY <1>2, <1>3 DEF TypeOK
    <2>2. ASSUME NEW k \in Handlers
          PROVE  Holds(tx[k])'
      <3>1. PICK p : p = tx'[k]
        OBVIOUS
      <3>2. Holds(p)'
        <4>1. CASE k = h
          BY <2>1, <3>1, <4>1 DEF Holds, Idle
        <4>2. CASE k # h
          <5>1. Holds(p) /\ p = tx[k]
            BY <2>1, <3>1, <4>2 DEF IngestInv, HandlersHold
          <5>2. p.step = "locked" => p.into \in Containers /\ p.into # target
            BY <1>2, <1>3, <5>1, IngestTxTyped DEF RowUnlocked
          <5>3. p.step = "removing" => p.target \in Containers
            BY <1>3, <5>1, IngestTxTyped
          <5>4. QED
            BY <1>2, <1>4, <1>5, <5>1, <5>2, <5>3 DEF Holds, Exists, Active
        <4>3. QED
          BY <4>1, <4>2
      <3>3. QED
        BY <3>1, <3>2 DEF Holds, Exists, Active
    <2>3. OneLocked'
      BY <2>1 DEF IngestInv, HandlersHold, OneLocked, Idle
    <2>4. QED
      BY <2>2, <2>3 DEF HandlersHold
  <1>8. ASSUME NEW c \in Containers
        PROVE  Summary(c)'
    <2>1. CASE Exists(c)
      <3>1. /\ container'[c] # Absent /\ container'[c].first = container[c].first
            /\ container'[c].latest = container[c].latest
            /\ container'[c].gpus = container[c].gpus
        BY <1>4, <1>5, <2>1 DEF Exists
      <3>2. QED
        BY <1>2, <2>1, <3>1 DEF IngestInv, Summary, Exists
    <2>2. CASE ~Exists(c)
      BY <1>2, <1>5, <2>2 DEF IngestInv, Summary, Exists
    <2>3. QED
      BY <2>1, <2>2
  <1>9. \A s \in Streams : Dense(s)'
    BY <1>5 DEF IngestInv, Dense, Exists, Active
  <1>10. AcknowledgedIsStored'
    BY <1>2 DEF IngestInv, AcknowledgedIsStored
  <1>11. QED
    BY <1>6, <1>7, <1>8, <1>9, <1>10 DEF IngestInv

\* A report is stored in the container that the lock was taken for: it is created, or
\* was there, is not removed and has no other report of that time.
LEMMA CommitKeeps ==
    ASSUME IngestInv, NEW h \in Handlers, Commit(h)
    PROVE  IngestInv'
  <1>1. PICK report, into, at, new, duplicate :
          /\ report = tx[h].report /\ into = tx[h].into /\ at = tx[h].at /\ new = tx[h].new
          /\ duplicate = (~new /\ batch[into][report.collected] # None)
    OBVIOUS
  <1>2. /\ tx[h].step = "locked" /\ (new => ActiveOf(report.stream) = {})
        /\ container' = [container EXCEPT ![into] =
                CASE new -> Created(report, at)
                  [] duplicate -> Repeated(@, at)
                  [] OTHER -> Updated(@, report, at)]
        /\ batch' = IF duplicate THEN batch
                    ELSE [batch EXCEPT ![into][report.collected] = report.payload]
        /\ acked' = acked \cup {report} /\ tx' = [tx EXCEPT ![h] = Idle] /\ UNCHANGED now
    BY <1>1 DEF Commit, Finish
  <1>3. /\ TypeOK /\ report \in Report /\ at \in Times /\ into \in Containers /\ new \in BOOLEAN
        /\ report.collected \in Times /\ report.payload \in Payloads /\ report.payload # None
        /\ report.stream \in Streams
    BY <1>1, <1>2, IngestTxTyped, IngestAssumption DEF IngestInv, Report
  <1>4. /\ into[1] = report.stream
        /\ new => \A c \in Containers : c[1] = into[1] =>
                    (container[c] # Absent <=> c[2] < into[2])
        /\ ~new => /\ container[into] # Absent /\ ~container[into].removed
                   /\ batch[into][report.collected] \in {None, report.payload}
    BY <1>1, <1>2 DEF IngestInv, HandlersHold, Holds, Exists, Active
  <1>5. /\ new => container[into] = Absent /\ \A t \in Times : batch[into][t] = None
        /\ ~new => container[into] \in ContainerRow
    <2>1. new => container[into] = Absent
      BY <1>3, <1>4, ContainerTyped
    <2>2. QED
      BY <1>3, <1>4, <2>1 DEF IngestInv, Summary, Exists, TypeOK
  <1>6. /\ \A c \in Containers \ {into} : container'[c] = container[c] /\ batch'[c] = batch[c]
        /\ container'[into] = IF new THEN Created(report, at)
                              ELSE IF duplicate THEN Repeated(container[into], at)
                              ELSE Updated(container[into], report, at)
        /\ \A t \in Times : t # report.collected => batch'[into][t] = batch[into][t]
        /\ batch'[into][report.collected] = report.payload
    BY <1>1, <1>2, <1>3, <1>4 DEF TypeOK
  <1>7. container'[into] \in ContainerRow /\ ~container'[into].removed /\ container'[into] # Absent
    <2>1. container'[into] \in ContainerRow /\ ~container'[into].removed
      <3>1. CASE new
        BY <1>3, <1>6, <3>1, CreatedRow
      <3>2. CASE ~new /\ duplicate
        BY <1>3, <1>4, <1>5, <1>6, <3>2, RepeatedRow
      <3>3. CASE ~new /\ ~duplicate
        BY <1>3, <1>4, <1>5, <1>6, <3>3, UpdatedRow
      <3>4. QED
        BY <3>1, <3>2, <3>3
    <2>2. QED
      BY <2>1, RowsPresent
  <1>8. TypeOK'
    <2>1. container' \in [Containers -> {Absent} \cup ContainerRow]
      <3>1. PICK row : container' = [container EXCEPT ![into] = row]
        BY <1>2
      <3>2. row = container'[into]
        BY <1>3, <3>1 DEF TypeOK
      <3>3. QED
        BY <1>3, <1>7, <3>1, <3>2 DEF TypeOK
    <2>2. batch' \in [Containers -> [Times -> {None} \cup Payloads]]
      BY <1>2, <1>3 DEF TypeOK
    <2>3. tx' \in [Handlers -> TxRecord] /\ acked' \subseteq Report
      BY <1>2, <1>3 DEF TypeOK, TxRecord
    <2>4. QED
      BY <1>2, <1>3, <2>1, <2>2, <2>3 DEF TypeOK
  <1>9. HandlersHold'
    <2>1. \A k \in Handlers : /\ tx'[k] = IF k = h THEN Idle ELSE tx[k]
                             /\ tx'[k].step # "locked"
      BY <1>2, <1>3 DEF TypeOK, IngestInv, HandlersHold, OneLocked, Idle
    <2>2. ASSUME NEW k \in Handlers
          PROVE  Holds(tx[k])'
      <3>1. tx'[k].step = "removing" => container'[tx'[k].target] # Absent
        <4>1. SUFFICES ASSUME tx'[k].step = "removing"
                       PROVE  container'[tx'[k].target] # Absent
          OBVIOUS
        <4>2. tx'[k] = tx[k] /\ tx[k].target \in Containers
          BY <1>3, <2>1, <4>1, IngestTxTyped DEF Idle
        <4>3. container[tx[k].target] # Absent
          BY <4>1, <4>2 DEF IngestInv, HandlersHold, Holds, Exists
        <4>4. QED
          BY <1>6, <1>7, <4>2, <4>3
      <3>2. QED
        BY <2>1, <3>1 DEF Holds, Exists
    <2>3. OneLocked'
      BY <2>1 DEF OneLocked
    <2>4. QED
      BY <2>2, <2>3 DEF HandlersHold
  <1>10. ASSUME NEW c \in Containers
         PROVE  Summary(c)'
    <2>1. CASE c # into
      BY <1>6, <2>1 DEF IngestInv, Summary, Exists
    <2>2. CASE c = into /\ new
      <3>1. /\ container'[c].first = report.collected /\ container'[c].latest = report.collected
            /\ container'[c].gpus = report.payload
        BY <1>3, <1>6, <2>2, CreatedRow
      <3>2. \A t \in Times : batch'[c][t] # None => t = report.collected
        BY <1>5, <1>6, <2>2
      <3>3. report.collected \in Int
        BY <1>3, TimesAreIntegers
      <3>4. QED
        BY <1>3, <1>6, <1>7, <2>2, <3>1, <3>2, <3>3 DEF Summary, Exists
    <2>3. CASE c = into /\ ~new
      <3>1. PICK row : row = container[c]
        OBVIOUS
      <3>2. /\ row \in ContainerRow /\ row.first \in Times /\ row.latest \in Times
            /\ batch[c][row.first] # None /\ batch[c][row.latest] # None
            /\ \A t \in Times : batch[c][t] # None => row.first <= t /\ t <= row.latest
            /\ row.gpus = batch[c][row.latest]
        BY <1>4, <1>5, <2>3, <3>1 DEF IngestInv, Summary, Exists, ContainerRow
      <3>3. CASE duplicate
        <4>1. /\ container'[c].first = row.first /\ container'[c].latest = row.latest
              /\ container'[c].gpus = row.gpus /\ batch' = batch
          BY <1>2, <1>3, <1>6, <2>3, <3>1, <3>2, <3>3, RepeatedRow
        <4>2. QED
          BY <1>7, <2>3, <3>2, <4>1 DEF Summary, Exists
      <3>4. CASE ~duplicate
        <4>1. PICK updated : updated = container'[c]
          OBVIOUS
        <4>2. /\ updated.first \in {row.first, report.collected}
              /\ updated.first <= row.first /\ updated.first <= report.collected
              /\ updated.latest = IF report.collected > row.latest THEN report.collected
                                  ELSE row.latest
              /\ updated.gpus = IF report.collected > row.latest THEN report.payload
                                ELSE row.gpus
          BY <1>3, <1>6, <2>3, <3>1, <3>2, <3>4, <4>1, UpdatedRow
        <4>3. /\ row.first \in Int /\ row.latest \in Int /\ report.collected \in Int
              /\ Times \subseteq Int
          BY <1>3, <3>2, TimesAreIntegers
        <4>4. batch[c][report.collected] = None /\ row.latest # report.collected
          BY <1>1, <2>3, <3>2, <3>4
        <4>5. \A t \in Times : batch'[c][t] = IF t = report.collected THEN report.payload
                                              ELSE batch[c][t]
          BY <1>3, <1>6, <2>3
        <4>6. batch'[c][updated.first] # None /\ batch'[c][updated.latest] # None
          BY <1>3, <3>2, <4>2, <4>5
        <4>7. \A t \in Times : batch'[c][t] # None => updated.first <= t /\ t <= updated.latest
          BY <3>2, <4>2, <4>3, <4>5
        <4>8. updated.gpus = batch'[c][updated.latest]
          BY <1>3, <3>2, <4>2, <4>4, <4>5
        <4>9. QED
          BY <1>7, <2>3, <4>1, <4>6, <4>7, <4>8 DEF Summary, Exists
      <3>5. QED
        BY <3>3, <3>4
    <2>4. QED
      BY <1>3, <2>1, <2>2, <2>3
  <1>11. ASSUME NEW s \in Streams
         PROVE  Dense(s)'
    <2>1. PICK n \in 0..MaxGenerations :
            \A c \in Containers : c[1] = s =>
                /\ container[c] # Absent <=> c[2] <= n
                /\ container[c] # Absent /\ ~container[c].removed => c[2] = n
      BY DEF IngestInv, Dense, Exists, Active
    <2>2. CASE ~new \/ into[1] # s
      <3>1. \A c \in Containers : c[1] = s =>
              /\ container'[c] # Absent <=> container[c] # Absent
              /\ ~container'[c].removed /\ container[c] # Absent => ~container[c].removed
        BY <1>3, <1>4, <1>6, <1>7, <2>2
      <3>2. \A c \in Containers : c[1] = s =>
              /\ container'[c] # Absent <=> c[2] <= n
              /\ container'[c] # Absent /\ ~container'[c].removed => c[2] = n
        BY <2>1, <3>1
      <3>3. QED
        BY <3>2 DEF Dense, Exists, Active
    <2>3. CASE new /\ into[1] = s
      <3>1. \A c \in Containers : c[1] = s /\ c # into => c[2] # into[2]
        BY <1>3, <2>3, SameContainer
      <3>2. into[2] \in 0..MaxGenerations /\ \A c \in Containers : c[2] \in Int
        BY <1>3, ContainerTyped, TimesAreIntegers
      <3>3. \A c \in Containers : c[1] = s => (container'[c] # Absent <=> c[2] <= into[2])
        <4>1. \A c \in Containers : c[1] = s /\ c # into =>
                (container'[c] # Absent <=> c[2] < into[2])
          BY <1>4, <1>6, <2>3
        <4>2. QED
          BY <1>7, <3>1, <3>2, <4>1
      <3>4. \A c \in Containers : c[1] = s /\ c # into =>
                ~(container'[c] # Absent /\ ~container'[c].removed)
        BY <1>2, <1>4, <1>6, <2>3 DEF ActiveOf, Active, Exists
      <3>5. \A c \in Containers : c[1] = s =>
                /\ container'[c] # Absent <=> c[2] <= into[2]
                /\ container'[c] # Absent /\ ~container'[c].removed => c[2] = into[2]
        BY <3>3, <3>4
      <3>6. QED
        BY <3>2, <3>5 DEF Dense, Exists, Active
    <2>4. QED
      BY <1>3, <2>2, <2>3
  <1>12. AcknowledgedIsStored'
    <2>1. ASSUME NEW old \in acked
          PROVE  \E c \in Containers :
                    c[1] = old.stream /\ batch'[c][old.collected] = old.payload
      <3>1. old \in Report /\ old.collected \in Times /\ old.payload \in Payloads
            /\ old.payload # None
        BY <1>3, IngestAssumption DEF TypeOK, Report
      <3>2. PICK c \in Containers : c[1] = old.stream /\ batch[c][old.collected] = old.payload
        BY DEF IngestInv, AcknowledgedIsStored
      <3>3. batch'[c][old.collected] = batch[c][old.collected]
        <4>1. CASE c # into \/ old.collected # report.collected
          BY <1>6, <3>1, <4>1
        <4>2. CASE c = into /\ old.collected = report.collected
          <5>1. batch[into][report.collected] \in {None, report.payload}
            BY <1>3, <1>4, <1>5
          <5>2. QED
            BY <1>6, <3>1, <3>2, <4>2, <5>1
        <4>3. QED
          BY <4>1, <4>2
      <3>4. QED
        BY <3>2, <3>3
    <2>2. into[1] = report.stream /\ batch'[into][report.collected] = report.payload
      BY <1>4, <1>6
    <2>3. QED
      BY <1>2, <1>3, <2>1, <2>2 DEF AcknowledgedIsStored
  <1>13. QED
    BY <1>8, <1>9, <1>10, <1>11, <1>12 DEF IngestInv

-----------------------------------------------------------------------------
(* Ingestion: the theorems *)

LEMMA IngestInit ==
    ASSUME Init
    PROVE  IngestInv
  <1>1. TypeOK
    BY IngestAssumption DEF Init, TypeOK, TxRecord
  <1>2. HandlersHold
    BY DEF Init, HandlersHold, Holds, OneLocked, Idle
  <1>3. \A c \in Containers : Summary(c)
    BY DEF Init, Summary, Exists
  <1>4. ASSUME NEW s \in Streams
        PROVE  Dense(s)
    <2>1. \A c \in Containers : c[2] > 0 /\ ~Exists(c) /\ ~Active(c)
      BY ContainerTyped DEF Init, Exists, Active
    <2>2. 0 \in 0..MaxGenerations
      BY TimesAreIntegers
    <2>3. QED
      BY <2>1, <2>2, ContainerTyped DEF Dense
  <1>5. QED
    BY <1>1, <1>2, <1>3, <1>4 DEF Init, IngestInv, AcknowledgedIsStored

LEMMA IngestStep ==
    ASSUME IngestInv, [Next]_vars
    PROVE  IngestInv'
  <1>1. CASE UNCHANGED vars \/ Tick
    <2>1. UNCHANGED <<container, batch, tx, acked>>
      BY <1>1 DEF vars, Tick
    <2>2. now' \in 0..MaxTime
      BY <1>1, IngestAssumption DEF vars, Tick, IngestInv, TypeOK
    <2>3. QED
      BY <2>1, <2>2, IngestFrame
  <1>2. ASSUME NEW h \in Handlers,
               \/ Receive(h) \/ Lock(h) \/ Commit(h)
               \/ RemoveRead(h) \/ RemoveCommit(h) \/ Abort(h)
        PROVE  IngestInv'
    BY <1>2, IngestReadsKeep, LockKeeps, CommitKeeps, RemoveCommitKeeps
  <1>3. QED
    BY <1>1, <1>2 DEF Next

LEMMA IngestInvariant == Spec => []IngestInv
  <1>1. Init => IngestInv
    BY IngestInit
  <1>2. IngestInv /\ [Next]_vars => IngestInv'
    BY IngestStep
  <1>3. QED
    BY <1>1, <1>2, PTL DEF Spec

\* A container shows the GPUs of the newest report and the exact interval over which
\* it was collected (services.py, ingest_sample), in whatever order reports arrive,
\* are repeated, and overlap with removals, for any number of them.
THEOREM SummaryMatchesBatchesAlways == Spec => []SummaryMatchesBatches
  <1>1. IngestInv => SummaryMatchesBatches
    <2> SUFFICES ASSUME IngestInv, NEW c \in Containers
                 PROVE  IF Exists(c)
                        THEN /\ Collected(c) # {}
                             /\ container[c].first = Min(Collected(c))
                             /\ container[c].latest = Max(Collected(c))
                             /\ container[c].gpus = batch[c][container[c].latest]
                        ELSE Collected(c) = {}
      BY DEF SummaryMatchesBatches
    <2>1. Summary(c)
      BY DEF IngestInv
    <2>2. CASE Exists(c)
      <3>1. PICK first, latest : first = container[c].first /\ latest = container[c].latest
        OBVIOUS
      <3>2. /\ first \in Collected(c) /\ latest \in Collected(c)
            /\ \A t \in Collected(c) : first <= t /\ t <= latest
        BY <2>1, <2>2, <3>1 DEF IngestInv, TypeOK, ContainerRow, Exists, Summary, Collected
      <3>3. Collected(c) \subseteq Int
        BY TimesAreIntegers DEF Collected
      <3>4. first = Min(Collected(c))
        <4>1. \A t \in Collected(c) : (\A u \in Collected(c) : t =< u) => t = first
          BY <3>2, <3>3
        <4>2. QED
          BY <3>2, <4>1 DEF Min
      <3>5. latest = Max(Collected(c))
        <4>1. \A t \in Collected(c) : (\A u \in Collected(c) : t >= u) => t = latest
          BY <3>2, <3>3
        <4>2. \A u \in Collected(c) : latest >= u
          BY <3>2, <3>3
        <4>3. QED
          BY <3>2, <4>1, <4>2 DEF Max
      <3>6. QED
        BY <2>1, <2>2, <3>1, <3>2, <3>4, <3>5 DEF Summary
    <2>3. CASE ~Exists(c)
      BY <2>1, <2>3 DEF Summary, Collected
    <2>4. QED
      BY <2>2, <2>3
  <1>2. QED
    BY <1>1, IngestInvariant, PTL

\* A report that POST /agent/samples has answered stays stored under its own payload:
\* neither retries nor removals nor reports of other handlers lose or overwrite it.
THEOREM AcknowledgedIsStoredAlways == Spec => []AcknowledgedIsStored
  <1>1. IngestInv => AcknowledgedIsStored
    BY DEF IngestInv
  <1>2. QED
    BY <1>1, IngestInvariant, PTL

\* get_or_create_container numbers the generations of a container without gaps, and
\* only the newest may be active, when removals and first reports overlap too.
THEOREM OnlyNewestIsActiveAlways == Spec => []OnlyNewestIsActive
  <1>1. IngestInv => OnlyNewestIsActive
    <2> SUFFICES ASSUME IngestInv, NEW s \in Streams
                 PROVE  /\ Generations(s) = 1..Cardinality(Generations(s))
                        /\ \A c \in ActiveOf(s) : c[2] = Cardinality(Generations(s))
      BY DEF OnlyNewestIsActive
    <2>1. PICK n \in 0..MaxGenerations :
            \A c \in Containers : c[1] = s => (Exists(c) <=> c[2] <= n) /\ (Active(c) => c[2] = n)
      BY DEF IngestInv, Dense
    <2>2. Generations(s) = 1..n
      BY <2>1, GenerationsAre DEF IngestInv
    <2>3. Cardinality(1..n) = n
      <3>1. n \in Int /\ n >= 0
        BY TimesAreIntegers
      <3>2. Cardinality(1..n) = IF 1 > n THEN 0 ELSE n - 1 + 1
        BY <3>1, FS_Interval
      <3>3. QED
        BY <3>1, <3>2
    <2>4. \A c \in ActiveOf(s) : c[2] = n
      BY <2>1 DEF ActiveOf
    <2>5. QED
      BY <2>2, <2>3, <2>4
  <1>2. QED
    BY <1>1, IngestInvariant, PTL

FrozenStep ==
    \A c \in Containers :
        Exists(c) /\ container[c].removed =>
            container'[c] = container[c] /\ batch'[c] = batch[c]

LEMMA StepFreezes ==
    ASSUME IngestInv, [Next]_vars
    PROVE  FrozenStep
  <1>1. CASE UNCHANGED <<container, batch>>
    BY <1>1 DEF FrozenStep
  <1>2. ASSUME NEW h \in Handlers, Commit(h)
        PROVE  FrozenStep
    <2>1. PICK into : into = tx[h].into
      OBVIOUS
    <2>2. \A c \in Containers \ {into} : container'[c] = container[c] /\ batch'[c] = batch[c]
      BY <1>2, <2>1 DEF Commit, IngestInv, TypeOK
    <2>3. ~Exists(into) \/ ~container[into].removed
      BY <1>2, <2>1 DEF Commit, IngestInv, HandlersHold, Holds, Active
    <2>4. QED
      BY <2>2, <2>3 DEF FrozenStep
  <1>3. ASSUME NEW h \in Handlers, RemoveCommit(h)
        PROVE  FrozenStep
    <2>1. PICK target : target = tx[h].target
      OBVIOUS
    <2>2. container' = [container EXCEPT ![target].removed = TRUE] /\ UNCHANGED batch
      BY <1>3, <2>1 DEF RemoveCommit
    <2>3. ASSUME NEW c \in Containers, Exists(c), container[c].removed
          PROVE  container'[c] = container[c]
      <3>1. container[c] \in ContainerRow
        BY <2>3 DEF IngestInv, TypeOK, Exists
      <3>2. [container[c] EXCEPT !.removed = TRUE] = container[c]
        BY <2>3, <3>1 DEF ContainerRow
      <3>3. QED
        BY <2>2, <3>2 DEF IngestInv, TypeOK
    <2>4. QED
      BY <2>2, <2>3 DEF FrozenStep
  <1>4. QED
    BY <1>1, <1>2, <1>3
       DEF Next, vars, Receive, Lock, RemoveRead, Abort, Tick

\* No report changes a removed container or adds to it, even one that was received
\* before the removal: its row is locked from the look at "removed" to the commit.
THEOREM RemovedIsFrozenAlways == Spec => RemovedIsFrozen
  <1>1. IngestInv /\ [Next]_vars => [FrozenStep]_vars
    BY StepFreezes
  <1>2. Spec => [][FrozenStep]_vars
    BY <1>1, IngestInvariant, PTL DEF Spec
  <1>3. QED
    BY <1>2 DEF RemovedIsFrozen, FrozenStep

-----------------------------------------------------------------------------
(* Creation: CPU lists *)

Less == {pair \in Nat \X Nat : pair[1] < pair[2]}

\* A set of natural numbers that is not empty has a least element.
LEMMA LeastElement ==
    ASSUME NEW S \in SUBSET Nat, S # {}
    PROVE  \E m \in S : \A n \in S : m <= n
  <1>1. IsWellFoundedOn(Less, Nat)
    BY NatLessThanWellFounded DEF OpToRel, Less
  <1>2. PICK m \in S : \A n \in S : <<n, m>> \notin Less
    BY <1>1, WFMin
  <1>3. ASSUME NEW n \in S
        PROVE  m <= n
    <2>1. m \in Nat /\ n \in Nat /\ <<n, m>> \notin Less
      BY <1>2
    <2>2. <<n, m>> \in Nat \X Nat
      BY <2>1
    <2>3. ~(n < m)
      <3> SUFFICES ASSUME n < m
                   PROVE  FALSE
        OBVIOUS
      <3>1. <<n, m>>[1] < <<n, m>>[2]
        BY <2>1
      <3>2. QED
        BY <2>1, <2>2, <3>1, Zenon DEF Less
    <2>4. QED
      BY <2>1, <2>3
  <1>4. QED
    BY <1>2, <1>3

\* After any number there is one that a finite set does not have.
LEMMA FirstMissing ==
    ASSUME NEW S \in SUBSET Nat, IsFiniteSet(S), NEW c \in Nat
    PROVE  \E d \in Nat : d > c /\ d \notin S /\ \A x \in Nat : c < x /\ x < d => x \in S
  <1> DEFINE U == {d \in Nat : d > c /\ d \notin S}
  <1>1. U # {}
    <2>1. PICK size \in Nat : size = Cardinality(S)
      BY FS_CardinalityType
    <2>2. Cardinality((c + 1)..(c + 1 + size)) = size + 1
      <3>1. c + 1 \in Int /\ c + 1 + size \in Int /\ ~(c + 1 > c + 1 + size)
        OBVIOUS
      <3>2. Cardinality((c + 1)..(c + 1 + size)) = (c + 1 + size) - (c + 1) + 1
        BY <3>1, FS_Interval
      <3>3. QED
        BY <3>2
    <2>3. ~((c + 1)..(c + 1 + size) \subseteq S)
      <3> SUFFICES ASSUME (c + 1)..(c + 1 + size) \in SUBSET S
                   PROVE  FALSE
        OBVIOUS
      <3>1. Cardinality((c + 1)..(c + 1 + size)) <= Cardinality(S)
        BY FS_Subset
      <3>2. QED
        BY <2>1, <2>2, <3>1
    <2>4. PICK d \in (c + 1)..(c + 1 + size) : d \notin S
      BY <2>3
    <2>5. d \in U
      BY <2>4
    <2>6. QED
      BY <2>5
  <1>2. PICK d \in U : \A x \in U : d <= x
    <2>1. U \in SUBSET Nat
      OBVIOUS
    <2>2. QED
      BY <1>1, <2>1, LeastElement
  <1>3. ASSUME NEW x \in Nat, c < x, x < d
        PROVE  x \in S
    <2> SUFFICES ASSUME x \notin S
                 PROVE  FALSE
      OBVIOUS
    <2>1. x \in U
      BY <1>3
    <2>2. QED
      BY <1>2, <1>3, <2>1
  <1>4. QED
    BY <1>2, <1>3

\* From any number of a set its range goes down to a first one.
LEMMA FirstOfRange ==
    ASSUME NEW S \in SUBSET Nat, NEW c \in S
    PROVE  \E a \in S : a <= c /\ a..c \subseteq S /\ a - 1 \notin S
  <1> DEFINE T == {d \in Nat : d <= c /\ d..c \subseteq S}
  <1>1. c \in T
    OBVIOUS
  <1>2. PICK a \in T : \A x \in T : a <= x
    <2>1. T \in SUBSET Nat /\ T # {}
      BY <1>1
    <2>2. QED
      BY <2>1, LeastElement
  <1>3. a \in S /\ a <= c /\ a..c \subseteq S
    <2>1. a \in Nat /\ a <= c /\ a..c \subseteq S
      OBVIOUS
    <2>2. a \in a..c
      BY <2>1
    <2>3. QED
      BY <2>1, <2>2
  <1>4. a - 1 \notin S
    <2> SUFFICES ASSUME a - 1 \in S
                 PROVE  FALSE
      OBVIOUS
    <2>1. a - 1 \in Nat /\ a - 1 <= c
      BY <1>3
    <2>2. \A x \in (a - 1)..c : x \in S
      <3>1. \A x \in (a - 1)..c : x = a - 1 \/ x \in a..c
        BY <1>3, <2>1
      <3>2. QED
        BY <1>3, <3>1
    <2>3. a - 1 \in T
      BY <2>1, <2>2
    <2>4. QED
      BY <1>2, <2>1, <2>3
  <1>5. QED
    BY <1>3, <1>4

\* The list of ranges that numbers_to_cpu_spec writes for a set of CPUs expands to
\* that set again, whatever it is.
LEMMA SpecExpands ==
    ASSUME NEW S \in SUBSET Nat, IsFiniteSet(S)
    PROVE  Creation!expand_number_ranges(Creation!numbers_to_cpu_spec(S)) = S
  <1>1. Creation!expand_number_ranges(Creation!numbers_to_cpu_spec(S)) \subseteq S
    BY DEF Creation!expand_number_ranges, Creation!numbers_to_cpu_spec
  <1>2. ASSUME NEW c \in S
        PROVE  c \in Creation!expand_number_ranges(Creation!numbers_to_cpu_spec(S))
    <2>1. PICK a \in S : a <= c /\ a..c \subseteq S /\ a - 1 \notin S
      BY FirstOfRange
    <2>2. PICK d \in Nat : d > c /\ d \notin S /\ \A x \in Nat : c < x /\ x < d => x \in S
      BY FirstMissing
    <2>3. PICK b \in Int : b = d - 1
      OBVIOUS
    <2>4. \A x \in a..b : x \in S
      <3>1. \A x \in a..b : x \in Nat /\ (x \in a..c \/ (c < x /\ x < d))
        BY <2>1, <2>2, <2>3
      <3>2. QED
        BY <2>1, <2>2, <3>1
    <2>5. a <= b /\ c \in a..b /\ b \in a..b /\ b + 1 \notin S
      BY <2>1, <2>2, <2>3
    <2>6. <<a, b>> \in Creation!numbers_to_cpu_spec(S)
      <3>1. b \in S
        BY <2>4, <2>5
      <3>2. QED
        BY <2>1, <2>4, <2>5, <3>1 DEF Creation!numbers_to_cpu_spec
    <2>7. QED
      BY <2>5, <2>6 DEF Creation!expand_number_ranges
  <1>3. QED
    BY <1>1, <1>2

-----------------------------------------------------------------------------
(* Creation: the invariant *)

Steps ==
    {"idle", "port", "answer", "name", "review", "recheck", "confirm", "mkdir", "chown", "run"}

Dialogs ==
    [step: Steps, gpus: SUBSET Creation!Devices,
     cpus: SUBSET (Creation!Cpus \X Creation!Cpus), uses: SUBSET Creation!Cpus,
     port: {0} \cup Ports, name: {Creation!None} \cup Names,
     sawRunning: SUBSET Names, sawPorts: SUBSET Names]

Rows ==
    [state: {"running", "stopped"}, port: Ports,
     cpus: SUBSET (Creation!Cpus \X Creation!Cpus),
     gpus: {Creation!Unknown} \cup SUBSET Creation!Devices, uses: SUBSET Creation!Cpus,
     sawRunning: SUBSET Names, sawPorts: SUBSET Names]

\* What the checks looked at is still there: nothing is shared with the containers that
\* ran and were not listed as overlapping, and no port with those that were compared.
Apart(d) ==
    /\ \A n \in d.sawRunning :
        containers[n] # Creation!Absent /\ ~Creation!Share(d, containers[n])
    /\ \A n \in d.sawPorts :
        containers[n] # Creation!Absent /\ containers[n].port # d.port

\* Before a check nothing was looked at; what a script asks for is what it writes.
Begun(d) ==
    /\ d.step \in {"idle", "port", "answer", "name", "review"} => d.sawRunning = {}
    /\ d.step \in {"idle", "port"} => d.sawPorts = {}
    /\ d.step \notin {"idle", "port", "answer"} => d.port \in Ports
    /\ d.step \notin {"idle", "port", "answer", "name"} => d.name \in Names
    /\ d.uses = Creation!expand_number_ranges(d.cpus)

\* A container without a CPU list may use any.
Listed(c) == c.cpus = Creation!Unlimited \/ c.uses = Creation!expand_number_ranges(c.cpus)

RootIsCut ==
    \A n \in Names : home[n] = "root" =>
        n \in cut \/ \E o \in Operators : dialog[o].step = "chown" /\ dialog[o].name = n

CreationTyped ==
    /\ containers \in [Names -> {Creation!Absent} \cup Rows]
    /\ home \in [Names -> {"missing", "root", "user"}]
    /\ dialog \in [Operators -> Dialogs]
    /\ cut \subseteq Names

RowsApart ==
    \A n \in Names : containers[n] # Creation!Absent =>
        Listed(containers[n]) /\ Apart(containers[n])

CreationInv ==
    /\ CreationTyped /\ RootIsCut /\ RowsApart
    /\ \A o \in Operators : Begun(dialog[o]) /\ Apart(dialog[o])

-----------------------------------------------------------------------------
(* Creation: the steps *)

LEMMA AbsentIsNoRow ==
    Creation!Absent \notin Rows
  BY DEF Creation!Absent, Rows

\* A step of a script that leaves the containers alone.
LEMMA ScriptKeeps ==
    ASSUME CreationInv, NEW o \in Operators, NEW d \in Dialogs,
           dialog' = [dialog EXCEPT ![o] = d], UNCHANGED containers,
           home' \in [Names -> {"missing", "root", "user"}],
           cut' \subseteq Names, Begun(d), Apart(d),
           \A n \in Names : home'[n] = "root" =>
                \/ n \in cut' \/ (d.step = "chown" /\ d.name = n)
                \/ /\ home[n] = "root" /\ (n \in cut => n \in cut')
                   /\ ~(dialog[o].step = "chown" /\ dialog[o].name = n)
    PROVE  CreationInv'
  <1>1. CreationTyped'
    BY DEF CreationInv, CreationTyped
  <1>2. \A k \in Operators : dialog'[k] = IF k = o THEN d ELSE dialog[k]
    BY DEF CreationInv, CreationTyped
  <1>3. RowsApart'
    BY DEF CreationInv, RowsApart, Listed, Apart
  <1>4. ASSUME NEW k \in Operators
        PROVE  Begun(dialog[k])' /\ Apart(dialog[k])'
    BY <1>2 DEF CreationInv, Begun, Apart
  <1>5. RootIsCut'
    <2> SUFFICES ASSUME NEW n \in Names, home'[n] = "root", n \notin cut'
                 PROVE  \E k \in Operators : dialog'[k].step = "chown" /\ dialog'[k].name = n
      BY DEF RootIsCut
    <2>1. CASE d.step = "chown" /\ d.name = n
      BY <1>2, <2>1
    <2>2. CASE /\ home[n] = "root" /\ (n \in cut => n \in cut')
               /\ ~(dialog[o].step = "chown" /\ dialog[o].name = n)
      <3>1. PICK k \in Operators : dialog[k].step = "chown" /\ dialog[k].name = n
        BY <2>2 DEF CreationInv, RootIsCut
      <3>2. QED
        BY <1>2, <2>2, <3>1
    <2>3. QED
      BY <2>1, <2>2
  <1>6. QED
    BY <1>1, <1>3, <1>4, <1>5 DEF CreationInv

LEMMA IdleBegun ==
    /\ Creation!Idle \in Dialogs /\ Begun(Creation!Idle) /\ Apart(Creation!Idle)
    /\ Apart(Creation!Idle)' /\ Creation!Idle.step = "idle"
  BY DEF Creation!Idle, Dialogs, Steps, Begun, Apart, Creation!expand_number_ranges

\* A script goes on or ends, but not between making a directory and giving it away.
EndsOrStays(o) ==
    \/ dialog'[o] = dialog[o]
    \/ dialog'[o] = Creation!Idle /\ dialog[o].step # "chown"

\* A container is added; nobody has looked at it.
LEMMA AddKeeps ==
    ASSUME CreationInv, NEW n \in Names, containers[n] = Creation!Absent,
           NEW row \in Rows, containers' = [containers EXCEPT ![n] = row],
           Listed(row), Apart(row), UNCHANGED <<home, cut>>,
           dialog' \in [Operators -> Dialogs],
           \A o \in Operators : EndsOrStays(o)
    PROVE  CreationInv'
  <1>1. CreationTyped'
    BY DEF CreationInv, CreationTyped
  <1>2. \A k \in Names : containers'[k] = IF k = n THEN row ELSE containers[k]
    BY DEF CreationInv, CreationTyped
  <1>3. ASSUME NEW d, Apart(d), d.sawRunning \subseteq Names, d.sawPorts \subseteq Names
        PROVE  Apart(d)'
    BY <1>2, <1>3 DEF Apart
  <1>4. ASSUME NEW k \in Names, containers'[k] # Creation!Absent
        PROVE  Listed(containers[k])' /\ Apart(containers[k])'
    <2>1. PICK c : c = containers'[k]
      OBVIOUS
    <2>2. c \in Rows /\ Listed(c) /\ Apart(c)
      BY <1>2, <1>4, <2>1 DEF CreationInv, CreationTyped, RowsApart
    <2>3. Apart(c)'
      BY <1>3, <2>2 DEF Rows
    <2>4. QED
      BY <2>1, <2>2, <2>3 DEF Listed, Apart
  <1>5. ASSUME NEW o \in Operators
        PROVE  Begun(dialog[o])' /\ Apart(dialog[o])'
    <2>1. PICK d : d = dialog'[o]
      OBVIOUS
    <2>2. d \in Dialogs /\ Begun(d) /\ Apart(d)
      BY <2>1, IdleBegun DEF CreationInv, CreationTyped, EndsOrStays
    <2>3. Apart(d)'
      BY <1>3, <2>2 DEF Dialogs
    <2>4. QED
      BY <2>1, <2>2, <2>3 DEF Begun, Apart
  <1>6. RootIsCut'
    <2>1. \A o \in Operators : dialog[o].step = "chown" => dialog'[o] = dialog[o]
      BY DEF EndsOrStays
    <2>2. QED
      BY <2>1 DEF CreationInv, RootIsCut
  <1>7. QED
    BY <1>1, <1>4, <1>5, <1>6 DEF CreationInv, RowsApart

\* Containers start and stop.
LEMMA HostKeeps ==
    ASSUME CreationInv, NEW n \in Names, Creation!Stop(n) \/ Creation!Start(n)
    PROVE  CreationInv'
  <1>1. PICK state \in {"running", "stopped"} :
          /\ containers' = [containers EXCEPT ![n].state = state]
          /\ containers[n] # Creation!Absent
          /\ UNCHANGED <<home, dialog, cut>>
    <2>1. CASE Creation!Stop(n)
      BY <2>1 DEF Creation!Stop, Creation!Runs, Creation!Absent
    <2>2. CASE Creation!Start(n)
      BY <2>2 DEF Creation!Start, Creation!Exists
    <2>3. QED
      BY <2>1, <2>2
  <1>2. containers[n] \in Rows
    BY <1>1 DEF CreationInv, CreationTyped
  <1>3. PICK row : row = [containers[n] EXCEPT !.state = state]
    OBVIOUS
  <1>4. /\ row \in Rows /\ row # Creation!Absent
        /\ containers' = [containers EXCEPT ![n] = row]
    <2>1. row \in Rows
      BY <1>2, <1>3 DEF Rows
    <2>2. QED
      BY <1>1, <1>3, <2>1, AbsentIsNoRow
  <1>5. /\ row.port = containers[n].port /\ row.cpus = containers[n].cpus
        /\ row.gpus = containers[n].gpus /\ row.uses = containers[n].uses
        /\ row.sawRunning = containers[n].sawRunning
        /\ row.sawPorts = containers[n].sawPorts
    BY <1>2, <1>3 DEF Rows
  <1>6. CreationTyped'
    BY <1>1, <1>4 DEF CreationInv, CreationTyped
  <1>7. \A k \in Names : containers'[k] = IF k = n THEN row ELSE containers[k]
    BY <1>4 DEF CreationInv, CreationTyped
  <1>8. ASSUME NEW d, Apart(d), d.sawRunning \subseteq Names, d.sawPorts \subseteq Names
        PROVE  Apart(d)'
    BY <1>4, <1>5, <1>7, <1>8 DEF Apart, Creation!Share
  <1>9. ASSUME NEW k \in Names, containers'[k] # Creation!Absent
        PROVE  Listed(containers[k])' /\ Apart(containers[k])'
    <2>1. PICK c : c = containers'[k]
      OBVIOUS
    <2>2. /\ containers[k] \in Rows /\ Listed(containers[k]) /\ Apart(containers[k])
      BY <1>1, <1>7, <1>9 DEF CreationInv, CreationTyped, RowsApart
    <2>3. c \in Rows /\ Listed(c) /\ Apart(c)
      BY <1>4, <1>5, <1>7, <2>1, <2>2 DEF Listed, Apart, Creation!Share
    <2>4. Apart(c)'
      BY <1>8, <2>3 DEF Rows
    <2>5. QED
      BY <2>1, <2>3, <2>4 DEF Listed, Apart
  <1>10. ASSUME NEW o \in Operators
         PROVE  Begun(dialog[o])' /\ Apart(dialog[o])'
    <2>1. PICK d : d = dialog[o]
      OBVIOUS
    <2>2. d \in Dialogs /\ Begun(d) /\ Apart(d)
      BY <2>1 DEF CreationInv, CreationTyped
    <2>3. Apart(d)'
      BY <1>8, <2>2 DEF Dialogs
    <2>4. QED
      BY <1>1, <2>1, <2>2, <2>3 DEF Begun, Apart
  <1>11. RootIsCut'
    BY <1>1 DEF CreationInv, RootIsCut
  <1>12. QED
    BY <1>6, <1>9, <1>10, <1>11 DEF CreationInv, RowsApart

\* A container is removed, and forgotten by all that looked at it.
LEMMA RemoveKeeps ==
    ASSUME CreationInv, NEW n \in Names, Creation!Remove(n)
    PROVE  CreationInv'
  <1>1. /\ containers' = [k \in Names |->
              IF k = n \/ ~Creation!Exists(k) THEN Creation!Absent
              ELSE Creation!Forget(containers[k], n)]
        /\ dialog' = [o \in Operators |-> Creation!Forget(dialog[o], n)]
        /\ UNCHANGED <<home, cut>>
    BY DEF Creation!Remove
  <1>2. ASSUME NEW k \in Names, containers'[k] # Creation!Absent
        PROVE  /\ k # n /\ containers[k] \in Rows /\ Listed(containers[k]) /\ Apart(containers[k])
               /\ containers'[k] = Creation!Forget(containers[k], n)
    BY <1>1, <1>2 DEF CreationInv, CreationTyped, RowsApart, Creation!Exists
  <1>3. ASSUME NEW c \in Rows
        PROVE  LET f == Creation!Forget(c, n)
               IN  /\ f \in Rows /\ f.port = c.port /\ f.cpus = c.cpus /\ f.gpus = c.gpus
                   /\ f.uses = c.uses /\ f.sawRunning = c.sawRunning \ {n}
                   /\ f.sawPorts = c.sawPorts \ {n}
    BY <1>3 DEF Rows, Creation!Forget
  <1>4. ASSUME NEW d \in Dialogs
        PROVE  LET f == Creation!Forget(d, n)
               IN  /\ f \in Dialogs /\ f.step = d.step /\ f.name = d.name
                   /\ f.port = d.port /\ f.cpus = d.cpus /\ f.gpus = d.gpus
                   /\ f.uses = d.uses /\ f.sawRunning = d.sawRunning \ {n}
                   /\ f.sawPorts = d.sawPorts \ {n}
    BY <1>4 DEF Dialogs, Creation!Forget
  <1>5. \A k \in Names \ {n} : containers[k] # Creation!Absent =>
            /\ containers'[k] # Creation!Absent /\ containers'[k].port = containers[k].port
            /\ containers'[k].gpus = containers[k].gpus /\ containers'[k].uses = containers[k].uses
    <2>1. ASSUME NEW k \in Names \ {n}, containers[k] # Creation!Absent
          PROVE  containers[k] \in Rows /\ containers'[k] = Creation!Forget(containers[k], n)
      BY <1>1, <2>1 DEF CreationInv, CreationTyped, Creation!Exists
    <2>2. QED
      BY <1>3, <2>1, AbsentIsNoRow
  <1>6. ASSUME NEW d, NEW f, Apart(d), d.sawRunning \subseteq Names, d.sawPorts \subseteq Names,
               f.port = d.port, f.gpus = d.gpus, f.uses = d.uses,
               f.sawRunning = d.sawRunning \ {n}, f.sawPorts = d.sawPorts \ {n}
        PROVE  Apart(f)'
    BY <1>5, <1>6 DEF Apart, Creation!Share
  <1>7. ASSUME NEW k \in Names, containers'[k] # Creation!Absent
        PROVE  containers'[k] \in Rows /\ Listed(containers[k])' /\ Apart(containers[k])'
    <2>1. PICK c, f : c = containers[k] /\ f = containers'[k]
      OBVIOUS
    <2>2. c \in Rows /\ Listed(c) /\ Apart(c) /\ f = Creation!Forget(c, n)
      BY <1>2, <1>7, <2>1
    <2>3. f \in Rows /\ Listed(f)
      BY <1>3, <2>2 DEF Listed
    <2>4. Apart(f)'
      <3>1. c.sawRunning \subseteq Names /\ c.sawPorts \subseteq Names
        BY <2>2 DEF Rows
      <3>2. QED
        BY <1>3, <1>6, <2>2, <3>1
    <2>5. QED
      BY <2>1, <2>3, <2>4 DEF Listed, Apart
  <1>8. ASSUME NEW o \in Operators
        PROVE  /\ dialog'[o] \in Dialogs /\ Begun(dialog[o])' /\ Apart(dialog[o])'
               /\ dialog'[o].step = dialog[o].step /\ dialog'[o].name = dialog[o].name
    <2>1. PICK d, f : d = dialog[o] /\ f = dialog'[o]
      OBVIOUS
    <2>2. d \in Dialogs /\ Begun(d) /\ Apart(d) /\ f = Creation!Forget(d, n)
      BY <1>1, <2>1 DEF CreationInv, CreationTyped
    <2>3. f \in Dialogs /\ Begun(f)
      BY <1>4, <2>2 DEF Begun
    <2>4. Apart(f)'
      <3>1. d.sawRunning \subseteq Names /\ d.sawPorts \subseteq Names
        BY <2>2 DEF Dialogs
      <3>2. QED
        BY <1>4, <1>6, <2>2, <3>1
    <2>5. f.step = d.step /\ f.name = d.name
      BY <1>4, <2>2
    <2>6. QED
      BY <2>1, <2>3, <2>4, <2>5 DEF Begun, Apart
  <1>9. CreationTyped'
    <2>1. containers' \in [Names -> {Creation!Absent} \cup Rows]
      BY <1>1, <1>7
    <2>2. dialog' \in [Operators -> Dialogs]
      BY <1>1, <1>8
    <2>3. QED
      BY <1>1, <2>1, <2>2 DEF CreationInv, CreationTyped
  <1>10. RootIsCut'
    BY <1>1, <1>8 DEF CreationInv, RootIsCut
  <1>11. QED
    BY <1>7, <1>8, <1>9, <1>10 DEF CreationInv, RowsApart

LEMMA RunOtherKeeps ==
    ASSUME CreationInv, NEW n \in Names, Creation!RunOther(n)
    PROVE  CreationInv'
  <1>1. PICK p \in Busy, other \in {
            [gpus |-> {}, cpus |-> Creation!Unlimited, uses |-> Creation!Cpus],
            [gpus |-> Creation!Unknown, cpus |-> {<<0, 0>>}, uses |-> {0}]} :
            containers' = [containers EXCEPT ![n] =
                [state |-> "running", port |-> p, cpus |-> other.cpus, gpus |-> other.gpus,
                 uses |-> other.uses, sawRunning |-> {}, sawPorts |-> {}]]
    BY DEF Creation!RunOther
  <1> DEFINE row ==
        [state |-> "running", port |-> p, cpus |-> other.cpus, gpus |-> other.gpus,
         uses |-> other.uses, sawRunning |-> {}, sawPorts |-> {}]
  <1>2. 0 \in Creation!Cpus /\ p \in Ports
    BY CreationAssumption DEF Creation!Cpus
  <1>3. row \in Rows
    BY <1>1, <1>2 DEF Rows, Creation!Unlimited, Creation!Unknown
  <1>4. Listed(row)
    <2>1. Creation!expand_number_ranges({<<0, 0>>}) = {0}
      BY DEF Creation!expand_number_ranges
    <2>2. QED
      BY <1>1, <2>1 DEF Listed
  <1>5. Apart(row)
    BY <1>1 DEF Apart
  <1>6. /\ containers[n] = Creation!Absent /\ UNCHANGED <<home, cut>>
        /\ dialog' \in [Operators -> Dialogs] /\ \A o \in Operators : EndsOrStays(o)
    BY DEF Creation!RunOther, Creation!Exists, CreationInv, CreationTyped, EndsOrStays
  <1>7. containers' = [containers EXCEPT ![n] = row]
    BY <1>1
  <1> HIDE DEF row
  <1>8. QED
    BY <1>3, <1>4, <1>5, <1>6, <1>7, AddKeeps

\* The container is what the script asked for and has looked at what the script had.
LEMMA DockerRunKeeps ==
    ASSUME CreationInv, NEW o \in Operators, Creation!docker_run(o)
    PROVE  CreationInv'
  <1>1. PICK d, n : d = dialog[o] /\ n = d.name
    OBVIOUS
  <1>2. /\ d.step = "run" /\ dialog' = [dialog EXCEPT ![o] = Creation!Idle]
        /\ UNCHANGED <<home, cut>>
    BY <1>1 DEF Creation!docker_run, Creation!At, Creation!Ended
  <1>3. d \in Dialogs /\ Begun(d) /\ Apart(d) /\ d.port \in Ports /\ n \in Names
    BY <1>1, <1>2 DEF CreationInv, CreationTyped, Begun
  <1>4. CASE UNCHANGED containers
    BY <1>1, <1>2, <1>4, IdleBegun, ScriptKeeps DEF CreationInv, CreationTyped
  <1>5. CASE containers' # containers
    <2>1. PICK state, row :
            /\ state \in {"running", "stopped"}
            /\ row = Creation!Created(d, state) /\ containers[n] = Creation!Absent
            /\ containers' = [containers EXCEPT ![n] = row]
      BY <1>1, <1>5 DEF Creation!docker_run, Creation!Exists
    <2>2. /\ row \in Rows /\ row.port = d.port /\ row.cpus = d.cpus /\ row.gpus = d.gpus
          /\ row.uses = d.uses /\ row.sawRunning = d.sawRunning
          /\ row.sawPorts = d.sawPorts
      BY <1>3, <2>1 DEF Creation!Created, Rows, Dialogs
    <2>3. Listed(row) /\ Apart(row)
      BY <1>3, <2>2 DEF Listed, Apart, Begun, Creation!Share
    <2>4. dialog' \in [Operators -> Dialogs]
      BY <1>2, IdleBegun DEF CreationInv, CreationTyped
    <2>5. ASSUME NEW k \in Operators
          PROVE  EndsOrStays(k)
      <3>1. dialog'[k] = IF k = o THEN Creation!Idle ELSE dialog[k]
        BY <1>2 DEF CreationInv, CreationTyped
      <3>2. dialog[o].step # "chown"
        BY <1>1, <1>2
      <3>3. QED
        BY <3>1, <3>2 DEF EndsOrStays
    <2>6. QED
      BY <1>2, <1>3, <2>1, <2>2, <2>3, <2>4, <2>5, AddKeeps
  <1>6. QED
    BY <1>4, <1>5

\* The questions of the script.
LEMMA QuestionsKeep ==
    ASSUME CreationInv, NEW o \in Operators,
           \/ Creation!Begin(o) \/ Creation!RecommendPort(o) \/ Creation!prompt_port(o)
           \/ Creation!prompt_container_name(o)
    PROVE  CreationInv'
  <1>1. PICK d : d = dialog[o]
    OBVIOUS
  <1>2. d \in Dialogs /\ Begun(d) /\ Apart(d)
    BY <1>1 DEF CreationInv, CreationTyped
  <1>3. UNCHANGED <<containers, home, cut>> /\ d.step \in {"idle", "port", "answer", "name"}
    BY <1>1 DEF Creation!Begin, Creation!RecommendPort, Creation!prompt_port,
                Creation!prompt_container_name, Creation!At
  <1>4. d.sawRunning = {}
    BY <1>2, <1>3 DEF Begun
  <1>5. PICK f \in Dialogs :
          dialog' = [dialog EXCEPT ![o] = f] /\ Begun(f) /\ Apart(f)
    <2>1. CASE Creation!Begin(o)
      <3>1. PICK wish, f :
              /\ wish \in Wishes
              /\ f = [d EXCEPT !.step = "port", !.gpus = wish.gpus,
                               !.cpus = Creation!numbers_to_cpu_spec(wish.cpus),
                               !.uses = wish.cpus]
              /\ dialog' = [dialog EXCEPT ![o] = f]
        <4>1. PICK wish \in Wishes :
                dialog' = [dialog EXCEPT
                            ![o].step = "port", ![o].gpus = wish.gpus,
                            ![o].cpus = Creation!numbers_to_cpu_spec(wish.cpus),
                            ![o].uses = wish.cpus]
          BY <2>1 DEF Creation!Begin
        <4>2. dialog \in [Operators -> Dialogs]
          BY DEF CreationInv, CreationTyped
        <4>3. QED
          BY <1>1, <4>1, <4>2
      <3>2. /\ wish.cpus \subseteq Creation!Cpus /\ wish.gpus \subseteq Creation!Devices
            /\ Creation!numbers_to_cpu_spec(wish.cpus) \subseteq Creation!Cpus \X Creation!Cpus
        BY <3>1 DEF Creation!Cpus, Creation!Devices, Creation!numbers_to_cpu_spec
      <3>3. wish.cpus = Creation!expand_number_ranges(Creation!numbers_to_cpu_spec(wish.cpus))
        BY <3>1, CreationAssumption, SpecExpands
      <3>4. f \in Dialogs
        BY <1>2, <3>1, <3>2 DEF Dialogs, Steps
      <3>5. /\ f.step = "port" /\ f.sawRunning = {} /\ f.sawPorts = {}
            /\ f.uses = Creation!expand_number_ranges(f.cpus)
        <4>1. d.sawPorts = {}
          BY <1>1, <1>2, <2>1 DEF Creation!Begin, Creation!At, Begun
        <4>2. QED
          BY <1>2, <1>4, <3>1, <3>3, <4>1 DEF Dialogs
      <3>6. Begun(f) /\ Apart(f)
        BY <3>5 DEF Begun, Apart
      <3>7. QED
        BY <3>1, <3>4, <3>6
    <2>2. CASE Creation!RecommendPort(o)
      <3>1. CASE Creation!Ended(o)
        BY <3>1, IdleBegun DEF Creation!Ended
      <3>2. CASE ~Creation!Ended(o)
        <4>1. PICK listening \in SUBSET Ports : \E p \in Creation!recommend_ssh_port(listening) :
                dialog' = [dialog EXCEPT ![o].step = "answer", ![o].port = p,
                                         ![o].sawPorts = Creation!Existing]
          BY <2>2, <3>2 DEF Creation!RecommendPort
        <4>2. PICK p \in Creation!recommend_ssh_port(listening) :
                dialog' = [dialog EXCEPT ![o].step = "answer", ![o].port = p,
                                         ![o].sawPorts = Creation!Existing]
          BY <4>1
        <4>3. /\ p \in Ports
              /\ \A n \in Creation!Existing :
                    containers[n] # Creation!Absent /\ containers[n].port # p
          BY DEF Creation!recommend_ssh_port, Creation!list_used_tcp_ports,
                 Creation!Existing, Creation!Exists
        <4>4. PICK f : f = [d EXCEPT !.step = "answer", !.port = p,
                                     !.sawPorts = Creation!Existing]
          OBVIOUS
        <4>5. dialog' = [dialog EXCEPT ![o] = f]
          BY <1>1, <4>2, <4>4 DEF CreationInv, CreationTyped
        <4>6. f \in Dialogs
          BY <1>2, <4>3, <4>4 DEF Dialogs, Steps, Creation!Existing
        <4>7. /\ f.step = "answer" /\ f.port = p /\ f.sawRunning = {}
              /\ f.sawPorts = Creation!Existing /\ f.uses = d.uses /\ f.cpus = d.cpus
          BY <1>2, <1>4, <4>4 DEF Dialogs
        <4>8. Begun(f) /\ Apart(f)
          BY <1>2, <4>3, <4>7 DEF Begun, Apart
        <4>9. QED
          BY <4>5, <4>6, <4>8
      <3>3. QED
        BY <3>1, <3>2
    <2>3. CASE Creation!prompt_port(o)
      <3>1. PICK p, saw :
              /\ p \in Ports /\ saw = IF p = d.port THEN d.sawPorts ELSE {}
              /\ dialog' = [dialog EXCEPT ![o].step = "name", ![o].port = p, ![o].sawPorts = saw]
        <4>1. PICK p \in Ports :
                dialog' = [dialog EXCEPT ![o].step = "name", ![o].port = p,
                                ![o].sawPorts = IF p = dialog[o].port THEN @ ELSE {}]
          BY <2>3 DEF Creation!prompt_port
        <4>2. PICK saw : saw = IF p = d.port THEN d.sawPorts ELSE {}
          OBVIOUS
        <4>3. QED
          BY <1>1, <4>1, <4>2 DEF CreationInv, CreationTyped
      <3>2. PICK f : f = [d EXCEPT !.step = "name", !.port = p, !.sawPorts = saw]
        OBVIOUS
      <3>3. dialog' = [dialog EXCEPT ![o] = f]
        BY <1>1, <3>1, <3>2 DEF CreationInv, CreationTyped
      <3>4. f \in Dialogs
        BY <1>2, <3>1, <3>2 DEF Dialogs, Steps
      <3>5. /\ f.step = "name" /\ f.port = p /\ f.sawRunning = {} /\ f.sawPorts = saw
            /\ f.uses = d.uses /\ f.cpus = d.cpus
        BY <1>2, <1>4, <3>2 DEF Dialogs
      <3>6. Begun(f) /\ Apart(f)
        BY <1>2, <3>1, <3>5 DEF Begun, Apart
      <3>7. QED
        BY <3>3, <3>4, <3>6
    <2>4. CASE Creation!prompt_container_name(o)
      <3>1. PICK n \in Names : /\ dialog' = [dialog EXCEPT ![o].step = "review", ![o].name = n]
                              /\ d.step = "name"
        BY <1>1, <2>4 DEF Creation!prompt_container_name, Creation!At
      <3>2. PICK f : f = [d EXCEPT !.step = "review", !.name = n]
        OBVIOUS
      <3>3. dialog' = [dialog EXCEPT ![o] = f]
        BY <1>1, <3>1, <3>2 DEF CreationInv, CreationTyped
      <3>4. f \in Dialogs
        BY <1>2, <3>2 DEF Dialogs, Steps
      <3>5. /\ f.step = "review" /\ f.name = n /\ f.port = d.port
            /\ f.sawRunning = {} /\ f.sawPorts = d.sawPorts
            /\ f.uses = d.uses /\ f.cpus = d.cpus
        BY <1>2, <1>4, <3>2 DEF Dialogs
      <3>6. Begun(f) /\ Apart(f)
        BY <1>2, <3>1, <3>5 DEF Begun, Apart
      <3>7. QED
        BY <3>3, <3>4, <3>6
    <2>5. QED
      BY <2>1, <2>2, <2>3, <2>4
  <1>6. dialog[o].step # "chown"
    BY <1>1, <1>3
  <1>7. QED
    BY <1>3, <1>5, <1>6, ScriptKeeps DEF CreationInv, CreationTyped

\* Nothing is shared with what runs and is not listed by check_resource_conflicts.
LEMMA NoOverlap ==
    ASSUME CreationInv, NEW d \in Dialogs, Begun(d), NEW n \in Names, Creation!Runs(n),
           n \notin Creation!check_resource_conflicts(d)
    PROVE  containers[n] # Creation!Absent /\ ~Creation!Share(d, containers[n])
  <1>1. PICK c : c = containers[n]
    OBVIOUS
  <1>2. c # Creation!Absent
    BY <1>1 DEF Creation!Runs, Creation!Absent
  <1>3. c \in Rows /\ Listed(c)
    BY <1>1, <1>2 DEF CreationInv, CreationTyped, RowsApart
  <1>4. ~Creation!CpuConflict(d, c) /\ ~Creation!GpuConflict(d, c)
    BY <1>1 DEF Creation!check_resource_conflicts, Creation!Running
  <1>5. d.uses \cap c.uses = {}
    BY <1>3, <1>4 DEF Listed, Begun, Creation!CpuConflict
  <1>6. d.gpus # Creation!Unknown
    <2>1. -1 \notin Creation!Devices
      BY CreationAssumption DEF Creation!Devices
    <2>2. QED
      BY <2>1 DEF Dialogs, Creation!Unknown
  <1>7. ~Creation!Share(d, c)
    BY <1>4, <1>5, <1>6 DEF Creation!GpuConflict, Creation!Share
  <1>8. QED
    BY <1>1, <1>2, <1>7

\* The script goes on to its next step, with what the check of this one looked at.
LEMMA AdvanceKeeps ==
    ASSUME CreationInv, NEW o \in Operators, NEW f \in Dialogs,
           dialog' = [dialog EXCEPT ![o] = f], UNCHANGED <<containers, home, cut>>,
           dialog[o].step # "chown", Begun(f), Apart(f)
    PROVE  CreationInv'
  BY ScriptKeeps DEF CreationInv, CreationTyped

LEMMA EndsKeeps ==
    ASSUME CreationInv, NEW o \in Operators, Creation!Ended(o),
           UNCHANGED <<containers, home, cut>>, dialog[o].step # "chown"
    PROVE  CreationInv'
  BY IdleBegun, AdvanceKeeps DEF Creation!Ended

LEMMA ReviewKeeps ==
    ASSUME CreationInv, NEW o \in Operators, Creation!Review(o)
    PROVE  CreationInv'
  <1>1. PICK d : d = dialog[o]
    OBVIOUS
  <1>2. /\ d \in Dialogs /\ Begun(d) /\ Apart(d) /\ d.step = "review"
        /\ UNCHANGED <<containers, home, cut>>
    BY <1>1 DEF CreationInv, CreationTyped, Creation!Review, Creation!At
  <1>3. CASE Creation!Ended(o)
    BY <1>1, <1>2, <1>3, EndsKeeps
  <1>4. CASE ~Creation!Ended(o)
    <2> DEFINE overlap == Creation!check_resource_conflicts(d)
               saw == Creation!Running \ overlap
    <2>1. dialog' = [dialog EXCEPT ![o].step = "recheck", ![o].sawRunning = saw]
      BY <1>1, <1>4 DEF Creation!Review
    <2>2. saw \subseteq Names
      BY DEF Creation!Running
    <2>3. \A n \in saw : containers[n] # Creation!Absent /\ ~Creation!Share(d, containers[n])
      BY <1>2, NoOverlap DEF Creation!Running
    <2> HIDE DEF overlap, saw
    <2>4. PICK f : f = [d EXCEPT !.step = "recheck", !.sawRunning = saw]
      OBVIOUS
    <2>5. dialog' = [dialog EXCEPT ![o] = f]
      BY <1>1, <2>1, <2>4 DEF CreationInv, CreationTyped
    <2>6. f \in Dialogs
      BY <1>2, <2>2, <2>4 DEF Dialogs, Steps
    <2>7. /\ f.step = "recheck" /\ f.name = d.name /\ f.port = d.port /\ f.gpus = d.gpus
          /\ f.uses = d.uses /\ f.cpus = d.cpus /\ f.sawRunning = saw
          /\ f.sawPorts = d.sawPorts
      BY <1>2, <2>4 DEF Dialogs
    <2>8. Begun(f)
      BY <1>2, <2>7 DEF Begun
    <2>9. Apart(f)
      BY <1>2, <2>3, <2>7 DEF Apart, Creation!Share
    <2>10. QED
      BY <1>1, <1>2, <2>5, <2>6, <2>8, <2>9, AdvanceKeeps
  <1>5. QED
    BY <1>3, <1>4

LEMMA RecheckKeeps ==
    ASSUME CreationInv, NEW o \in Operators, Creation!Recheck(o)
    PROVE  CreationInv'
  <1>1. PICK d : d = dialog[o]
    OBVIOUS
  <1>2. /\ d \in Dialogs /\ Begun(d) /\ Apart(d) /\ d.step = "recheck"
        /\ UNCHANGED <<containers, home, cut>>
    BY <1>1 DEF CreationInv, CreationTyped, Creation!Recheck, Creation!At
  <1>3. CASE Creation!Ended(o)
    BY <1>1, <1>2, <1>3, EndsKeeps
  <1>4. CASE ~Creation!Ended(o)
    <2>1. /\ ~Creation!port_is_in_use(d.port)
          /\ dialog' = [dialog EXCEPT ![o].step = "confirm", ![o].sawPorts = @ \cup Creation!Running]
      BY <1>1, <1>4 DEF Creation!Recheck
    <2>2. PICK f : f = [d EXCEPT !.step = "confirm", !.sawPorts = d.sawPorts \cup Creation!Running]
      OBVIOUS
    <2>3. dialog' = [dialog EXCEPT ![o] = f]
      BY <1>1, <2>1, <2>2 DEF CreationInv, CreationTyped
    <2>4. f \in Dialogs
      BY <1>2, <2>2 DEF Dialogs, Steps, Creation!Running
    <2>5. /\ f.step = "confirm" /\ f.name = d.name /\ f.port = d.port /\ f.gpus = d.gpus
          /\ f.uses = d.uses /\ f.cpus = d.cpus /\ f.sawRunning = d.sawRunning
          /\ f.sawPorts = d.sawPorts \cup Creation!Running
      BY <1>2, <2>2 DEF Dialogs
    <2>6. Begun(f)
      BY <1>2, <2>5 DEF Begun
    <2>7. \A n \in Creation!Running :
            containers[n] # Creation!Absent /\ containers[n].port # d.port
      BY <2>1 DEF Creation!port_is_in_use, Creation!Running, Creation!Runs, Creation!Absent
    <2>8. Apart(f)
      BY <1>2, <2>5, <2>7 DEF Apart, Creation!Share
    <2>9. QED
      BY <1>1, <1>2, <2>3, <2>4, <2>6, <2>8, AdvanceKeeps
  <1>5. QED
    BY <1>3, <1>4

\* The directory is made and given away, or the script ends.
LEMMA HomeKeeps ==
    ASSUME CreationInv, NEW o \in Operators,
           Creation!prepare_mount_path(o) \/ Creation!Mkdir(o) \/ Creation!Chown(o)
    PROVE  CreationInv'
  <1>1. PICK d, n : d = dialog[o] /\ n = d.name
    OBVIOUS
  <1>2. /\ d \in Dialogs /\ Begun(d) /\ Apart(d) /\ d.step \in {"confirm", "mkdir", "chown"}
        /\ UNCHANGED containers
    BY <1>1 DEF CreationInv, CreationTyped, Creation!prepare_mount_path, Creation!Mkdir,
                Creation!Chown, Creation!At
  <1>3. n \in Names /\ home[n] \in {"missing", "root", "user"}
    BY <1>1, <1>2 DEF Begun, CreationInv, CreationTyped
  <1>4. PICK step \in {"mkdir", "chown", "run"}, owner \in {"missing", "root", "user"} :
          /\ dialog' = [dialog EXCEPT ![o].step = step]
          /\ home' = [home EXCEPT ![n] = owner]
          /\ owner = "root" => step = "chown" \/ (home[n] = "root" /\ d.step # "chown")
          /\ cut' = IF d.step = "chown" THEN cut \ {n} ELSE cut
          /\ d.step = "chown" => owner = "user"
    <2>1. CASE Creation!prepare_mount_path(o)
      <3>1. d.step = "confirm" /\ UNCHANGED <<home, cut>>
        BY <1>1, <2>1 DEF Creation!prepare_mount_path, Creation!At
      <3>2. PICK step \in {"mkdir", "run"} : dialog' = [dialog EXCEPT ![o].step = step]
        BY <2>1 DEF Creation!prepare_mount_path
      <3>3. home' = [home EXCEPT ![n] = home[n]]
        BY <3>1 DEF CreationInv, CreationTyped
      <3>4. QED
        BY <1>3, <3>1, <3>2, <3>3
    <2>2. CASE Creation!Mkdir(o)
      <3>1. PICK owner : owner = IF home[n] = "missing" THEN "root" ELSE home[n]
        OBVIOUS
      <3>2. /\ dialog' = [dialog EXCEPT ![o].step = "chown"] /\ d.step = "mkdir"
            /\ home' = [home EXCEPT ![n] = owner] /\ UNCHANGED cut
        BY <1>1, <2>2, <3>1 DEF Creation!Mkdir, Creation!At
      <3>3. QED
        BY <1>3, <3>1, <3>2
    <2>3. CASE Creation!Chown(o)
      <3>1. /\ dialog' = [dialog EXCEPT ![o].step = "run"] /\ d.step = "chown"
            /\ home' = [home EXCEPT ![n] = "user"] /\ cut' = cut \ {n}
        BY <1>1, <2>3 DEF Creation!Chown, Creation!Owned, Creation!At
      <3>2. QED
        BY <3>1
    <2>4. QED
      BY <2>1, <2>2, <2>3
  <1>5. PICK f : f = [d EXCEPT !.step = step]
    OBVIOUS
  <1>6. dialog' = [dialog EXCEPT ![o] = f]
    BY <1>1, <1>4, <1>5 DEF CreationInv, CreationTyped
  <1>7. f \in Dialogs
    BY <1>2, <1>5 DEF Dialogs, Steps
  <1>8. /\ f.step = step /\ f.name = d.name /\ f.port = d.port /\ f.gpus = d.gpus
        /\ f.uses = d.uses /\ f.cpus = d.cpus /\ f.sawRunning = d.sawRunning
        /\ f.sawPorts = d.sawPorts
    BY <1>2, <1>5 DEF Dialogs
  <1>9. Begun(f)
    BY <1>2, <1>8 DEF Begun
  <1>10. Apart(f)
    BY <1>2, <1>8 DEF Apart, Creation!Share
  <1>11. home' \in [Names -> {"missing", "root", "user"}]
    BY <1>4 DEF CreationInv, CreationTyped
  <1>12. ASSUME NEW k \in Names, home'[k] = "root"
         PROVE  \/ (f.step = "chown" /\ f.name = k)
                \/ /\ home[k] = "root" /\ (k \in cut => k \in cut')
                   /\ ~(d.step = "chown" /\ d.name = k)
    <2>1. home'[k] = IF k = n THEN owner ELSE home[k]
      BY <1>4 DEF CreationInv, CreationTyped
    <2>2. QED
      BY <1>1, <1>4, <1>8, <1>12, <2>1
  <1>13. cut' \subseteq Names
    BY <1>4 DEF CreationInv, CreationTyped
  <1>14. QED
    BY <1>1, <1>2, <1>6, <1>7, <1>9, <1>10, <1>11, <1>12, <1>13, ScriptKeeps

LEMMA CancelKeeps ==
    ASSUME CreationInv, NEW o \in Operators, Creation!Cancel(o)
    PROVE  CreationInv'
  <1>1. PICK d : d = dialog[o]
    OBVIOUS
  <1>2. /\ d \in Dialogs /\ Begun(d) /\ UNCHANGED <<containers, home>>
        /\ dialog' = [dialog EXCEPT ![o] = Creation!Idle]
        /\ cut' = IF d.step = "chown" /\ home[d.name] = "root" THEN cut \cup {d.name} ELSE cut
    BY <1>1 DEF CreationInv, CreationTyped, Creation!Cancel, Creation!Ended, Creation!At
  <1>3. d.step = "chown" => d.name \in Names
    BY <1>2 DEF Begun
  <1>4. /\ cut \subseteq cut' /\ cut' \subseteq Names
        /\ home' = home /\ home \in [Names -> {"missing", "root", "user"}]
    BY <1>2, <1>3 DEF CreationInv, CreationTyped
  <1>5. \A n \in Names : home'[n] = "root" =>
            \/ n \in cut'
            \/ /\ home[n] = "root" /\ (n \in cut => n \in cut')
               /\ ~(d.step = "chown" /\ d.name = n)
    BY <1>2
  <1>6. QED
    BY <1>1, <1>2, <1>4, <1>5, IdleBegun, ScriptKeeps

-----------------------------------------------------------------------------
(* Creation: the theorems *)

LEMMA CreationInit ==
    ASSUME Creation!Init
    PROVE  CreationInv
  <1>1. CreationTyped /\ RootIsCut /\ RowsApart
    BY IdleBegun DEF Creation!Init, CreationTyped, RootIsCut, RowsApart
  <1>2. QED
    BY <1>1, IdleBegun DEF Creation!Init, CreationInv

LEMMA CreationStep ==
    ASSUME CreationInv, [Creation!Next]_(Creation!vars)
    PROVE  CreationInv'
  <1>1. CASE UNCHANGED Creation!vars
    <2>1. UNCHANGED <<containers, home, dialog, cut>>
      BY <1>1 DEF Creation!vars
    <2>2. CreationTyped' /\ RootIsCut' /\ RowsApart'
      BY <2>1 DEF CreationInv, CreationTyped, RootIsCut, RowsApart, Apart, Listed
    <2>3. \A o \in Operators : Begun(dialog[o])' /\ Apart(dialog[o])'
      BY <2>1 DEF CreationInv, Begun, Apart
    <2>4. QED
      BY <2>2, <2>3 DEF CreationInv
  <1>2. ASSUME NEW o \in Operators, Creation!Script(o)
        PROVE  CreationInv'
    BY <1>2, QuestionsKeep, ReviewKeeps, RecheckKeeps, HomeKeeps, DockerRunKeeps, CancelKeeps
       DEF Creation!Script
  <1>3. QED
    BY <1>1, <1>2, HostKeeps, RemoveKeeps, RunOtherKeeps DEF Creation!Next

LEMMA CreationInvariant == Creation!Spec => []CreationInv
  <1>1. Creation!Init => CreationInv
    BY CreationInit
  <1>2. CreationInv /\ [Creation!Next]_(Creation!vars) => CreationInv'
    BY CreationStep
  <1>3. QED
    BY <1>1, <1>2, PTL DEF Creation!Spec

\* Two containers of a host that share a CPU or a GPU do so by an operator's consent or
\* through the gap between the checks of create_container.sh and docker run; two that
\* have one port, through that gap or because the port was typed and the other container
\* was stopped all the time.  The checks miss nothing else, for any operators, CPU
\* lists, GPUs and ports.
THEOREM SharingNeedsConsentOrGapAlways == Creation!Spec => []SharingNeedsConsentOrGap
  <1>1. CreationInv => SharingNeedsConsentOrGap
    <2> SUFFICES ASSUME CreationInv, NEW n \in Names, NEW k \in Names, n # k,
                        Creation!Exists(n), Creation!Exists(k)
                 PROVE  Creation!ShareNeedsConsentOrGap(n, k) /\ Creation!SharedPortNeedsGap(n, k)
      BY DEF SharingNeedsConsentOrGap, Creation!SharingNeedsConsentOrGap
    <2>1. PICK c, d : c = containers[n] /\ d = containers[k]
      OBVIOUS
    <2>2. Apart(c) /\ Apart(d)
      BY <2>1 DEF CreationInv, RowsApart, Creation!Exists
    <2>3. Creation!Share(c, d) => k \notin c.sawRunning /\ n \notin d.sawRunning
      BY <2>1, <2>2 DEF Apart, Creation!Share
    <2>4. c.port = d.port => k \notin c.sawPorts /\ n \notin d.sawPorts
      BY <2>1, <2>2 DEF Apart
    <2>5. QED
      BY <2>1, <2>3, <2>4 DEF Creation!ShareNeedsConsentOrGap, Creation!SharedPortNeedsGap
  <1>2. QED
    BY <1>1, CreationInvariant, PTL

\* The home of a container is root's only when a script ended between mkdir and chown,
\* or still is there (prepare_mount_path): another script for the same name, which finds
\* the directory and does not give it away, does not leave it to root by itself.
THEOREM HomeIsOwnedUnlessCutAlways == Creation!Spec => []HomeIsOwnedUnlessCut
  <1>1. CreationInv => HomeIsOwnedUnlessCut
    BY DEF CreationInv, RootIsCut, HomeIsOwnedUnlessCut, Creation!HomeIsOwnedUnlessCut,
           Creation!At
  <1>2. QED
    BY <1>1, CreationInvariant, PTL

-----------------------------------------------------------------------------
(* Both parts *)

LEMMA IngestUnchanged ==
    ASSUME IngestInv, UNCHANGED vars
    PROVE  IngestInv'
  BY IngestStep

LEMMA CreationUnchanged ==
    ASSUME CreationInv, UNCHANGED hostVars
    PROVE  CreationInv'
  BY CreationStep DEF hostVars, Creation!vars

\* The rows of containers, their batches and the transactions of the API, and the
\* containers, directories and dialogs of the host are of their types.
THEOREM ContainerTypes == MCSpec => []TypesOK
  <1>1. MCInit => IngestInv /\ CreationInv
    BY IngestInit, CreationInit DEF MCInit
  <1>2. ASSUME IngestInv /\ CreationInv, [MCNext]_allVars
        PROVE  IngestInv' /\ CreationInv'
    <2>1. CASE OfIngest(Next)
      BY <1>2, <2>1, IngestStep, CreationUnchanged DEF OfIngest
    <2>2. CASE OfHost(Creation!Next)
      BY <1>2, <2>2, CreationStep, IngestUnchanged DEF OfHost
    <2>3. CASE UNCHANGED allVars
      BY <1>2, <2>3, IngestUnchanged, CreationUnchanged DEF allVars
    <2>4. QED
      BY <1>2, <2>1, <2>2, <2>3 DEF MCNext
  <1>3. IngestInv /\ CreationInv => TypesOK
    <2>1. ASSUME CreationInv
          PROVE  Creation!TypeOK
      <3>1. ASSUME NEW n \in Names, Creation!Exists(n)
            PROVE  containers[n] \in Rows
        BY <2>1, <3>1 DEF CreationInv, CreationTyped, Creation!Exists
      <3>2. \A o \in Operators : dialog[o] \in Dialogs
        BY <2>1 DEF CreationInv, CreationTyped
      <3>3. QED
        BY <2>1, <3>1, <3>2
           DEF CreationInv, CreationTyped, Creation!TypeOK, Rows, Dialogs, Steps
    <2>2. QED
      BY <2>1 DEF IngestInv, TypesOK
  <1>4. QED
    BY <1>1, <1>2, <1>3, PTL DEF MCSpec

=============================================================================
