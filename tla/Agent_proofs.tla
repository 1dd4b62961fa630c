---------------------------- MODULE Agent_proofs ----------------------------
(***************************************************************************)
(* The agent of a container and its service, for every set of agents, of   *)
(* names and of PIDs and every interval: all agents that have ever run on  *)
(* one state directory ran under one name, and each keeps to its grid;     *)
(* which agents outlive their script, and what the health check says.      *)
(***************************************************************************)
EXTENDS MCAgent, FiniteSetTheorems, TLAPS

HistoryType == lastName \in [Agents -> Names \cup {None, file}]

Inv == HistoryType /\ OneNameForEver

(***************************************************************************)
(* An agent starts to run only under the name in the file, in Run's two    *)
(* callers.                                                                *)
(***************************************************************************)
LEMMA RunKeepsInv ==
    ASSUME NEW a \in Agents, Inv, Run(a, file)
    PROVE  Inv'
BY DEF Run, Inv, HistoryType, OneNameForEver

(***************************************************************************)
(* The file gets a name once (os.link in identity.py), when no agent has   *)
(* run yet.                                                                *)
(***************************************************************************)
LEMMA LinkKeepsInv ==
    ASSUME NEW a \in Agents, Inv, Link(a)
    PROVE  Inv'
<1>1. CASE file = None
  <2>1. \A b \in Agents : lastName[b] = None
    BY <1>1 DEF Inv, OneNameForEver
  <2> QED
    BY <2>1 DEF Inv, HistoryType, OneNameForEver, Link
<1>2. CASE file # None
  <2>1. UNCHANGED <<file, lastName>>
    BY <1>2 DEF Link, Published
  <2> QED
    BY <2>1 DEF Inv, HistoryType, OneNameForEver
<1> QED
  BY <1>1, <1>2

LEMMA StepKeepsInv == Inv /\ [Next]_vars => Inv'
<1> SUFFICES ASSUME Inv, [Next]_vars
             PROVE  Inv'
  OBVIOUS
<1>1. ASSUME NEW a \in Agents, Start(a)
      PROVE  Inv'
  BY <1>1 DEF Start, Inv, HistoryType, OneNameForEver
<1>2. ASSUME NEW a \in Agents, FindIdentity(a)
      PROVE  Inv'
  BY <1>2, RunKeepsInv DEF FindIdentity
<1>3. ASSUME NEW a \in Agents, FindNoIdentity(a)
      PROVE  Inv'
  BY <1>3 DEF FindNoIdentity, Inv, HistoryType, OneNameForEver
<1>4. ASSUME NEW a \in Agents, Link(a)
      PROVE  Inv'
  BY <1>4, LinkKeepsInv
<1>5. ASSUME NEW a \in Agents, ReadBack(a)
      PROVE  Inv'
  BY <1>5, RunKeepsInv DEF ReadBack
<1>6. ASSUME NEW a \in Agents, EndCollection(a) \/ Wake(a) \/ Signal(a) \/ Exit(a)
      PROVE  Inv'
  BY <1>6 DEF EndCollection, Wake, Signal, Exit, Inv, HistoryType, OneNameForEver
<1>7. CASE Elapse \/ UNCHANGED vars
  BY <1>7 DEF Elapse, vars, Inv, HistoryType, OneNameForEver
<1> QED
  BY <1>1, <1>2, <1>3, <1>4, <1>5, <1>6, <1>7 DEF Next

(***************************************************************************)
(* load_or_create_identity: whatever the agents are configured with and    *)
(* whenever they crash, their reports carry one name, the stored one.      *)
(***************************************************************************)
THEOREM OneName == Spec => []OneNameForEver
<1>1. Init => Inv
  BY DEF Init, Inv, HistoryType, OneNameForEver
<1>2. Inv /\ [Next]_vars => Inv'
  BY StepKeepsInv
<1>3. Inv => OneNameForEver
  BY DEF Inv
<1> QED
  BY <1>1, <1>2, <1>3, PTL DEF Spec

-----------------------------------------------------------------------------
(* The loop of the agent *)

\* Only a configured name is created and read back, so that no loop runs under
\* a name that is not one.
CreatesConfigured ==
    \A a \in Agents :
        agent[a].step \in {"creating", "reading"} => agent[a].configured # None

LoopInv == TypeOK /\ CreatesConfigured /\ NextSlotWithoutDrift

LEMMA MultipleHasNoRest ==
    ASSUME NEW n \in Nat, NEW d \in Nat \ {0}
    PROVE  (n * d) % d = 0
  <1>1. n * d \in Int
    OBVIOUS
  <1>2. PICK q : q = (n * d) \div d
    OBVIOUS
  <1>3. q \in Int /\ n * d = d * q + ((n * d) % d) /\ (n * d) % d \in 0..(d - 1)
    BY <1>1, <1>2
  <1>4. PICK m : m = n - q
    OBVIOUS
  <1>5. PICK r : r = (n * d) % d
    OBVIOUS
  <1>6. m \in Int /\ r \in 0..(d - 1) /\ m * d = r
    BY <1>3, <1>4, <1>5
  <1>7. m >= 1 => m * d >= d
    BY <1>6
  <1>8. m <= -1 => m * d <= -d
    BY <1>6
  <1>9. m = 0
    BY <1>6, <1>7, <1>8
  <1>10. QED
    BY <1>5, <1>6, <1>9

LEMMA CeilDivBounds ==
    ASSUME NEW n \in Nat, NEW d \in Nat \ {0}
    PROVE  /\ CeilDiv(n, d) \in Nat
           /\ CeilDiv(n, d) * d >= n
           /\ CeilDiv(n, d) * d < n + d
  <1>1. PICK q : q = (n + d - 1) \div d
    OBVIOUS
  <1>2. PICK r : r = (n + d - 1) % d
    OBVIOUS
  <1>3. q \in Nat /\ r \in 0..(d - 1) /\ n + d - 1 = q * d + r
    BY <1>1, <1>2
  <1>4. QED
    BY <1>1, <1>3 DEF CeilDiv

\* next_collection_deadline: the first point of the grid after the last one that
\* has not passed.
LEMMA NextDeadline ==
    ASSUME NEW from \in Nat, NEW now \in Nat, NEW next,
           next = next_collection_deadline(from, now)
    PROVE  /\ next \in Nat
           /\ next > from
           /\ (next - from) % Interval = 0
           /\ next >= now
           /\ next - Interval > from => next - Interval < now
  <1>1. Interval \in Nat \ {0}
    BY IntervalAssumption
  <1>2. CASE from + Interval < now
    <2>1. PICK late : late = now - (from + Interval)
      OBVIOUS
    <2>2. PICK n : n = CeilDiv(late, Interval)
      OBVIOUS
    <2>3. late \in Nat
      BY <1>1, <1>2, <2>1
    <2>4. n \in Nat /\ n * Interval >= late /\ n * Interval < late + Interval
      BY <1>1, <2>2, <2>3, CeilDivBounds
    <2>5. PICK skipped : skipped = n * Interval
      OBVIOUS
    <2>6. skipped \in Nat
      BY <1>1, <2>4, <2>5
    <2>7. next = from + Interval + skipped
      BY <1>2, <2>1, <2>2, <2>5 DEF next_collection_deadline, Skipped
    <2>8. (n + 1) * Interval = Interval + skipped
      BY <1>1, <2>4, <2>5
    <2>9. (Interval + skipped) % Interval = 0
      <3>1. n + 1 \in Nat
        BY <2>4
      <3>2. ((n + 1) * Interval) % Interval = 0
        BY <1>1, <3>1, MultipleHasNoRest
      <3>3. QED
        BY <2>8, <3>2
    <2>10. next - from = Interval + skipped
      BY <1>1, <2>6, <2>7
    <2>11. (next - from) % Interval = 0
      BY <2>9, <2>10
    <2>12. QED
      BY <1>1, <2>1, <2>4, <2>5, <2>6, <2>7, <2>11
  <1>3. CASE ~(from + Interval < now)
    <2>1. next = from + Interval
      BY <1>3 DEF next_collection_deadline
    <2>2. next - from = 1 * Interval
      BY <1>1, <2>1
    <2>3. (next - from) % Interval = 0
      BY <1>1, <2>2, MultipleHasNoRest
    <2>4. QED
      BY <1>1, <1>3, <2>1, <2>3
  <1>4. QED
    BY <1>2, <1>3

LEMMA LoopInit ==
    ASSUME Init
    PROVE  LoopInv
  BY DEF Init, LoopInv, TypeOK, CreatesConfigured, NextSlotWithoutDrift, Down

\* The record of one agent changes, to one that is typed and, when it waits, waits
\* for the right point.
Waits(r) ==
    r.step = "waiting" =>
        /\ r.deadline > r.previous
        /\ (r.deadline - r.previous) % Interval = 0
        /\ r.deadline >= r.ended
        /\ r.deadline - Interval > r.previous => r.deadline - Interval < r.ended

LEMMA RecordKeeps ==
    ASSUME LoopInv, NEW a \in Agents, NEW r \in {Down} \cup Configured \cup InLoop,
           r.step \in {"creating", "reading"} => r.configured # None,
           Waits(r), agent' = [agent EXCEPT ![a] = r],
           file' \in Names \cup {None}, lastName' \in [Agents -> Names \cup {None}],
           clock' \in Nat
    PROVE  LoopInv'
  <1>1. agent'[a] = r /\ \A b \in Agents \ {a} : agent'[b] = agent[b]
    BY DEF LoopInv, TypeOK
  <1>2. TypeOK'
    BY <1>1 DEF LoopInv, TypeOK
  <1>3. CreatesConfigured'
    BY <1>1 DEF LoopInv, CreatesConfigured
  <1>4. NextSlotWithoutDrift'
    BY <1>1 DEF LoopInv, NextSlotWithoutDrift, Waits
  <1>5. QED
    BY <1>2, <1>3, <1>4 DEF LoopInv

LEMMA RunKeepsLoop ==
    ASSUME LoopInv, NEW a \in Agents, file \in Names, Run(a, file)
    PROVE  LoopInv'
  <1>1. PICK r :
          r = [step |-> "collecting", name |-> file, stop |-> FALSE,
               deadline |-> clock, previous |-> clock - Interval, ended |-> clock]
    OBVIOUS
  <1>2. r \in InLoop
    BY <1>1, IntervalAssumption DEF InLoop, LoopInv, TypeOK
  <1>3. r.step = "collecting"
    BY <1>1
  <1>4. QED
    BY <1>1, <1>2, <1>3, RecordKeeps DEF Run, LoopInv, TypeOK, Waits

LEMMA StartKeepsLoop ==
    ASSUME LoopInv, NEW a \in Agents,
           Start(a) \/ FindIdentity(a) \/ FindNoIdentity(a) \/ Link(a) \/ ReadBack(a)
    PROVE  LoopInv'
  <1>1. CASE Start(a)
    <2>1. PICK n \in Names \cup {None} :
            agent' = [agent EXCEPT ![a] = [step |-> "starting", configured |-> n]]
      BY <1>1 DEF Start
    <2>2. PICK r : r = [step |-> "starting", configured |-> n]
      OBVIOUS
    <2>3. r \in Configured /\ r.step = "starting"
      BY <2>2 DEF Configured
    <2>4. QED
      BY <1>1, <2>1, <2>2, <2>3, RecordKeeps DEF Start, LoopInv, TypeOK, Waits
  <1>2. CASE FindIdentity(a)
    <2>1. file \in Names
      BY <1>2 DEF FindIdentity, LoopInv, TypeOK
    <2>2. QED
      BY <1>2, <2>1, RunKeepsLoop DEF FindIdentity
  <1>3. CASE FindNoIdentity(a) \/ Link(a)
    <2>1. PICK old : old = agent[a]
      OBVIOUS
    <2>2. old \in Configured /\ old.configured # None
      BY <1>3, <2>1 DEF FindNoIdentity, Link, LoopInv, TypeOK, CreatesConfigured,
                        Configured, InLoop, Down
    <2>3. PICK step \in {"creating", "reading"} : Goto(a, step)
      BY <1>3 DEF FindNoIdentity, Link
    <2>4. PICK r : r = [old EXCEPT !.step = step]
      OBVIOUS
    <2>5. r \in Configured /\ r.step = step /\ r.configured # None
      BY <2>2, <2>3, <2>4 DEF Configured
    <2>6. agent' = [agent EXCEPT ![a] = r]
      BY <2>1, <2>3, <2>4 DEF Goto
    <2>7. file' \in Names \cup {None} /\ UNCHANGED <<lastName, clock>>
      BY <1>3, <2>1, <2>2 DEF FindNoIdentity, Link, Published, LoopInv, TypeOK, Configured
    <2>8. QED
      BY <2>3, <2>5, <2>6, <2>7, RecordKeeps DEF LoopInv, TypeOK, Waits
  <1>4. CASE ReadBack(a)
    <2>1. file \in Names
      BY <1>4 DEF ReadBack, LoopInv, TypeOK, CreatesConfigured
    <2>2. QED
      BY <1>4, <2>1, RunKeepsLoop DEF ReadBack
  <1>5. QED
    BY <1>1, <1>2, <1>3, <1>4

LEMMA CollectionKeepsLoop ==
    ASSUME LoopInv, NEW a \in Agents, EndCollection(a)
    PROVE  LoopInv'
  <1>1. PICK old : old = agent[a]
    OBVIOUS
  <1>2. old \in InLoop
    BY <1>1 DEF EndCollection, LoopInv, TypeOK, Configured, InLoop, Down
  <1>3. PICK next : next = next_collection_deadline(old.deadline, clock)
    OBVIOUS
  <1>4. old.deadline \in Nat /\ clock \in Nat
    BY <1>2 DEF InLoop, LoopInv, TypeOK
  <1>5. /\ next \in Nat
        /\ next > old.deadline
        /\ (next - old.deadline) % Interval = 0
        /\ next >= clock
        /\ next - Interval > old.deadline => next - Interval < clock
    BY <1>3, <1>4, NextDeadline
  <1>6. PICK r : r = [old EXCEPT !.step = "waiting", !.deadline = next,
                                 !.previous = old.deadline, !.ended = clock]
    OBVIOUS
  <1>7. /\ r \in InLoop /\ r.step = "waiting"
        /\ r.deadline = next /\ r.previous = old.deadline /\ r.ended = clock
    <2>1. PICK r1 : r1 = [old EXCEPT !.step = "waiting"]
      OBVIOUS
    <2>2. PICK r2 : r2 = [r1 EXCEPT !.deadline = next]
      OBVIOUS
    <2>3. PICK r3 : r3 = [r2 EXCEPT !.previous = old.deadline]
      OBVIOUS
    <2>4. r1 \in InLoop /\ r1.step = "waiting"
      BY <1>2, <2>1 DEF InLoop
    <2>5. r2 \in InLoop /\ r2.step = "waiting" /\ r2.deadline = next
      BY <1>5, <2>2, <2>4 DEF InLoop
    <2>6. /\ r3 \in InLoop /\ r3.step = "waiting" /\ r3.deadline = next
          /\ r3.previous = old.deadline
      BY <1>4, <2>3, <2>5 DEF InLoop
    <2>7. r = [r3 EXCEPT !.ended = clock]
      BY <1>6, <2>1, <2>2, <2>3
    <2>8. QED
      BY <1>4, <2>6, <2>7 DEF InLoop
  <1>8. Waits(r)
    BY <1>5, <1>7 DEF Waits
  <1>9. agent' = [agent EXCEPT ![a] = r]
    BY <1>1, <1>3, <1>6 DEF EndCollection
  <1>10. QED
    BY <1>7, <1>8, <1>9, RecordKeeps DEF EndCollection, LoopInv, TypeOK

LEMMA WakeKeepsLoop ==
    ASSUME LoopInv, NEW a \in Agents, Wake(a) \/ Signal(a) \/ Exit(a)
    PROVE  LoopInv'
  <1>1. UNCHANGED <<file, lastName, clock>>
    BY DEF Wake, Signal, Exit
  <1>2. CASE agent' = [agent EXCEPT ![a] = Down]
    <2>1. Down.step = "down"
      BY DEF Down
    <2>2. QED
      BY <1>1, <1>2, <2>1, RecordKeeps DEF LoopInv, TypeOK, Waits
  <1>3. PICK old : old = agent[a]
    OBVIOUS
  <1>4. CASE Wake(a) /\ ~agent[a].stop
    <2>1. old \in InLoop
      BY <1>3, <1>4 DEF Wake, LoopInv, TypeOK, Configured, InLoop, Down
    <2>2. PICK r : r = [old EXCEPT !.step = "collecting"]
      OBVIOUS
    <2>3. r \in InLoop /\ r.step = "collecting"
      BY <2>1, <2>2 DEF InLoop
    <2>4. agent' = [agent EXCEPT ![a] = r]
      BY <1>3, <1>4, <2>2 DEF Wake, Goto
    <2>5. QED
      BY <1>1, <2>3, <2>4, RecordKeeps DEF LoopInv, TypeOK, Waits
  <1>5. CASE Signal(a)
    <2>1. old \in InLoop
      BY <1>3, <1>5 DEF Signal, Loops, LoopInv, TypeOK, Configured, InLoop, Down
    <2>2. PICK r : r = [old EXCEPT !.stop = TRUE]
      OBVIOUS
    <2>3. /\ r \in InLoop /\ r.step = old.step
          /\ r.deadline = old.deadline /\ r.previous = old.previous /\ r.ended = old.ended
      BY <2>1, <2>2 DEF InLoop
    <2>4. Waits(old)
      BY <1>3 DEF LoopInv, NextSlotWithoutDrift, Waits
    <2>5. Waits(r) /\ r.step \notin {"creating", "reading"}
      BY <2>1, <2>3, <2>4 DEF Waits, InLoop
    <2>6. agent' = [agent EXCEPT ![a] = r]
      BY <1>3, <1>5, <2>2 DEF Signal
    <2>7. QED
      BY <1>1, <2>3, <2>5, <2>6, RecordKeeps DEF LoopInv, TypeOK
  <1>6. QED
    BY <1>2, <1>4, <1>5 DEF Wake, Exit

LEMMA LoopStep ==
    ASSUME LoopInv, [Next]_vars
    PROVE  LoopInv'
  <1>1. CASE Elapse \/ UNCHANGED vars
    BY <1>1 DEF Elapse, vars, LoopInv, TypeOK, CreatesConfigured, NextSlotWithoutDrift
  <1>2. QED
    BY <1>1, StartKeepsLoop, CollectionKeepsLoop, WakeKeepsLoop DEF Next

\* Agent.run and next_collection_deadline: whatever the interval and however long
\* collections take, an agent waits for the next point of its grid, and skips those
\* that have passed.
THEOREM NextSlotWithoutDriftAlways == Spec => []NextSlotWithoutDrift
  <1>1. Init => LoopInv
    BY LoopInit
  <1>2. LoopInv /\ [Next]_vars => LoopInv'
    BY LoopStep
  <1>3. LoopInv => NextSlotWithoutDrift
    BY DEF LoopInv
  <1>4. QED
    BY <1>1, <1>2, <1>3, PTL DEF Spec

-----------------------------------------------------------------------------
(* The service: the script and its processes *)

Programs == {"RUNNING", "STOPPING", "STOPPED", "EXITED"}
ProcessStates == {"free", "other", "forked", "agent", "stopping"}
Living == {"forked", "agent", "stopping"}

\* The records of a script that runs.
Script ==
    [step: {"boot", "fork", "record", "publish", "abort", "wait", "forget", "clean", "sleep",
            "stopping"},
     agent_pid: Pids \cup {Service!None}, child: Pids \cup {Service!None},
     status: Service!Status \cup {Service!None}, term: {"no", "during", "now"}]

\* The script has a child, for which wait has no status yet.
Owns(w) == w.step # "gone" /\ w.child # Service!None /\ w.status = Service!None

\* Between two of its commands, the script has the PID of its child or no PID.
StepsFit(w) ==
    w.step # "gone" =>
        /\ w.agent_pid # Service!None => w.agent_pid = w.child
        /\ w.step \in {"boot", "fork", "record", "clean", "sleep"}
              => w.agent_pid = Service!None
        /\ w.step \in {"boot", "fork", "sleep"}
              => w.child = Service!None /\ w.status = Service!None
        /\ w.step \in {"record", "publish", "wait", "forget", "abort"} => w.child # Service!None
        /\ w.step \in {"publish", "wait", "forget", "abort"} => w.agent_pid # Service!None
        /\ w.step \in {"forget", "clean"} => w.status # Service!None

\* The script has a signal to handle, or handles it.
Signals(w) == w.step # "gone" /\ (w.term # "no" \/ w.step = "stopping")

\* The trap runs and is going to leave its child: it does not know the PID.
Left(w) == w.step = "stopping" /\ Owns(w) /\ w.agent_pid = Service!None

PartsTyped ==
    /\ running \in BOOLEAN
    /\ program \in Programs
    /\ wrapper \in Service!Wrapper
    /\ process \in [Pids -> ProcessStates]
    /\ pidFile \in Pids \cup {Service!None}
    /\ kills \in 0..MaxKills /\ stops \in 0..MaxStops /\ starts \in 0..MaxStarts
    /\ windows \in Nat

ChildThere == Owns(wrapper) => process[wrapper.child] \in Living
PublishedWaits == wrapper.step = "wait" => pidFile = wrapper.agent_pid
ProgramFits ==
    /\ program \in {"EXITED", "STOPPED"} => wrapper.step = "gone"
    /\ ~running => program = "STOPPED"
    /\ Signals(wrapper) => program = "STOPPING"

\* A child that the trap is going to leave is an orphan already.
OrphansCounted ==
    /\ IsFiniteSet(Service!Orphans)
    /\ Cardinality(Service!Orphans) + (IF Left(wrapper) THEN 1 ELSE 0) <= kills + windows

ServiceInv ==
    /\ PartsTyped
    /\ StepsFit(wrapper)
    /\ ChildThere
    /\ PublishedWaits
    /\ ProgramFits
    /\ OrphansCounted

IsOrphan(w, f, p) == f[p] \in Living /\ ~(Owns(w) /\ w.child = p)

LEMMA OrphansAre ==
    Service!Orphans = {p \in Pids : IsOrphan(wrapper, process, p)}
  BY DEF Service!Orphans, Service!Lives, Service!ChildLives, Service!Exists,
         IsOrphan, Owns, Living

LEMMA WrapperIsScript ==
    ASSUME NEW w \in Service!Wrapper
    PROVE  w.step # "gone" => w \in Script
  BY DEF Service!Wrapper, Service!Gone, Script

LEMMA ScriptIsWrapper ==
    ASSUME NEW w \in Script
    PROVE  w \in Service!Wrapper /\ w.step # "gone"
  BY DEF Service!Wrapper, Script

LEMMA GoneIsWrapper ==
    ASSUME NEW status \in Service!Status
    PROVE  /\ Service!Gone(status) \in Service!Wrapper
           /\ Service!Gone(status).step = "gone"
  BY DEF Service!Wrapper, Service!Gone

\* What a step has to show of the processes it changes: it leaves none behind, or
\* one that is counted.
LEMMA OrphansKeep ==
    ASSUME ServiceInv, NEW w, NEW f, wrapper' = w, process' = f,
           \A p \in Pids : IsOrphan(w, f, p) => IsOrphan(wrapper, process, p),
           Left(w) => Left(wrapper) \/ windows' = windows + 1,
           kills' \in Nat, kills' >= kills, windows' \in Nat, windows' >= windows
    PROVE  OrphansCounted'
  <1>1. PICK S, T : S = Service!Orphans /\ T = {p \in Pids : IsOrphan(w, f, p)}
    OBVIOUS
  <1>2. Service!Orphans' = T
    BY <1>1 DEF Service!Orphans, Service!Lives, Service!ChildLives, Service!Exists,
                IsOrphan, Owns, Living
  <1>3. T \subseteq S
    BY <1>1, OrphansAre
  <1>4. IsFiniteSet(S)
    BY <1>1 DEF ServiceInv, OrphansCounted
  <1>5. /\ IsFiniteSet(T) /\ Cardinality(T) <= Cardinality(S)
        /\ Cardinality(T) \in Nat /\ Cardinality(S) \in Nat
    BY <1>3, <1>4, FS_Subset, FS_CardinalityType
  <1>6. Cardinality(S) + (IF Left(wrapper) THEN 1 ELSE 0) <= kills + windows
    BY <1>1 DEF ServiceInv, OrphansCounted
  <1>7. kills \in Nat /\ windows \in Nat
    BY DEF ServiceInv, PartsTyped
  <1>8. Left(wrapper)' <=> Left(w)
    OBVIOUS
  <1>9. Cardinality(T) + (IF Left(w) THEN 1 ELSE 0) <= kills' + windows'
    BY <1>5, <1>6, <1>7
  <1>10. QED
    BY <1>2, <1>5, <1>8, <1>9 DEF OrphansCounted

LEMMA OneMoreOrphan ==
    ASSUME ServiceInv, NEW w, NEW f, wrapper' = w, process' = f, NEW c,
           \A p \in Pids : IsOrphan(w, f, p) => IsOrphan(wrapper, process, p) \/ p = c,
           ~Left(w), Left(wrapper) \/ kills' = kills + 1,
           kills' \in Nat, kills' >= kills, UNCHANGED windows
    PROVE  OrphansCounted'
  <1>1. PICK S, T, R : /\ S = Service!Orphans /\ R = S \cup {c}
                       /\ T = {p \in Pids : IsOrphan(w, f, p)}
    OBVIOUS
  <1>2. Service!Orphans' = T
    BY <1>1 DEF Service!Orphans, Service!Lives, Service!ChildLives, Service!Exists,
                IsOrphan, Owns, Living
  <1>3. T \subseteq R
    BY <1>1, OrphansAre
  <1>4. IsFiniteSet(S)
    BY <1>1 DEF ServiceInv, OrphansCounted
  <1>5. /\ IsFiniteSet(R) /\ Cardinality(R) <= Cardinality(S) + 1
        /\ Cardinality(S) \in Nat
    <2>1. Cardinality(S) \in Nat
      BY <1>4, FS_CardinalityType
    <2>2. /\ IsFiniteSet(S \cup {c})
          /\ Cardinality(S \cup {c}) = IF c \in S THEN Cardinality(S) ELSE Cardinality(S) + 1
      BY ONLY <1>4, FS_AddElement
    <2>3. Cardinality(S \cup {c}) \in {Cardinality(S), Cardinality(S) + 1}
      BY <2>2
    <2>4. QED
      BY <1>1, <2>1, <2>2, <2>3
  <1>6. /\ IsFiniteSet(T) /\ Cardinality(T) <= Cardinality(R)
        /\ Cardinality(T) \in Nat /\ Cardinality(R) \in Nat
    BY <1>3, <1>5, FS_Subset, FS_CardinalityType
  <1>7. Cardinality(S) + (IF Left(wrapper) THEN 1 ELSE 0) <= kills + windows
    BY <1>1 DEF ServiceInv, OrphansCounted
  <1>8. kills \in Nat /\ windows \in Nat
    BY DEF ServiceInv, PartsTyped
  <1>9. Left(wrapper)' <=> Left(w)
    OBVIOUS
  <1>10. Cardinality(T) <= kills' + windows'
    BY <1>5, <1>6, <1>7, <1>8
  <1>11. QED
    BY <1>2, <1>6, <1>9, <1>10 DEF OrphansCounted

Rest == UNCHANGED <<running, program, kills, stops, starts>>

\* A command that leaves the processes as they are.
LEMMA CommandKeeps ==
    ASSUME ServiceInv, Rest, wrapper.step # "gone", NEW w \in Service!Wrapper, wrapper' = w,
           StepsFit(w), UNCHANGED <<process, windows>>,
           pidFile' \in Pids \cup {Service!None}, w.step = "wait" => pidFile' = w.agent_pid,
           Owns(w) <=> Owns(wrapper), Owns(w) => w.child = wrapper.child,
           Left(w) => Left(wrapper), Signals(w) => Signals(wrapper)
    PROVE  ServiceInv'
  <1>1. PartsTyped'
    BY DEF ServiceInv, PartsTyped, Rest
  <1>2. ChildThere' /\ PublishedWaits' /\ StepsFit(wrapper)'
    BY DEF ServiceInv, ChildThere, PublishedWaits, Owns
  <1>3. ProgramFits'
    BY DEF ServiceInv, ProgramFits, Rest
  <1>4. PICK f : f = process
    OBVIOUS
  <1>5. \A p \in Pids : IsOrphan(w, f, p) => IsOrphan(wrapper, process, p)
    BY <1>4 DEF IsOrphan
  <1>6. kills \in Nat /\ windows \in Nat
    BY DEF ServiceInv, PartsTyped
  <1>7. OrphansCounted'
    BY <1>4, <1>5, <1>6, OrphansKeep DEF Rest
  <1>8. QED
    BY <1>1, <1>2, <1>3, <1>7 DEF ServiceInv

\* Complete changes, of what a command leaves, only the pending signal.
LEMMA Completes ==
    ASSUME NEW step, NEW new \in Script, Service!Complete(step, new)
    PROVE  /\ wrapper.step = step
           /\ \E w \in Script :
                /\ wrapper' = w /\ w.step = new.step /\ w.agent_pid = new.agent_pid
                /\ w.child = new.child /\ w.status = new.status
                /\ w.term = "no" <=> new.term = "no"
  <1>1. PICK w : w = [new EXCEPT !.term = IF @ = "during" THEN "now" ELSE @]
    OBVIOUS
  <1>2. /\ w \in Script /\ w.step = new.step /\ w.agent_pid = new.agent_pid
        /\ w.child = new.child /\ w.status = new.status
        /\ w.term = "no" <=> new.term = "no"
    BY <1>1 DEF Script
  <1>3. QED
    BY <1>1, <1>2 DEF Service!Complete

LEMMA QuietCommands ==
    ASSUME ServiceInv, Rest,
           \/ Service!Boot \/ Service!Record \/ Service!Waited \/ Service!Forget
           \/ Service!EndSleep
    PROVE  ServiceInv'
  <1>1. PICK old : old = wrapper
    OBVIOUS
  <1>2. UNCHANGED <<process, pidFile, windows>>
    BY DEF Service!Boot, Service!Record, Service!Waited, Service!Forget,
           Service!EndSleep, Service!OnlyWrapper
  <1>3. old \in Service!Wrapper /\ StepsFit(old) /\ pidFile \in Pids \cup {Service!None}
    BY <1>1 DEF ServiceInv, PartsTyped
  <1>4. CASE Service!Boot
    <2>1. old \in Script /\ old.step = "boot"
      BY <1>1, <1>3, <1>4, WrapperIsScript DEF Service!Boot, Service!Complete
    <2>2. PICK new : new = [old EXCEPT !.step = "fork"]
      OBVIOUS
    <2>3. /\ new \in Script /\ new.step = "fork" /\ new.agent_pid = old.agent_pid
          /\ new.child = old.child /\ new.status = old.status
          /\ new.term = old.term
      BY <2>1, <2>2 DEF Script
    <2>4. Service!Complete("boot", new)
      BY <1>1, <1>4, <2>2 DEF Service!Boot
    <2>5. PICK w \in Script :
            /\ wrapper' = w /\ w.step = "fork" /\ w.agent_pid = old.agent_pid
            /\ w.child = old.child /\ w.status = old.status
            /\ w.term = "no" <=> old.term = "no"
      BY <2>3, <2>4, Completes
    <2>6. /\ StepsFit(w) /\ (Owns(w) <=> Owns(old)) /\ ~Left(w)
          /\ Signals(w) => Signals(old)
      BY <1>3, <2>1, <2>5 DEF StepsFit, Owns, Left, Signals
    <2>7. QED
      BY <1>1, <1>2, <1>3, <2>1, <2>5, <2>6, CommandKeeps, ScriptIsWrapper
  <1>5. CASE Service!Record
    <2>1. old \in Script /\ old.step = "record"
      BY <1>1, <1>3, <1>5, WrapperIsScript DEF Service!Record, Service!Complete
    <2>2. PICK new : new = [old EXCEPT !.step = "publish", !.agent_pid = old.child]
      OBVIOUS
    <2>3. /\ new \in Script /\ new.step = "publish" /\ new.agent_pid = old.child
          /\ new.child = old.child /\ new.status = old.status
          /\ new.term = old.term
      BY <2>1, <2>2 DEF Script
    <2>4. Service!Complete("record", new)
      BY <1>1, <1>5, <2>2 DEF Service!Record
    <2>5. PICK w \in Script :
            /\ wrapper' = w /\ w.step = "publish" /\ w.agent_pid = old.child
            /\ w.child = old.child /\ w.status = old.status
            /\ w.term = "no" <=> old.term = "no"
      BY <2>3, <2>4, Completes
    <2>6. /\ StepsFit(w) /\ (Owns(w) <=> Owns(old)) /\ ~Left(w)
          /\ Signals(w) => Signals(old)
      BY <1>3, <2>1, <2>5 DEF StepsFit, Owns, Left, Signals
    <2>7. QED
      BY <1>1, <1>2, <1>3, <2>1, <2>5, <2>6, CommandKeeps, ScriptIsWrapper
  <1>6. CASE Service!Waited
    <2>1. old \in Script /\ old.step = "wait" /\ old.status # Service!None
      BY <1>1, <1>3, <1>6, WrapperIsScript DEF Service!Waited, Service!Complete
    <2>2. PICK new : new = [old EXCEPT !.step = "forget"]
      OBVIOUS
    <2>3. /\ new \in Script /\ new.step = "forget" /\ new.agent_pid = old.agent_pid
          /\ new.child = old.child /\ new.status = old.status
          /\ new.term = old.term
      BY <2>1, <2>2 DEF Script
    <2>4. Service!Complete("wait", new)
      BY <1>1, <1>6, <2>2 DEF Service!Waited
    <2>5. PICK w \in Script :
            /\ wrapper' = w /\ w.step = "forget" /\ w.agent_pid = old.agent_pid
            /\ w.child = old.child /\ w.status = old.status
            /\ w.term = "no" <=> old.term = "no"
      BY <2>3, <2>4, Completes
    <2>6. /\ StepsFit(w) /\ (Owns(w) <=> Owns(old)) /\ ~Left(w)
          /\ Signals(w) => Signals(old)
      BY <1>3, <2>1, <2>5 DEF StepsFit, Owns, Left, Signals
    <2>7. QED
      BY <1>1, <1>2, <1>3, <2>1, <2>5, <2>6, CommandKeeps, ScriptIsWrapper
  <1>7. CASE Service!Forget
    <2>1. old \in Script /\ old.step = "forget"
      BY <1>1, <1>3, <1>7, WrapperIsScript DEF Service!Forget, Service!Complete
    <2>2. PICK new : new = [old EXCEPT !.step = "clean", !.agent_pid = Service!None]
      OBVIOUS
    <2>3. /\ new \in Script /\ new.step = "clean" /\ new.agent_pid = Service!None
          /\ new.child = old.child /\ new.status = old.status
          /\ new.term = old.term
      BY <2>1, <2>2 DEF Script
    <2>4. Service!Complete("forget", new)
      BY <1>1, <1>7, <2>2 DEF Service!Forget, Service!Forgotten
    <2>5. PICK w \in Script :
            /\ wrapper' = w /\ w.step = "clean" /\ w.agent_pid = Service!None
            /\ w.child = old.child /\ w.status = old.status
            /\ w.term = "no" <=> old.term = "no"
      BY <2>3, <2>4, Completes
    <2>6. /\ StepsFit(w) /\ (Owns(w) <=> Owns(old)) /\ ~Left(w)
          /\ Signals(w) => Signals(old)
      BY <1>3, <2>1, <2>5 DEF StepsFit, Owns, Left, Signals
    <2>7. QED
      BY <1>1, <1>2, <1>3, <2>1, <2>5, <2>6, CommandKeeps, ScriptIsWrapper
  <1>8. CASE Service!EndSleep
    <2>1. old \in Script /\ old.step = "sleep"
      BY <1>1, <1>3, <1>8, WrapperIsScript DEF Service!EndSleep, Service!Complete
    <2>2. PICK new : new = [old EXCEPT !.step = "fork"]
      OBVIOUS
    <2>3. /\ new \in Script /\ new.step = "fork" /\ new.agent_pid = old.agent_pid
          /\ new.child = old.child /\ new.status = old.status
          /\ new.term = old.term
      BY <2>1, <2>2 DEF Script
    <2>4. Service!Complete("sleep", new)
      BY <1>1, <1>8, <2>2 DEF Service!EndSleep
    <2>5. PICK w \in Script :
            /\ wrapper' = w /\ w.step = "fork" /\ w.agent_pid = old.agent_pid
            /\ w.child = old.child /\ w.status = old.status
            /\ w.term = "no" <=> old.term = "no"
      BY <2>3, <2>4, Completes
    <2>6. /\ StepsFit(w) /\ (Owns(w) <=> Owns(old)) /\ ~Left(w)
          /\ Signals(w) => Signals(old)
      BY <1>3, <2>1, <2>5 DEF StepsFit, Owns, Left, Signals
    <2>7. QED
      BY <1>1, <1>2, <1>3, <2>1, <2>5, <2>6, CommandKeeps, ScriptIsWrapper
  <1>9. QED
    BY <1>4, <1>5, <1>6, <1>7, <1>8

LEMMA ForkKeeps ==
    ASSUME ServiceInv, Rest, Service!Fork
    PROVE  ServiceInv'
  <1>1. PICK old : old = wrapper
    OBVIOUS
  <1>2. old \in Service!Wrapper /\ StepsFit(old) /\ process \in [Pids -> ProcessStates]
    BY <1>1 DEF ServiceInv, PartsTyped
  <1>3. old \in Script /\ old.step = "fork"
    BY <1>1, <1>2, WrapperIsScript DEF Service!Fork, Service!Complete
  <1>4. PICK c \in Pids :
          /\ process[c] = "free"
          /\ process' = [process EXCEPT ![c] = "forked"]
          /\ Service!Complete("fork", [old EXCEPT !.step = "record", !.child = c,
                                                  !.status = Service!None])
          /\ UNCHANGED <<pidFile, windows>>
    BY <1>1 DEF Service!Fork
  <1>5. PICK new : new = [old EXCEPT !.step = "record", !.child = c, !.status = Service!None]
    OBVIOUS
  <1>6. /\ new \in Script /\ new.step = "record" /\ new.agent_pid = old.agent_pid
        /\ new.child = c /\ new.status = Service!None /\ new.term = old.term
    BY <1>3, <1>5 DEF Script
  <1>7. PICK w \in Script :
          /\ wrapper' = w /\ w.step = "record" /\ w.agent_pid = old.agent_pid
          /\ w.child = c /\ w.status = Service!None
          /\ w.term = "no" <=> old.term = "no"
    <2>1. Service!Complete("fork", new)
      BY <1>4, <1>5
    <2>2. QED
      BY <1>6, <2>1, Completes
  <1>8. c # Service!None
    BY ServiceAssumption
  <1>9. StepsFit(w) /\ Owns(w) /\ ~Left(w) /\ ~Owns(old)
    BY <1>2, <1>3, <1>7, <1>8 DEF StepsFit, Owns, Left
  <1>10. PICK f : f = [process EXCEPT ![c] = "forked"]
    OBVIOUS
  <1>11. f[c] = "forked" /\ (\A p \in Pids \ {c} : f[p] = process[p])
         /\ f \in [Pids -> ProcessStates]
    BY <1>2, <1>10 DEF ProcessStates
  <1>12. PartsTyped'
    BY <1>4, <1>7, <1>10, <1>11, ScriptIsWrapper DEF ServiceInv, PartsTyped, Rest
  <1>13. ChildThere' /\ PublishedWaits' /\ StepsFit(wrapper)'
    BY <1>4, <1>7, <1>9, <1>10, <1>11
       DEF ServiceInv, ChildThere, PublishedWaits, Living
  <1>14. ProgramFits'
    BY <1>1, <1>3, <1>7 DEF ServiceInv, ProgramFits, Signals, Rest
  <1>15. \A p \in Pids : IsOrphan(w, f, p) => IsOrphan(wrapper, process, p)
    BY <1>1, <1>7, <1>9, <1>11 DEF IsOrphan
  <1>16. kills \in Nat /\ windows \in Nat
    BY DEF ServiceInv, PartsTyped
  <1>17. OrphansCounted'
    <2>1. kills' \in Nat /\ kills' >= kills /\ windows' \in Nat /\ windows' >= windows
      BY <1>4, <1>16 DEF Rest
    <2>2. wrapper' = w /\ process' = f
      BY <1>4, <1>7, <1>10
    <2>3. QED
      BY <1>9, <1>15, <2>1, <2>2, OrphansKeep
  <1>18. QED
    BY <1>12, <1>13, <1>14, <1>17 DEF ServiceInv

\* kill -TERM reaches the child of the script, or a program that is no agent: whoever
\* is left is no orphan that was not one.
LEMMA Terminates ==
    ASSUME ServiceInv, wrapper.step # "gone",
           NEW step \in {"abort", "stopping"}, Service!Terminate(step)
    PROVE  \E w \in Script, f \in [Pids -> ProcessStates] :
                /\ wrapper' = w /\ process' = f /\ w.step = step
                /\ w.agent_pid = wrapper.agent_pid /\ w.child = wrapper.child
                /\ w.term = wrapper.term
                /\ Owns(w) => Owns(wrapper) /\ f[w.child] \in Living
                /\ \A p \in Pids : IsOrphan(w, f, p) => IsOrphan(wrapper, process, p)
  <1>1. PICK old : old = wrapper
    OBVIOUS
  <1>2. /\ old \in Script /\ StepsFit(old) /\ old.step # "gone"
        /\ process \in [Pids -> ProcessStates]
        /\ Owns(old) => process[old.child] \in Living
    BY <1>1, WrapperIsScript DEF ServiceInv, PartsTyped, ChildThere
  <1>3. PICK next : next = [old EXCEPT !.step = step]
    OBVIOUS
  <1>4. /\ next \in Script /\ next.step = step /\ next.agent_pid = old.agent_pid
        /\ next.child = old.child /\ next.status = old.status /\ next.term = old.term
    BY <1>2, <1>3 DEF Script
  <1>5. CASE old.agent_pid # Service!None /\ Service!ChildLives
    <2>1. /\ process' = Service!Signalled(old.agent_pid)
          /\ wrapper' = Service!ChildSignalled(next)
      BY <1>1, <1>3, <1>5 DEF Service!Terminate
    <2>2. PICK c : c = old.child
      OBVIOUS
    <2>3. c \in Pids /\ old.agent_pid = c /\ Owns(old)
      BY <1>1, <1>2, <1>5, <2>2
         DEF StepsFit, Script, Owns, Service!ChildLives, Service!Exists
    <2>4. CASE process[c] = "forked"
      <3>1. PICK w : w = [next EXCEPT !.status = "failed"]
        OBVIOUS
      <3>2. /\ w \in Script /\ w.step = step /\ w.agent_pid = old.agent_pid
            /\ w.child = c /\ w.status = "failed" /\ w.term = old.term
        BY <1>4, <2>2, <3>1 DEF Script, Service!Status
      <3>3. PICK f : f = [process EXCEPT ![c] = "free"]
        OBVIOUS
      <3>4. f \in [Pids -> ProcessStates] /\ f[c] = "free"
            /\ \A p \in Pids \ {c} : f[p] = process[p]
        BY <1>2, <2>3, <3>3 DEF ProcessStates
      <3>5. wrapper' = w /\ process' = f
        BY <1>2, <1>4, <2>1, <2>2, <2>3, <2>4, <3>1, <3>3
           DEF Service!ChildSignalled, Service!Signalled
      <3>6. ~Owns(w)
        BY <3>2 DEF Owns, Service!None
      <3>7. \A p \in Pids : IsOrphan(w, f, p) => IsOrphan(wrapper, process, p)
        BY <1>1, <2>2, <3>4 DEF IsOrphan, Living
      <3>8. QED
        BY <1>1, <2>2, <3>2, <3>4, <3>5, <3>6, <3>7
    <2>5. CASE process[c] # "forked"
      <3>1. PICK f : f = [process EXCEPT ![c] = "stopping"]
        OBVIOUS
      <3>2. f \in [Pids -> ProcessStates] /\ f[c] = "stopping"
            /\ \A p \in Pids \ {c} : f[p] = process[p]
        BY <1>2, <2>3, <3>1 DEF ProcessStates
      <3>3. wrapper' = next /\ process' = f
        BY <1>2, <1>4, <2>1, <2>2, <2>3, <2>5, <3>1
           DEF Service!ChildSignalled, Service!Signalled
      <3>4. Owns(next)
        BY <1>4, <2>3 DEF Owns
      <3>5. \A p \in Pids : IsOrphan(next, f, p) => IsOrphan(wrapper, process, p)
        BY <1>1, <1>4, <2>2, <3>2, <3>4 DEF IsOrphan
      <3>6. QED
        BY <1>1, <1>4, <2>2, <2>3, <3>2, <3>3, <3>5 DEF Living
    <2>6. QED
      BY <2>4, <2>5
  <1>6. CASE ~(old.agent_pid # Service!None /\ Service!ChildLives)
    <2>1. /\ wrapper' = next
          /\ \/ UNCHANGED process
             \/ \E p \in Pids :
                  process[p] = "other" /\ process' = [process EXCEPT ![p] = "free"]
      BY <1>1, <1>3, <1>6 DEF Service!Terminate
    <2>2. PICK f \in [Pids -> ProcessStates] :
            process' = f /\ \A p \in Pids : f[p] \in Living <=> process[p] \in Living
      <3>1. CASE UNCHANGED process
        BY <1>2, <3>1
      <3>2. ASSUME NEW c \in Pids, process[c] = "other",
                   process' = [process EXCEPT ![c] = "free"]
            PROVE  \E f \in [Pids -> ProcessStates] :
                     process' = f /\ \A p \in Pids : f[p] \in Living <=> process[p] \in Living
        BY <1>2, <3>2 DEF ProcessStates, Living
      <3>3. QED
        BY <2>1, <3>1, <3>2
    <2>3. Owns(next) <=> Owns(old)
      BY <1>2, <1>4 DEF Owns
    <2>4. Owns(old) => old.child \in Pids
      BY <1>2 DEF Owns, Script
    <2>5. \A p \in Pids : IsOrphan(next, f, p) => IsOrphan(wrapper, process, p)
      BY <1>1, <1>4, <2>2, <2>3 DEF IsOrphan
    <2>6. QED
      BY <1>1, <1>2, <1>4, <2>1, <2>2, <2>3, <2>4, <2>5
  <1>7. QED
    BY <1>5, <1>6

LEMMA SignalKeeps ==
    ASSUME ServiceInv, Rest, UNCHANGED pidFile, wrapper.step # "gone",
           NEW w \in Script, NEW f \in [Pids -> ProcessStates],
           wrapper' = w, process' = f, StepsFit(w), w.step \in {"abort", "stopping"},
           Owns(w) => f[w.child] \in Living,
           \A p \in Pids : IsOrphan(w, f, p) => IsOrphan(wrapper, process, p),
           Left(w) => Left(wrapper) \/ windows' = windows + 1,
           Signals(w) => Signals(wrapper),
           windows' \in Nat, windows' >= windows
    PROVE  ServiceInv'
  <1>1. PartsTyped'
    BY ScriptIsWrapper DEF ServiceInv, PartsTyped, Rest
  <1>2. ChildThere' /\ PublishedWaits' /\ StepsFit(wrapper)'
    BY DEF ServiceInv, ChildThere, PublishedWaits
  <1>3. ProgramFits'
    BY DEF ServiceInv, ProgramFits, Rest
  <1>4. kills' \in Nat /\ kills' >= kills
    BY DEF ServiceInv, PartsTyped, Rest
  <1>5. OrphansCounted'
    BY <1>4, OrphansKeep
  <1>6. QED
    BY <1>1, <1>2, <1>3, <1>5 DEF ServiceInv

LEMMA TrapKeeps ==
    ASSUME ServiceInv, Rest, Service!Trap
    PROVE  ServiceInv'
  <1>1. /\ wrapper.step # "gone" /\ wrapper.step # "stopping" /\ UNCHANGED pidFile
        /\ wrapper.term = "now" /\ Service!Terminate("stopping")
        /\ windows' = IF wrapper.step = "record" THEN windows + 1 ELSE windows
    BY DEF Service!Trap, Service!Exists
  <1>2. wrapper \in Script /\ StepsFit(wrapper) /\ windows \in Nat
    BY <1>1, WrapperIsScript DEF ServiceInv, PartsTyped
  <1>3. PICK w \in Script, f \in [Pids -> ProcessStates] :
          /\ wrapper' = w /\ process' = f /\ w.step = "stopping"
          /\ w.agent_pid = wrapper.agent_pid /\ w.child = wrapper.child
          /\ w.term = wrapper.term
          /\ Owns(w) => Owns(wrapper) /\ f[w.child] \in Living
          /\ \A p \in Pids : IsOrphan(w, f, p) => IsOrphan(wrapper, process, p)
    BY <1>1, Terminates
  <1>4. StepsFit(w)
    BY <1>2, <1>3, <1>1 DEF StepsFit
  <1>5. Left(w) => wrapper.step = "record"
    BY <1>1, <1>2, <1>3 DEF Left, Owns, StepsFit, Script
  <1>6. windows' \in Nat /\ windows' >= windows /\ (Left(w) => windows' = windows + 1)
    BY <1>1, <1>2, <1>5
  <1>7. Signals(wrapper)
    BY <1>1 DEF Signals
  <1>8. QED
    BY <1>1, <1>3, <1>4, <1>6, <1>7, SignalKeeps

LEMMA PublishKeeps ==
    ASSUME ServiceInv, Rest, Service!Publish
    PROVE  ServiceInv'
  <1>1. PICK old : old = wrapper
    OBVIOUS
  <1>2. /\ old \in Script /\ StepsFit(old) /\ old.step = "publish" /\ windows \in Nat
        /\ old.agent_pid \in Pids
    BY <1>1, WrapperIsScript
       DEF ServiceInv, PartsTyped, Service!Publish, Service!Complete, StepsFit, Script
  <1>3. CASE Service!Complete("publish", [wrapper EXCEPT !.step = "wait"])
             /\ pidFile' = Service!Published /\ UNCHANGED <<process, windows>>
    <2>1. PICK new : new = [old EXCEPT !.step = "wait"]
      OBVIOUS
    <2>2. /\ new \in Script /\ new.step = "wait" /\ new.agent_pid = old.agent_pid
          /\ new.child = old.child /\ new.status = old.status /\ new.term = old.term
      BY <1>2, <2>1 DEF Script
    <2>3. Service!Complete("publish", new)
      BY <1>1, <1>3, <2>1
    <2>4. PICK w \in Script :
            /\ wrapper' = w /\ w.step = "wait" /\ w.agent_pid = old.agent_pid
            /\ w.child = old.child /\ w.status = old.status
            /\ w.term = "no" <=> old.term = "no"
      BY <2>2, <2>3, Completes
    <2>5. /\ StepsFit(w) /\ (Owns(w) <=> Owns(old)) /\ ~Left(w)
          /\ Signals(w) => Signals(old)
      BY <1>2, <2>4 DEF StepsFit, Owns, Left, Signals
    <2>6. pidFile' = w.agent_pid /\ pidFile' \in Pids
      BY <1>1, <1>2, <1>3, <2>4 DEF Service!Published
    <2>7. UNCHANGED <<process, windows>>
      BY <1>3
    <2>8. QED
      BY <1>1, <1>2, <2>4, <2>5, <2>6, <2>7, CommandKeeps, ScriptIsWrapper
  <1>4. CASE Service!Terminate("abort") /\ UNCHANGED <<pidFile, windows>>
    <2>1. PICK w \in Script, f \in [Pids -> ProcessStates] :
            /\ wrapper' = w /\ process' = f /\ w.step = "abort"
            /\ w.agent_pid = old.agent_pid /\ w.child = old.child
            /\ w.term = old.term
            /\ Owns(w) => Owns(old) /\ f[w.child] \in Living
            /\ \A p \in Pids : IsOrphan(w, f, p) => IsOrphan(wrapper, process, p)
      BY <1>1, <1>2, <1>4, Terminates
    <2>2. StepsFit(w) /\ ~Left(w) /\ (Signals(w) => Signals(old))
      BY <1>2, <2>1 DEF StepsFit, Left, Signals
    <2>3. windows' \in Nat /\ windows' >= windows /\ UNCHANGED pidFile
      BY <1>2, <1>4
    <2>4. QED
      BY <1>1, <1>2, <2>1, <2>2, <2>3, SignalKeeps
  <1>5. QED
    BY <1>3, <1>4 DEF Service!Publish

\* The script ends: it has no child any more, or one that it has left.
LEMMA EndKeeps ==
    ASSUME ServiceInv, Rest, wrapper.step # "gone", NEW status \in Service!Status,
           wrapper' = Service!Gone(status), pidFile' = Service!None,
           UNCHANGED <<process, windows>>, ~Owns(wrapper) \/ Left(wrapper)
    PROVE  ServiceInv'
  <1>1. PICK w : w = Service!Gone(status)
    OBVIOUS
  <1>2. w \in Service!Wrapper /\ w.step = "gone" /\ wrapper' = w
    BY <1>1, GoneIsWrapper
  <1>3. PartsTyped'
    BY <1>2 DEF ServiceInv, PartsTyped, Rest
  <1>4. ChildThere' /\ PublishedWaits' /\ StepsFit(wrapper)' /\ ProgramFits'
    BY <1>2 DEF ServiceInv, ChildThere, PublishedWaits, StepsFit, ProgramFits, Owns, Signals, Rest
  <1>5. ~Owns(w) /\ ~Left(w)
    BY <1>2 DEF Owns, Left
  <1>6. PICK f : f = process
    OBVIOUS
  <1>7. process' = f /\ UNCHANGED <<kills, windows>> /\ kills \in Nat /\ windows \in Nat
    BY <1>6 DEF Rest, ServiceInv, PartsTyped
  <1>8. OrphansCounted'
    <2>1. CASE Owns(wrapper)
      <3>1. PICK c : c = wrapper.child
        OBVIOUS
      <3>2. \A p \in Pids : IsOrphan(w, f, p) => IsOrphan(wrapper, process, p) \/ p = c
        BY <1>6, <3>1 DEF IsOrphan
      <3>3. QED
        BY <1>2, <1>5, <1>7, <2>1, <3>2, OneMoreOrphan
    <2>2. CASE ~Owns(wrapper)
      <3>1. \A p \in Pids : IsOrphan(w, f, p) => IsOrphan(wrapper, process, p)
        BY <1>6, <2>2 DEF IsOrphan
      <3>2. QED
        BY <1>2, <1>5, <1>7, <3>1, OrphansKeep
    <2>3. QED
      BY <2>1, <2>2
  <1>9. QED
    BY <1>3, <1>4, <1>8 DEF ServiceInv

LEMMA EndingsKeep ==
    ASSUME ServiceInv, Rest, Service!Abort \/ Service!CleanUp \/ Service!EndTrap
    PROVE  ServiceInv'
  <1>1. PICK old : old = wrapper
    OBVIOUS
  <1>2. old \in Script /\ StepsFit(old) /\ old.step # "gone"
    BY <1>1, WrapperIsScript
       DEF ServiceInv, PartsTyped, Service!Abort, Service!CleanUp, Service!EndTrap,
           Service!Complete
  <1>3. CASE Service!Abort
    BY <1>3, <1>1, <1>2, EndKeeps DEF Service!Abort, Service!Ends, Owns, Service!Status
  <1>4. CASE Service!EndTrap
    BY <1>4, <1>1, <1>2, EndKeeps
       DEF Service!EndTrap, Service!AgentGone, Service!Ends, Owns, Left, Service!Status
  <1>5. CASE Service!CleanUp
    <2>1. old.step = "clean" /\ ~Owns(old)
      BY <1>1, <1>2, <1>5 DEF Service!CleanUp, Service!Complete, StepsFit, Owns
    <2>2. CASE Service!Final /\ Service!Ends(IF old.status = "failed" THEN "ok" ELSE old.status)
      <3>1. PICK status : status = IF old.status = "failed" THEN "ok" ELSE old.status
        OBVIOUS
      <3>2. status \in Service!Status
        BY <1>1, <2>2, <3>1 DEF Service!Final, Service!Status
      <3>3. /\ wrapper' = Service!Gone(status) /\ pidFile' = Service!None
            /\ UNCHANGED <<process, windows>>
        BY <2>2, <3>1 DEF Service!Ends
      <3>4. QED
        BY <1>1, <1>2, <2>1, <3>2, <3>3, EndKeeps
    <2>3. CASE /\ Service!Complete("clean", [old EXCEPT !.step = "sleep",
                                   !.child = Service!None, !.status = Service!None])
               /\ pidFile' = Service!None
               /\ UNCHANGED <<process, windows>>
      <3>1. PICK new : new = [old EXCEPT !.step = "sleep", !.child = Service!None,
                                         !.status = Service!None]
        OBVIOUS
      <3>2. /\ new \in Script /\ new.step = "sleep" /\ new.agent_pid = old.agent_pid
            /\ new.child = Service!None /\ new.status = Service!None
            /\ new.term = old.term
        BY <1>2, <3>1 DEF Script
      <3>3. Service!Complete("clean", new)
        BY <2>3, <3>1
      <3>4. PICK w \in Script :
              /\ wrapper' = w /\ w.step = "sleep" /\ w.agent_pid = old.agent_pid
              /\ w.child = Service!None /\ w.status = Service!None
              /\ w.term = "no" <=> old.term = "no"
        BY <3>2, <3>3, Completes
      <3>5. StepsFit(w) /\ ~Owns(w) /\ ~Left(w) /\ (Signals(w) => Signals(old))
        BY <1>2, <2>1, <3>4 DEF StepsFit, Owns, Left, Signals
      <3>6. UNCHANGED <<process, windows>> /\ pidFile' = Service!None
        BY <2>3
      <3>7. QED
        BY <1>1, <1>2, <2>1, <3>4, <3>5, <3>6, CommandKeeps, ScriptIsWrapper
    <2>4. QED
      BY <1>1, <1>5, <2>2, <2>3 DEF Service!CleanUp
  <1>6. QED
    BY <1>3, <1>4, <1>5

LEMMA ScriptStepKeeps ==
    ASSUME ServiceInv, Service!WrapperStep
    PROVE  ServiceInv'
  <1>1. Rest
    BY DEF Service!WrapperStep, Rest
  <1>2. QED
    BY <1>1, QuietCommands, ForkKeeps, PublishKeeps, EndingsKeep, TrapKeeps
       DEF Service!WrapperStep

-----------------------------------------------------------------------------
(* The service: the processes, supervisord and the container *)

\* A process changes that is not the child of the script, or the child changes to
\* another of its states, or it ends and the script is told its status.
LEMMA ProcessKeeps ==
    ASSUME ServiceInv, UNCHANGED <<running, program, pidFile, kills, stops, starts, windows>>,
           NEW w \in Service!Wrapper, NEW f \in [Pids -> ProcessStates],
           wrapper' = w, process' = f, StepsFit(w),
           w.step = wrapper.step,
           w.step = "wait" => w.agent_pid = wrapper.agent_pid,
           Owns(w) => f[w.child] \in Living,
           \A p \in Pids : IsOrphan(w, f, p) => IsOrphan(wrapper, process, p),
           Left(w) => Left(wrapper), w.term = wrapper.term
    PROVE  ServiceInv'
  <1>1. PartsTyped'
    BY DEF ServiceInv, PartsTyped
  <1>2. ChildThere' /\ PublishedWaits' /\ StepsFit(wrapper)' /\ ProgramFits'
    BY DEF ServiceInv, ChildThere, PublishedWaits, ProgramFits, Signals
  <1>3. kills' \in Nat /\ kills' >= kills /\ windows' \in Nat /\ windows' >= windows
    BY DEF ServiceInv, PartsTyped
  <1>4. OrphansCounted'
    BY <1>3, OrphansKeep
  <1>5. QED
    BY <1>1, <1>2, <1>4 DEF ServiceInv

LEMMA ProcessStepKeeps ==
    ASSUME ServiceInv, Service!ProcessStep \/ Service!OtherEnds
    PROVE  ServiceInv'
  <1>1. UNCHANGED <<running, program, pidFile, kills, stops, starts, windows>>
    BY DEF Service!ProcessStep, Service!OtherEnds, Service!bounds
  <1>2. PICK old : old = wrapper
    OBVIOUS
  <1>3. /\ old \in Service!Wrapper /\ StepsFit(old) /\ process \in [Pids -> ProcessStates]
        /\ Owns(old) => process[old.child] \in Living
    BY <1>2 DEF ServiceInv, PartsTyped, ChildThere
  <1>4. ASSUME NEW c \in Pids, NEW next \in ProcessStates,
               process' = [process EXCEPT ![c] = next], UNCHANGED wrapper,
               process[c] \in Living <=> next \in Living
        PROVE  ServiceInv'
    <2>1. PICK f : f = [process EXCEPT ![c] = next]
      OBVIOUS
    <2>2. /\ f \in [Pids -> ProcessStates]
          /\ \A p \in Pids : f[p] \in Living <=> process[p] \in Living
      BY <1>3, <1>4, <2>1
    <2>3. \A p \in Pids : IsOrphan(old, f, p) => IsOrphan(wrapper, process, p)
      BY <1>2, <2>2 DEF IsOrphan
    <2>4. Owns(old) => old.child \in Pids
      BY <1>3, WrapperIsScript DEF Owns, Script
    <2>5. Owns(old) => f[old.child] \in Living
      BY <1>3, <2>2, <2>4
    <2>6. wrapper' = old /\ process' = f
      BY <1>2, <1>4, <2>1
    <2>7. QED
      BY <1>1, <1>2, <1>3, <2>2, <2>3, <2>5, <2>6, ProcessKeeps
  <1>5. ASSUME NEW c \in Pids, Service!AgentEnds(c)
        PROVE  ServiceInv'
    <2>1. PICK status \in Service!Status :
            wrapper' = IF Service!ChildLives /\ old.child = c
                       THEN [old EXCEPT !.status = status] ELSE old
      BY <1>2, <1>5 DEF Service!AgentEnds
    <2>2. PICK f : f = [process EXCEPT ![c] = "free"]
      OBVIOUS
    <2>3. /\ f \in [Pids -> ProcessStates] /\ f[c] = "free"
          /\ \A p \in Pids \ {c} : f[p] = process[p]
      BY <1>3, <2>2 DEF ProcessStates
    <2>4. process' = f
      BY <1>5, <2>2 DEF Service!AgentEnds
    <2>5. status # Service!None
      BY DEF Service!Status, Service!None
    <2>6. CASE Service!ChildLives /\ old.child = c
      <3>1. old \in Script
        BY <1>2, <1>3, <2>6, WrapperIsScript DEF Service!ChildLives, Service!Exists
      <3>2. PICK w : w = [old EXCEPT !.status = status]
        OBVIOUS
      <3>3. /\ w \in Script /\ w.step = old.step /\ w.agent_pid = old.agent_pid
            /\ w.child = c /\ w.status = status /\ w.term = old.term
        BY <2>6, <3>1, <3>2 DEF Script
      <3>4. ~Owns(w) /\ ~Left(w)
        BY <2>5, <3>3 DEF Owns, Left
      <3>5. StepsFit(w)
        BY <1>2, <1>3, <2>5, <2>6, <3>3 DEF StepsFit, Service!ChildLives
      <3>6. \A p \in Pids : IsOrphan(w, f, p) => IsOrphan(wrapper, process, p)
        BY <1>2, <2>3, <2>6 DEF IsOrphan, Living
      <3>7. wrapper' = w
        BY <2>1, <2>6, <3>2
      <3>8. w \in Service!Wrapper
        BY <3>3, ScriptIsWrapper
      <3>9. QED
        BY <1>1, <1>2, <2>3, <2>4, <3>3, <3>4, <3>5, <3>6, <3>7, <3>8, ProcessKeeps
    <2>7. CASE ~(Service!ChildLives /\ old.child = c)
      <3>1. wrapper' = old
        BY <2>1, <2>7
      <3>2. Owns(old) => old.child \in Pids /\ old.child # c
        BY <1>2, <1>3, <2>7, WrapperIsScript
           DEF Owns, Script, Service!ChildLives, Service!Exists
      <3>3. Owns(old) => f[old.child] \in Living
        BY <1>3, <2>3, <3>2
      <3>4. \A p \in Pids : IsOrphan(old, f, p) => IsOrphan(wrapper, process, p)
        BY <1>2, <2>3 DEF IsOrphan, Living
      <3>5. QED
        BY <1>1, <1>2, <1>3, <2>3, <2>4, <3>1, <3>3, <3>4, ProcessKeeps
    <2>8. QED
      BY <2>6, <2>7
  <1>6. ASSUME NEW c \in Pids, Service!Exec(c) \/ Service!OtherStarts(c)
        PROVE  ServiceInv'
    BY <1>4, <1>6 DEF Service!Exec, Service!OtherStarts, Living, ProcessStates
  <1>7. ASSUME Service!OtherEnds
        PROVE  ServiceInv'
    BY <1>4, <1>7 DEF Service!OtherEnds, Living, ProcessStates
  <1>8. QED
    BY <1>5, <1>6, <1>7 DEF Service!ProcessStep

\* The script is gone and has no child that lives, or a child that is counted.
LEMMA GoneKeeps ==
    ASSUME ServiceInv, NEW status \in Service!Status, wrapper' = Service!Gone(status),
           NEW f \in [Pids -> ProcessStates], process' = f,
           UNCHANGED <<pidFile, starts, windows>>, stops' \in 0..MaxStops,
           running' \in BOOLEAN, program' \in Programs,
           ~running' => program' = "STOPPED",
           kills' \in 0..MaxKills, kills' >= kills,
           \A p \in Pids : f[p] \in Living => process[p] \in Living,
           (Owns(wrapper) => f[wrapper.child] \notin Living) \/ kills' = kills + 1
    PROVE  ServiceInv'
  <1>1. PICK w : w = Service!Gone(status)
    OBVIOUS
  <1>2. w \in Service!Wrapper /\ w.step = "gone" /\ wrapper' = w
    BY <1>1, GoneIsWrapper
  <1>3. PartsTyped'
    BY <1>2 DEF ServiceInv, PartsTyped
  <1>4. ChildThere' /\ PublishedWaits' /\ StepsFit(wrapper)' /\ ProgramFits'
    BY <1>2 DEF ServiceInv, ChildThere, PublishedWaits, StepsFit, ProgramFits, Owns, Signals
  <1>5. ~Owns(w) /\ ~Left(w)
    BY <1>2 DEF Owns, Left
  <1>6. kills' \in Nat /\ windows' \in Nat /\ windows' >= windows
    BY DEF ServiceInv, PartsTyped
  <1>7. OrphansCounted'
    <2>1. CASE Owns(wrapper) => f[wrapper.child] \notin Living
      <3>1. \A p \in Pids : IsOrphan(w, f, p) => IsOrphan(wrapper, process, p)
        BY <2>1 DEF IsOrphan
      <3>2. QED
        BY <1>2, <1>5, <1>6, <3>1, OrphansKeep
    <2>2. CASE Owns(wrapper) /\ kills' = kills + 1
      <3>1. PICK c : c = wrapper.child
        OBVIOUS
      <3>2. \A p \in Pids : IsOrphan(w, f, p) => IsOrphan(wrapper, process, p) \/ p = c
        BY <3>1 DEF IsOrphan
      <3>3. UNCHANGED windows
        OBVIOUS
      <3>4. QED
        BY <1>2, <1>5, <1>6, <2>2, <3>2, <3>3, OneMoreOrphan
    <2>3. QED
      BY <2>1, <2>2
  <1>8. QED
    BY <1>3, <1>4, <1>7 DEF ServiceInv

\* supervisord starts the script, when there is none.
LEMMA FreshKeeps ==
    ASSUME ServiceInv, wrapper.step = "gone", wrapper' = Service!Fresh,
           program' = "RUNNING", running' = TRUE, UNCHANGED <<process, kills, stops, windows>>,
           pidFile' \in Pids \cup {Service!None}, starts' \in 0..MaxStarts
    PROVE  ServiceInv'
  <1>1. PICK w : w = Service!Fresh
    OBVIOUS
  <1>2. /\ w \in Script /\ w.step = "boot" /\ w.agent_pid = Service!None
        /\ w.child = Service!None /\ w.status = Service!None /\ w.term = "no"
    BY <1>1 DEF Service!Fresh, Script
  <1>3. StepsFit(w) /\ ~Owns(w) /\ ~Left(w) /\ ~Owns(wrapper)
    BY <1>2 DEF StepsFit, Owns, Left
  <1>4. PartsTyped'
    BY <1>1, <1>2, ScriptIsWrapper DEF ServiceInv, PartsTyped, Programs
  <1>5. ChildThere' /\ PublishedWaits' /\ StepsFit(wrapper)' /\ ProgramFits'
    BY <1>1, <1>2, <1>3 DEF ChildThere, PublishedWaits, ProgramFits, Signals
  <1>6. PICK f : f = process
    OBVIOUS
  <1>7. \A p \in Pids : IsOrphan(w, f, p) => IsOrphan(wrapper, process, p)
    BY <1>3, <1>6 DEF IsOrphan
  <1>8. kills' \in Nat /\ kills' >= kills /\ windows' \in Nat /\ windows' >= windows
    BY DEF ServiceInv, PartsTyped
  <1>9. OrphansCounted'
    BY <1>1, <1>3, <1>6, <1>7, <1>8, OrphansKeep
  <1>10. QED
    BY <1>4, <1>5, <1>9 DEF ServiceInv

LEMMA SupervisorKeeps ==
    ASSUME ServiceInv,
           \/ Service!KillWrapper \/ Service!KillGroup \/ Service!Supervise
           \/ Service!Start \/ Service!ContainerEnds \/ Service!ContainerStarts
    PROVE  ServiceInv'
  <1>1. /\ process \in [Pids -> ProcessStates] /\ kills \in 0..MaxKills
        /\ stops \in 0..MaxStops /\ starts \in 0..MaxStarts
        /\ running \in BOOLEAN /\ program \in Programs
        /\ pidFile \in Pids \cup {Service!None} /\ wrapper \in Service!Wrapper
    BY DEF ServiceInv, PartsTyped
  <1>2. ProgramFits
    BY DEF ServiceInv
  <1>3. "failed" \in Service!Status
    BY DEF Service!Status
  <1>4. CASE Service!KillWrapper
    <2>1. /\ wrapper.step # "gone" /\ kills' = kills + 1
          /\ wrapper' = Service!Gone("failed")
          /\ UNCHANGED <<running, program, process, pidFile, stops, starts, windows>>
          /\ kills < MaxKills
      BY <1>4 DEF Service!KillWrapper, Service!Exists
    <2>2. kills' \in 0..MaxKills /\ kills' >= kills
      BY <1>1, <2>1, ServiceAssumption
    <2>3. PICK f : f = process
      OBVIOUS
    <2>4. ~running' => program' = "STOPPED"
      BY <1>2, <2>1 DEF ProgramFits
    <2>5. QED
      BY <1>1, <1>3, <2>1, <2>2, <2>3, <2>4, GoneKeeps
  <1>5. CASE Service!KillGroup
    <2>1. PICK f : f = [p \in Pids |-> IF p \in Service!Killed THEN "free" ELSE process[p]]
      OBVIOUS
    <2>2. /\ wrapper' = Service!Gone("failed") /\ process' = f
          /\ UNCHANGED <<running, program, pidFile, kills, stops, starts, windows>>
      BY <1>5, <2>1 DEF Service!KillGroup, Service!bounds
    <2>3. /\ f \in [Pids -> ProcessStates]
          /\ \A p \in Pids : f[p] \in Living => process[p] \in Living
      BY <1>1, <2>1 DEF ProcessStates, Living
    <2>4. Owns(wrapper) => f[wrapper.child] \notin Living
      <3> SUFFICES ASSUME Owns(wrapper)
                   PROVE  f[wrapper.child] \notin Living
        OBVIOUS
      <3>1. wrapper.child \in Pids
        BY <1>1, WrapperIsScript DEF Owns, Script
      <3>2. wrapper.child \in Service!Killed
        BY DEF Owns, Service!Killed, Service!ChildLives, Service!Exists
      <3>3. QED
        BY <2>1, <3>1, <3>2 DEF Living
    <2>5. ~running' => program' = "STOPPED"
      BY <1>2, <2>2 DEF ProgramFits
    <2>6. kills' \in 0..MaxKills /\ kills' >= kills
      BY <1>1, <2>2, ServiceAssumption
    <2>7. QED
      BY <1>1, <1>3, <2>2, <2>3, <2>4, <2>5, <2>6, GoneKeeps
  <1>6. CASE Service!Reap
    <2>1. /\ wrapper.step = "gone" /\ program' \in {"STOPPED", "EXITED"}
          /\ program \in {"RUNNING", "STOPPING"}
          /\ UNCHANGED <<running, wrapper, process, pidFile, kills, stops, starts, windows>>
      BY <1>6 DEF Service!Reap, Service!bounds, Service!Exists
    <2>2. PartsTyped'
      BY <2>1 DEF ServiceInv, PartsTyped, Programs
    <2>3. ProgramFits'
      BY <1>2, <2>1 DEF ProgramFits, Signals
    <2>4. ChildThere' /\ PublishedWaits' /\ StepsFit(wrapper)'
      BY <2>1 DEF ServiceInv, ChildThere, PublishedWaits
    <2>5. OrphansCounted'
      BY <2>1 DEF ServiceInv, OrphansCounted, Service!Orphans, Service!Lives,
                  Service!ChildLives, Service!Exists
    <2>6. QED
      BY <2>2, <2>3, <2>4, <2>5 DEF ServiceInv
  <1>7. CASE Service!Respawn \/ Service!Start
    <2>1. /\ program \in {"STOPPED", "EXITED"} /\ running = TRUE
          /\ program' = "RUNNING" /\ wrapper' = Service!Fresh
          /\ UNCHANGED <<running, process, pidFile, kills, stops, windows>>
          /\ starts' = starts \/ (starts < MaxStarts /\ starts' = starts + 1)
      BY <1>1, <1>2, <1>7 DEF Service!Respawn, Service!Start, Service!Spawn, ProgramFits
    <2>2. wrapper.step = "gone" /\ running' = TRUE
      BY <1>2, <2>1 DEF ProgramFits
    <2>3. starts' \in 0..MaxStarts
      BY <1>1, <2>1, ServiceAssumption
    <2>4. QED
      BY <1>1, <2>1, <2>2, <2>3, FreshKeeps
  <1>8. CASE Service!ContainerEnds
    <2>1. PICK f : f = [p \in Pids |-> "free"]
      OBVIOUS
    <2>2. /\ wrapper' = Service!Gone("failed") /\ process' = f
          /\ UNCHANGED <<pidFile, kills, stops, starts, windows>>
          /\ running' = FALSE /\ program' = "STOPPED"
      BY <1>8, <2>1 DEF Service!ContainerEnds, Service!bounds
    <2>3. f \in [Pids -> ProcessStates] /\ \A p \in Pids : f[p] \notin Living
      BY <2>1 DEF ProcessStates, Living
    <2>4. Owns(wrapper) => f[wrapper.child] \notin Living
      BY <1>1, <2>3, WrapperIsScript DEF Owns, Script
    <2>5. kills' \in 0..MaxKills /\ kills' >= kills
      BY <1>1, <2>2, ServiceAssumption
    <2>6. /\ program' \in Programs /\ running' \in BOOLEAN /\ stops' \in 0..MaxStops
          /\ ~running' => program' = "STOPPED"
      BY <1>1, <2>2 DEF Programs
    <2>7. UNCHANGED <<pidFile, starts, windows>>
      BY <2>2
    <2>8. QED
      BY <1>3, <2>2, <2>3, <2>4, <2>5, <2>6, <2>7, GoneKeeps
  <1>9. CASE Service!ContainerStarts
    <2>1. /\ ~running /\ running' = TRUE /\ pidFile' = Service!None
          /\ program' = "RUNNING" /\ wrapper' = Service!Fresh
          /\ UNCHANGED <<process, kills, stops, starts, windows>>
      BY <1>9 DEF Service!ContainerStarts, Service!bounds
    <2>2. wrapper.step = "gone"
      BY <1>2, <2>1 DEF ProgramFits
    <2>3. QED
      BY <1>1, <2>1, <2>2, FreshKeeps
  <1>10. QED
    BY <1>4, <1>5, <1>6, <1>7, <1>8, <1>9 DEF Service!Supervise

LEMMA StopKeeps ==
    ASSUME ServiceInv, Service!Stop
    PROVE  ServiceInv'
  <1>1. PICK old : old = wrapper
    OBVIOUS
  <1>2. /\ old \in Script /\ StepsFit(old) /\ old.step # "gone"
        /\ process \in [Pids -> ProcessStates]
        /\ Owns(old) <=> Service!ChildLives
        /\ Owns(old) => process[old.child] \in Living
    BY <1>1, WrapperIsScript
       DEF ServiceInv, PartsTyped, ChildThere, Service!Stop, Service!Exists,
           Service!ChildLives, Owns
  <1>3. /\ running' \in BOOLEAN /\ program' = "STOPPING" /\ program' \in Programs
        /\ running' /\ stops' \in 0..MaxStops
        /\ UNCHANGED <<pidFile, kills, starts, windows>>
        /\ kills \in 0..MaxKills /\ kills \in Nat /\ windows \in Nat
    BY ServiceAssumption DEF Service!Stop, ServiceInv, PartsTyped, ProgramFits, Programs
  <1>4. CASE old.step = "boot"
    <2>1. ~Owns(old)
      BY <1>2, <1>4 DEF StepsFit, Owns
    <2>2. wrapper' = Service!Gone("failed") /\ process' = process
      BY <1>1, <1>2, <1>4, <2>1 DEF Service!Stop
    <2>3. "failed" \in Service!Status
      BY DEF Service!Status
    <2>4. PICK f : f = process
      OBVIOUS
    <2>5. kills' \in 0..MaxKills /\ kills' >= kills
      BY <1>3
    <2>6. QED
      BY <1>1, <1>2, <1>3, <2>1, <2>2, <2>3, <2>4, <2>5, GoneKeeps
  <1>5. CASE old.step # "boot"
    <2>1. PICK term \in {"during", "now"} :
            wrapper' = [(IF Service!ChildLives THEN Service!ChildSignalled(old) ELSE old)
                          EXCEPT !.term = term]
      BY <1>1, <1>5 DEF Service!Stop
    <2>2. process' = IF Service!ChildLives THEN Service!Signalled(old.child) ELSE process
      BY <1>1 DEF Service!Stop
    <2>3. PICK c : c = old.child
      OBVIOUS
    <2>4. Owns(old) => c \in Pids
      BY <1>2, <2>3 DEF Owns, Script
    <2>5. ASSUME NEW w \in Script, NEW f \in [Pids -> ProcessStates],
                 wrapper' = w, process' = f, w.step = old.step,
                 w.agent_pid = old.agent_pid, w.child = old.child,
                 w.status = old.status \/ (Owns(old) /\ w.status = "failed"),
                 Owns(w) => Owns(old) /\ f[c] \in Living,
                 \A p \in Pids : IsOrphan(w, f, p) => IsOrphan(wrapper, process, p)
          PROVE  ServiceInv'
      <3>1. StepsFit(w)
        BY <1>2, <2>5 DEF StepsFit, Owns
      <3>2. Left(w) => Left(wrapper)
        BY <1>1, <2>5 DEF Left
      <3>3. PartsTyped'
        BY <1>3, <2>5, ScriptIsWrapper DEF ServiceInv, PartsTyped
      <3>4. ChildThere' /\ StepsFit(wrapper)' /\ ProgramFits'
        BY <1>3, <2>3, <2>5, <3>1 DEF ChildThere, ProgramFits
      <3>5. PublishedWaits'
        BY <1>1, <1>3, <2>5 DEF ServiceInv, PublishedWaits
      <3>6. OrphansCounted'
        <4>1. kills' \in Nat /\ kills' >= kills /\ windows' \in Nat /\ windows' >= windows
          BY <1>3
        <4>2. QED
          BY <2>5, <3>2, <4>1, OrphansKeep
      <3>7. QED
        BY <3>1, <3>3, <3>4, <3>5, <3>6 DEF ServiceInv
    <2>6. CASE ~Owns(old)
      <3>1. PICK w : w = [old EXCEPT !.term = term]
        OBVIOUS
      <3>2. /\ w \in Script /\ w.step = old.step /\ w.agent_pid = old.agent_pid
            /\ w.child = old.child /\ w.status = old.status
        BY <1>2, <3>1 DEF Script
      <3>3. ~Owns(w)
        BY <2>6, <3>2 DEF Owns
      <3>4. PICK f : f = process
        OBVIOUS
      <3>5. wrapper' = w /\ process' = f
        BY <1>2, <2>1, <2>2, <2>6, <3>1, <3>4
      <3>6. \A p \in Pids : IsOrphan(w, f, p) => IsOrphan(wrapper, process, p)
        BY <1>1, <2>6, <3>3, <3>4 DEF IsOrphan
      <3>7. f \in [Pids -> ProcessStates]
        BY <1>2, <3>4
      <3>8. QED
        BY <2>5, <3>2, <3>3, <3>5, <3>6, <3>7
    <2>7. CASE Owns(old) /\ process[c] = "forked"
      <3>1. PICK w : w = [[old EXCEPT !.status = "failed"] EXCEPT !.term = term]
        OBVIOUS
      <3>2. /\ w \in Script /\ w.step = old.step /\ w.agent_pid = old.agent_pid
            /\ w.child = old.child /\ w.status = "failed"
        BY <1>2, <3>1 DEF Script, Service!Status
      <3>3. ~Owns(w)
        BY <3>2 DEF Owns, Service!None
      <3>4. PICK f : f = [process EXCEPT ![c] = "free"]
        OBVIOUS
      <3>5. f \in [Pids -> ProcessStates] /\ f[c] = "free"
            /\ \A p \in Pids \ {c} : f[p] = process[p]
        BY <1>2, <2>4, <2>7, <3>4 DEF ProcessStates
      <3>6. wrapper' = w
        BY <1>2, <2>1, <2>3, <2>7, <3>1 DEF Service!ChildSignalled
      <3>7. process' = f
        BY <1>2, <2>2, <2>3, <2>4, <2>7, <3>4 DEF Service!Signalled
      <3>8. \A p \in Pids : IsOrphan(w, f, p) => IsOrphan(wrapper, process, p)
        BY <1>1, <2>3, <3>5 DEF IsOrphan, Living
      <3>9. QED
        BY <2>5, <2>7, <3>2, <3>3, <3>5, <3>6, <3>7, <3>8
    <2>8. CASE Owns(old) /\ process[c] # "forked"
      <3>1. PICK w : w = [old EXCEPT !.term = term]
        OBVIOUS
      <3>2. /\ w \in Script /\ w.step = old.step /\ w.agent_pid = old.agent_pid
            /\ w.child = old.child /\ w.status = old.status
        BY <1>2, <3>1 DEF Script
      <3>3. Owns(w)
        BY <2>8, <3>2 DEF Owns
      <3>4. PICK f : f = [process EXCEPT ![c] = "stopping"]
        OBVIOUS
      <3>5. f \in [Pids -> ProcessStates] /\ f[c] = "stopping"
            /\ \A p \in Pids \ {c} : f[p] = process[p]
        BY <1>2, <2>4, <2>8, <3>4 DEF ProcessStates
      <3>6. wrapper' = w
        BY <1>2, <2>1, <2>3, <2>8, <3>1 DEF Service!ChildSignalled
      <3>7. process' = f
        BY <1>2, <2>2, <2>3, <2>4, <2>8, <3>4 DEF Service!Signalled
      <3>8. \A p \in Pids : IsOrphan(w, f, p) => IsOrphan(wrapper, process, p)
        BY <1>1, <2>3, <3>2, <3>3, <3>5 DEF IsOrphan
      <3>9. QED
        BY <2>5, <2>8, <3>2, <3>5, <3>6, <3>7, <3>8 DEF Living
    <2>9. QED
      BY <2>6, <2>7, <2>8
  <1>6. QED
    BY <1>4, <1>5

LEMMA ServiceInit ==
    ASSUME Service!Init
    PROVE  ServiceInv
  <1>1. wrapper \in Service!Wrapper /\ wrapper.step = "gone"
    <2>1. "failed" \in Service!Status
      BY DEF Service!Status
    <2>2. QED
      BY <2>1, GoneIsWrapper DEF Service!Init
  <1>2. PartsTyped
    <2>1. /\ running \in BOOLEAN /\ program \in Programs
          /\ process \in [Pids -> ProcessStates]
          /\ pidFile \in Pids \cup {Service!None}
      BY DEF Service!Init, Programs, ProcessStates
    <2>2. /\ kills \in 0..MaxKills /\ stops \in 0..MaxStops /\ starts \in 0..MaxStarts
          /\ windows \in Nat
      BY ServiceAssumption DEF Service!Init
    <2>3. QED
      BY <1>1, <2>1, <2>2 DEF PartsTyped
  <1>3. Service!Orphans = {}
    BY DEF Service!Init, Service!Orphans, Service!Lives
  <1>4. OrphansCounted
    BY <1>1, <1>3, FS_EmptySet DEF OrphansCounted, Left, Service!Init
  <1>5. QED
    BY <1>1, <1>2, <1>4
       DEF ServiceInv, StepsFit, ChildThere, PublishedWaits, ProgramFits, Owns, Signals,
           Service!Init

LEMMA ServiceStep ==
    ASSUME ServiceInv, [Service!Next]_(Service!vars)
    PROVE  ServiceInv'
  <1>1. ASSUME UNCHANGED <<running, program, wrapper, process, pidFile,
                           kills, stops, starts, windows>>
        PROVE  ServiceInv'
    BY <1>1 DEF ServiceInv, PartsTyped, ChildThere, PublishedWaits, ProgramFits,
                OrphansCounted, Service!Orphans, Service!Lives, Service!ChildLives,
                Service!Exists
  <1>2. CASE Service!CheckStep \/ Service!CheckBegins \/ UNCHANGED Service!vars
    BY <1>1, <1>2 DEF Service!CheckStep, Service!CheckBegins, Service!vars,
                      Service!service, Service!bounds
  <1>3. QED
    BY <1>2, ScriptStepKeeps, ProcessStepKeeps, SupervisorKeeps, StopKeeps
       DEF Service!Next

LEMMA ServiceInvariant == Service!Spec => []ServiceInv
  <1>1. Service!Init => ServiceInv
    BY ServiceInit
  <1>2. ServiceInv /\ [Service!Next]_(Service!vars) => ServiceInv'
    BY ServiceStep
  <1>3. QED
    BY <1>1, <1>2, PTL DEF Service!Spec

LEMMA SameCardinality ==
    ASSUME NEW S
    PROVE  Service!Cardinality(S) = Cardinality(S)
  BY DEF Service!Cardinality, Cardinality

\* run_agent_service.sh, whatever is signalled or killed when: every agent without its
\* script is one whose script was killed from outside, or was signalled between the
\* fork and agent_pid=$!.
THEOREM OrphansNeedKillOrWindowAlways == Service!Spec => []OrphansNeedKillOrWindow
  <1>1. ServiceInv => OrphansNeedKillOrWindow
    <2> SUFFICES ASSUME ServiceInv
                 PROVE  Cardinality(Service!Orphans) <= kills + windows
      BY SameCardinality DEF OrphansNeedKillOrWindow, Service!OrphansNeedKillOrWindow
    <2>1. PICK S : S = Service!Orphans
      OBVIOUS
    <2>2. IsFiniteSet(S) /\ kills \in Nat /\ windows \in Nat
          /\ Cardinality(S) + (IF Left(wrapper) THEN 1 ELSE 0) <= kills + windows
      BY <2>1 DEF ServiceInv, OrphansCounted, PartsTyped
    <2>3. Cardinality(S) \in Nat
      BY <2>2, FS_CardinalityType
    <2>4. QED
      BY <2>1, <2>2, <2>3
  <1>2. QED
    BY <1>1, ServiceInvariant, PTL

-----------------------------------------------------------------------------
(* The service: a configuration that is refused *)

LEMMA RefusedStays ==
    ASSUME ServiceInv, [Service!Next]_(Service!vars)
    PROVE  Service!StaysRefused
  <1> SUFFICES ASSUME Service!Refused, ~Service!Refused', UNCHANGED starts,
                      running, running', program # "STOPPING", UNCHANGED kills,
                      wrapper.step # "abort"
               PROVE  FALSE
    BY DEF Service!StaysRefused
  <1>1. PICK old : old = wrapper
    OBVIOUS
  <1>2. old \in Service!Wrapper /\ StepsFit(old)
    BY <1>1 DEF ServiceInv, PartsTyped
  <1>3. CASE old.step # "gone"
    <2>1. old \in Script /\ old.status = "config" /\ "config" # Service!None
      BY <1>1, <1>2, <1>3, WrapperIsScript
         DEF Service!Refused, Service!Exists, Service!None
    <2>2. /\ old.step \notin {"boot", "fork", "sleep"} /\ ~Service!ChildLives
          /\ Service!Final
      BY <1>1, <1>2, <1>3, <2>1
         DEF StepsFit, Service!ChildLives, Service!Final
    <2>3. ASSUME NEW w \in Script, wrapper' = w, w.status = "config"
          PROVE  FALSE
      BY <2>3, ScriptIsWrapper DEF Service!Refused, Service!Exists
    <2>4. UNCHANGED wrapper => FALSE
      BY <1>1, <2>1, <2>3
    <2>5. ASSUME NEW step, NEW new \in Script, new.status = "config",
                 Service!Complete(step, new)
          PROVE  FALSE
      BY <2>3, <2>5, Completes
    <2>6. ~Signals(old)
      BY <1>1 DEF ServiceInv, ProgramFits
    <2>7. ASSUME NEW step \in {"abort", "stopping"}, Service!Terminate(step)
          PROVE  FALSE
      <3>1. wrapper' = [old EXCEPT !.step = step]
        BY <1>1, <2>2, <2>7 DEF Service!Terminate
      <3>2. [old EXCEPT !.step = step] \in Script
        BY <2>1 DEF Script
      <3>3. QED
        BY <2>1, <2>3, <3>1, <3>2 DEF Script
    <2>8. CASE Service!WrapperStep
      <3>1. CASE Service!Record
        <4>1. [old EXCEPT !.step = "publish", !.agent_pid = old.child] \in Script
          BY <2>1 DEF Script
        <4>2. QED
          BY <1>1, <2>1, <2>5, <3>1, <4>1 DEF Service!Record, Script
      <3>2. CASE Service!Waited
        <4>1. [old EXCEPT !.step = "forget"] \in Script
          BY <2>1 DEF Script
        <4>2. QED
          BY <1>1, <2>1, <2>5, <3>2, <4>1 DEF Service!Waited, Script
      <3>3. CASE Service!Forget
        <4>1. [old EXCEPT !.step = "clean", !.agent_pid = Service!None] \in Script
          BY <2>1 DEF Script
        <4>2. QED
          BY <1>1, <2>1, <2>5, <3>3, <4>1 DEF Service!Forget, Service!Forgotten, Script
      <3>4. CASE Service!Publish
        <4>1. [old EXCEPT !.step = "wait"] \in Script
          BY <2>1 DEF Script
        <4>2. QED
          BY <1>1, <2>1, <2>5, <2>7, <3>4, <4>1 DEF Service!Publish, Script
      <3>5. CASE Service!Boot \/ Service!Fork \/ Service!EndSleep
        BY <1>1, <2>2, <3>5
           DEF Service!Boot, Service!Fork, Service!EndSleep, Service!Complete
      <3>6. CASE Service!Abort
        BY <3>6 DEF Service!Abort
      <3>7. CASE Service!CleanUp
        <4>1. wrapper' = Service!Gone("config")
          BY <1>1, <2>1, <2>2, <3>7 DEF Service!CleanUp, Service!Ends
        <4>2. QED
          BY <4>1 DEF Service!Gone, Service!Refused, Service!Exists
      <3>8. CASE Service!Trap \/ Service!EndTrap
        BY <1>1, <1>3, <2>6, <3>8 DEF Service!Trap, Service!EndTrap, Signals
      <3>9. QED
        BY <2>8, <3>1, <3>2, <3>3, <3>4, <3>5, <3>6, <3>7, <3>8 DEF Service!WrapperStep
    <2>9. CASE Service!ProcessStep \/ Service!OtherEnds
      BY <2>2, <2>4, <2>9
         DEF Service!ProcessStep, Service!OtherEnds, Service!Exec, Service!AgentEnds,
             Service!OtherStarts
    <2>10. CASE Service!KillWrapper \/ Service!KillGroup \/ Service!ContainerEnds
      BY <2>10 DEF Service!KillWrapper, Service!KillGroup, Service!ContainerEnds,
                   ServiceInv, PartsTyped
    <2>11. CASE Service!Stop
      <3>1. PICK term \in {"during", "now"} : wrapper' = [old EXCEPT !.term = term]
        BY <1>1, <2>2, <2>11 DEF Service!Stop
      <3>2. [old EXCEPT !.term = term] \in Script
        BY <2>1 DEF Script
      <3>3. QED
        BY <2>1, <2>3, <3>1, <3>2 DEF Script
    <2>12. CASE Service!Supervise \/ Service!Start \/ Service!ContainerStarts
      BY <1>1, <1>3, <2>12
         DEF Service!Supervise, Service!Reap, Service!Respawn, Service!Start,
             Service!ContainerStarts, Service!Exists, ServiceInv, ProgramFits
    <2>13. CASE Service!CheckStep \/ Service!CheckBegins \/ UNCHANGED Service!vars
      BY <2>4, <2>13 DEF Service!CheckStep, Service!CheckBegins, Service!service,
                         Service!vars
    <2>14. QED
      BY <2>8, <2>9, <2>10, <2>11, <2>12, <2>13 DEF Service!Next
  <1>4. CASE old.step = "gone"
    <2>1. wrapper.exit = "config" /\ wrapper.step = "gone"
      BY <1>1, <1>4 DEF Service!Refused, Service!Exists
    <2>2. UNCHANGED wrapper => FALSE
      BY <2>1 DEF Service!Refused, Service!Exists
    <2>3. Service!Start => FALSE
      BY DEF Service!Start, ServiceInv, PartsTyped
    <2>4. Service!Supervise => FALSE
      BY <2>1, <2>2 DEF Service!Supervise, Service!Reap, Service!Respawn, Service!Expected
    <2>5. Service!WrapperStep => FALSE
      BY <2>1
         DEF Service!WrapperStep, Service!Boot, Service!Fork, Service!Record,
             Service!Publish, Service!Abort, Service!Waited, Service!Forget,
             Service!CleanUp, Service!EndSleep, Service!Trap, Service!EndTrap,
             Service!Complete,
             Service!Exists
    <2>6. Service!ProcessStep \/ Service!OtherEnds => FALSE
      BY <2>1, <2>2
         DEF Service!ProcessStep, Service!OtherEnds, Service!Exec, Service!AgentEnds,
             Service!OtherStarts, Service!ChildLives, Service!Exists
    <2>7. Service!KillWrapper \/ Service!KillGroup \/ Service!Stop => FALSE
      BY <2>1 DEF Service!KillWrapper, Service!KillGroup, Service!Stop, Service!Exists
    <2>8. Service!ContainerEnds \/ Service!ContainerStarts => FALSE
      BY DEF Service!ContainerEnds, Service!ContainerStarts
    <2>9. Service!CheckStep \/ Service!CheckBegins \/ UNCHANGED Service!vars => FALSE
      BY <2>2 DEF Service!CheckStep, Service!CheckBegins, Service!service, Service!vars
    <2>10. QED
      BY <2>3, <2>4, <2>5, <2>6, <2>7, <2>8, <2>9 DEF Service!Next
  <1>5. QED
    BY <1>3, <1>4

-----------------------------------------------------------------------------
(* The service: the health check *)

CheckSteps == {"idle", "sshd", "program", "read", "alive", "cmdline", "healthy", "unhealthy"}

\* What the history says of the time since the check began holds now; and the PID
\* the check has read is the child of a script that served all the time.
CheckInv ==
    /\ check \in [step: CheckSteps, pid: Pids \cup {Service!None}]
    /\ watch \in [serving: BOOLEAN, noAgent: BOOLEAN]
    /\ check.step = "idle" => ~watch.serving /\ ~watch.noAgent
    /\ watch.serving => Service!Serving
    /\ watch.noAgent => Service!NoAgent
    /\ watch.serving /\ check.step \in {"alive", "cmdline"} => check.pid = wrapper.child
    /\ Service!VerdictIsFair

\* While the script waits for a living agent, it is the same agent.
LEMMA ServingKeepsChild ==
    ASSUME ServiceInv, [Service!Next]_(Service!vars), Service!Serving, Service!Serving'
    PROVE  wrapper'.child = wrapper.child
  <1>1. /\ wrapper.step = "wait" /\ wrapper.status = Service!None
        /\ wrapper'.step = "wait" /\ program' = "RUNNING" /\ program = "RUNNING"
    BY DEF Service!Serving, Service!ChildLives
  <1>2. wrapper \in Script /\ running
    BY <1>1, WrapperIsScript DEF ServiceInv, PartsTyped, ProgramFits
  <1>3. CASE Service!WrapperStep
    <2>1. Service!Trap => FALSE
      <3>1. ASSUME Service!Terminate("stopping")
            PROVE  wrapper'.step = "stopping"
        BY <1>2, <3>1 DEF Service!Terminate, Service!ChildSignalled, Script
      <3>2. QED
        BY <1>1, <3>1 DEF Service!Trap
    <2>2. QED
      BY <1>1, <1>3, <2>1
         DEF Service!WrapperStep, Service!Boot, Service!Fork, Service!Record,
             Service!Publish, Service!Abort, Service!Waited, Service!Forget,
             Service!CleanUp, Service!EndSleep, Service!EndTrap, Service!Complete
  <1>4. CASE Service!ProcessStep \/ Service!OtherEnds
    <2>1. UNCHANGED wrapper \/ \E status : wrapper' = [wrapper EXCEPT !.status = status]
      BY <1>4 DEF Service!ProcessStep, Service!OtherEnds, Service!Exec,
                  Service!AgentEnds, Service!OtherStarts
    <2>2. QED
      BY <1>2, <2>1 DEF Script
  <1>5. CASE Service!KillWrapper \/ Service!KillGroup \/ Service!ContainerEnds
             \/ Service!Stop \/ Service!ContainerStarts
    BY <1>1, <1>2, <1>5
       DEF Service!KillWrapper, Service!KillGroup, Service!ContainerEnds, Service!Gone,
           Service!Stop, Service!ContainerStarts
  <1>6. CASE Service!Supervise \/ Service!Start
    BY <1>1, <1>6 DEF Service!Supervise, Service!Reap, Service!Respawn, Service!Start,
                      Service!Spawn, Service!Fresh
  <1>7. CASE Service!CheckStep \/ Service!CheckBegins \/ UNCHANGED Service!vars
    BY <1>7 DEF Service!CheckStep, Service!CheckBegins, Service!service, Service!vars
  <1>8. QED
    BY <1>3, <1>4, <1>5, <1>6, <1>7 DEF Service!Next

LEMMA WatchKeeps ==
    ASSUME CheckInv, Service!Watch
    PROVE  /\ watch' \in [serving: BOOLEAN, noAgent: BOOLEAN]
           /\ check'.step = "idle" => ~watch'.serving /\ ~watch'.noAgent
           /\ watch'.serving =>
                /\ Service!Serving'
                /\ \/ check'.step = "sshd" /\ check.step # "sshd"
                   \/ watch.serving /\ ~Service!NoSshd
           /\ watch'.noAgent =>
                /\ Service!NoAgent'
                /\ \/ check'.step = "sshd" /\ check.step # "sshd"
                   \/ watch.noAgent
  <1>1. PICK s \in BOOLEAN : s <=> Service!Serving'
    OBVIOUS
  <1>2. PICK n \in BOOLEAN : n <=> Service!NoAgent'
    OBVIOUS
  <1>3. watch.serving \in BOOLEAN /\ watch.noAgent \in BOOLEAN
    BY DEF CheckInv
  <1>4. CASE check'.step = "idle"
    BY <1>4 DEF Service!Watch
  <1>5. CASE check'.step = "sshd" /\ check.step # "sshd"
    <2>1. watch' = [serving |-> Service!Serving', noAgent |-> Service!NoAgent']
      BY <1>5 DEF Service!Watch
    <2>2. QED
      BY <1>5, <2>1 DEF Service!Serving, Service!NoAgent
  <1>6. CASE check'.step # "idle" /\ ~(check'.step = "sshd" /\ check.step # "sshd")
    <2>1. watch' = [serving |-> watch.serving /\ Service!Serving' /\ ~Service!NoSshd,
                    noAgent |-> watch.noAgent /\ Service!NoAgent']
      BY <1>6 DEF Service!Watch
    <2>2. QED
      BY <1>3, <1>6, <2>1
  <1>7. QED
    BY <1>4, <1>5, <1>6

\* Nothing that the check does: it goes on, or the container ends under it.
LEMMA CheckWaits ==
    ASSUME ServiceInv, CheckInv, Service!Next, Service!Watch,
           UNCHANGED check \/ check' = [step |-> "idle", pid |-> Service!None]
    PROVE  CheckInv'
  <1>1. CASE UNCHANGED check
    <2>1. /\ watch' \in [serving: BOOLEAN, noAgent: BOOLEAN]
          /\ check.step = "idle" => ~watch'.serving /\ ~watch'.noAgent
          /\ watch'.serving => Service!Serving' /\ watch.serving
          /\ watch'.noAgent => Service!NoAgent' /\ watch.noAgent
      BY <1>1, WatchKeeps
    <2>2. watch'.serving /\ check.step \in {"alive", "cmdline"} => check.pid = wrapper'.child
      BY <2>1, ServingKeepsChild DEF CheckInv
    <2>3. Service!VerdictIsFair'
      BY <1>1, <2>1 DEF CheckInv, Service!VerdictIsFair
    <2>4. QED
      BY <1>1, <2>1, <2>2, <2>3 DEF CheckInv
  <1>2. CASE check' = [step |-> "idle", pid |-> Service!None]
    <2>1. /\ check' \in [step: CheckSteps, pid: Pids \cup {Service!None}]
          /\ check'.step = "idle"
      BY <1>2 DEF CheckSteps
    <2>2. /\ watch' \in [serving: BOOLEAN, noAgent: BOOLEAN]
          /\ ~watch'.serving /\ ~watch'.noAgent
      BY <2>1, WatchKeeps
    <2>3. QED
      BY <2>1, <2>2 DEF CheckInv, Service!VerdictIsFair
  <1>3. QED
    BY <1>1, <1>2

LEMMA CheckMoves ==
    ASSUME ServiceInv, CheckInv, Service!Watch, Service!CheckStep \/ Service!CheckBegins
    PROVE  CheckInv'
  <1>1. UNCHANGED <<running, program, wrapper, process, pidFile>>
    BY DEF Service!CheckStep, Service!CheckBegins, Service!service
  <1>2. /\ Service!Serving' <=> Service!Serving
        /\ Service!NoAgent' <=> Service!NoAgent
    BY <1>1 DEF Service!Serving, Service!NoAgent, Service!AgentPids, Service!ChildLives,
                Service!Exists
  <1>3. /\ watch' \in [serving: BOOLEAN, noAgent: BOOLEAN]
        /\ check'.step = "idle" => ~watch'.serving /\ ~watch'.noAgent
        /\ watch'.serving =>
             /\ Service!Serving
             /\ \/ check'.step = "sshd" /\ check.step # "sshd"
                \/ watch.serving /\ ~Service!NoSshd
        /\ watch'.noAgent => Service!NoAgent
    BY <1>2, WatchKeeps
  <1>4. Service!Serving =>
          /\ program = "RUNNING"
          /\ wrapper.child \in Pids /\ wrapper.child # Service!None
          /\ process[wrapper.child] # "free"
          /\ wrapper.child \in Service!AgentPids
          /\ pidFile = wrapper.child
    <2> SUFFICES ASSUME Service!Serving
                 PROVE  /\ program = "RUNNING"
                        /\ wrapper.child \in Pids /\ wrapper.child # Service!None
                        /\ process[wrapper.child] # "free"
                        /\ wrapper.child \in Service!AgentPids
                        /\ pidFile = wrapper.child
      OBVIOUS
    <2>1. /\ program = "RUNNING" /\ wrapper.step = "wait"
          /\ wrapper.child \in Service!AgentPids
      BY DEF Service!Serving
    <2>2. wrapper.child \in Pids /\ process[wrapper.child] # "free"
      BY <2>1 DEF Service!AgentPids
    <2>3. pidFile = wrapper.child
      BY <2>1 DEF ServiceInv, PublishedWaits, StepsFit
    <2>4. QED
      BY <2>1, <2>2, <2>3, ServiceAssumption
  <1>5. check.pid \in Pids \cup {Service!None} /\ pidFile \in Pids \cup {Service!None}
    BY DEF CheckInv, ServiceInv, PartsTyped
  <1>6. ASSUME NEW step \in CheckSteps, NEW pid \in Pids \cup {Service!None},
               check' = [step |-> step, pid |-> pid], step # "idle",
               step = "healthy" => ~Service!NoAgent,
               step = "unhealthy" => ~watch'.serving,
               watch'.serving /\ step \in {"alive", "cmdline"} => pid = wrapper.child
        PROVE  CheckInv'
    <2>1. /\ check' \in [step: CheckSteps, pid: Pids \cup {Service!None}]
          /\ check'.step = step /\ check'.pid = pid
      BY <1>6
    <2>2. Service!VerdictIsFair'
      BY <1>3, <1>6, <2>1 DEF Service!VerdictIsFair
    <2>3. watch'.serving /\ check'.step \in {"alive", "cmdline"} => check'.pid = wrapper'.child
      BY <1>1, <1>6, <2>1
    <2>4. QED
      BY <1>2, <1>3, <1>6, <2>1, <2>2, <2>3 DEF CheckInv
  <1>7. CASE Service!CheckBegins
    BY <1>6, <1>7 DEF Service!CheckBegins, CheckSteps
  <1>8. CASE \E sshd \in BOOLEAN : Service!Passes(sshd, "sshd", "program", Service!None)
    <2>1. check.step = "sshd"
          /\ \/ check' = [step |-> "program", pid |-> Service!None]
             \/ check' = [step |-> "unhealthy", pid |-> Service!None]
      BY <1>8 DEF Service!Passes
    <2>2. check'.step = "unhealthy" => ~watch'.serving
      BY <1>3, <2>1 DEF Service!NoSshd
    <2>3. QED
      BY <1>6, <2>1, <2>2 DEF CheckSteps
  <1>9. CASE Service!Passes(program = "RUNNING", "program", "read", Service!None)
    <2>1. \/ check' = [step |-> "read", pid |-> Service!None]
          \/ program # "RUNNING" /\ check' = [step |-> "unhealthy", pid |-> Service!None]
      BY <1>9 DEF Service!Passes
    <2>2. QED
      BY <1>3, <1>4, <1>6, <2>1 DEF CheckSteps
  <1>10. CASE Service!Passes(pidFile # Service!None, "read", "alive", pidFile)
    <2>1. \/ check' = [step |-> "alive", pid |-> pidFile]
          \/ pidFile = Service!None /\ check' = [step |-> "unhealthy", pid |-> Service!None]
      BY <1>10 DEF Service!Passes
    <2>2. QED
      BY <1>3, <1>4, <1>5, <1>6, <2>1 DEF CheckSteps
  <1>11. CASE Service!Passes(check.pid # Service!None /\ process[check.pid] # "free",
                             "alive", "cmdline", check.pid)
    <2>1. /\ check.step = "alive"
          /\ \/ check' = [step |-> "cmdline", pid |-> check.pid]
             \/ /\ ~(check.pid # Service!None /\ process[check.pid] # "free")
                /\ check' = [step |-> "unhealthy", pid |-> Service!None]
      BY <1>11 DEF Service!Passes
    <2>2. watch'.serving => check.pid = wrapper.child /\ Service!Serving
      BY <1>3, <2>1 DEF CheckInv
    <2>3. QED
      BY <1>4, <1>5, <1>6, <2>1, <2>2 DEF CheckSteps
  <1>12. CASE Service!Passes(check.pid # Service!None /\ Service!IsAgent(check.pid),
                             "cmdline", "healthy", Service!None)
    <2>1. /\ check.step = "cmdline"
          /\ \/ /\ check.pid \in Service!AgentPids
                /\ check' = [step |-> "healthy", pid |-> Service!None]
             \/ /\ ~(check.pid # Service!None /\ check.pid \in Service!AgentPids)
                /\ check' = [step |-> "unhealthy", pid |-> Service!None]
      BY <1>12 DEF Service!Passes, Service!IsAgent
    <2>2. watch'.serving => check.pid = wrapper.child /\ Service!Serving
      BY <1>3, <2>1 DEF CheckInv
    <2>3. check.pid \in Service!AgentPids => ~Service!NoAgent
      BY DEF Service!NoAgent
    <2>4. QED
      BY <1>4, <1>6, <2>1, <2>2, <2>3 DEF CheckSteps
  <1>13. QED
    BY <1>7, <1>8, <1>9, <1>10, <1>11, <1>12 DEF Service!CheckStep

LEMMA CheckInit ==
    ASSUME Service!Init
    PROVE  CheckInv
  BY DEF Service!Init, CheckInv, CheckSteps, Service!VerdictIsFair

LEMMA CheckNext ==
    ASSUME ServiceInv, CheckInv, [Service!Next]_(Service!vars)
    PROVE  CheckInv'
  <1>1. CASE UNCHANGED Service!vars
    BY <1>1 DEF Service!vars, Service!service, Service!bounds, CheckInv, Service!Serving,
                Service!NoAgent, Service!AgentPids, Service!ChildLives, Service!Exists,
                Service!VerdictIsFair
  <1>2. CASE Service!Next
    <2>1. Service!Watch
      BY <1>2 DEF Service!Next
    <2>2. CASE Service!CheckStep \/ Service!CheckBegins
      BY <2>1, <2>2, CheckMoves
    <2>3. CASE ~(Service!CheckStep \/ Service!CheckBegins)
      <3>1. UNCHANGED check \/ check' = [step |-> "idle", pid |-> Service!None]
        BY <1>2, <2>3
           DEF Service!Next, Service!WrapperStep, Service!ProcessStep, Service!OtherEnds,
               Service!KillWrapper, Service!Stop, Service!KillGroup, Service!Supervise,
               Service!Reap, Service!Respawn, Service!Start, Service!Spawn,
               Service!ContainerEnds, Service!ContainerStarts
      <3>2. QED
        BY <1>2, <2>1, <3>1, CheckWaits
    <2>4. QED
      BY <2>2, <2>3
  <1>3. QED
    BY <1>1, <1>2

\* healthcheck.sh reads the PID first and looks at the process later; its verdict fits
\* what held all the time since it began, however PIDs are used again meanwhile.
THEOREM VerdictIsFairAlways == Service!Spec => []VerdictIsFair
  <1>1. Service!Init => CheckInv
    BY CheckInit
  <1>2. ServiceInv /\ CheckInv /\ [Service!Next]_(Service!vars) => CheckInv'
    BY CheckNext
  <1>3. CheckInv => VerdictIsFair
    BY DEF CheckInv, VerdictIsFair
  <1>4. QED
    BY <1>1, <1>2, <1>3, ServiceInvariant, PTL DEF Service!Spec

-----------------------------------------------------------------------------
(* The two parts together *)

AllInv == LoopInv /\ ServiceInv /\ CheckInv

LEMMA AllStep ==
    ASSUME AllInv, [MCNext]_allVars
    PROVE  AllInv'
  <1>1. [Next]_vars
    BY DEF MCNext, OfProcess, OfService, allVars, vars
  <1>2. [Service!Next]_(Service!vars)
    BY DEF MCNext, OfProcess, OfService, allVars, serviceVars, Service!vars,
           Service!service, Service!bounds
  <1>3. QED
    BY <1>1, <1>2, LoopStep, ServiceStep, CheckNext DEF AllInv

LEMMA AllInvariant == MCSpec => []AllInv
  <1>1. MCInit => AllInv
    BY LoopInit, ServiceInit, CheckInit DEF MCInit, AllInv
  <1>2. AllInv /\ [MCNext]_allVars => AllInv'
    BY AllStep
  <1>3. QED
    BY <1>1, <1>2, PTL DEF MCSpec

\* The process of the agent and its service keep what they hold of its type, for every
\* set of PIDs and every bound: before the script knows its child, and once it has cleared
\* agent_pid, it has no PID to signal.
THEOREM AgentTypes == MCSpec => []TypesOK
  <1>1. AllInv => TypesOK
    <2> SUFFICES ASSUME AllInv
                 PROVE  TypesOK
      OBVIOUS
    <2>1. TypeOK
      BY DEF AllInv, LoopInv
    <2>2. wrapper.step \in {"boot", "fork", "record", "clean", "sleep"} =>
            wrapper.agent_pid = Service!None
      BY DEF AllInv, ServiceInv, StepsFit
    <2>3. Service!ChildLives => Service!Lives(wrapper.child)
      BY DEF AllInv, ServiceInv, ChildThere, Owns, Service!ChildLives, Service!Exists,
             Service!Lives, Living
    <2>4. /\ running \in BOOLEAN
          /\ program \in {"RUNNING", "STOPPING", "STOPPED", "EXITED"}
          /\ wrapper \in Service!Wrapper
          /\ process \in [Pids -> {"free", "other", "forked", "agent", "stopping"}]
          /\ pidFile \in Pids \cup {Service!None}
          /\ kills \in 0..MaxKills /\ stops \in 0..MaxStops /\ starts \in 0..MaxStarts
          /\ windows \in Nat
      BY DEF AllInv, ServiceInv, PartsTyped, Programs, ProcessStates
    <2>5. check.step \in {"idle", "sshd", "program", "read", "alive", "cmdline"}
                         \cup Service!Verdicts
      BY DEF AllInv, CheckInv, CheckSteps, Service!Verdicts
    <2>6. /\ check \in [step: {"idle", "sshd", "program", "read", "alive", "cmdline"}
                              \cup Service!Verdicts,
                        pid: Pids \cup {Service!None}]
          /\ watch \in [serving: BOOLEAN, noAgent: BOOLEAN]
      BY <2>5 DEF AllInv, CheckInv
    <2>7. Service!TypeOK
      BY <2>2, <2>3, <2>4, <2>6 DEF Service!TypeOK
    <2>8. QED
      BY <2>1, <2>7 DEF TypesOK
  <1>2. QED
    BY <1>1, AllInvariant, PTL

\* "配置错误不会无限重启" (README.md): when the agent has refused its configuration,
\* run_agent_service.sh passes that on to supervisord, and neither starts it again by
\* itself, unless the script is stopped, killed or cannot publish the PID.
THEOREM ConfigErrorIsFinalAlways == MCSpec => ConfigErrorIsFinal
  <1>1. AllInv /\ [MCNext]_allVars => [Service!StaysRefused]_allVars
    <2> SUFFICES ASSUME AllInv, [MCNext]_allVars
                 PROVE  Service!StaysRefused
      OBVIOUS
    <2>1. [Service!Next]_(Service!vars)
      BY DEF MCNext, OfProcess, OfService, allVars, serviceVars, Service!vars,
             Service!service, Service!bounds
    <2>2. QED
      BY <2>1, RefusedStays DEF AllInv
  <1>2. QED
    BY <1>1, AllInvariant, PTL DEF MCSpec, ConfigErrorIsFinal

=============================================================================
