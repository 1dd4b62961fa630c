--------------------------- MODULE RequestContract ---------------------------
(***************************************************************************)
(* What compute requests promise, without transactions, locks, copies of   *)
(* values or tables: a request is decided once, its clock starts once at   *)
(* its first report and then runs for the granted days, and at most one    *)
(* proposal at a time is decided, applied in full to what is granted at    *)
(* that moment or not at all.                                              *)
(***************************************************************************)
EXTENDS Integers

CONSTANTS
    Requests, Absent, Never, Kinds,
    Quantities,  \* numbers of GPUs and of days one can ask for
    Times        \* moments a report can be received at

VARIABLES
    contract,  \* of each request: Absent or [status, gpus, days, started, expires]
    proposal   \* of each request: Absent or its open [kind, amount]

cvars == <<contract, proposal>>

Open(q) == contract[q] # Absent /\ contract[q].status = "pending"

Init ==
    /\ contract = [q \in Requests |-> Absent]
    /\ proposal = [q \in Requests |-> Absent]

Submit(q) ==
    /\ contract[q] = Absent
    /\ \E gpus, days \in Quantities :
        contract' = [contract EXCEPT ![q] =
            [status |-> "pending", gpus |-> gpus, days |-> days,
             started |-> Never, expires |-> Never]]
    /\ UNCHANGED proposal

Approve(q) ==
    /\ Open(q)
    /\ contract' = [contract EXCEPT ![q].status = "approved"]
    /\ UNCHANGED proposal

\* One decision may reject any number of requests and of proposals.
Reject(qs, ps) ==
    /\ \A q \in qs : Open(q)
    /\ \A q \in ps : proposal[q] # Absent
    /\ contract' = [q \in Requests |->
        IF q \in qs THEN [contract[q] EXCEPT !.status = "rejected"] ELSE contract[q]]
    /\ proposal' = [q \in Requests |-> IF q \in ps THEN Absent ELSE proposal[q]]

\* The clock starts at some moment t, not necessarily the moment of the step.
Start(q) ==
    /\ contract[q] # Absent /\ contract[q].status = "approved"
    /\ contract[q].started = Never
    /\ \E t \in Times :
        contract' = [contract EXCEPT ![q].started = t,
                                     ![q].expires = t + contract[q].days]
    /\ UNCHANGED proposal

Propose(q) ==
    /\ contract[q] # Absent /\ contract[q].started # Never
    /\ proposal[q] = Absent
    /\ \E kind \in Kinds, amount \in Quantities :
        /\ kind = "release" => amount < contract[q].gpus
        /\ proposal' = [proposal EXCEPT ![q] = [kind |-> kind, amount |-> amount]]
    /\ UNCHANGED contract

Amended(c, p) ==
    CASE p.kind = "extend" -> [c EXCEPT !.days = @ + p.amount, !.expires = @ + p.amount]
      [] p.kind = "expand" -> [c EXCEPT !.gpus = @ + p.amount]
      [] p.kind = "release" -> [c EXCEPT !.gpus = @ - p.amount]

Accept(q) ==
    /\ proposal[q] # Absent
    /\ contract' = [contract EXCEPT ![q] = Amended(@, proposal[q])]
    /\ proposal' = [proposal EXCEPT ![q] = Absent]

Next ==
    \/ \E qs, ps \in SUBSET Requests : Reject(qs, ps)
    \/ \E q \in Requests : Submit(q) \/ Approve(q) \/ Start(q) \/ Propose(q) \/ Accept(q)

Spec == Init /\ [][Next]_cvars
=============================================================================
