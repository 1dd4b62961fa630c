----------------------------- MODULE MCContainers -----------------------------
(***************************************************************************)
(* The creation of a host's containers and the ingestion of what is        *)
(* reported of them, checked in one run.  They share no state: so each     *)
(* behaviour is one of the host or one of the API, and the other does not  *)
(* move.                                                                   *)
(***************************************************************************)
EXTENDS SampleIngest, TLC

CONSTANTS Operators, Names, Ports, Wishes, Busy

\* CPUs and GPUs are numbered from 0.
ASSUME CreationAssumption ==
    /\ \A wish \in Wishes :
        IsFiniteSet(wish.cpus) /\ wish.cpus \subseteq Nat /\ wish.gpus \subseteq Nat
    /\ Busy \subseteq Ports

VARIABLES part, containers, home, dialog, cut

Creation == INSTANCE CreateContainer

hostVars == <<containers, home, dialog, cut>>
allVars == <<part, vars, hostVars>>

\* The first and second share CPU 2; only the first has a GPU.
TwoWishes == {[gpus |-> {0}, cpus |-> {0, 2}], [gpus |-> {}, cpus |-> {1, 2}]}

OfIngest(step) == part = "ingest" /\ step /\ UNCHANGED <<part, hostVars>>
OfHost(step) == part = "host" /\ step /\ UNCHANGED <<part, vars>>

MCInit == part \in {"ingest", "host"} /\ Init /\ Creation!Init
MCNext == OfIngest(Next) \/ OfHost(Creation!Next)
MCSpec == MCInit /\ [][MCNext]_allVars

Interchangeable == Permutations(Operators) \cup Permutations(Names)

TypesOK == TypeOK /\ Creation!TypeOK
SharingNeedsConsentOrGap == Creation!SharingNeedsConsentOrGap
HomeIsOwnedUnlessCut == Creation!HomeIsOwnedUnlessCut
=============================================================================
