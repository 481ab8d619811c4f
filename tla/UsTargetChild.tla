---------------------------- MODULE UsTargetChild ----------------------------
(***************************************************************************)
(* What the guarded child operator of the US Application target bulk       *)
(* promises to the host worker that starts it.                             *)
(*                                                                         *)
(* A child executes one frozen child plan: package 1, the bridge, and one  *)
(* suffix package, in that order, while it holds the global mutation lock. *)
(* A package has one durable journal, shared by all plans that name it; a  *)
(* plan has a journal of its own.  A child may die at any moment and its   *)
(* plan may be executed again.                                             *)
(*                                                                         *)
(* Module UsTargetCommit is the child in detail and implements this        *)
(* specification; module UsTargetTasks, the host worker, is built on it.   *)
(***************************************************************************)
EXTENDS Integers

CONSTANTS
    Plans,       \* child plans
    PackageOf,   \* the suffix package of a plan, never the bridge
    NoPlan       \* not a plan

Bridge == 1

VARIABLES
    holder,      \* plan of the child that holds the mutation lock
    begun,       \* packages that have a journal
    accepted,    \* packages whose journal is COMPLETE
    journal      \* journal of each plan

childVars == <<holder, begun, accepted, journal>>

Packages == {Bridge} \cup {PackageOf[q] : q \in Plans}
PackagesOf(q) == {Bridge, PackageOf[q]}

Init ==
    /\ holder = NoPlan
    /\ begun = {}
    /\ accepted = {}
    /\ journal = [q \in Plans |-> "NONE"]

\* A child gets the lock.
Start(q) ==
    /\ holder = NoPlan
    /\ holder' = q
    /\ UNCHANGED <<begun, accepted, journal>>

Open(q) ==
    /\ holder = q /\ journal[q] = "NONE"
    /\ journal' = [journal EXCEPT ![q] = "OPEN"]
    /\ UNCHANGED <<holder, begun, accepted>>

\* The suffix package waits for the bridge.
Begin(q, p) ==
    /\ holder = q /\ journal[q] = "OPEN"
    /\ p \in PackagesOf(q) \ begun
    /\ p # Bridge => Bridge \in accepted
    /\ begun' = begun \cup {p}
    /\ UNCHANGED <<holder, accepted, journal>>

Accept(q, p) ==
    /\ holder = q /\ journal[q] = "OPEN"
    /\ p \in PackagesOf(q) \cap (begun \ accepted)
    /\ accepted' = accepted \cup {p}
    /\ UNCHANGED <<holder, begun, journal>>

Finish(q) ==
    /\ holder = q /\ journal[q] = "OPEN"
    /\ PackagesOf(q) \subseteq accepted
    /\ journal' = [journal EXCEPT ![q] = "COMPLETE"]
    /\ UNCHANGED <<holder, begun, accepted>>

\* The child exits or dies; the lock goes with its session.
Leave(q) ==
    /\ holder = q
    /\ holder' = NoPlan
    /\ UNCHANGED <<begun, accepted, journal>>

Step(q) ==
    \/ Open(q) \/ Finish(q)
    \/ \E p \in Packages : Begin(q, p) \/ Accept(q, p)

Next == \E q \in Plans : Start(q) \/ Step(q) \/ Leave(q)

Spec == Init /\ [][Next]_childVars
=============================================================================
