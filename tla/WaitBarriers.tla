------------------------------ MODULE WaitBarriers ------------------------------
(***************************************************************************)
(* What the wait barriers of sub-agents promise.  A parent asks for a      *)
(* number of usable results of some of its children; the children come and *)
(* go as they like; the barrier waits until the results are there or can   *)
(* no longer come.  Only a decision of the user, or the stop of the        *)
(* parent, puts another end to it.  A call that waits may settle the       *)
(* barrier it watches once more.                                           *)
(***************************************************************************)
EXTENDS Naturals, FiniteSets

CONSTANTS Worker, Gate

VARIABLES
    asks,      \* what each gate asks for: a number of results of some workers
    outcome,   \* what has become of each gate
    usable,    \* the workers whose result may be used
    atWork,    \* the workers that may still bring one
    watched    \* the gates some call is waiting for

gateVars == <<asks, outcome, usable, atWork, watched>>

Outcomes == {"unused", "waiting", "met", "given_up"}

GateInit ==
    /\ asks \in [Gate -> [of : SUBSET Worker, results : Nat]]
    /\ outcome = [g \in Gate |-> "unused"]
    /\ usable = {} /\ atWork = {} /\ watched = {}

Enough(g) == Cardinality(asks[g].of \cap usable) >= asks[g].results
Attainable(g) ==
    Cardinality(asks[g].of \cap usable) + Cardinality(asks[g].of \cap atWork)
        >= asks[g].results

SameAsks(g) == asks'[g] = asks[g]
Kept(g) == outcome'[g] = outcome[g] /\ SameAsks(g)
Opened(g) == outcome[g] = "unused" /\ outcome'[g] = "waiting"

\* A gate is met by the results that are there after the step, and given up if they
\* can no longer come; it may be asked for in the same step.
MaySettle(g) ==
    \/ outcome[g] = "unused"
    \/ (outcome[g] = "waiting" \/ g \in watched) /\ SameAsks(g)
Met(g) == MaySettle(g) /\ outcome'[g] = "met" /\ Enough(g)'
GivenUp(g) == MaySettle(g) /\ outcome'[g] = "given_up" /\ ~Attainable(g)'

\* The workers do as they like, and the gates follow them.  A call only waits for a
\* gate that is open when it begins.
Proceed ==
    /\ \A g \in Gate : Kept(g) \/ Opened(g) \/ Met(g) \/ GivenUp(g)
    /\ \A g \in watched' \ watched : outcome'[g] = "waiting"

\* The user decides on one gate, and may reopen it; a call sees the old one.
Decide(g) ==
    /\ outcome[g] # "unused" /\ outcome'[g] # "unused"
    /\ SameAsks(g)
    /\ \A other \in Gate \ {g} : Kept(other)
    /\ UNCHANGED watched

\* The parent is stopped: no gate stays open.
CallOff ==
    /\ \A g \in Gate :
         IF outcome[g] = "waiting" THEN outcome'[g] = "given_up" /\ SameAsks(g)
         ELSE Kept(g)
    /\ UNCHANGED watched

GateNext == Proceed \/ CallOff \/ \E g \in Gate : Decide(g)
GateSpec == GateInit /\ [][GateNext]_gateVars
===============================================================================
