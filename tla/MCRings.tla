------------------------------- MODULE MCRings -------------------------------
(***************************************************************************)
(* The ring buffers: the sequencers with several producers and with one,   *)
(* and the local queue of a worker of the thread pool.  A behaviour is of  *)
(* one of them, chosen in the initial state; the others rest in theirs.    *)
(***************************************************************************)
EXTENDS MultiProducerSequencer, SingleProducerSequencer, WorkStealingDeque, TLC

VARIABLE ring

mcVars == <<ring, vars, singleVars, dequeVars>>

MCInit ==
    /\ Init /\ SingleInit /\ DequeInit
    /\ ring \in {"multi", "single", "deque"}
MCNext ==
    \/ ring = "multi" /\ Next /\ UNCHANGED <<ring, singleVars, dequeVars>>
    \/ ring = "single" /\ SingleNext /\ UNCHANGED <<ring, vars, dequeVars>>
    \/ ring = "deque" /\ DequeNext /\ UNCHANGED <<ring, vars, singleVars>>
MCSpec == MCInit /\ [][MCNext]_mcVars

Symmetry ==
    Permutations(Producers) \cup Permutations(Consumers) \cup Permutations(Thieves)

=============================================================================
