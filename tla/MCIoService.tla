---------------------------- MODULE MCIoService ----------------------------
(* Model checking instances of IoService. *)
EXTENDS IoService, TLC

ProcessEvents == [wait |-> TRUE, once |-> FALSE]
ProcessOneEvent == [wait |-> TRUE, once |-> TRUE]

\* Only the call that runs until stop().
MCUntilStopped == {ProcessEvents}

\* A call that waits for one message, and one that runs until stop().
MCWaiting == {ProcessEvents, ProcessOneEvent}

\* All four calls; two of them take messages without a lock.
MCMixed == [wait : BOOLEAN, once : BOOLEAN]

\* Coroutines and I/O threads are interchangeable.
Symmetry == Permutations(Coroutines) \cup Permutations(IoThreads)

=============================================================================
