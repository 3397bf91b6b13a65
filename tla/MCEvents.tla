------------------------------ MODULE MCEvents ------------------------------
(***************************************************************************)
(* The mutex, the events, the latch and the sequence barrier in one        *)
(* instance: "object" says which of them a behaviour is about, and the     *)
(* variables of the others stay as they are.  The manual reset event by    *)
(* itself uses the variables of the event in the latch.                    *)
(***************************************************************************)
EXTENDS AsyncMutex, AsyncLatch, SingleConsumerEvent, SingleConsumerAutoResetEvent,
        SequenceBarrier

VARIABLE object

ASSUME EventsAssumption == LatchConstants

\* Latches that start signalled, with a negative count and with zero, and
\* latches that need one to three calls.
MCInitCounts == -1..3

otherVars == <<object, latchVars, singleVars, autoVars, barrierVars>>
mcVars == <<vars, otherVars>>

\* What an object that the behaviour is not about looks like: an event that is
\* set.  Beside the manual reset event there is a latch counted down to zero by
\* threads that never go on to set it, which says nothing about the event.
MCInit ==
    /\ object \in {"mutex", "latch", "event", "single", "auto", "barrier"}
    /\ Init /\ BarrierInit
    /\ IF object = "latch"
       THEN LatchInit
       ELSE /\ mCount = 0 /\ calls = 0
            /\ IF object = "event" THEN EventInit /\ signalling = Callers
               ELSE InitEvent(TRUE) /\ signalling = {}
    /\ IF object = "single" THEN SingleInit
       ELSE word = "set" /\ consumer = "running" /\ resuming = {}
    /\ IF object = "auto" THEN AutoInit
       ELSE /\ aState = "set" /\ aWaiter = "running" /\ sharedAddress = FALSE
            /\ aSetter = [t \in AutoSetters |-> "idle"]

OfMutex(A) == object = "mutex" /\ A /\ UNCHANGED otherVars
OfLatch(A) == object = "latch" /\ A
              /\ UNCHANGED <<object, vars, singleVars, autoVars, barrierVars>>
OfEvent(A) == /\ object = "event" /\ A
              /\ UNCHANGED <<mCount, signalling, calls>>
              /\ UNCHANGED <<object, vars, singleVars, autoVars, barrierVars>>
OfSingle(A) == object = "single" /\ A
               /\ UNCHANGED <<object, vars, latchVars, autoVars, barrierVars>>
OfAuto(A) == object = "auto" /\ A
             /\ UNCHANGED <<object, vars, latchVars, singleVars, barrierVars>>
OfBarrier(A) == object = "barrier" /\ A
                /\ UNCHANGED <<object, vars, latchVars, singleVars, autoVars>>

MCNext ==
    \/ OfMutex(Next) \/ OfLatch(LatchNext) \/ OfEvent(EventNext)
    \/ OfSingle(SingleNext) \/ OfAuto(AutoNext) \/ OfBarrier(BarrierNext)

\* The fairness of FairSpec, LatchSpec, EventSpec and BarrierSpec.
MCFairness ==
    /\ \A c \in Coroutines :
          /\ WF_mcVars(OfMutex(LockAcquire(c) \/ LockEnqueue(c) \/ LockRetry(c)))
          /\ WF_mcVars(OfMutex(UnlockHandOff(c) \/ UnlockFree(c)
                               \/ UnlockContended(c)))
          /\ WF_mcVars(OfMutex(UnlockTake(c)))
    /\ \A t \in Callers :
          /\ WF_mcVars(OfLatch(SignalEvent(t)))
          /\ WF_mcVars(OfLatch(EventStep(ResumeNext(t))) \/ OfEvent(ResumeNext(t)))
    /\ \A a \in BarrierAwaiters : WF_mcVars(OfBarrier(Awaiter(a)))
    /\ WF_mcVars(OfBarrier(Publisher))

MCSpec == MCInit /\ [][MCNext]_mcVars /\ MCFairness

-----------------------------------------------------------------------------
(* A property that puts two objects together; the others are stated in the *)
(* extended modules.                                                       *)

\* Whoever was queued when the event was set runs again, and whoever awaits a
\* latch runs once its count is used up.
ReleasedRun ==
    /\ QueuedAtSetRuns
    /\ \A c \in Awaiters :
          (object = "latch" /\ mCount <= 0 /\ ePc[c] = "suspended")
              ~> ePc[c] = "running"

=============================================================================
