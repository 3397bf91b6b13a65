---------------------------- MODULE AsyncGenerator ----------------------------
(***************************************************************************)
(* coro::async_generator: coroutines 0..Levels in a row.  The last one is  *)
(* a generator that yields values and may suspend for something else in    *)
(* between, to be resumed on another thread; the ones before it are made by*)
(* fmap(), each a generator that iterates over the next; coroutine 0 is the*)
(* consumer.  Control passes by symmetric transfer, to the producer when   *)
(* the consumer asks for a value and back when there is one.               *)
(***************************************************************************)
EXTENDS Naturals, Sequences, FiniteSets

CONSTANTS
    Levels,       \* generators in the row
    MaxValues     \* bound: values of the last one

ASSUME AsyncGeneratorAssumption == Levels \in Nat \ {0} /\ MaxValues \in Nat

Level == 0..Levels
Generator == 1..Levels
Nothing == 0      \* m_current_value when it is nullptr; values are 1..MaxValues

VARIABLES
    state,         \* of the coroutines
    mCurrentValue, mException, mConsumerHandle,   \* of the generators' promises
    begun,         \* the coroutines that have an iterator of the next one
    yielded,       \* the number of values the last one has yielded
    received,      \* the values the consumer has got
    caught         \* whether it has got an exception

asyncVars == <<state, mCurrentValue, mException, mConsumerHandle, begun,
               yielded, received, caught>>
gotVars == <<received, caught>>

RowInit ==
    /\ state = [l \in Level |-> IF l = 0 THEN "running" ELSE "initial"]
    /\ mCurrentValue = [g \in Generator |-> Nothing]
    /\ mException = [g \in Generator |-> FALSE]
    /\ mConsumerHandle = [g \in Generator |-> g]     \* not set
    /\ begun = {} /\ yielded = 0 /\ received = <<>> /\ caught = FALSE

\* begin() or ++: the consumer's handle is left with the promise, and its
\* thread goes on in the producer.
Advance(l) ==
    /\ state[l] = "running" /\ l < Levels
    /\ state[l + 1] = (IF l \in begun THEN "yielded" ELSE "initial")
    /\ mConsumerHandle' = [mConsumerHandle EXCEPT ![l + 1] = l]
    /\ state' = [state EXCEPT ![l] = "advancing", ![l + 1] = "running"]
    /\ UNCHANGED <<mCurrentValue, mException, begun, yielded, gotVars>>

\* The last one waits for something else; any thread resumes it.
SourceSuspend ==
    /\ state[Levels] = "running"
    /\ state' = [state EXCEPT ![Levels] = "suspended"]
    /\ UNCHANGED <<mCurrentValue, mException, mConsumerHandle, begun, yielded, gotVars>>

SourceResume ==
    /\ state[Levels] = "suspended"
    /\ state' = [state EXCEPT ![Levels] = "running"]
    /\ UNCHANGED <<mCurrentValue, mException, mConsumerHandle, begun, yielded, gotVars>>

\* A yield_operation: the value is left in the promise, and the consumer is
\* resumed.
Transfer(g, value, next) ==
    /\ mCurrentValue' = [mCurrentValue EXCEPT ![g] = value]
    /\ state' = [state EXCEPT ![g] = next, ![mConsumerHandle[g]] = "resumed"]

YieldValue ==
    /\ state[Levels] = "running" /\ yielded < MaxValues
    /\ yielded' = yielded + 1
    /\ Transfer(Levels, yielded + 1, "yielded")
    /\ UNCHANGED <<mException, mConsumerHandle, begun, gotVars>>

\* Mutant: final_suspend() leaves the last value in the promise.
End_Keep(g, threw) ==
    /\ mException' = [mException EXCEPT ![g] = threw]
    /\ Transfer(g, mCurrentValue[g], "final")
    /\ UNCHANGED <<mConsumerHandle, begun, yielded, gotVars>>

\* final_suspend(), after a return or unhandled_exception().
End(g, threw) ==
    /\ mException' = [mException EXCEPT ![g] = threw]
    /\ Transfer(g, Nothing, "final")
    /\ UNCHANGED <<mConsumerHandle, begun, yielded, gotVars>>

SourceEnds == state[Levels] = "running" /\ \E threw \in BOOLEAN : End(Levels, threw)

\* await_resume() of begin() or ++, and what the coroutine does with it.  The
\* consumer keeps the value; fmap() yields it, or ends as its source did.
ConsumerGets ==
    /\ state[0] = "resumed"
    /\ begun' = begun \cup {0}
    /\ IF mCurrentValue[1] # Nothing
       THEN /\ received' = Append(received, mCurrentValue[1])
            /\ state' = [state EXCEPT ![0] = "running"]
            /\ UNCHANGED caught
       ELSE /\ caught' = mException[1]
            /\ state' = [state EXCEPT ![0] = "final"]
            /\ UNCHANGED received
    /\ UNCHANGED <<mCurrentValue, mException, mConsumerHandle, yielded>>

FmapYields(g) ==
    /\ g < Levels /\ state[g] = "resumed" /\ mCurrentValue[g + 1] # Nothing
    /\ begun' = begun \cup {g}
    /\ Transfer(g, mCurrentValue[g + 1], "yielded")
    /\ UNCHANGED <<mException, mConsumerHandle, yielded, gotVars>>

FmapEnds(g) ==
    /\ g < Levels /\ state[g] = "resumed" /\ mCurrentValue[g + 1] = Nothing
    /\ End(g, mException[g + 1])

\* The consumer stops early and destroys the generators.
Stop ==
    /\ state[0] = "running"
    /\ state' = [l \in Level |-> IF l = 0 THEN "final" ELSE "destroyed"]
    /\ UNCHANGED <<mCurrentValue, mException, mConsumerHandle, begun, yielded, gotVars>>

RowNext ==
    \/ SourceSuspend \/ SourceResume \/ YieldValue \/ SourceEnds \/ ConsumerGets \/ Stop
    \/ \E l \in Level : Advance(l)
    \/ \E g \in Generator : FmapYields(g) \/ FmapEnds(g)

RowSpec == RowInit /\ [][RowNext]_asyncVars

-----------------------------------------------------------------------------

\* One coroutine of the row runs at a time, unless the last one is suspended
\* or all is over; those before it wait for the next, those after it for the
\* one before, at their beginning or at a co_yield: whoever asks for a value
\* finds the next generator there, and not ended or still running.  A generator
\* is never destroyed while it runs or another thread may resume it, and the
\* consumer gets the values in order, each once, and after them the exception
\* if there is one.
OneRuns ==
    LET runs == {l \in Level : state[l] \in {"running", "resumed", "suspended"}}
    IN  /\ IF state[0] = "final" THEN runs = {} ELSE Cardinality(runs) = 1
        /\ \A l \in runs : \A k \in Level : k < l => state[k] = "advancing"
        /\ \A l \in 0..Levels - 1 :
              state[l] = "running" =>
                 state[l + 1] = IF l \in begun THEN "yielded" ELSE "initial"
        /\ \A i \in DOMAIN received : received[i] = i
        /\ state[0] \in {"running", "final"} => Len(received) = yielded
        /\ state[0] = "final" => caught = mException[Levels]

=============================================================================
