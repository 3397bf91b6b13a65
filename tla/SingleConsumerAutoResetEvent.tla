-------------------- MODULE SingleConsumerAutoResetEvent --------------------
(***************************************************************************)
(* coro::single_consumer_async_auto_reset_event.  Its word is null, the    *)
(* event itself ("set", only ever by the constructor), or the address of   *)
(* the handle of the one waiter.  set() reads the word, the handle behind  *)
(* the address, exchanges the word and resumes, in separate steps, on any  *)
(* number of threads.  The consumer awaits in a loop, so that its awaiter  *)
(* is at the same address each time.                                       *)
(***************************************************************************)
EXTENDS Naturals

CONSTANTS AutoSetters   \* threads that call set()

VARIABLES
    aState,         \* m_state: "null", "set" or "waiter"
    aWaiter,        \* where the awaiting coroutine is
    aSetter,        \* where each call of set() is
    sharedAddress   \* history: did two calls hold the address at a time?

autoVars == <<aState, aWaiter, aSetter, sharedAddress>>

AutoInit ==
    /\ aState \in {"null", "set"}
    /\ aWaiter = "running"
    /\ aSetter = [t \in AutoSetters |-> "idle"]
    /\ sharedAddress = FALSE

\* await_suspend(): the compare-exchange stores the address of the handle.
AwaitStore ==
    /\ aWaiter = "running"
    /\ aState = "null"
    /\ aState' = "waiter"
    /\ aWaiter' = "suspended"
    /\ UNCHANGED <<aSetter, sharedAddress>>

\* await_suspend(): it fails, on account of the set of the constructor as the
\* assertion has it, and whatever is in the word is used up.
AwaitFails ==
    /\ aWaiter = "running"
    /\ aState # "null"
    /\ aWaiter' = "using"
    /\ UNCHANGED <<aState, aSetter, sharedAddress>>

AwaitUsesUp ==
    /\ aWaiter = "using"
    /\ aState' = "null"
    /\ aWaiter' = "running"
    /\ UNCHANGED <<aSetter, sharedAddress>>

\* A call of set() that has the address and has not cleared the word.
HoldsAddress(t) == aSetter[t] \in {"loaded", "read"}

\* set(): the load; nothing else happens unless somebody waits.
SetLoad(t) ==
    /\ aSetter[t] = "idle"
    /\ aState = "waiter"
    /\ aSetter' = [aSetter EXCEPT ![t] = "loaded"]
    /\ sharedAddress' = (sharedAddress \/ \E u \in AutoSetters : HoldsAddress(u))
    /\ UNCHANGED <<aState, aWaiter>>

\* set(): the handle is read from the waiter's frame, where there is none, or
\* something else, when the coroutine has gone on.
SetReadHandle(t) ==
    /\ aSetter[t] = "loaded"
    /\ aSetter' = [aSetter EXCEPT ![t] = "read"]
    /\ aWaiter' = IF aWaiter = "suspended" THEN aWaiter ELSE "undefined"
    /\ UNCHANGED <<aState, sharedAddress>>

\* Mutant: set() looks at the word and leaves the waiter in it.
SetExchange_Load(t) ==
    /\ aSetter[t] = "read"
    /\ aSetter' = [aSetter EXCEPT ![t] = "resuming"]
    /\ UNCHANGED <<aState, aWaiter, sharedAddress>>

\* set(): the word is cleared; what was in it is not looked at.
SetExchange(t) ==
    /\ aSetter[t] = "read"
    /\ aState' = "null"
    /\ aSetter' = [aSetter EXCEPT ![t] = "resuming"]
    /\ UNCHANGED <<aWaiter, sharedAddress>>

\* set(): the coroutine is resumed, which is defined if it is suspended.
SetResume(t) ==
    /\ aSetter[t] = "resuming"
    /\ aWaiter' = IF aWaiter = "suspended" THEN "running" ELSE "undefined"
    /\ aSetter' = [aSetter EXCEPT ![t] = "idle"]
    /\ UNCHANGED <<aState, sharedAddress>>

AutoNext ==
    \/ AwaitStore \/ AwaitFails \/ AwaitUsesUp
    \/ \E t \in AutoSetters :
          SetLoad(t) \/ SetReadHandle(t) \/ SetExchange(t) \/ SetResume(t)

AutoSpec == AutoInit /\ [][AutoNext]_autoVars

-----------------------------------------------------------------------------

\* However many threads set the event, a suspended coroutine is never lost: the
\* word knows it, or a call of set() past its load that has yet to resume it.  And
\* only one order of steps can do harm: the second call loads the address before
\* the first has cleared the word.  Short of that a coroutine is resumed once for
\* each time it is suspended, and is in the word only while it is suspended.
SuspendedOnceResumedOnce ==
    /\ aWaiter = "suspended" =>
          aState = "waiter" \/ \E t \in AutoSetters : aSetter[t] # "idle"
    /\ ~sharedAddress =>
          /\ aWaiter # "undefined"
          /\ aState = "waiter" => aWaiter = "suspended"

\* What await_suspend() asserts: the compare-exchange fails only on an event that
\* was constructed as set, so that there is something to use up.
FailedAwaitFindsSet == [][AwaitFails => aState = "set"]_autoVars

=============================================================================
