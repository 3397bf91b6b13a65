---------------------------- MODULE AbstractGate ----------------------------
(***************************************************************************)
(* What coro::async_manual_reset_event promises: opening the gate releases *)
(* everyone who waits at it, at once and whatever happens to the gate      *)
(* afterwards; nobody starts to wait at an open gate; closing it neither   *)
(* releases nor forgets anyone.                                            *)
(***************************************************************************)
CONSTANT Awaiters

VARIABLES open, waiting, released

avars == <<open, waiting, released>>

AInit ==
    /\ open \in BOOLEAN
    /\ waiting = {}
    /\ released = {}

AWait(c) ==
    /\ ~open
    /\ c \notin waiting \cup released
    /\ waiting' = waiting \cup {c}
    /\ UNCHANGED <<open, released>>

AOpen ==
    /\ open' = TRUE
    /\ released' = released \cup waiting
    /\ waiting' = {}

AClose ==
    /\ open' = FALSE
    /\ UNCHANGED <<waiting, released>>

\* A released coroutine passes.
APass(c) ==
    /\ c \in released
    /\ released' = released \ {c}
    /\ UNCHANGED <<open, waiting>>

ANext ==
    \/ AOpen
    \/ AClose
    \/ \E c \in Awaiters : AWait(c) \/ APass(c)

ASpec == AInit /\ [][ANext]_avars

=============================================================================
