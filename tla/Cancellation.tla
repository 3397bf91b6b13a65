---------------------------- MODULE Cancellation ----------------------------
(***************************************************************************)
(* coro::cancellation_source, cancellation_token and                       *)
(* cancellation_registration on one shared detail::cancellation_state.     *)
(* A registration puts itself into a slot of a growing chain of chunks;    *)
(* the thread that requests cancellation walks over all slots, takes what  *)
(* it finds and runs the callbacks; a registration that is destroyed takes *)
(* itself out or waits for that walk to end.                               *)
(*                                                                         *)
(* An action is one atomic operation.  A load that only decides whether a  *)
(* following compare_exchange on the same location is tried is one step    *)
(* with it, because a failed exchange goes where the negative load goes.   *)
(* m_approx_tail is left out: it is a place in the chain to start from,    *)
(* and the walk over m_next_chunk ends at the last chunk from any place.   *)
(* The relaxed load and store of an m_approx_free_count that no other      *)
(* atomic operation separates are one step, too: the count is a hint.      *)
(***************************************************************************)
EXTENDS Integers, Sequences, FiniteSets

CONSTANTS
    Registrants,   \* threads, each with a cancellation_registration of its own
    Cancellers,    \* threads that hold a cancellation_source
    None,          \* nullptr
    ListCount,     \* m_list_count
    ListOf(_),     \* the list that a thread's id hashes to
    HeadSize,      \* initial_chunk_size, 16 in the code
    SizeLimit,     \* max_element_count, 1024 in the code
    Threshold,     \* forced_search_threshold, -10 in the code
    MaxRegs        \* bound: registrations of one thread

ASSUME CancellationAssumption ==
    /\ Registrants \cap Cancellers = {}
    /\ None \notin Registrants \cup Cancellers
    /\ IsFiniteSet(Registrants) /\ IsFiniteSet(Cancellers)
    /\ Cancellers # {}  \* cancellation_source() makes the state
    /\ ListCount \in Nat \ {0} /\ MaxRegs \in Nat
    /\ \A r \in Registrants : ListOf(r) \in 1..ListCount
    /\ HeadSize \in Nat \ {0} /\ SizeLimit \in Nat \ {0}
    /\ Threshold \in Int /\ Threshold < 0

Threads == Registrants \cup Cancellers
Lists == 1..ListCount

VARIABLES
    requested,   \* requested_flag of m_state
    complete,    \* notification_complete_flag of m_state
    sources,     \* source references in m_state
    tokens,      \* token and registration references in m_state
    deleted,     \* has the state been deleted?
    allocated,   \* is m_registration_state allocated?
    notifier,    \* m_notification_thread_id
    entries,     \* the chunks of each list, in order; a chunk is its m_entries
    free,        \* m_approx_free_count of each chunk
    pc,          \* where each thread is
    holds,       \* does a registrant hold a token besides its registration?
    place,       \* m_chunk and m_entry_id of each registration
    look,        \* locals of add_registration
    pos,         \* list_index, chunk and entry_index in request_cancellation
    current,     \* the registration whose callback a canceller runs
    made,        \* registrations made so far by each thread
    runs         \* times the callback of the current registration was called

vars == <<requested, complete, sources, tokens, deleted, allocated, notifier,
          entries, free, pc, holds, place, look, pos, current, made, runs>>
refs == <<sources, tokens, deleted>>
slots == <<entries, free>>
reg == <<holds, place, look, made>>
walk == <<notifier, pos, current>>

Goto(p, at) == pc' = [pc EXCEPT ![p] = at]

\* Positions are <<list, chunk, entry>>.
At(s) == entries[s[1]][s[2]][s[3]]
Put(s, v) == [entries EXCEPT ![s[1]][s[2]][s[3]] = v]
Chunk(n, r) == [i \in 1..n |-> IF i = 1 THEN r ELSE None]

Init ==
    /\ requested = FALSE /\ complete = FALSE
    /\ sources = Cardinality(Cancellers)
    /\ tokens = Cardinality(Registrants)
    /\ deleted = FALSE /\ allocated = FALSE
    /\ notifier = None
    /\ entries = [l \in Lists |-> <<>>]
    /\ free = [l \in Lists |-> <<>>]
    /\ pc = [p \in Threads |-> IF p \in Registrants THEN "idle" ELSE "source"]
    /\ holds = [r \in Registrants |-> TRUE]
    /\ place = [r \in Registrants |-> <<>>]
    /\ look = [r \in Registrants |-> <<>>]
    /\ pos = [t \in Cancellers |-> <<>>]
    /\ current = [t \in Cancellers |-> None]
    /\ made = [r \in Registrants |-> 0]
    /\ runs = [r \in Registrants |-> 0]

-----------------------------------------------------------------------------
(* References *)

\* release_token_ref(): whoever gives up the last reference deletes the state.
ReleaseTokenRef ==
    /\ tokens' = tokens - 1
    /\ deleted' = (deleted \/ (tokens = 1 /\ sources = 0))
    /\ UNCHANGED sources

ReleaseSourceRef ==
    /\ sources' = sources - 1
    /\ deleted' = (deleted \/ (sources = 1 /\ tokens = 0))
    /\ UNCHANGED tokens

\* ~cancellation_token()
DropToken(r) ==
    /\ pc[r] = "idle" /\ holds[r]
    /\ holds' = [holds EXCEPT ![r] = FALSE]
    /\ ReleaseTokenRef
    /\ UNCHANGED <<requested, complete, allocated, slots, walk, pc, place,
                   look, made, runs>>

\* ~cancellation_source()
DropSource(t) ==
    /\ pc[t] \in {"source", "returned"}
    /\ ReleaseSourceRef
    /\ Goto(t, "gone")
    /\ UNCHANGED <<requested, complete, allocated, slots, reg, walk, runs>>

-----------------------------------------------------------------------------
(* The constructor of a registration: register_callback() and, from "check" *)
(* on, try_register_callback()                                              *)

\* The constructor gets a copy of the thread's token or the token itself.
Register(r) ==
    /\ pc[r] = "idle" /\ holds[r]
    /\ made[r] < MaxRegs
    /\ made' = [made EXCEPT ![r] = @ + 1]
    /\ runs' = [runs EXCEPT ![r] = 0]
    /\ \/ tokens' = tokens + 1 /\ UNCHANGED holds
       \/ holds' = [holds EXCEPT ![r] = FALSE] /\ UNCHANGED tokens
    /\ Goto(r, "canCancel")
    /\ UNCHANGED <<requested, complete, sources, deleted, allocated, slots,
                   walk, place, look>>

\* can_be_cancelled(): the mask covers the two flags and the source references.
CanBeCancelled(r) ==
    /\ pc[r] = "canCancel"
    /\ Goto(r, IF requested \/ complete \/ sources > 0 THEN "check" ELSE "release")
    /\ UNCHANGED <<requested, complete, refs, allocated, slots, reg, walk, runs>>

CheckRequested(r) ==
    /\ pc[r] = "check"
    /\ Goto(r, IF requested THEN "selfCall" ELSE "allocate")
    /\ UNCHANGED <<requested, complete, refs, allocated, slots, reg, walk, runs>>

AllocateState(r) ==
    /\ pc[r] = "allocate"
    /\ allocated' = TRUE
    /\ Goto(r, "list")
    /\ UNCHANGED <<requested, complete, refs, slots, reg, walk, runs>>

\* add_registration(): the first one in a list brings the list with it.
FindList(r) ==
    LET l == ListOf(r)
    IN  /\ pc[r] = "list"
        /\ IF entries[l] = <<>>
           THEN /\ entries' = [entries EXCEPT ![l] = <<Chunk(HeadSize, r)>>]
                /\ free' = [free EXCEPT ![l] = <<HeadSize - 1>>]
                /\ place' = [place EXCEPT ![r] = <<l, 1, 1>>]
                /\ Goto(r, "recheck")
           ELSE Goto(r, "tail") /\ UNCHANGED <<slots, place>>
        /\ UNCHANGED <<requested, complete, refs, allocated, walk, holds, look,
                       made, runs>>

\* The search starts at the last chunk.
FindTail(r) ==
    LET last == Len(entries[ListOf(r)])
    IN  /\ pc[r] = "tail"
        /\ look' = [look EXCEPT ![r] =
                       [last |-> last, chunk |-> last, i |-> 0, count |-> 0]]
        /\ Goto(r, "chunk")
        /\ UNCHANGED <<requested, complete, refs, allocated, slots, walk, holds,
                       place, made, runs>>

\* To m_prev_chunk, or on to a new chunk.
PreviousChunk(r) ==
    /\ look' = [look EXCEPT ![r].chunk = @ - 1, ![r].i = 0]
    /\ Goto(r, IF look[r].chunk = 1 THEN "append" ELSE "chunk")

\* A chunk is searched if its count says that a slot is free, and every so
\* often when it does not.
LookAtCount(r) ==
    LET l == ListOf(r)
        c == look[r].chunk
        count == IF free[l][c] < 1 THEN free[l][c] - 1 ELSE free[l][c]
    IN  /\ pc[r] = "chunk"
        /\ free' = [free EXCEPT ![l][c] = count]
        /\ IF count > 0 \/ count < Threshold
           THEN /\ look' = [look EXCEPT ![r].count = count, ![r].i = 0]
                /\ Goto(r, "slot")
           ELSE PreviousChunk(r)
        /\ UNCHANGED <<requested, complete, refs, allocated, entries, walk,
                       holds, place, made, runs>>

\* entry_id of the current turn of the search; the size is a power of two.
EntryId(r, size) == ((size - look[r].count + look[r].i) % size) + 1

\* One turn of the search: claim the slot if it is free.
TrySlot(r) ==
    LET l == ListOf(r)
        c == look[r].chunk
        size == Len(entries[l][c])
        slot == <<l, c, EntryId(r, size)>>
        count == look[r].count
    IN  /\ pc[r] = "slot"
        /\ IF At(slot) = None
           THEN /\ entries' = Put(slot, r)
                /\ place' = [place EXCEPT ![r] = slot]
                /\ free' = [free EXCEPT ![l][c] = IF count < 0 THEN 0 ELSE count - 1]
                /\ Goto(r, "recheck")
                /\ UNCHANGED look
           ELSE IF look[r].i + 1 < size
           THEN /\ look' = [look EXCEPT ![r].i = @ + 1]
                /\ UNCHANGED <<slots, place, pc>>
           ELSE /\ free' = [free EXCEPT ![l][c] = 0]
                /\ PreviousChunk(r)
                /\ UNCHANGED <<entries, place>>
        /\ UNCHANGED <<requested, complete, refs, allocated, walk, holds, made, runs>>

\* A new chunk, with the registration in it, goes to the end of the chain,
\* unless somebody else's has come first.
AppendChunk(r) ==
    LET l == ListOf(r)
        last == look[r].last
        size == IF Len(entries[l][last]) < SizeLimit
                THEN 2 * Len(entries[l][last]) ELSE SizeLimit
    IN  /\ pc[r] = "append"
        /\ IF Len(entries[l]) = last
           THEN /\ entries' = [entries EXCEPT ![l] = Append(@, Chunk(size, r))]
                /\ free' = [free EXCEPT ![l] = Append(@, size - 1)]
                /\ place' = [place EXCEPT ![r] = <<l, last + 1, 1>>]
                /\ Goto(r, "recheck")
           ELSE Goto(r, "tail") /\ UNCHANGED <<slots, place>>
        /\ UNCHANGED <<requested, complete, refs, allocated, walk, holds, look,
                       made, runs>>

\* Mutant: the token keeps its reference although the registration took it.
Recheck_KeepToken(r) ==
    /\ pc[r] = "recheck"
    /\ IF requested
       THEN Goto(r, "unslot") /\ UNCHANGED refs
       ELSE Goto(r, "registered") /\ ReleaseTokenRef
    /\ UNCHANGED <<requested, complete, allocated, slots, reg, walk, runs>>

\* The registration is in its slot: has cancellation been requested meanwhile?
Recheck(r) ==
    /\ pc[r] = "recheck"
    /\ Goto(r, IF requested THEN "unslot" ELSE "registered")
    /\ UNCHANGED <<requested, complete, refs, allocated, slots, reg, walk, runs>>

\* If so, take it out, or leave it to the thread that has taken it out.
Unslot(r) ==
    /\ pc[r] = "unslot"
    /\ IF At(place[r]) = r
       THEN entries' = Put(place[r], None) /\ Goto(r, "selfCall")
       ELSE Goto(r, "registered") /\ UNCHANGED entries
    /\ UNCHANGED <<requested, complete, refs, allocated, free, reg, walk, runs>>

\* register_callback() runs the callback when it could not be registered.
SelfCall(r) ==
    /\ pc[r] = "selfCall"
    /\ runs' = [runs EXCEPT ![r] = @ + 1]
    /\ Goto(r, "release")
    /\ UNCHANGED <<requested, complete, refs, allocated, slots, reg, walk>>

\* The reference of a token that was not handed over, or of a registration
\* that has been deregistered, is released.
Release(r) ==
    /\ pc[r] = "release"
    /\ ReleaseTokenRef
    /\ Goto(r, "idle")
    /\ UNCHANGED <<requested, complete, allocated, slots, reg, walk, runs>>

-----------------------------------------------------------------------------
(* The destructor of a registration: deregister_callback() *)

\* Taking a registration out of its slot.
TakeOut(r) ==
    LET s == place[r]
        count == free[s[1]][s[2]]
    IN  /\ At(s) = r
        /\ entries' = Put(s, None)
        /\ free' = IF count < Len(entries[s[1]][s[2]])
                   THEN [free EXCEPT ![s[1]][s[2]] = IF count < 0 THEN 1 ELSE count + 1]
                   ELSE free

\* Mutant: the destructor does not wait for a callback that is running.
Deregister_NoWait(r) ==
    /\ pc[r] = "registered"
    /\ TakeOut(r) \/ (At(place[r]) # r /\ UNCHANGED slots)
    /\ Goto(r, "release")
    /\ UNCHANGED <<requested, complete, refs, allocated, reg, walk, runs>>

\* On the thread that made the registration, which is not the notifier.
Deregister(r) ==
    /\ pc[r] = "registered"
    /\ \/ TakeOut(r) /\ Goto(r, "release")
       \/ At(place[r]) # r /\ Goto(r, "wait") /\ UNCHANGED slots
    /\ UNCHANGED <<requested, complete, refs, allocated, reg, walk, runs>>

Wait(r) ==
    /\ pc[r] = "wait"
    /\ complete
    /\ Goto(r, "release")
    /\ UNCHANGED <<requested, complete, refs, allocated, slots, reg, walk, runs>>

\* Mutant: the notifier takes it that it has taken out everything.
DeregisterInCallback_Keep(t, r) ==
    /\ pc[t] = "callback" /\ notifier = t
    /\ pc[r] = "registered"
    /\ ReleaseTokenRef
    /\ Goto(r, "idle")
    /\ current' = [current EXCEPT ![t] = IF @ = r THEN None ELSE @]
    /\ UNCHANGED <<requested, complete, allocated, slots, reg, notifier, pos, runs>>

\* In a callback, any registration may be destroyed: the one whose callback
\* runs, one whose callback has run and one whose callback is still to run.
\* The thread is the notifier and does not wait; the reference that it
\* releases is not the last one, since it holds a source.
DeregisterInCallback(t, r) ==
    /\ pc[t] = "callback" /\ notifier = t
    /\ pc[r] = "registered"
    /\ TakeOut(r) \/ (At(place[r]) # r /\ UNCHANGED slots)
    /\ ReleaseTokenRef
    /\ Goto(r, "idle")
    /\ current' = [current EXCEPT ![t] = IF @ = r THEN None ELSE @]
    /\ UNCHANGED <<requested, complete, allocated, reg, notifier, pos, runs>>

-----------------------------------------------------------------------------
(* request_cancellation() *)

\* fetch_or(requested_flag): only the first caller goes on.
Request(t) ==
    /\ pc[t] = "source"
    /\ requested' = TRUE
    /\ Goto(t, IF requested THEN "returned" ELSE "state")
    /\ UNCHANGED <<complete, refs, allocated, slots, reg, walk, runs>>

\* Nothing was ever registered, or here is who runs the callbacks.
LoadState(t) ==
    /\ pc[t] = "state"
    /\ IF allocated
       THEN /\ notifier' = t
            /\ pos' = [pos EXCEPT ![t] = <<1, 1, 1>>]
            /\ Goto(t, "lists")
       ELSE Goto(t, "returned") /\ UNCHANGED <<notifier, pos>>
    /\ UNCHANGED <<requested, complete, refs, allocated, slots, reg, current, runs>>

LoadList(t) ==
    LET l == pos[t][1]
    IN  /\ pc[t] = "lists"
        /\ IF l > ListCount
           THEN Goto(t, "finish") /\ UNCHANGED pos
           ELSE IF entries[l] = <<>>
           THEN pos' = [pos EXCEPT ![t] = <<l + 1, 1, 1>>] /\ UNCHANGED pc
           ELSE Goto(t, "entry") /\ UNCHANGED pos
        /\ UNCHANGED <<requested, complete, refs, allocated, slots, reg,
                       notifier, current, runs>>

\* To the next entry of the chunk, or to its m_next_chunk.
NextEntry(t) ==
    /\ pos' = [pos EXCEPT ![t][3] = @ + 1]
    /\ Goto(t, IF pos[t][3] < Len(entries[pos[t][1]][pos[t][2]])
               THEN "entry" ELSE "nextChunk")

\* The registration that is in the slot is taken out and its callback called.
TakeEntry(t) ==
    LET r == At(pos[t])
    IN  /\ pc[t] = "entry"
        /\ IF r = None
           THEN NextEntry(t) /\ UNCHANGED <<entries, current, runs>>
           ELSE /\ entries' = Put(pos[t], None)
                /\ current' = [current EXCEPT ![t] = r]
                /\ runs' = [runs EXCEPT ![r] = @ + 1]
                /\ Goto(t, "callback")
                /\ UNCHANGED pos
        /\ UNCHANGED <<requested, complete, refs, allocated, free, reg, notifier>>

CallbackReturn(t) ==
    /\ pc[t] = "callback"
    /\ current' = [current EXCEPT ![t] = None]
    /\ NextEntry(t)
    /\ UNCHANGED <<requested, complete, refs, allocated, slots, reg, notifier, runs>>

NextChunk(t) ==
    LET l == pos[t][1]
        c == pos[t][2]
    IN  /\ pc[t] = "nextChunk"
        /\ IF c < Len(entries[l])
           THEN pos' = [pos EXCEPT ![t] = <<l, c + 1, 1>>] /\ Goto(t, "entry")
           ELSE pos' = [pos EXCEPT ![t] = <<l + 1, 1, 1>>] /\ Goto(t, "lists")
        /\ UNCHANGED <<requested, complete, refs, allocated, slots, reg,
                       notifier, current, runs>>

\* Mutant: the flag that ends the waiting is forgotten.
Finish_NoFlag(t) ==
    /\ pc[t] = "finish"
    /\ Goto(t, "returned")
    /\ UNCHANGED <<requested, complete, refs, allocated, slots, reg, walk, runs>>

Finish(t) ==
    /\ pc[t] = "finish"
    /\ complete' = TRUE
    /\ Goto(t, "returned")
    /\ UNCHANGED <<requested, refs, allocated, slots, reg, walk, runs>>

-----------------------------------------------------------------------------

\* What a registrant does without being told to.
Registrant(r) ==
    \/ CanBeCancelled(r) \/ CheckRequested(r) \/ AllocateState(r)
    \/ FindList(r) \/ FindTail(r) \/ LookAtCount(r) \/ TrySlot(r) \/ AppendChunk(r)
    \/ Recheck(r) \/ Unslot(r) \/ SelfCall(r) \/ Wait(r) \/ Release(r)

Canceller(t) ==
    \/ LoadState(t) \/ LoadList(t) \/ TakeEntry(t) \/ CallbackReturn(t)
    \/ NextChunk(t) \/ Finish(t)

Next ==
    \/ \E r \in Registrants :
          Registrant(r) \/ Register(r) \/ Deregister(r) \/ DropToken(r)
    \/ \E t \in Cancellers : Canceller(t) \/ Request(t) \/ DropSource(t)
    \/ \E t \in Cancellers, r \in Registrants : DeregisterInCallback(t, r)

\* Every call goes on, and every callback returns.
Spec ==
    /\ Init /\ [][Next]_vars
    /\ \A r \in Registrants : WF_vars(Registrant(r))
    /\ \A t \in Cancellers : WF_vars(Canceller(t))

-----------------------------------------------------------------------------

\* The control states in which a registration is in the slots or may be
\* in the hands of the notifier.
Listed(r) == pc[r] \in {"recheck", "unslot", "registered", "wait"}

\* Types of the state.
TypeOK ==
    /\ <<requested, complete, deleted, allocated>> \in BOOLEAN \X BOOLEAN \X BOOLEAN \X BOOLEAN
    /\ sources \in 0..Cardinality(Cancellers)
    /\ tokens \in 0..2 * Cardinality(Registrants)
    /\ notifier \in Cancellers \cup {None}
    /\ \A l \in Lists :
          /\ Len(entries[l]) = Len(free[l])
          /\ \A c \in DOMAIN entries[l] :
                /\ entries[l][c] \in Seq(Registrants \cup {None})
                /\ free[l][c] \in Int /\ free[l][c] <= Len(entries[l][c])
    /\ holds \in [Registrants -> BOOLEAN]
    /\ current \in [Cancellers -> Registrants \cup {None}]
    /\ made \in [Registrants -> 0..MaxRegs]
    /\ runs \in [Registrants -> Nat]

\* What is in a slot is a registration that will look for itself right there,
\* so it is in one slot only and its destructor finds it: in spite of chunks
\* that are published, claimed and freed concurrently.
SlotsPointBack ==
    \A l \in Lists : \A c \in DOMAIN entries[l] : \A e \in DOMAIN entries[l][c] :
        LET r == entries[l][c][e]
        IN  r # None => Listed(r) /\ place[r] = <<l, c, e>>

\* A callback is called once at most, by the notifier or by the registering
\* thread but not by both, only if cancellation was requested, and never after
\* the destructor of its registration returned, unless it is the callback
\* itself that destroyed it.
CalledOnceInTime ==
    /\ \A r \in Registrants : runs[r] <= 1 /\ (runs[r] = 1 => requested)
    /\ \A t \in Cancellers : current[t] # None => Listed(current[t])

\* When no request is under way any more, every registration that stands has
\* had its callback called.
NobodyMissed ==
    (requested /\ \A t \in Cancellers : pc[t] \in {"source", "returned", "gone"}) =>
        \A r \in Registrants : pc[r] \in {"registered", "wait"} => runs[r] = 1

\* Both: a registration is found from its slot and its slot from it, also while
\* the notifier walks, so that it is called if it stands.
RegistrationsAreServed == SlotsPointBack /\ NobodyMissed

\* The state is deleted when no thread is in a call on it and neither a
\* token, a source nor a registration is left, and never before.
DeletedLast ==
    deleted <=> /\ \A r \in Registrants : pc[r] = "idle" /\ ~holds[r]
                /\ \A t \in Cancellers : pc[t] = "gone"

\* Every constructor, every destructor, which may have to wait, and every
\* request for cancellation return.
CallsReturn ==
    /\ \A r \in Registrants :
          pc[r] \notin {"idle", "registered"} ~> pc[r] \in {"idle", "registered"}
    /\ \A t \in Cancellers : pc[t] = "state" ~> pc[t] = "returned"

=============================================================================
