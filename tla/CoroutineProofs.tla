-------------------------- MODULE CoroutineProofs ---------------------------
(***************************************************************************)
(* Proofs about SharedTask, for any finite set of coroutines; WhenAll, for *)
(* any number of tasks; AsyncScope, for any finite number of coroutines;   *)
(* AsyncGenerator, for rows of any length; Generators, of any depth.       *)
(* The list in m_waiters of a shared task and that of its final_suspend()  *)
(* are reasoned about as one queue: only one of them is ever in use.       *)
(***************************************************************************)
EXTENDS SharedTask, WhenAll, AsyncScope, AsyncGenerator, Generators, FiniteSetTheorems,
        SequenceTheorems, TLAPS

-----------------------------------------------------------------------------
\* shared_task

Status == {"notStarted", "started", "ready"}
Word == [status : Status, list : Seq(Coroutines)]

TaskTypeInv ==
    /\ holders \subseteq Coroutines
    /\ mWaiters \in Word
    /\ mWaiters.status # "started" => mWaiters.list = <<>>
    /\ old \in [Coroutines -> Word]
    /\ \A c \in Coroutines : old[c].status # "started" => old[c].list = <<>>
    /\ body \in {"initial", "running", "suspended", "final", "destroyed"}
    /\ runner \in Coroutines \cup {Other, NoOne}
    /\ result \in {"none", "value", "exception"}
    /\ toResume \in Seq(Coroutines)
    /\ callee \in Coroutines \cup {NoOne}
    /\ pc \in [Coroutines -> {"running", "load", "reload", "start", "resuming",
                              "push", "suspended"}]
    /\ outcome \in [Coroutines -> {"none", "broken_promise", "value", "exception"}]

\* How far the task is, and who is inside it: a task that has begun and not
\* ended has an awaiter that runs it, is about to queue itself, or waits.
PhaseInv ==
    /\ mWaiters.status = "notStarted" =>
          /\ result = "none" /\ body \in {"initial", "destroyed"}
          /\ \A c \in Coroutines :
                pc[c] \notin {"reload", "push", "resuming", "suspended"}
    /\ mWaiters.status = "started" =>
          /\ body \in {"running", "suspended"}
          /\ \E c \in Coroutines :
                pc[c] \in {"reload", "push", "resuming", "suspended"}
    /\ mWaiters.status = "ready" =>
          result # "none" /\ body \in {"final", "destroyed"}
    /\ body = "suspended" => result = "none"
    /\ \A c \in Coroutines :
          pc[c] = "push" /\ old[c].status = "ready" => mWaiters.status = "ready"

\* The body runs on one thread, that of the awaiter inside resume() or another.
RunnerInv ==
    /\ \A c \in Coroutines : pc[c] = "resuming" <=> runner = c
    /\ mWaiters.status = "notStarted" \/ body = "suspended" => runner = NoOne
    /\ body = "running" => runner # NoOne
    /\ \A c \in Coroutines : outcome[c] \in {"none", "broken_promise", result}

HoldersInv ==
    /\ refCount = Cardinality(holders)
    /\ body = "destroyed" <=> holders = {}
    /\ \A c \in Coroutines : pc[c] # "running" => c \in holders

\* The waiters, on whichever of the two lists they are.
Queue == IF mWaiters.status = "ready" THEN toResume ELSE mWaiters.list

QueueInv ==
    /\ mWaiters.status # "ready" => toResume = <<>> /\ callee = NoOne
    /\ \A i, j \in 1..Len(Queue) : Queue[i] = Queue[j] => i = j
    /\ \A c \in Coroutines :
          pc[c] = "suspended" <=> \E i \in 1..Len(Queue) : Queue[i] = c

\* The inductive invariant.
TaskInv == TaskTypeInv /\ PhaseInv /\ RunnerInv /\ HoldersInv /\ QueueInv

\* The values of the word are told apart by their status.
LEMMA WordValues ==
    ASSUME TaskTypeInv
    PROVE  /\ mWaiters = Ready <=> mWaiters.status = "ready"
           /\ mWaiters = NotStarted <=> mWaiters.status = "notStarted"
           /\ \A c \in Coroutines : old[c] = Ready <=> old[c].status = "ready"
<1>1. ASSUME NEW w \in Word, w.status # "started" => w.list = <<>>
      PROVE  /\ w = Ready <=> w.status = "ready"
             /\ w = NotStarted <=> w.status = "notStarted"
  BY <1>1 DEF Word, Ready, NotStarted
<1> QED BY <1>1 DEF TaskTypeInv

\* What the constructors of the word yield.
LEMMA WordTypes ==
    /\ \A s \in Seq(Coroutines) :
          /\ Started(s) \in Word
          /\ Started(s).status = "started"
          /\ Started(s).list = s
    /\ Started(<<>>) \in Word /\ Started(<<>>).status = "started"
    /\ Started(<<>>).list = <<>>
    /\ Ready \in Word /\ Ready.status = "ready" /\ Ready.list = <<>>
    /\ NotStarted \in Word /\ NotStarted.status = "notStarted"
    /\ NotStarted.list = <<>>
BY DEF Started, Ready, NotStarted, Word, Status

\* The threads of the program are told apart.
LEMMA ThreadsDiffer ==
    /\ Creator \in Coroutines /\ Other \notin Coroutines
    /\ NoOne \notin Coroutines /\ NoOne # Other /\ IsFiniteSet(Coroutines)
BY SharedTaskAssumption

LEMMA InitTaskInv == ASSUME Init PROVE TaskInv
<1>1. TaskTypeInv
  BY WordTypes, ThreadsDiffer DEF Init, TaskTypeInv
<1>2. PhaseInv
  BY WordTypes DEF Init, PhaseInv
<1>3. RunnerInv
  BY ThreadsDiffer, WordTypes DEF Init, RunnerInv
<1>4. HoldersInv
  <2>1. Cardinality({Creator}) = 1
    BY FS_Singleton
  <2> QED BY <2>1, ThreadsDiffer DEF Init, HoldersInv
<1>5. QueueInv
  BY WordTypes DEF Init, QueueInv, Queue
<1> QED BY <1>1, <1>2, <1>3, <1>4, <1>5 DEF TaskInv

\* The call of resume() that returns is that of the runner.
LEMMA Returns ==
    ASSUME TaskTypeInv, RunnerInv, runner # NoOne, Return
    PROVE  /\ runner' = NoOne
           /\ \/ runner = Other /\ pc' = pc
              \/ /\ runner \in Coroutines /\ pc[runner] = "resuming"
                 /\ pc' = [pc EXCEPT ![runner] = "reload"]
BY ThreadsDiffer DEF TaskTypeInv, RunnerInv, Return

LEMMA StepTaskType == ASSUME TaskInv, [Next]_taskVars PROVE TaskTypeInv'
<1>0. TaskTypeInv /\ RunnerInv /\ PhaseInv
  BY DEF TaskInv
<1> USE WordTypes, ThreadsDiffer DEF TaskTypeInv
<1>1. ASSUME NEW c \in Coroutines, NEW d \in Coroutines, Copy(c, d) \/ Move(c, d)
      PROVE  TaskTypeInv'
  BY <1>0, <1>1 DEF Copy, Move, bodyVars
<1>2. ASSUME NEW c \in Coroutines, Destroy(c) PROVE TaskTypeInv'
  BY <1>0, <1>2 DEF Destroy
<1>3. ASSUME NEW c \in Coroutines, AwaitReady(c) PROVE TaskTypeInv'
  <2>1. outcome[c] \in {"none", "broken_promise", result}
    BY <1>0 DEF RunnerInv
  <2> QED BY <1>0, <1>3, <2>1 DEF AwaitReady, Resumed, Goto, bodyVars
<1>4. ASSUME NEW c \in Coroutines, Load(c) PROVE TaskTypeInv'
  BY <1>0, <1>4 DEF Load, Goto, bodyVars
<1>5. ASSUME NEW c \in Coroutines, Start(c) PROVE TaskTypeInv'
  <2>1. CASE mWaiters = NotStarted
    <3>1. mWaiters' = Started(<<>>) /\ UNCHANGED old
      BY <1>5, <2>1 DEF Start
    <3> QED BY <1>0, <1>5, <2>1, <3>1 DEF Start, Goto
  <2>2. CASE mWaiters # NotStarted
    BY <1>0, <1>5, <2>2 DEF Start, Goto
  <2> QED BY <2>1, <2>2
<1>6. ASSUME NEW c \in Coroutines, Push(c) PROVE TaskTypeInv'
  <2>1. <<c>> \o mWaiters.list \in Seq(Coroutines)
    BY <1>0 DEF Word
  <2>2. Started(<<c>> \o mWaiters.list) \in Word
        /\ Started(<<c>> \o mWaiters.list).status = "started"
    BY <2>1
  <2>3. CASE old[c] = Ready
    BY <1>0, <1>6, <2>3 DEF Push, Resumed, Goto, bodyVars
  <2>4. CASE old[c] # Ready /\ mWaiters = old[c]
    <3>1. mWaiters' = Started(<<c>> \o mWaiters.list) /\ UNCHANGED old
      BY <1>6, <2>4 DEF Push
    <3> QED BY <1>0, <1>6, <2>2, <2>4, <3>1 DEF Push, Goto, bodyVars
  <2>5. CASE old[c] # Ready /\ mWaiters # old[c]
    BY <1>0, <1>6, <2>5 DEF Push, bodyVars
  <2> QED BY <2>3, <2>4, <2>5
<1>7. CASE BodySuspend \/ FinalReturn
  <2>1. runner # NoOne /\ Return
    BY <1>0, <1>7 DEF BodySuspend, FinalReturn, RunnerInv
  <2> QED BY <1>0, <1>7, <2>1, Returns DEF BodySuspend, FinalReturn
<1>8. CASE BodyResume \/ BodyEnd \/ WaiterReturns
  BY <1>0, <1>8 DEF BodyResume, BodyEnd, WaiterReturns
<1>9. CASE FinalSuspend
  BY <1>0, <1>9 DEF FinalSuspend, Word
<1>10. CASE ResumeWaiter
  <2>1. Head(toResume) \in Coroutines /\ Tail(toResume) \in Seq(Coroutines)
    BY <1>0, <1>10 DEF ResumeWaiter
  <2> QED BY <1>0, <1>10, <2>1 DEF ResumeWaiter, Resumed, Goto
<1>11. CASE UNCHANGED taskVars
  BY <1>0, <1>11 DEF taskVars
<1> QED
  BY <1>1, <1>2, <1>3, <1>4, <1>5, <1>6, <1>7, <1>8, <1>9, <1>10, <1>11 DEF Next

\* The last shared_task to go finds a task that nobody is inside of.
LEMMA LastHolder ==
    ASSUME TaskInv, NEW c \in Coroutines, c \in holders, refCount = 1
    PROVE  holders = {c}
<1>1. IsFiniteSet(holders)
  BY ThreadsDiffer, FS_Subset DEF TaskInv, TaskTypeInv
<1>2. \E x : holders = {x}
  BY <1>1, FS_Singleton DEF TaskInv, HoldersInv
<1> QED BY <1>2

LEMMA StepPhase == ASSUME TaskInv, [Next]_taskVars PROVE PhaseInv'
<1>0. TaskTypeInv /\ PhaseInv /\ RunnerInv /\ HoldersInv /\ QueueInv
  BY DEF TaskInv
<1> USE WordTypes, WordValues DEF PhaseInv
<1>1. ASSUME NEW c \in Coroutines, NEW d \in Coroutines, Copy(c, d) \/ Move(c, d)
      PROVE  PhaseInv'
  BY <1>0, <1>1 DEF Copy, Move, bodyVars
<1>2. ASSUME NEW c \in Coroutines, Destroy(c) PROVE PhaseInv'
  <2>1. CASE refCount = 1
    <3>1. holders = {c} /\ pc[c] = "running"
      BY <1>2, <2>1, LastHolder DEF Destroy
    <3>2. mWaiters.status # "started"
      BY <1>0, <3>1 DEF HoldersInv
    <3> QED BY <1>0, <1>2, <2>1, <3>2 DEF Destroy
  <2>2. CASE refCount # 1
    BY <1>0, <1>2, <2>2 DEF Destroy
  <2> QED BY <2>1, <2>2
<1>3. ASSUME NEW c \in Coroutines, AwaitReady(c) PROVE PhaseInv'
  BY <1>0, <1>3 DEF AwaitReady, Resumed, Goto, bodyVars, TaskTypeInv
<1>4. ASSUME NEW c \in Coroutines, Load(c) PROVE PhaseInv'
  BY <1>0, <1>4 DEF Load, Goto, bodyVars, TaskTypeInv
<1>5. ASSUME NEW c \in Coroutines, Start(c) PROVE PhaseInv'
  <2>1. CASE mWaiters = NotStarted
    <3>1. /\ mWaiters'.status = "started" /\ body' = "running" /\ pc'[c] = "resuming"
          /\ \A d \in Coroutines : pc'[d] = "push" => pc[d] = "push"
          /\ UNCHANGED <<old, result>>
      BY <1>0, <1>5, <2>1 DEF Start, Goto, TaskTypeInv
    <3> QED BY <1>0, <2>1, <3>1
  <2>2. CASE mWaiters # NotStarted
    BY <1>0, <1>5, <2>2 DEF Start, Goto, TaskTypeInv
  <2> QED BY <2>1, <2>2
<1>6. ASSUME NEW c \in Coroutines, Push(c) PROVE PhaseInv'
  <2>1. pc[c] = "push" /\ mWaiters.status # "notStarted"
    BY <1>0, <1>6 DEF Push
  <2>2. CASE old[c] = Ready
    BY <1>0, <1>6, <2>1, <2>2 DEF Push, Resumed, Goto, bodyVars, TaskTypeInv
  <2>3. CASE old[c] # Ready /\ mWaiters = old[c]
    <3>1. mWaiters.status = "started"
      BY <1>0, <2>1, <2>3 DEF TaskTypeInv, Word, Status
    <3>2. <<c>> \o mWaiters.list \in Seq(Coroutines)
      BY <1>0 DEF TaskTypeInv, Word
    <3>3. mWaiters'.status = "started" /\ pc' = [pc EXCEPT ![c] = "suspended"]
      BY <1>6, <2>3, <3>2 DEF Push, Goto
    <3> QED BY <1>0, <1>6, <2>3, <3>1, <3>3 DEF Push, bodyVars, TaskTypeInv
  <2>4. CASE old[c] # Ready /\ mWaiters # old[c]
    BY <1>0, <1>6, <2>1, <2>4 DEF Push, bodyVars, TaskTypeInv
  <2> QED BY <2>2, <2>3, <2>4
<1>7. CASE BodySuspend
  <2>1. runner # NoOne /\ Return /\ mWaiters.status = "started"
    BY <1>0, <1>7 DEF BodySuspend, RunnerInv, TaskTypeInv, Word, Status
  <2>2. \A c \in Coroutines :
           /\ pc[c] \in {"reload", "push", "resuming", "suspended"}
                 => pc'[c] \in {"reload", "push", "resuming", "suspended"}
           /\ pc'[c] = "push" => pc[c] = "push"
    BY <1>0, <2>1, Returns DEF TaskTypeInv
  <2> QED BY <1>0, <1>7, <2>1, <2>2 DEF BodySuspend
<1>8. CASE FinalReturn
  <2>1. runner # NoOne /\ Return /\ mWaiters.status = "ready"
    BY <1>0, <1>8 DEF FinalReturn
  <2> QED BY <1>0, <1>8, <2>1 DEF FinalReturn
<1>9. CASE BodyResume \/ BodyEnd \/ WaiterReturns
  BY <1>0, <1>9 DEF BodyResume, BodyEnd, WaiterReturns
<1>10. CASE FinalSuspend
  BY <1>0, <1>10 DEF FinalSuspend
<1>11. CASE ResumeWaiter
  <2>1. mWaiters.status = "ready" /\ mWaiters' = mWaiters
    BY <1>0, <1>11 DEF ResumeWaiter, QueueInv
  <2> QED BY <1>0, <1>11, <2>1 DEF ResumeWaiter
<1>12. CASE UNCHANGED taskVars
  BY <1>0, <1>12 DEF taskVars
<1> QED
  BY <1>1, <1>2, <1>3, <1>4, <1>5, <1>6, <1>7, <1>8, <1>9, <1>10, <1>11, <1>12
  DEF Next

LEMMA StepRunner == ASSUME TaskInv, [Next]_taskVars PROVE RunnerInv'
<1>0. TaskTypeInv /\ PhaseInv /\ RunnerInv /\ QueueInv
  BY DEF TaskInv
<1> USE WordTypes, WordValues, ThreadsDiffer DEF RunnerInv
<1>1. ASSUME NEW c \in Coroutines, NEW d \in Coroutines, Copy(c, d) \/ Move(c, d)
      PROVE  RunnerInv'
  BY <1>0, <1>1 DEF Copy, Move, bodyVars
<1>2. ASSUME NEW c \in Coroutines, Destroy(c) PROVE RunnerInv'
  BY <1>0, <1>2 DEF Destroy
<1>3. ASSUME NEW c \in Coroutines, AwaitReady(c) PROVE RunnerInv'
  BY <1>0, <1>3 DEF AwaitReady, Resumed, Goto, bodyVars, TaskTypeInv
<1>4. ASSUME NEW c \in Coroutines, Load(c) PROVE RunnerInv'
  BY <1>0, <1>4 DEF Load, Goto, bodyVars, TaskTypeInv
<1>5. ASSUME NEW c \in Coroutines, Start(c) PROVE RunnerInv'
  <2>1. CASE mWaiters = NotStarted
    <3>1. \A d \in Coroutines : pc[d] # "resuming"
      BY <1>0, <2>1 DEF PhaseInv
    <3>2. /\ runner' = c /\ pc' = [pc EXCEPT ![c] = "resuming"] /\ body' = "running"
          /\ mWaiters'.status = "started" /\ UNCHANGED <<outcome, result>>
      BY <1>5, <2>1 DEF Start, Goto
    <3> QED BY <1>0, <3>1, <3>2 DEF TaskTypeInv
  <2>2. CASE mWaiters # NotStarted
    BY <1>0, <1>5, <2>2 DEF Start, Goto, TaskTypeInv
  <2> QED BY <2>1, <2>2
<1>6. ASSUME NEW c \in Coroutines, Push(c) PROVE RunnerInv'
  <2>1. /\ pc[c] = "push" /\ mWaiters.status # "notStarted"
        /\ <<c>> \o mWaiters.list \in Seq(Coroutines)
    BY <1>0, <1>6 DEF Push, PhaseInv, TaskTypeInv, Word
  <2>2. mWaiters' = mWaiters \/ mWaiters' = Started(<<c>> \o mWaiters.list)
    BY <1>6 DEF Push
  <2>3. mWaiters'.status # "notStarted"
    BY <2>1, <2>2
  <2>4. /\ \A d \in Coroutines : pc'[d] = "resuming" <=> pc[d] = "resuming"
        /\ \A d \in Coroutines : outcome'[d] \in {outcome[d], result}
    BY <1>0, <1>6, <2>1 DEF Push, Resumed, Goto, TaskTypeInv
  <2> QED BY <1>0, <1>6, <2>3, <2>4 DEF Push, bodyVars
<1>7. CASE BodySuspend \/ FinalReturn
  <2>1. runner # NoOne /\ Return
    BY <1>0, <1>7 DEF BodySuspend, FinalReturn
  <2>2. runner' = NoOne /\ \A c \in Coroutines : pc'[c] # "resuming"
    BY <1>0, <2>1, Returns DEF TaskTypeInv
  <2>3. body' # "running"
    BY <1>0, <1>7 DEF BodySuspend, FinalReturn, PhaseInv
  <2> QED BY <1>0, <1>7, <2>2, <2>3 DEF BodySuspend, FinalReturn
<1>8. CASE BodyResume
  <2>1. mWaiters.status # "notStarted"
    BY <1>0, <1>8 DEF BodyResume, PhaseInv
  <2> QED BY <1>0, <1>8, <2>1 DEF BodyResume
<1>9. CASE BodyEnd
  BY <1>0, <1>9 DEF BodyEnd
<1>10. CASE WaiterReturns
  BY <1>0, <1>10 DEF WaiterReturns
<1>11. CASE FinalSuspend
  BY <1>0, <1>11 DEF FinalSuspend
<1>12. CASE ResumeWaiter
  <2> DEFINE h == Head(toResume)
  <2>1. h \in Coroutines /\ mWaiters.status = "ready" /\ h = toResume[1]
        /\ 1 \in 1..Len(toResume)
    BY <1>0, <1>12 DEF ResumeWaiter, QueueInv, TaskTypeInv
  <2>2. pc[h] = "suspended"
    BY <1>0, <2>1 DEF QueueInv, Queue
  <2> QED BY <1>0, <1>12, <2>1, <2>2 DEF ResumeWaiter, Resumed, Goto, TaskTypeInv
<1>13. CASE UNCHANGED taskVars
  BY <1>0, <1>13 DEF taskVars
<1> QED
  BY <1>1, <1>2, <1>3, <1>4, <1>5, <1>6, <1>7, <1>8, <1>9, <1>10, <1>11, <1>12, <1>13
  DEF Next

LEMMA StepHolders == ASSUME TaskInv, [Next]_taskVars PROVE HoldersInv'
<1>0. TaskTypeInv /\ PhaseInv /\ RunnerInv /\ HoldersInv
  BY DEF TaskInv
<1>a. IsFiniteSet(holders) /\ Cardinality(holders) \in Nat
  BY <1>0, ThreadsDiffer, FS_Subset, FS_CardinalityType DEF TaskTypeInv
<1> USE DEF HoldersInv
<1>1. ASSUME NEW c \in Coroutines, NEW d \in Coroutines, Copy(c, d) PROVE HoldersInv'
  <2>1. Cardinality(holders \cup {d}) = Cardinality(holders) + 1
    BY <1>1, <1>a, FS_AddElement DEF Copy
  <2> QED BY <1>0, <1>1, <2>1 DEF Copy, bodyVars
<1>2. ASSUME NEW c \in Coroutines, NEW d \in Coroutines, Move(c, d) PROVE HoldersInv'
  <2>1. IsFiniteSet(holders \ {c}) /\ Cardinality(holders \ {c}) = Cardinality(holders) - 1
    BY <1>2, <1>a, FS_RemoveElement DEF Move
  <2>2. Cardinality((holders \ {c}) \cup {d}) = Cardinality(holders)
    <3>1. d \notin holders \ {c}
      BY <1>2 DEF Move
    <3>2. Cardinality((holders \ {c}) \cup {d}) = Cardinality(holders \ {c}) + 1
      BY <2>1, <3>1, FS_AddElement
    <3> QED BY <1>a, <2>1, <3>2
  <2> QED BY <1>0, <1>2, <2>2 DEF Move, bodyVars
<1>3. ASSUME NEW c \in Coroutines, Destroy(c) PROVE HoldersInv'
  <2>1. Cardinality(holders \ {c}) = Cardinality(holders) - 1 /\ IsFiniteSet(holders \ {c})
    BY <1>3, <1>a, FS_RemoveElement DEF Destroy
  <2>2. holders \ {c} = {} <=> refCount = 1
    <3>1. Cardinality(holders \ {c}) = 0 <=> holders \ {c} = {}
      BY <2>1, FS_EmptySet
    <3>2. refCount = Cardinality(holders)
      BY <1>0
    <3> QED BY <1>a, <2>1, <3>1, <3>2
  <2>3. refCount' = Cardinality(holders)'
    BY <1>0, <1>3, <2>1 DEF Destroy
  <2>4. body # "destroyed" /\ (body' = "destroyed" <=> refCount = 1)
    BY <1>0, <1>3 DEF Destroy
  <2>5. \A d \in Coroutines : pc'[d] # "running" => d \in holders'
    BY <1>0, <1>3 DEF Destroy
  <2>6. body' = "destroyed" <=> holders' = {}
    BY <1>3, <2>2, <2>4 DEF Destroy
  <2> QED BY <2>3, <2>5, <2>6
<1>4. ASSUME NEW c \in Coroutines, AwaitReady(c) \/ Load(c) PROVE HoldersInv'
  BY <1>0, <1>4 DEF AwaitReady, Load, Resumed, Goto, bodyVars, TaskTypeInv
<1>5. ASSUME NEW c \in Coroutines, Start(c) PROVE HoldersInv'
  BY <1>0, <1>5 DEF Start, Goto, TaskTypeInv
<1>6. ASSUME NEW c \in Coroutines, Push(c) PROVE HoldersInv'
  BY <1>0, <1>6 DEF Push, Resumed, Goto, bodyVars, TaskTypeInv
<1>7. CASE BodySuspend \/ FinalReturn
  <2>1. runner # NoOne /\ Return
    BY <1>0, <1>7 DEF BodySuspend, FinalReturn, RunnerInv
  <2>2. \A c \in Coroutines : pc[c] = "running" => pc'[c] = "running"
    BY <1>0, <2>1, Returns DEF TaskTypeInv
  <2> QED BY <1>0, <1>7, <2>2 DEF BodySuspend, FinalReturn
<1>8. CASE BodyResume \/ BodyEnd \/ WaiterReturns \/ FinalSuspend
  BY <1>0, <1>8 DEF BodyResume, BodyEnd, WaiterReturns, FinalSuspend
<1>9. CASE ResumeWaiter
  BY <1>0, <1>9 DEF ResumeWaiter, Resumed, Goto, TaskTypeInv
<1>10. CASE UNCHANGED taskVars
  BY <1>0, <1>10 DEF taskVars
<1> QED
  BY <1>1, <1>2, <1>3, <1>4, <1>5, <1>6, <1>7, <1>8, <1>9, <1>10 DEF Next

\* A waiter that was not in the list is put in front of it.
LEMMA PushFront ==
    ASSUME NEW s \in Seq(Coroutines), NEW c \in Coroutines,
           \A i, j \in 1..Len(s) : s[i] = s[j] => i = j,
           \A i \in 1..Len(s) : s[i] # c
    PROVE  LET t == <<c>> \o s
           IN  /\ \A i, j \in 1..Len(t) : t[i] = t[j] => i = j
               /\ \A d \in Coroutines : (\E i \in 1..Len(t) : t[i] = d)
                     <=> d = c \/ \E i \in 1..Len(s) : s[i] = d
<1> DEFINE t == <<c>> \o s
<1>1. Len(t) = Len(s) + 1 /\ t[1] = c /\ \A i \in 2..Len(t) : t[i] = s[i - 1]
  OBVIOUS
<1>2. \A i \in 1..Len(s) : i + 1 \in 2..Len(t) /\ t[i + 1] = s[i]
  BY <1>1
<1>3. Len(s) \in Nat
  OBVIOUS
<1> HIDE DEF t
<1>4. ASSUME NEW i \in 1..Len(t), NEW j \in 1..Len(t), t[i] = t[j]
      PROVE  i = j
  <2>1. CASE i = 1 \/ j = 1
    BY <1>1, <1>3, <1>4, <2>1
  <2>2. CASE i # 1 /\ j # 1
    BY <1>1, <1>3, <1>4, <2>2
  <2> QED BY <2>1, <2>2
<1>5. ASSUME NEW d \in Coroutines
      PROVE  (\E i \in 1..Len(t) : t[i] = d) <=> d = c \/ \E i \in 1..Len(s) : s[i] = d
  <2>1. ASSUME NEW i \in 1..Len(t), t[i] = d
        PROVE  d = c \/ \E k \in 1..Len(s) : s[k] = d
    BY <1>1, <1>3, <2>1
  <2>2. ASSUME d = c \/ \E k \in 1..Len(s) : s[k] = d
        PROVE  \E i \in 1..Len(t) : t[i] = d
    BY <1>1, <1>2, <1>3, <2>2
  <2> QED BY <2>1, <2>2
<1> QED BY <1>4, <1>5 DEF t

\* The first waiter is taken off a list.
LEMMA PopFront ==
    ASSUME NEW s \in Seq(Coroutines), s # <<>>,
           \A i, j \in 1..Len(s) : s[i] = s[j] => i = j
    PROVE  /\ \A i, j \in 1..Len(Tail(s)) : Tail(s)[i] = Tail(s)[j] => i = j
           /\ \A d \in Coroutines : (\E i \in 1..Len(Tail(s)) : Tail(s)[i] = d)
                 <=> d # Head(s) /\ \E i \in 1..Len(s) : s[i] = d
<1> DEFINE t == Tail(s)
<1>1. /\ Len(s) \in Nat \ {0} /\ Len(t) = Len(s) - 1 /\ Head(s) = s[1]
      /\ \A i \in 1..Len(t) : t[i] = s[i + 1]
  OBVIOUS
<1>2. \A i \in 1..Len(t) : i + 1 \in 1..Len(s) /\ i + 1 # 1
  BY <1>1
<1> HIDE DEF t
<1>3. ASSUME NEW d \in Coroutines, NEW i \in 1..Len(s), s[i] = d, d # Head(s)
      PROVE  \E k \in 1..Len(t) : t[k] = d
  <2>1. i - 1 \in 1..Len(t) /\ t[i - 1] = s[i]
    BY <1>1, <1>3
  <2> QED BY <1>3, <2>1
<1>4. \A d \in Coroutines : \A i \in 1..Len(t) :
         t[i] = d => d # Head(s) /\ \E k \in 1..Len(s) : s[k] = d
  BY <1>1, <1>2
<1>5. \A i, j \in 1..Len(t) : t[i] = t[j] => i = j
  BY <1>1, <1>2
<1> QED BY <1>3, <1>4, <1>5 DEF t

LEMMA StepQueue == ASSUME TaskInv, [Next]_taskVars PROVE QueueInv'
<1>0. TaskTypeInv /\ PhaseInv /\ RunnerInv /\ QueueInv
  BY DEF TaskInv
<1>q. Queue \in Seq(Coroutines)
  BY <1>0 DEF TaskTypeInv, Queue, Word
<1>a. ASSUME UNCHANGED <<mWaiters, toResume>>, callee' \in {callee, NoOne},
             \A c \in Coroutines : pc'[c] = "suspended" <=> pc[c] = "suspended"
      PROVE  QueueInv'
  BY <1>0, <1>a DEF QueueInv, Queue
<1> USE WordTypes, WordValues
<1>1. ASSUME NEW c \in Coroutines, NEW d \in Coroutines, Copy(c, d) \/ Move(c, d)
      PROVE  QueueInv'
  BY <1>1, <1>a DEF Copy, Move, bodyVars
<1>2. ASSUME NEW c \in Coroutines, Destroy(c) PROVE QueueInv'
  BY <1>2, <1>a DEF Destroy
<1>3. ASSUME NEW c \in Coroutines, AwaitReady(c) \/ Load(c) PROVE QueueInv'
  <2>1. \A d \in Coroutines : pc'[d] = "suspended" <=> pc[d] = "suspended"
    BY <1>0, <1>3 DEF AwaitReady, Load, Resumed, Goto, TaskTypeInv
  <2> QED BY <1>3, <1>a, <2>1 DEF AwaitReady, Load, bodyVars
<1>4. ASSUME NEW c \in Coroutines, Start(c) PROVE QueueInv'
  <2>1. \A d \in Coroutines : pc'[d] = "suspended" <=> pc[d] = "suspended"
    BY <1>0, <1>4 DEF Start, Goto, TaskTypeInv
  <2>2. CASE mWaiters = NotStarted
    <3>1. Queue = <<>> /\ Queue' = <<>> /\ mWaiters.status = "notStarted"
      BY <1>0, <1>4, <2>2 DEF Start, Queue
    <3>2. UNCHANGED <<toResume, callee>>
      BY <1>4 DEF Start
    <3> QED BY <1>0, <2>1, <3>1, <3>2 DEF QueueInv
  <2>3. CASE mWaiters # NotStarted
    BY <1>4, <1>a, <2>1, <2>3 DEF Start
  <2> QED BY <2>2, <2>3
<1>5. ASSUME NEW c \in Coroutines, Push(c) PROVE QueueInv'
  <2>1. CASE old[c] # Ready /\ mWaiters = old[c]
    <3>1. pc[c] = "push" /\ mWaiters.status # "ready" /\ Queue = mWaiters.list
      BY <1>0, <1>5, <2>1 DEF Push, Queue
    <3>2. <<c>> \o Queue \in Seq(Coroutines)
      BY <1>q
    <3>3. mWaiters' = Started(<<c>> \o Queue)
      BY <1>5, <2>1, <3>1 DEF Push
    <3>4. Queue' = <<c>> \o Queue /\ mWaiters'.status = "started"
      BY <3>2, <3>3 DEF Queue
    <3>5. \A i \in 1..Len(Queue) : Queue[i] # c
      BY <1>0, <3>1 DEF QueueInv
    <3>6. /\ \A i, j \in 1..Len(Queue') : Queue'[i] = Queue'[j] => i = j
          /\ \A d \in Coroutines : (\E i \in 1..Len(Queue') : Queue'[i] = d)
                <=> d = c \/ \E i \in 1..Len(Queue) : Queue[i] = d
      BY <1>0, <1>q, <3>4, <3>5, PushFront DEF QueueInv
    <3>7. UNCHANGED <<toResume, callee>> /\ pc' = [pc EXCEPT ![c] = "suspended"]
      BY <1>5, <2>1 DEF Push, Goto, bodyVars
    <3> QED BY <1>0, <3>1, <3>4, <3>6, <3>7 DEF QueueInv, TaskTypeInv
  <2>2. CASE old[c] = Ready \/ mWaiters # old[c]
    <3>1. \A d \in Coroutines : pc'[d] = "suspended" <=> pc[d] = "suspended"
      BY <1>0, <1>5, <2>2 DEF Push, Resumed, Goto, TaskTypeInv
    <3> QED BY <1>5, <1>a, <2>2, <3>1 DEF Push, bodyVars
  <2> QED BY <2>1, <2>2
<1>6. CASE BodySuspend \/ FinalReturn
  <2>1. runner # NoOne /\ Return
    BY <1>0, <1>6 DEF BodySuspend, FinalReturn, RunnerInv
  <2>2. \A c \in Coroutines : pc'[c] = "suspended" <=> pc[c] = "suspended"
    BY <1>0, <2>1, Returns DEF TaskTypeInv
  <2> QED BY <1>6, <1>a, <2>2 DEF BodySuspend, FinalReturn
<1>7. CASE BodyResume \/ BodyEnd \/ WaiterReturns
  BY <1>7, <1>a DEF BodyResume, BodyEnd, WaiterReturns
<1>8. CASE FinalSuspend
  <2>1. mWaiters.status = "started"
    BY <1>0, <1>8 DEF FinalSuspend, PhaseInv, TaskTypeInv, Word, Status
  <2>2. Queue' = Queue /\ mWaiters'.status = "ready" /\ pc' = pc
    BY <1>8, <2>1 DEF FinalSuspend, Queue
  <2> QED BY <1>0, <2>2 DEF QueueInv
<1>9. CASE ResumeWaiter
  <2>1. mWaiters.status = "ready" /\ mWaiters' = mWaiters /\ Queue = toResume
    BY <1>0, <1>9 DEF ResumeWaiter, QueueInv, Queue
  <2>2. Queue # <<>> /\ Queue' = Tail(Queue)
    BY <1>9, <2>1 DEF ResumeWaiter, Queue
  <2>3. Head(Queue) \in Coroutines /\ pc' = [pc EXCEPT ![Head(Queue)] = "running"]
    BY <1>9, <1>q, <2>1, <2>2 DEF ResumeWaiter, Resumed, Goto
  <2>4. /\ \A i, j \in 1..Len(Queue') : Queue'[i] = Queue'[j] => i = j
        /\ \A d \in Coroutines : (\E i \in 1..Len(Queue') : Queue'[i] = d)
              <=> d # Head(Queue) /\ \E i \in 1..Len(Queue) : Queue[i] = d
    <3>1. \A i, j \in 1..Len(Queue) : Queue[i] = Queue[j] => i = j
      BY <1>0 DEF QueueInv
    <3> HIDE DEF Queue
    <3>2. /\ \A i, j \in 1..Len(Tail(Queue)) : Tail(Queue)[i] = Tail(Queue)[j] => i = j
          /\ \A d \in Coroutines : (\E i \in 1..Len(Tail(Queue)) : Tail(Queue)[i] = d)
                <=> d # Head(Queue) /\ \E i \in 1..Len(Queue) : Queue[i] = d
      BY ONLY <1>q, <2>2, <3>1, PopFront
    <3> QED BY ONLY <2>2, <3>2
  <2> QED BY <1>0, <2>1, <2>3, <2>4 DEF QueueInv, TaskTypeInv
<1>10. CASE UNCHANGED taskVars
  BY <1>10, <1>a DEF taskVars
<1> QED
  BY <1>1, <1>2, <1>3, <1>4, <1>5, <1>6, <1>7, <1>8, <1>9, <1>10 DEF Next

LEMMA StepTaskInv == ASSUME TaskInv, [Next]_taskVars PROVE TaskInv'
BY StepTaskType, StepPhase, StepRunner, StepHolders, StepQueue DEF TaskInv

LEMMA TaskInvFrame == ASSUME TaskInv PROVE FrameOutlivesUse
<1>1. TaskTypeInv /\ PhaseInv /\ HoldersInv
  BY DEF TaskInv
<1>2. body = "destroyed" => mWaiters.status # "started"
  BY <1>1 DEF PhaseInv
<1>3. mWaiters.status \in Status
  BY <1>1 DEF TaskTypeInv, Word
<1> QED BY <1>1, <1>2, <1>3, WordValues DEF HoldersInv, FrameOutlivesUse, Status

LEMMA TaskInvQueued == ASSUME TaskInv PROVE WaitersAreQueued
<1>1. TaskTypeInv /\ PhaseInv /\ QueueInv
  BY DEF TaskInv
<1>2. mWaiters.list \o toResume = Queue
  <2>1. mWaiters.list \in Seq(Coroutines) /\ toResume \in Seq(Coroutines)
    BY <1>1 DEF TaskTypeInv, Word
  <2>2. CASE mWaiters.status = "ready"
    <3>1. mWaiters.list = <<>> /\ Queue = toResume
      BY <1>1, <2>2 DEF TaskTypeInv, Queue
    <3> QED BY <2>1, <3>1
  <2>3. CASE mWaiters.status # "ready"
    <3>1. toResume = <<>> /\ Queue = mWaiters.list
      BY <1>1, <2>3 DEF QueueInv, Queue
    <3> QED BY <2>1, <3>1
  <2> QED BY <2>2, <2>3
<1>3. Queue \in Seq(Coroutines)
  BY <1>1 DEF TaskTypeInv, Word, Queue
<1>4. DOMAIN Queue = 1..Len(Queue)
  BY <1>3
<1>5. IsInjective(Queue)
  BY <1>1, <1>4 DEF QueueInv, IsInjective
<1>6. \A c \in Coroutines : pc[c] = "suspended" <=> \E i \in DOMAIN Queue : Queue[i] = c
  BY <1>1, <1>4 DEF QueueInv
<1>7. /\ mWaiters # Ready => toResume = <<>> /\ callee = NoOne
      /\ mWaiters = Ready => result # "none" /\ body \in {"final", "destroyed"}
  BY <1>1, WordValues DEF PhaseInv, QueueInv
<1> QED BY <1>2, <1>5, <1>6, <1>7 DEF WaitersAreQueued

LEMMA TaskInvResult == ASSUME TaskInv PROVE OneResult
<1>1. TaskTypeInv /\ PhaseInv /\ RunnerInv
  BY DEF TaskInv
<1>2. mWaiters = NotStarted <=> result = "none" /\ body \in {"initial", "destroyed"}
  BY <1>1, WordValues DEF PhaseInv, TaskTypeInv, Word, Status
<1> QED BY <1>1, <1>2 DEF RunnerInv, OneResult

\* However many coroutines hold, copy, move, await and drop the task: its
\* frame is destroyed with the last reference, and never under an awaiter or
\* under a body that has begun and not ended.
THEOREM FrameSafety == Spec => []FrameOutlivesUse
BY InitTaskInv, StepTaskInv, TaskInvFrame, PTL DEF Spec

\* A waiter is on exactly one of the two lists, once, until it is resumed; so
\* the task that is done resumes each of them, and each once.
THEOREM QueueSafety == Spec => []WaitersAreQueued
BY InitTaskInv, StepTaskInv, TaskInvQueued, PTL DEF Spec

\* The body runs once, and whoever awaits the task gets what it ended with.
THEOREM TaskResultSafety == Spec => []OneResult
BY InitTaskInv, StepTaskInv, TaskInvResult, PTL DEF Spec

\* All three, of any coroutines that hold, copy, move, await and drop the task.
THEOREM TaskSafety == Spec => []TaskSafe
<1>1. FrameOutlivesUse /\ WaitersAreQueued /\ OneResult => TaskSafe
  BY DEF TaskSafe
<1> QED BY FrameSafety, QueueSafety, TaskResultSafety, <1>1, PTL

\* The elements of a list, of one with a waiter put in front of it, and of one
\* that its first waiter is taken off.
LEMMA ListElements ==
    ASSUME NEW s \in Seq(Coroutines)
    PROVE  \A c : c \in Range(s) <=> \E i \in 1..Len(s) : s[i] = c
BY DEF Range

LEMMA PushElements ==
    ASSUME NEW s \in Seq(Coroutines), NEW c \in Coroutines
    PROVE  Range(<<c>> \o s) = {c} \cup Range(s)
<1> DEFINE t == <<c>> \o s
<1>1. /\ t \in Seq(Coroutines) /\ Len(s) \in Nat /\ Len(t) = Len(s) + 1 /\ t[1] = c
      /\ \A i \in 2..Len(t) : t[i] = s[i - 1]
  OBVIOUS
<1> HIDE DEF t
<1>2. \A i \in 1..Len(s) : i + 1 \in 1..Len(t) /\ t[i + 1] = s[i]
  BY <1>1
<1>3. ASSUME NEW i \in 1..Len(t) PROVE t[i] = c \/ \E k \in 1..Len(s) : s[k] = t[i]
  <2>1. CASE i = 1
    BY <1>1, <2>1
  <2>2. CASE i # 1
    <3>1. i - 1 \in 1..Len(s) /\ t[i] = s[i - 1]
      BY <1>1, <2>2
    <3> QED BY <3>1
  <2> QED BY <2>1, <2>2
<1>4. 1 \in 1..Len(t)
  BY <1>1
<1>5. /\ \A d : d \in Range(t) <=> \E i \in 1..Len(t) : t[i] = d
      /\ \A d : d \in Range(s) <=> \E i \in 1..Len(s) : s[i] = d
  BY <1>1, ListElements
<1>6. ASSUME NEW d PROVE d \in Range(t) <=> d = c \/ d \in Range(s)
  <2>1. ASSUME d \in Range(t) PROVE d = c \/ d \in Range(s)
    BY <1>3, <1>5, <2>1
  <2>2. c \in Range(t)
    BY <1>1, <1>4, <1>5
  <2>3. ASSUME d \in Range(s) PROVE d \in Range(t)
    BY <1>2, <1>5, <2>3
  <2> QED BY <2>1, <2>2, <2>3
<1>7. Range(t) = {c} \cup Range(s)
  BY <1>6
<1> QED BY <1>7 DEF t

LEMMA PopElements ==
    ASSUME NEW s \in Seq(Coroutines), s # <<>>,
           \A i, j \in 1..Len(s) : s[i] = s[j] => i = j
    PROVE  /\ Head(s) \in Range(s)
           /\ Range(Tail(s)) = Range(s) \ {Head(s)}
<1>1. /\ Tail(s) \in Seq(Coroutines) /\ Head(s) = s[1] /\ 1 \in 1..Len(s)
      /\ \A i \in 1..Len(s) : s[i] \in Coroutines
      /\ \A i \in 1..Len(Tail(s)) : Tail(s)[i] \in Coroutines
  OBVIOUS
<1>2. /\ \A d : d \in Range(s) <=> \E i \in 1..Len(s) : s[i] = d
      /\ \A d : d \in Range(Tail(s)) <=> \E i \in 1..Len(Tail(s)) : Tail(s)[i] = d
  BY <1>1, ListElements
<1>3. \A d \in Coroutines : (\E i \in 1..Len(Tail(s)) : Tail(s)[i] = d)
          <=> d # Head(s) /\ \E i \in 1..Len(s) : s[i] = d
  BY PopFront
<1>4. Range(s) \subseteq Coroutines /\ Range(Tail(s)) \subseteq Coroutines
  BY <1>1, <1>2
<1>5. Head(s) \in Range(s)
  BY <1>1, <1>2
<1>6. \A d \in Coroutines : d \in Range(Tail(s)) <=> d # Head(s) /\ d \in Range(s)
  BY <1>2, <1>3
<1> QED BY <1>4, <1>5, <1>6

LEMMA EmptyElements == Range(<<>>) = {}
BY DEF Range

\* What the invariant says of the gate: nobody waits at an open one, and nobody
\* has been released while it is closed.
LEMMA GateLists ==
    ASSUME TaskInv
    PROVE  /\ mWaiters = Ready => Range(mWaiters.list) = {}
           /\ mWaiters # Ready => toResume = <<>>
           /\ mWaiters.list \in Seq(Coroutines)
<1>1. TaskTypeInv /\ QueueInv
  BY DEF TaskInv
<1> QED BY <1>1, WordValues, WordTypes, EmptyElements DEF TaskTypeInv, QueueInv, Word

\* A step that leaves m_waiters and the list of final_suspend() alone.
LEMMA GateKept ==
    ASSUME UNCHANGED <<mWaiters, toResume>> PROVE UNCHANGED TaskGate!avars
BY DEF TaskGate!avars

\* Starting the body opens nothing.
LEMMA GateStart ==
    ASSUME TaskInv, NEW c \in Coroutines, Start(c)
    PROVE  UNCHANGED TaskGate!avars
<1>1. CASE mWaiters = NotStarted
  <2>1. mWaiters' = Started(<<>>) /\ toResume' = toResume
    BY <1>1 DEF Start
  <2>2. mWaiters # Ready /\ mWaiters' # Ready /\ mWaiters.list = mWaiters'.list
    BY <1>1, <2>1, WordTypes
  <2> QED BY <2>1, <2>2 DEF TaskGate!avars
<1>2. CASE mWaiters # NotStarted
  BY <1>2, GateKept DEF Start
<1> QED BY <1>1, <1>2

\* The exchange that queues an awaiter is AWait; the other rounds are nothing.
LEMMA GateWait ==
    ASSUME TaskInv, NEW c \in Coroutines, Push(c)
    PROVE  TaskGate!AWait(c) \/ UNCHANGED TaskGate!avars
<1>0. TaskTypeInv /\ PhaseInv /\ QueueInv
  BY DEF TaskInv
<1>1. CASE old[c] # Ready /\ mWaiters = old[c]
  <2>1. /\ mWaiters # Ready /\ mWaiters' = Started(<<c>> \o mWaiters.list)
        /\ toResume = <<>> /\ toResume' = toResume
    BY <1>1, GateLists DEF Push, bodyVars
  <2>2. <<c>> \o mWaiters.list \in Seq(Coroutines) /\ mWaiters.list \in Seq(Coroutines)
    BY GateLists
  <2>3. mWaiters'.list = <<c>> \o mWaiters.list /\ mWaiters' # Ready
    BY <2>1, <2>2, WordTypes
  <2>4. Range(mWaiters'.list) = {c} \cup Range(mWaiters.list)
    BY <2>2, <2>3, PushElements
  <2>5. c \notin Range(mWaiters.list)
    <3>1. Queue = mWaiters.list /\ pc[c] # "suspended"
      BY <1>0, <2>1, WordValues, GateLists DEF Queue, Push
    <3> QED BY <1>0, <2>2, <3>1, ListElements DEF QueueInv
  <2> QED BY <2>1, <2>3, <2>4, <2>5, EmptyElements DEF TaskGate!AWait
<1>2. CASE old[c] = Ready \/ mWaiters # old[c]
  BY <1>2, GateKept DEF Push, bodyVars
<1> QED BY <1>1, <1>2

\* The exchange in final_suspend() is AOpen.
LEMMA GateOpen == ASSUME TaskInv, FinalSuspend PROVE TaskGate!AOpen
<1>1. mWaiters # Ready
  BY WordValues DEF FinalSuspend, TaskInv, PhaseInv
<1>2. /\ toResume = <<>> /\ toResume' = mWaiters.list
      /\ mWaiters' = Ready /\ mWaiters'.list = <<>>
  BY <1>1, GateLists, WordTypes DEF FinalSuspend
<1> QED BY <1>2, EmptyElements DEF TaskGate!AOpen

\* Resuming a waiter is APass.
LEMMA GatePass ==
    ASSUME TaskInv, ResumeWaiter
    PROVE  \E c \in Coroutines : TaskGate!APass(c)
<1>1. toResume # <<>> /\ toResume' = Tail(toResume) /\ mWaiters' = mWaiters
  BY DEF ResumeWaiter
<1>2. toResume \in Seq(Coroutines) /\ Head(toResume) \in Coroutines
  BY <1>1 DEF TaskInv, TaskTypeInv
<1>3. \A i, j \in 1..Len(toResume) : toResume[i] = toResume[j] => i = j
  <2>1. mWaiters.status = "ready"
    BY <1>1, GateLists, WordValues DEF TaskInv
  <2> QED BY <2>1 DEF TaskInv, QueueInv, Queue
<1>4. /\ Head(toResume) \in Range(toResume)
      /\ Range(toResume') = Range(toResume) \ {Head(toResume)}
  BY <1>1, <1>2, <1>3, PopElements
<1>5. TaskGate!APass(Head(toResume))
  BY <1>1, <1>4 DEF TaskGate!APass
<1> QED BY <1>2, <1>5

LEMMA StepTaskGate ==
    ASSUME TaskInv, [Next]_taskVars
    PROVE  [TaskGate!ANext]_TaskGate!avars
<1>1. ASSUME NEW c \in Coroutines, NEW d \in Coroutines, Copy(c, d) \/ Move(c, d)
      PROVE  UNCHANGED TaskGate!avars
  BY <1>1, GateKept DEF Copy, Move, bodyVars
<1>2. ASSUME NEW c \in Coroutines, Destroy(c) \/ AwaitReady(c) \/ Load(c)
      PROVE  UNCHANGED TaskGate!avars
  BY <1>2, GateKept DEF Destroy, AwaitReady, Load, bodyVars
<1>3. ASSUME NEW c \in Coroutines, Start(c) PROVE UNCHANGED TaskGate!avars
  BY <1>3, GateStart
<1>4. ASSUME NEW c \in Coroutines, Push(c) PROVE [TaskGate!ANext]_TaskGate!avars
  BY <1>4, GateWait DEF TaskGate!ANext
<1>5. CASE BodySuspend \/ BodyResume \/ BodyEnd \/ WaiterReturns \/ FinalReturn
  BY <1>5, GateKept DEF BodySuspend, BodyResume, BodyEnd, WaiterReturns, FinalReturn
<1>6. CASE FinalSuspend
  BY <1>6, GateOpen DEF TaskGate!ANext
<1>7. CASE ResumeWaiter
  BY <1>7, GatePass DEF TaskGate!ANext
<1>8. CASE UNCHANGED taskVars
  BY <1>8, GateKept DEF taskVars
<1> QED BY <1>1, <1>2, <1>3, <1>4, <1>5, <1>6, <1>7, <1>8 DEF Next

\* No exchange takes a task that is done back.
LEMMA StaysOpen ==
    ASSUME TaskInv, [Next]_taskVars, mWaiters = Ready
    PROVE  mWaiters' = Ready
<1>0. Ready # NotStarted
  BY WordTypes
<1>1. ASSUME NEW c \in Coroutines, NEW d \in Coroutines, Copy(c, d) \/ Move(c, d)
      PROVE  mWaiters' = Ready
  BY <1>1 DEF Copy, Move
<1>2. ASSUME NEW c \in Coroutines,
             Destroy(c) \/ AwaitReady(c) \/ Load(c) \/ Start(c) \/ Push(c)
      PROVE  mWaiters' = Ready
  BY <1>0, <1>2 DEF Destroy, AwaitReady, Load, Start, Push
<1>3. CASE \/ BodySuspend \/ BodyResume \/ BodyEnd \/ FinalSuspend \/ ResumeWaiter
           \/ WaiterReturns \/ FinalReturn \/ UNCHANGED taskVars
  BY <1>3 DEF BodySuspend, BodyResume, BodyEnd, FinalSuspend, ResumeWaiter,
              WaiterReturns, FinalReturn, taskVars
<1> QED BY <1>1, <1>2, <1>3 DEF Next

LEMMA InitTaskGate == ASSUME Init PROVE TaskGate!AInit
<1>1. mWaiters.list = <<>> /\ toResume = <<>>
  BY WordTypes DEF Init
<1> QED BY <1>1, EmptyElements DEF TaskGate!AInit

\* The task implements the gate, and one that opens once and for all: who has
\* queued itself when the body ends is released, nobody queues itself after
\* that however long ago it has looked, and a coroutine passes once for each
\* time it waited.
THEOREM TaskRefinement == Spec => TaskIsGate
<1>1. TaskInv /\ [Next]_taskVars => [mWaiters = Ready => mWaiters' = Ready]_taskVars
  BY StaysOpen
<1> QED BY InitTaskInv, StepTaskInv, InitTaskGate, StepTaskGate, <1>1, PTL
        DEF Spec, TaskIsGate, TaskGate!ASpec

-----------------------------------------------------------------------------
\* when_all, when_all_ready and sync_wait

Unfinished == {i \in Index : wrapper[i] # "final"}

\* What the root contributes to the count until its own decrement.
RootShare == IF root \in {"initial", "starting", "counting"} THEN 1 ELSE 0

Past == root \in {"running", "setting", "notifying", "final"}

AllTypeInv ==
    /\ task \in [Index -> {"none", "initial", "running", "suspended", "done"}]
    /\ taskResult \in [Index -> {"empty", "value", "exception"}]
    /\ wrapper \in [Index -> {"initial", "awaiting", "notifying", "final"}]
    /\ got \in [Index -> {"empty", "value", "exception"}]
    /\ started \in 0..N
    /\ root \in {"initial", "starting", "counting", "suspended", "running",
                 "setting", "notifying", "final"}

\* A wrapper that has not been started is new, one that awaits does so for a
\* task that has begun, and one that has ended its await has the result.
WrapperInv(i) ==
    /\ i > started => wrapper[i] = "initial" /\ task[i] \in {"none", "initial", "done"}
    /\ task[i] \in {"running", "suspended"} => wrapper[i] = "awaiting"
    /\ wrapper[i] = "awaiting" => task[i] \in {"running", "suspended"}
    /\ task[i] = "done" <=> taskResult[i] # "empty"
    /\ wrapper[i] \in {"notifying", "final"} =>
          task[i] \in {"none", "done"} /\ got[i] = Awaited(i)

\* The count.
CountInv ==
    /\ mCount = Cardinality(Unfinished) + RootShare
    /\ Past <=> mCount = 0

\* The result of the root, as when_all() takes it from the promises.
Collected ==
    IF Failed(got) = {} THEN rootResult = 0
    ELSE /\ rootResult \in Failed(got)
         /\ overload = "vector" => \A i \in Failed(got) : rootResult <= i

\* The thread in sync_wait() starts the root, returns when the flag is set, and
\* that is when the root has collected its result.
RootInv ==
    /\ main = "start" => root = "initial"
    /\ main = "returned" => mIsSet
    /\ mIsSet => root \in {"notifying", "final"}
    /\ root \in {"setting", "notifying", "final"} => Collected

\* The inductive invariant.
AllInv == AllTypeInv /\ (\A i \in Index : WrapperInv(i)) /\ CountInv /\ RootInv

\* The wrappers can be counted, and none is left when the count is zero.
LEMMA UnfinishedIsFinite ==
    ASSUME N \in Nat
    PROVE  /\ IsFiniteSet(Unfinished)
           /\ Cardinality(Unfinished) \in Nat
           /\ Cardinality(Unfinished) = 0 <=> Unfinished = {}
<1>1. IsFiniteSet(Index)
  BY FS_Interval DEF Index
<1>2. IsFiniteSet(Unfinished)
  BY <1>1, FS_Subset DEF Unfinished
<1> QED BY <1>2, FS_CardinalityType, FS_EmptySet

LEMMA InitAllInv == ASSUME N \in Nat, AllInit PROVE AllInv
<1>1. AllTypeInv
  BY DEF AllInit, AllTypeInv
<1>2. \A i \in Index : WrapperInv(i)
  BY DEF AllInit, WrapperInv, Index
<1>3. Unfinished = 1..N
  BY DEF AllInit, Unfinished, Index
<1>4. Cardinality(Unfinished) = N
  BY <1>3, FS_Interval
<1>5. CountInv
  BY <1>4 DEF AllInit, CountInv, RootShare, Past
<1>6. RootInv
  BY DEF AllInit, RootInv
<1> QED BY <1>1, <1>2, <1>5, <1>6 DEF AllInv

LEMMA StepAllType ==
    ASSUME N \in Nat, AllTypeInv, \A i \in Index : WrapperInv(i), [AllNext]_allVars
    PROVE  AllTypeInv'
<1> USE DEF AllTypeInv
<1>1. CASE StartTask
  <2>1. started + 1 \in Index /\ started + 1 \in 0..N
    BY <1>1 DEF StartTask, Index
  <2>2. Awaited(started + 1) \in {"empty", "value", "exception"}
    BY <2>1 DEF Awaited
  <2> QED BY <1>1, <2>1, <2>2 DEF StartTask, rootVars
<1>2. ASSUME NEW k \in Index, TaskSuspend(k) \/ TaskResume(k) PROVE AllTypeInv'
  BY <1>2 DEF TaskSuspend, TaskResume, rootVars
<1>3. ASSUME NEW k \in Index, TaskEnd(k) PROVE AllTypeInv'
  BY <1>3 DEF TaskEnd, rootVars
<1>4. ASSUME NEW k \in Index, Notify(k) PROVE AllTypeInv'
  BY <1>4 DEF Notify
<1>5. CASE SyncWait \/ Wait \/ SpuriousWakeup
  BY <1>5 DEF SyncWait, Wait, SpuriousWakeup, wrappedVars, rootVars
<1>6. CASE StoreHandle \/ TryAwait
  BY <1>6 DEF StoreHandle, TryAwait, wrappedVars
<1>7. CASE Collect \/ SetFlag \/ NotifyAll
  BY <1>7 DEF Collect, SetFlag, NotifyAll, wrappedVars
<1>8. CASE UNCHANGED allVars
  BY <1>8 DEF allVars
<1> QED BY <1>1, <1>2, <1>3, <1>4, <1>5, <1>6, <1>7, <1>8 DEF AllNext

\* A step of one task leaves the wrappers of the others alone.
LEMMA StepWrapper ==
    ASSUME N \in Nat, AllTypeInv, \A j \in Index : WrapperInv(j), [AllNext]_allVars,
           NEW i \in Index
    PROVE  WrapperInv(i)'
<1>0. WrapperInv(i)
  OBVIOUS
<1>a. ASSUME UNCHANGED wrappedVars, started' = started PROVE WrapperInv(i)'
  BY <1>0, <1>a DEF WrapperInv, Awaited, wrappedVars
<1>1. CASE StartTask
  <2> DEFINE k == started + 1
  <2>1. k \in Index /\ started' = k /\ started \in 0..N /\ i \in Int
    BY <1>1 DEF StartTask, AllTypeInv, Index
  <2>2. CASE i = k
    <3>1. task[k] \in {"none", "initial", "done"} /\ wrapper[k] = "initial"
      BY <1>0, <2>1, <2>2 DEF WrapperInv
    <3>2. CASE task[k] = "initial"
      BY <1>0, <1>1, <2>1, <2>2, <3>1, <3>2 DEF StartTask, WrapperInv, AllTypeInv
    <3>3. CASE task[k] # "initial"
      BY <1>0, <1>1, <2>1, <2>2, <3>1, <3>3 DEF StartTask, WrapperInv, AllTypeInv, Awaited
    <3> QED BY <3>2, <3>3
  <2>3. CASE i # k
    <3>1. /\ task'[i] = task[i] /\ wrapper'[i] = wrapper[i] /\ got'[i] = got[i]
          /\ taskResult' = taskResult /\ (i > started' => i > started)
      BY <1>1, <2>1, <2>3 DEF StartTask, AllTypeInv
    <3> QED BY <1>0, <3>1 DEF WrapperInv, Awaited
  <2> QED BY <2>2, <2>3
<1>2. ASSUME NEW k \in Index, TaskSuspend(k) \/ TaskResume(k) PROVE WrapperInv(i)'
  <2>1. CASE i = k
    BY <1>0, <1>2, <2>1 DEF TaskSuspend, TaskResume, WrapperInv, AllTypeInv
  <2>2. CASE i # k
    BY <1>0, <1>2, <2>2 DEF TaskSuspend, TaskResume, WrapperInv, AllTypeInv, Awaited
  <2> QED BY <2>1, <2>2
<1>3. ASSUME NEW k \in Index, TaskEnd(k) PROVE WrapperInv(i)'
  <2>1. PICK r \in {"value", "exception"} :
            taskResult' = [taskResult EXCEPT ![k] = r] /\ got' = [got EXCEPT ![k] = r]
    BY <1>3 DEF TaskEnd
  <2>2. CASE i = k
    BY <1>0, <1>3, <2>1, <2>2 DEF TaskEnd, WrapperInv, AllTypeInv, Awaited
  <2>3. CASE i # k
    BY <1>0, <1>3, <2>1, <2>3 DEF TaskEnd, WrapperInv, AllTypeInv, Awaited
  <2> QED BY <2>2, <2>3
<1>4. ASSUME NEW k \in Index, Notify(k) PROVE WrapperInv(i)'
  <2>1. CASE i = k
    BY <1>0, <1>4, <2>1 DEF Notify, WrapperInv, AllTypeInv, Awaited
  <2>2. CASE i # k
    BY <1>0, <1>4, <2>2 DEF Notify, WrapperInv, AllTypeInv, Awaited
  <2> QED BY <2>1, <2>2
<1>5. CASE SyncWait \/ Wait \/ SpuriousWakeup
  BY <1>5, <1>a DEF SyncWait, Wait, SpuriousWakeup
<1>6. CASE StoreHandle \/ TryAwait
  BY <1>6, <1>a DEF StoreHandle, TryAwait
<1>7. CASE Collect \/ SetFlag \/ NotifyAll
  BY <1>7, <1>a DEF Collect, SetFlag, NotifyAll
<1>8. CASE UNCHANGED allVars
  BY <1>8, <1>a DEF allVars, wrappedVars
<1> QED BY <1>1, <1>2, <1>3, <1>4, <1>5, <1>6, <1>7, <1>8 DEF AllNext

\* The count, action by action; most leave the number of wrappers that have
\* not notified it as it is.
LEMMA StepCount ==
    ASSUME N \in Nat, AllInv, [AllNext]_allVars
    PROVE  CountInv'
<1> DEFINE n == Cardinality(Unfinished)
<1>0. n \in Nat /\ mCount = n + RootShare /\ (Past <=> mCount = 0)
  BY UnfinishedIsFinite DEF AllInv, CountInv
<1>a. ASSUME Unfinished' = Unfinished, RootShare' = RootShare, Past' = Past,
             mCount' = mCount
      PROVE  CountInv'
  BY <1>0, <1>a DEF CountInv
<1>1. CASE StartTask
  <2>1. started + 1 \in Index /\ wrapper[started + 1] = "initial"
    BY <1>1 DEF StartTask, AllInv, WrapperInv, AllTypeInv
  <2>2. Unfinished' = Unfinished
    BY <1>1, <2>1 DEF StartTask, Unfinished, AllInv, AllTypeInv
  <2> QED BY <1>1, <1>a, <2>2 DEF StartTask, RootShare, Past, rootVars, counterVars
<1>2. ASSUME NEW k \in Index, TaskSuspend(k) \/ TaskResume(k) PROVE CountInv'
  BY <1>2, <1>a DEF TaskSuspend, TaskResume, Unfinished, RootShare, Past, rootVars, counterVars
<1>3. ASSUME NEW k \in Index, TaskEnd(k) PROVE CountInv'
  <2>1. wrapper[k] = "awaiting"
    BY <1>3 DEF TaskEnd, AllInv, WrapperInv
  <2>2. Unfinished' = Unfinished
    BY <1>3, <2>1 DEF TaskEnd, Unfinished, AllInv, AllTypeInv
  <2> QED BY <1>3, <1>a, <2>2 DEF TaskEnd, RootShare, Past, rootVars, counterVars
<1>4. ASSUME NEW k \in Index, Notify(k) PROVE CountInv'
  <2>1. Unfinished' = Unfinished \ {k} /\ k \in Unfinished
    BY <1>4 DEF Notify, Unfinished, AllInv, AllTypeInv
  <2>2. Cardinality(Unfinished)' = n - 1 /\ n >= 1
    <3>1. n # 0
      BY <2>1, UnfinishedIsFinite
    <3>2. Cardinality(Unfinished \ {k}) = n - 1
      BY <2>1, UnfinishedIsFinite, FS_RemoveElement
    <3> QED BY <1>0, <2>1, <3>1, <3>2
  <2>3. mCount' = mCount - 1 /\ RootShare \in {0, 1}
    BY <1>4 DEF Notify, RootShare
  <2>4. CASE mCount = 1
    <3>1. n = 1 /\ RootShare = 0
      BY <1>0, <2>2, <2>3, <2>4
    <3>2. root' = "running"
      BY <1>4, <2>4 DEF Notify
    <3> QED BY <2>2, <2>3, <2>4, <3>1, <3>2 DEF CountInv, RootShare, Past
  <2>5. CASE mCount # 1
    <3>1. RootShare' = RootShare /\ Past' = Past
      BY <1>4, <2>5 DEF Notify, RootShare, Past
    <3>2. ~Past /\ mCount' # 0
      BY <1>0, <2>2, <2>3, <2>5
    <3> QED BY <1>0, <2>2, <2>3, <3>1, <3>2 DEF CountInv
  <2> QED BY <2>4, <2>5
<1>5. CASE TryAwait
  <2>1. RootShare = 1 /\ mCount' = mCount - 1 /\ Unfinished' = Unfinished
    BY <1>5 DEF TryAwait, RootShare, Unfinished, wrappedVars
  <2>2. root' = IF n > 0 THEN "suspended" ELSE "running"
    BY <1>0, <1>5, <2>1 DEF TryAwait
  <2>3. RootShare' = 0 /\ (Past' <=> n = 0)
    BY <1>0, <2>2 DEF RootShare, Past
  <2> QED BY <1>0, <2>1, <2>3 DEF CountInv
<1>6. CASE SyncWait
  <2>1. RootShare' = RootShare /\ Past' = Past
    BY <1>6 DEF SyncWait, RootShare, Past, AllInv, RootInv
  <2> QED
    BY <1>6, <1>a, <2>1 DEF SyncWait, Unfinished, wrappedVars, counterVars
<1>7. CASE Wait \/ SpuriousWakeup
  BY <1>7, <1>a DEF Wait, SpuriousWakeup, Unfinished, RootShare, Past, wrappedVars, rootVars, counterVars
<1>8. CASE StoreHandle
  BY <1>8, <1>a DEF StoreHandle, Unfinished, RootShare, Past, wrappedVars
<1>9. CASE Collect \/ SetFlag \/ NotifyAll
  BY <1>9, <1>a DEF Collect, SetFlag, NotifyAll, Unfinished, RootShare, Past, wrappedVars, counterVars
<1>10. CASE UNCHANGED allVars
  BY <1>10, <1>a DEF allVars, Unfinished, RootShare, Past
<1> QED BY <1>1, <1>2, <1>3, <1>4, <1>5, <1>6, <1>7, <1>8, <1>9, <1>10 DEF AllNext

\* The root and the thread that waits for it.  What the promises hold does not
\* change any more when the root has gone on: every wrapper is done.
LEMMA StepRoot ==
    ASSUME N \in Nat, AllInv, [AllNext]_allVars
    PROVE  RootInv'
<1> USE DEF RootInv, Collected, Failed
<1>0. RootInv /\ mCount = Cardinality(Unfinished) + RootShare /\ (Past <=> mCount = 0)
  BY DEF AllInv, CountInv
<1>1. Past => \A i \in Index : wrapper[i] = "final"
  <2>1. Past => Cardinality(Unfinished) = 0
    BY <1>0, UnfinishedIsFinite DEF RootShare, Past
  <2> QED BY <2>1, UnfinishedIsFinite DEF Unfinished
<1>2. CASE StartTask
  BY <1>0, <1>2 DEF StartTask, rootVars
<1>3. ASSUME NEW k \in Index, TaskSuspend(k) \/ TaskResume(k) PROVE RootInv'
  BY <1>0, <1>3 DEF TaskSuspend, TaskResume, rootVars
<1>4. ASSUME NEW k \in Index, TaskEnd(k) PROVE RootInv'
  <2>1. ~Past
    BY <1>1, <1>4 DEF TaskEnd, AllInv, WrapperInv
  <2> QED BY <1>0, <1>4, <2>1 DEF TaskEnd, rootVars, Past
<1>5. ASSUME NEW k \in Index, Notify(k) PROVE RootInv'
  <2>1. k \in Unfinished /\ Cardinality(Unfinished) \in Nat \ {0}
    BY <1>5, UnfinishedIsFinite DEF Notify, Unfinished
  <2>2. CASE mCount = 1
    <3>1. root = "suspended"
      BY <1>0, <2>1, <2>2 DEF RootShare, Past, AllInv, AllTypeInv
    <3> QED BY <1>0, <1>5, <2>2, <3>1 DEF Notify
  <2>3. CASE mCount # 1
    BY <1>0, <1>5, <2>3 DEF Notify
  <2> QED BY <2>2, <2>3
<1>6. CASE SyncWait \/ Wait \/ SpuriousWakeup
  BY <1>0, <1>6 DEF SyncWait, Wait, SpuriousWakeup, wrappedVars, rootVars
<1>7. CASE StoreHandle \/ TryAwait
  BY <1>0, <1>7 DEF StoreHandle, TryAwait, LeaveStart, wrappedVars
<1>8. CASE Collect
  BY <1>0, <1>8 DEF Collect, wrappedVars
<1>9. CASE SetFlag \/ NotifyAll
  BY <1>0, <1>9 DEF SetFlag, NotifyAll, LeaveStart, wrappedVars
<1>10. CASE UNCHANGED allVars
  BY <1>0, <1>10 DEF allVars
<1> QED BY <1>2, <1>3, <1>4, <1>5, <1>6, <1>7, <1>8, <1>9, <1>10 DEF AllNext

LEMMA StepAllInv == ASSUME N \in Nat, AllInv, [AllNext]_allVars PROVE AllInv'
<1>1. AllTypeInv'
  BY StepAllType DEF AllInv
<1>2. ASSUME NEW i \in Index PROVE WrapperInv(i)'
  BY StepWrapper DEF AllInv
<1>3. CountInv' /\ RootInv'
  BY StepCount, StepRoot
<1>4. Index' = Index
  BY DEF Index
<1> QED BY <1>1, <1>2, <1>3, <1>4 DEF AllInv

LEMMA AllInvAllDone == ASSUME N \in Nat, AllInv PROVE AllDoneFirst
<1> DEFINE n == Cardinality(Unfinished)
<1>1. n \in Nat /\ mCount = n + RootShare /\ (Past <=> mCount = 0)
  BY UnfinishedIsFinite DEF AllInv, CountInv
<1>2. ASSUME NEW i \in Index, wrapper[i] = "notifying", mCount = 1
      PROVE  root = "suspended"
  <2>1. n # 0
    BY <1>2, UnfinishedIsFinite DEF Unfinished
  <2>2. RootShare = 0 /\ ~Past
    BY <1>1, <1>2, <2>1 DEF RootShare
  <2> QED BY <2>2 DEF RootShare, Past, AllInv, AllTypeInv
<1> QED BY <1>1, <1>2 DEF AllDoneFirst, Unfinished, RootShare, Past

LEMMA AllInvResult == ASSUME N \in Nat, AllInv PROVE SyncWaitResult
<1> DEFINE failed == {i \in Index : task[i] = "none" \/ taskResult[i] = "exception"}
<1> SUFFICES ASSUME main = "returned"
             PROVE  /\ \A i \in Index : task[i] \in {"none", "done"} /\ wrapper[i] = "final"
                    /\ root \in {"notifying", "final"}
                    /\ rootResult \in failed \/ (rootResult = 0 /\ failed = {})
                    /\ overload = "vector" => \A i \in failed : rootResult <= i
  BY DEF SyncWaitResult
<1>1. root \in {"notifying", "final"}
  BY DEF AllInv, RootInv
<1>2. \A i \in Index : wrapper[i] = "final"
  <2>1. mCount = 0
    BY <1>1 DEF AllInv, CountInv, Past
  <2>2. Cardinality(Unfinished) = 0
    BY <2>1, UnfinishedIsFinite DEF AllInv, CountInv, RootShare
  <2> QED BY <2>2, UnfinishedIsFinite DEF Unfinished
<1>3. \A i \in Index : task[i] \in {"none", "done"} /\ got[i] = Awaited(i)
  BY <1>2 DEF AllInv, WrapperInv
<1>4. Failed(got) = failed
  BY <1>3 DEF Failed, Awaited
<1>5. Collected
  BY <1>1 DEF AllInv, RootInv
<1> QED BY <1>1, <1>2, <1>3, <1>4, <1>5 DEF Collected

\* when_all() goes on with the coroutine that awaits it once, after the last
\* task has notified the counter, and sync_wait() returns, with no task unfinished,
\* the values or the exception of a task that was empty or threw: the first one if
\* the tasks are in a vector, any if they are the arguments of when_all().
THEOREM AllSafety == ASSUME N \in Nat PROVE AllSpec => []JoinsWithResult
<1>1. ASSUME AllInv PROVE JoinsWithResult
  BY <1>1, AllInvAllDone, AllInvResult DEF JoinsWithResult
<1> QED BY <1>1, InitAllInv, StepAllInv, PTL DEF AllSpec

-----------------------------------------------------------------------------
\* async_scope

\* What the owner contributes to the count.
OwnShare == IF owner \in {"running", "joining"} THEN 1 ELSE 0

\* The inductive invariant.
ScopeInv ==
    /\ work \in [Works -> {"none", "running", "suspended", "finished"}]
    /\ owner \in {"running", "joining", "suspended", "joined"}
    /\ owner # "running" => mHandle
    /\ scopeCount = Cardinality(InScope) + OwnShare
    /\ owner = "joined" <=> scopeCount = 0

\* The coroutines of the scope can be counted; one that runs is one of them.
LEMMA ScopeIsFinite ==
    ASSUME IsFiniteSet(Works)
    PROVE  /\ IsFiniteSet(InScope)
           /\ Cardinality(InScope) \in Nat
           /\ \A w \in InScope : Cardinality(InScope) >= 1
<1>1. IsFiniteSet(InScope)
  BY FS_Subset DEF InScope
<1>2. Cardinality(InScope) \in Nat
  BY <1>1, FS_CardinalityType
<1>3. Cardinality(InScope) = 0 => InScope = {}
  BY <1>1, FS_EmptySet
<1> QED BY <1>1, <1>2, <1>3

LEMMA InitScopeInv == ASSUME ScopeInit PROVE ScopeInv
<1>1. InScope = {}
  BY DEF ScopeInit, InScope
<1>2. Cardinality(InScope) = 0
  BY <1>1, FS_EmptySet
<1>3. OwnShare = 1
  BY DEF ScopeInit, OwnShare
<1> QED BY <1>2, <1>3 DEF ScopeInit, ScopeInv

LEMMA StepScopeInv ==
    ASSUME IsFiniteSet(Works), ScopeInv, [ScopeNext]_scopeVars
    PROVE  ScopeInv'
<1> DEFINE n == Cardinality(InScope)
<1>0. n \in Nat /\ \A w \in InScope : n >= 1
  BY ScopeIsFinite
<1>1. ASSUME NEW w \in Works, Spawn(w) PROVE ScopeInv'
  <2>1. InScope' = InScope \cup {w} /\ w \notin InScope
    BY <1>1 DEF Spawn, InScope, ScopeInv
  <2>2. Cardinality(InScope') = n + 1
    BY <2>1, ScopeIsFinite, FS_AddElement
  <2>3. Cardinality(InScope)' = n + 1 /\ scopeCount' = scopeCount + 1
    BY <2>2, <1>1 DEF Spawn
  <2>4. scopeCount \in Nat \ {0}
    <3>1. owner = "running" \/ \E v \in InScope : TRUE
      BY <1>1 DEF Spawn, Spawners, InScope
    <3> QED BY <1>0, <3>1 DEF ScopeInv, OwnShare
  <2>5. OwnShare' = OwnShare /\ OwnShare \in {0, 1}
    BY <1>1 DEF Spawn, OwnShare
  <2>6. work' \in [Works -> {"none", "running", "suspended", "finished"}]
    BY <1>1 DEF Spawn, ScopeInv
  <2>7. scopeCount' = Cardinality(InScope)' + OwnShare'
    BY <1>0, <2>3, <2>5 DEF ScopeInv
  <2> QED BY <1>1, <2>3, <2>4, <2>6, <2>7 DEF Spawn, ScopeInv
<1>2. ASSUME NEW w \in Works, Suspend(w) \/ Resume(w) PROVE ScopeInv'
  <2>1. InScope' = InScope
    BY <1>2 DEF Suspend, Resume, InScope, ScopeInv
  <2>2. work' \in [Works -> {"none", "running", "suspended", "finished"}]
    BY <1>2 DEF Suspend, Resume, ScopeInv
  <2>3. UNCHANGED <<scopeCount, mHandle, owner>>
    BY <1>2 DEF Suspend, Resume
  <2> QED BY <2>1, <2>2, <2>3 DEF ScopeInv, OwnShare
<1>3. ASSUME NEW w \in Works, Finish(w) PROVE ScopeInv'
  <2>1. InScope' = InScope \ {w} /\ w \in InScope
    BY <1>3 DEF Finish, InScope, ScopeInv
  <2>2. Cardinality(InScope)' = n - 1
    BY <2>1, ScopeIsFinite, FS_RemoveElement
  <2>3. n >= 1 /\ scopeCount' = scopeCount - 1 /\ mHandle' = mHandle
    BY <1>0, <1>3, <2>1 DEF Finish
  <2>4. OwnShare' = OwnShare /\ OwnShare \in {0, 1}
    BY <1>0, <1>3, <2>3 DEF Finish, ScopeInv, OwnShare
  <2>5. work' \in [Works -> {"none", "running", "suspended", "finished"}]
    BY <1>3 DEF Finish, ScopeInv
  <2>6. scopeCount' = Cardinality(InScope)' + OwnShare'
    BY <1>0, <2>2, <2>3, <2>4 DEF ScopeInv
  <2>7. CASE scopeCount = 1
    <3>1. owner = "suspended" /\ owner' = "joined" /\ scopeCount' = 0
      BY <1>0, <1>3, <2>3, <2>7 DEF Finish, ScopeInv, OwnShare
    <3> QED BY <2>3, <2>5, <2>6, <3>1 DEF ScopeInv
  <2>8. CASE scopeCount # 1
    <3>1. owner' = owner /\ scopeCount' # 0 /\ owner # "joined"
      BY <1>0, <1>3, <2>3, <2>8 DEF Finish, ScopeInv, OwnShare
    <3> QED BY <2>3, <2>5, <2>6, <3>1 DEF ScopeInv
  <2> QED BY <2>7, <2>8
<1>4. CASE Join
  <2>1. InScope' = InScope
    BY <1>4 DEF Join, InScope
  <2> QED BY <1>4, <2>1 DEF Join, ScopeInv, OwnShare
<1>5. CASE JoinCount
  <2>1. Cardinality(InScope)' = n
    BY <1>5 DEF JoinCount, InScope
  <2>2. scopeCount = n + 1 /\ scopeCount' = n
    BY <1>0, <1>5 DEF JoinCount, ScopeInv, OwnShare
  <2>3. owner' = (IF n > 0 THEN "suspended" ELSE "joined") /\ mHandle' = mHandle
    BY <1>0, <1>5, <2>2 DEF JoinCount
  <2>4. OwnShare' = 0
    BY <2>3 DEF OwnShare
  <2> QED BY <1>0, <1>5, <2>1, <2>2, <2>3, <2>4 DEF JoinCount, ScopeInv
<1>6. CASE UNCHANGED scopeVars
  BY <1>6 DEF scopeVars, ScopeInv, OwnShare, InScope
<1> QED BY <1>1, <1>2, <1>3, <1>4, <1>5, <1>6 DEF ScopeNext

LEMMA ScopeInvJoined == ScopeInv => JoinedWhenDone
BY DEF ScopeInv, OwnShare, JoinedWhenDone

\* Whatever is spawned, by the owner or from inside the scope, before or after
\* join() has been called: the owner goes on when the last coroutine of the
\* scope has finished and not before, and nothing is spawned after that.
THEOREM JoinSafety == ASSUME IsFiniteSet(Works) PROVE ScopeSpec => []JoinedWhenDone
BY InitScopeInv, StepScopeInv, ScopeInvJoined, PTL DEF ScopeSpec

-----------------------------------------------------------------------------
\* async_generator

RowTypeInv ==
    /\ state \in [Level -> {"initial", "running", "advancing", "suspended", "yielded",
                            "resumed", "final", "destroyed"}]
    /\ mCurrentValue \in [Generator -> Nat]
    /\ mException \in [Generator -> BOOLEAN]
    /\ mConsumerHandle \in [Generator -> Level]
    /\ begun \subseteq 0..Levels - 1
    /\ yielded \in Nat
    /\ received \in Seq(Nat)
    /\ caught \in BOOLEAN
    /\ \A i \in 1..Len(received) : received[i] = i

\* Control is with r on its way to the last one: those after r have not begun,
\* or are all at the co_yield of the last value, which the consumer has.
Descends(r) ==
    /\ state[r] = "running" \/ (r = Levels /\ state[r] = "suspended")
    /\ \A k \in r + 1..Levels : state[k] = IF yielded = 0 THEN "initial" ELSE "yielded"
    /\ begun = IF yielded = 0 THEN {} ELSE 0..Levels - 1
    /\ Len(received) = yielded
    /\ mException[Levels] = FALSE

\* On its way back to the consumer with a value, which those after r hold.
Ascends(r) ==
    /\ r < Levels /\ state[r] = "resumed"
    /\ \A k \in r + 1..Levels : state[k] = "yielded" /\ mCurrentValue[k] = yielded
    /\ yielded > 0
    /\ \A k \in 0..Levels - 1 : k \in begun <=> k > r \/ yielded > 1
    /\ Len(received) + 1 = yielded
    /\ mException[Levels] = FALSE

\* On its way back with the end, and with the exception if the last one threw.
Unwinds(r) ==
    /\ r < Levels /\ state[r] = "resumed"
    /\ \A k \in r + 1..Levels :
          /\ state[k] = "final" /\ mCurrentValue[k] = Nothing
          /\ mException[k] = mException[Levels]
    /\ Len(received) = yielded

HasControl(r) ==
    /\ \A k \in 0..r - 1 : state[k] = "advancing" /\ mConsumerHandle[k + 1] = k
    /\ caught = FALSE
    /\ Descends(r) \/ Ascends(r) \/ Unwinds(r)

RowOver ==
    /\ state[0] = "final"
    /\ \A g \in Generator : state[g] \in {"final", "destroyed"}
    /\ Len(received) = yielded
    /\ caught = mException[Levels]

\* The inductive invariant.
RowInv == RowTypeInv /\ (RowOver \/ \E r \in Level : HasControl(r))

LEMMA InitRowInv == ASSUME RowInit PROVE RowInv
<1> USE AsyncGeneratorAssumption DEF Level, Generator
<1>1. RowTypeInv
  <2>1. mCurrentValue \in [Generator -> Nat] /\ mException \in [Generator -> BOOLEAN]
    BY DEF RowInit, Nothing
  <2>2. mConsumerHandle \in [Generator -> Level]
    BY DEF RowInit
  <2>3. begun \subseteq 0..Levels - 1 /\ yielded \in Nat /\ caught \in BOOLEAN
    <3>1. begun = {} /\ yielded = 0 /\ caught = FALSE
      BY DEF RowInit
    <3> QED BY <3>1
  <2>4. received \in Seq(Nat) /\ Len(received) = 0
    <3>1. received = <<>>
      BY DEF RowInit
    <3> QED BY <3>1
  <2> QED BY <2>1, <2>2, <2>3, <2>4 DEF RowInit, RowTypeInv
<1>2. 0 \in Level /\ 0..0 - 1 = {}
  OBVIOUS
<1>3. Descends(0)
  BY DEF RowInit, Descends
<1>4. HasControl(0)
  BY <1>2, <1>3 DEF HasControl, RowInit
<1> QED BY <1>1, <1>2, <1>4 DEF RowInv

\* Whoever is not waiting for another has control, and nobody is when it is over.
LEMMA WhoActs ==
    ASSUME RowInv, NEW k \in Level, state[k] \in {"running", "resumed", "suspended"}
    PROVE  HasControl(k)
<1> USE AsyncGeneratorAssumption DEF Level, Generator
<1>1. ~RowOver
  <2>1. k = 0 \/ k \in Generator
    OBVIOUS
  <2> QED BY <2>1 DEF RowOver
<1>2. PICK r \in Level : HasControl(r)
  BY <1>1 DEF RowInv
<1>3. CASE k < r
  <2>1. k \in 0..r - 1
    BY <1>3
  <2> QED BY <1>2, <2>1 DEF HasControl
<1>4. CASE k > r
  <2>1. k \in r + 1..Levels
    BY <1>4
  <2>2. state[k] \in {"initial", "yielded", "final"}
    BY <1>2, <2>1 DEF HasControl, Descends, Ascends, Unwinds
  <2> QED BY <2>2
<1> QED BY <1>2, <1>3, <1>4

LEMMA Running ==
    ASSUME RowInv, NEW k \in Level, state[k] = "running"
    PROVE  HasControl(k) /\ Descends(k)
BY WhoActs DEF HasControl, Ascends, Unwinds

LEMMA Resuming ==
    ASSUME RowInv, NEW k \in Level, k < Levels, state[k] = "resumed"
    PROVE  /\ HasControl(k) /\ (Ascends(k) \/ Unwinds(k))
           /\ mCurrentValue[k + 1] # Nothing => Ascends(k)
           /\ mCurrentValue[k + 1] = Nothing => Unwinds(k)
<1> USE AsyncGeneratorAssumption DEF Level, Generator
<1>1. HasControl(k) /\ (Ascends(k) \/ Unwinds(k))
  BY WhoActs DEF HasControl, Descends
<1>2. k + 1 \in k + 1..Levels
  OBVIOUS
<1>3. Unwinds(k) => mCurrentValue[k + 1] = Nothing
  BY <1>2 DEF Unwinds
<1>4. Ascends(k) => mCurrentValue[k + 1] # Nothing
  BY <1>2 DEF Ascends, RowInv, RowTypeInv, Nothing
<1> QED BY <1>1, <1>3, <1>4

LEMMA StepRowType == ASSUME RowInv, [RowNext]_asyncVars PROVE RowTypeInv'
<1> USE AsyncGeneratorAssumption DEF Level, Generator, RowTypeInv
<1>0. RowTypeInv
  BY DEF RowInv
<1>1. ASSUME NEW l \in Level, Advance(l) PROVE RowTypeInv'
  <2>1. l \in 0..Levels - 1 /\ l + 1 \in Generator
    BY <1>1 DEF Advance
  <2> QED BY <1>0, <1>1, <2>1 DEF Advance, gotVars
<1>2. CASE SourceSuspend \/ SourceResume
  BY <1>0, <1>2 DEF SourceSuspend, SourceResume, gotVars
<1>3. CASE YieldValue
  BY <1>0, <1>3 DEF YieldValue, Transfer, gotVars
<1>4. CASE SourceEnds
  BY <1>0, <1>4 DEF SourceEnds, End, Transfer, Nothing, gotVars
<1>5. CASE ConsumerGets
  <2>1. 1 \in Generator /\ mCurrentValue[1] \in Nat /\ mException[1] \in BOOLEAN
    BY <1>0
  <2>2. CASE mCurrentValue[1] = Nothing
    BY <1>0, <1>5, <2>1, <2>2 DEF ConsumerGets
  <2>3. CASE mCurrentValue[1] # Nothing
    <3>1. Ascends(0) /\ 1 \in 0 + 1..Levels
      BY <1>5, <2>3, Resuming DEF ConsumerGets
    <3>2. mCurrentValue[1] = Len(received) + 1
      BY <3>1 DEF Ascends
    <3>3. received' = Append(received, Len(received) + 1)
      BY <1>5, <2>3, <3>2 DEF ConsumerGets
    <3>4. received' \in Seq(Nat) /\ \A i \in 1..Len(received') : received'[i] = i
      BY <1>0, <3>3
    <3>5. /\ state' = [state EXCEPT ![0] = "running"] /\ begun' = begun \cup {0}
          /\ UNCHANGED <<mCurrentValue, mException, mConsumerHandle, yielded, caught>>
      BY <1>5, <2>3 DEF ConsumerGets
    <3> QED BY <1>0, <3>4, <3>5
  <2> QED BY <2>2, <2>3
<1>6. CASE Stop
  BY <1>0, <1>6 DEF Stop, gotVars
<1>7. ASSUME NEW g \in Generator, FmapYields(g) PROVE RowTypeInv'
  <2>1. /\ g + 1 \in Generator /\ mCurrentValue[g + 1] \in Nat
        /\ begun \cup {g} \subseteq 0..Levels - 1
    BY <1>0, <1>7 DEF FmapYields
  <2>2. begun' = begun \cup {g} /\ Transfer(g, mCurrentValue[g + 1], "yielded")
        /\ UNCHANGED <<mException, mConsumerHandle, yielded, received, caught>>
    BY <1>7 DEF FmapYields, gotVars
  <2> QED BY <1>0, <2>1, <2>2 DEF Transfer
<1>8. ASSUME NEW g \in Generator, FmapEnds(g) PROVE RowTypeInv'
  <2>1. g + 1 \in Generator
    BY <1>8 DEF FmapEnds
  <2> QED BY <1>0, <1>8, <2>1 DEF FmapEnds, End, Transfer, Nothing, gotVars
<1>9. CASE UNCHANGED asyncVars
  BY <1>0, <1>9 DEF asyncVars
<1> QED
  BY <1>1, <1>2, <1>3, <1>4, <1>5, <1>6, <1>7, <1>8, <1>9 DEF RowNext

\* The coroutine that has control hands it to the next one.
LEMMA AdvanceHandsOn ==
    ASSUME RowInv, NEW l \in Level, Advance(l)
    PROVE  l + 1 \in Level /\ HasControl(l + 1)'
<1> USE AsyncGeneratorAssumption DEF Level, Generator
<1>0. RowTypeInv
  BY DEF RowInv
<1>1. /\ l \in 0..Levels - 1 /\ l + 1 \in Level /\ l + 1 \in Generator
      /\ HasControl(l) /\ Descends(l)
  BY Running DEF Advance
<1>2. /\ state'[l] = "advancing" /\ state'[l + 1] = "running"
      /\ \A k \in Level : k # l /\ k # l + 1 => state'[k] = state[k]
      /\ mConsumerHandle'[l + 1] = l
      /\ \A k \in Generator : k # l + 1 => mConsumerHandle'[k] = mConsumerHandle[k]
      /\ UNCHANGED <<mCurrentValue, mException, begun, yielded, received, caught>>
  BY <1>0, <1>1 DEF Advance, RowTypeInv, gotVars
<1>3. ASSUME NEW k \in 0..l
      PROVE  state'[k] = "advancing" /\ mConsumerHandle'[k + 1] = k
  <2>1. CASE k = l
    BY <1>2, <2>1
  <2>2. CASE k # l
    <3>1. k \in 0..l - 1 /\ k \in Level /\ k + 1 \in Generator /\ k + 1 # l + 1
      BY <1>1, <2>2
    <3>2. state[k] = "advancing" /\ mConsumerHandle[k + 1] = k
      BY <1>1, <3>1 DEF HasControl
    <3> QED BY <1>2, <2>2, <3>1, <3>2
  <2> QED BY <2>1, <2>2
<1>4. Descends(l + 1)'
  <2>1. \A k \in l + 1 + 1..Levels : k \in l + 1..Levels /\ k \in Level /\ k # l /\ k # l + 1
    BY <1>1
  <2>2. \A k \in l + 1 + 1..Levels : state'[k] = IF yielded = 0 THEN "initial" ELSE "yielded"
    BY <1>1, <1>2, <2>1 DEF Descends
  <2> QED BY <1>1, <1>2, <2>2 DEF Descends
<1>5. caught' = FALSE
  BY <1>1, <1>2 DEF HasControl
<1>6. 0..l + 1 - 1 = 0..l
  BY <1>1
<1> QED BY <1>1, <1>3, <1>4, <1>5, <1>6 DEF HasControl

\* What handing control back leaves: those in front still wait, the one before
\* g has control, and those after g are as they were.
HandedBack(g, value, next) ==
    /\ g - 1 \in Level /\ g - 1 < Levels
    /\ \A k \in 0..g - 1 - 1 : state'[k] = "advancing" /\ mConsumerHandle'[k + 1] = k
    /\ state'[g - 1] = "resumed" /\ state'[g] = next
    /\ mCurrentValue'[g] = value
    /\ \A k \in g + 1..Levels :
          state'[k] = state[k] /\ mCurrentValue'[k] = mCurrentValue[k]

LEMMA HandsBack ==
    ASSUME RowInv, NEW g \in Generator, HasControl(g),
           NEW value, NEW next, Transfer(g, value, next), UNCHANGED mConsumerHandle
    PROVE  HandedBack(g, value, next)
<1> USE AsyncGeneratorAssumption DEF Level, Generator
<1>0. RowTypeInv
  BY DEF RowInv
<1>1. g - 1 \in Level /\ g - 1 \in 0..g - 1 /\ g - 1 < Levels /\ g - 1 + 1 = g
  OBVIOUS
<1>2. mConsumerHandle[g] = g - 1
  BY <1>1 DEF HasControl
<1>3. /\ state' = [state EXCEPT ![g] = next, ![g - 1] = "resumed"]
      /\ mCurrentValue' = [mCurrentValue EXCEPT ![g] = value]
  BY <1>2 DEF Transfer
<1>4. /\ state'[g - 1] = "resumed" /\ state'[g] = next
      /\ \A k \in Level : k # g /\ k # g - 1 => state'[k] = state[k]
      /\ mCurrentValue'[g] = value
      /\ \A k \in Generator : k # g => mCurrentValue'[k] = mCurrentValue[k]
  BY <1>0, <1>1, <1>3 DEF RowTypeInv
<1>5. \A k \in 0..g - 1 - 1 : k \in 0..g - 1 /\ k \in Level /\ k # g /\ k # g - 1
  OBVIOUS
<1>6. \A k \in g + 1..Levels : k \in Level /\ k \in Generator /\ k # g /\ k # g - 1
  OBVIOUS
<1>7. \A k \in 0..g - 1 - 1 : state'[k] = "advancing" /\ mConsumerHandle'[k + 1] = k
  BY <1>4, <1>5 DEF HasControl
<1>8. \A k \in g + 1..Levels :
         state'[k] = state[k] /\ mCurrentValue'[k] = mCurrentValue[k]
  BY <1>4, <1>6
<1> QED BY <1>1, <1>4, <1>7, <1>8 DEF HandedBack

\* A value goes up by one, be it a new one of the last generator or that of
\* the next one.
LEMMA ValueGoesUp ==
    ASSUME RowInv, NEW g \in Generator, HasControl(g),
           NEW v \in Nat, yielded' = v, Transfer(g, v, "yielded"),
           UNCHANGED <<mConsumerHandle, mException, received, caught>>,
           mException[Levels] = FALSE, v > 0, Len(received) + 1 = v,
           \A k \in 0..Levels - 1 : k \in begun' <=> k > g - 1 \/ v > 1,
           \A k \in g + 1..Levels : state[k] = "yielded" /\ mCurrentValue[k] = v
    PROVE  g - 1 \in Level /\ HasControl(g - 1)'
<1>1. caught' = FALSE /\ UNCHANGED mConsumerHandle
  BY DEF HasControl
<1>2. HandedBack(g, v, "yielded")
  BY <1>1, HandsBack
<1> USE AsyncGeneratorAssumption DEF Level, Generator
<1>3. \A k \in g - 1 + 1..Levels : k = g \/ k \in g + 1..Levels
  OBVIOUS
<1>4. ASSUME NEW k \in g - 1 + 1..Levels
      PROVE  state'[k] = "yielded" /\ mCurrentValue'[k] = v
  <2>1. CASE k = g
    BY <1>2, <2>1 DEF HandedBack
  <2>2. CASE k # g
    BY <1>2, <1>3, <2>2 DEF HandedBack
  <2> QED BY <2>1, <2>2
<1>5. Ascends(g - 1)'
  BY <1>2, <1>4 DEF HandedBack, Ascends
<1> QED BY <1>1, <1>2, <1>5 DEF HandedBack, HasControl

\* The end goes up by one, with the exception or without.
LEMMA EndGoesUp ==
    ASSUME RowInv, NEW g \in Generator, HasControl(g), NEW threw \in BOOLEAN,
           End(g, threw), Len(received) = yielded,
           g # Levels => threw = mException[Levels],
           \A k \in g + 1..Levels :
              /\ state[k] = "final" /\ mCurrentValue[k] = Nothing
              /\ mException[k] = mException[Levels]
    PROVE  g - 1 \in Level /\ HasControl(g - 1)'
<1>1. /\ caught' = FALSE /\ received' = received /\ yielded' = yielded
      /\ Transfer(g, Nothing, "final") /\ UNCHANGED mConsumerHandle
      /\ mException' = [mException EXCEPT ![g] = threw]
  BY DEF HasControl, End, gotVars
<1>2. HandedBack(g, Nothing, "final")
  BY <1>1, HandsBack
<1> USE AsyncGeneratorAssumption DEF Level, Generator
<1>3. /\ mException'[g] = threw
      /\ \A k \in Generator : k # g => mException'[k] = mException[k]
  BY <1>1 DEF RowInv, RowTypeInv
<1>4. mException'[Levels] = threw
  BY <1>3
<1>5. ASSUME NEW k \in g - 1 + 1..Levels
      PROVE  /\ state'[k] = "final" /\ mCurrentValue'[k] = Nothing
             /\ mException'[k] = mException'[Levels]
  <2>1. CASE k = g
    BY <1>2, <1>3, <1>4, <2>1 DEF HandedBack
  <2>2. CASE k # g
    <3>1. k \in g + 1..Levels /\ k \in Generator /\ g # Levels
      BY <2>2
    <3> QED BY <1>2, <1>3, <1>4, <2>2, <3>1 DEF HandedBack
  <2> QED BY <2>1, <2>2
<1>6. Unwinds(g - 1)'
  BY <1>1, <1>2, <1>5 DEF HandedBack, Unwinds
<1> QED BY <1>1, <1>2, <1>6 DEF HandedBack, HasControl

LEMMA YieldGoesUp == ASSUME RowInv, YieldValue PROVE HasControl(Levels - 1)'
<1> USE AsyncGeneratorAssumption DEF Level, Generator
<1> DEFINE v == yielded + 1
<1>1. /\ Levels \in Generator /\ Levels \in Level
      /\ \A k \in Levels + 1..Levels : state[k] = "yielded" /\ mCurrentValue[k] = v
  OBVIOUS
<1>2. HasControl(Levels) /\ Descends(Levels)
  BY <1>1, Running DEF YieldValue
<1>3. /\ v \in Nat /\ v > 0 /\ yielded' = v /\ begun' = begun
      /\ Transfer(Levels, v, "yielded")
      /\ UNCHANGED <<mConsumerHandle, mException, received, caught>>
  BY DEF YieldValue, gotVars, RowInv, RowTypeInv
<1>4. \A k \in 0..Levels - 1 : k \in begun' <=> k > Levels - 1 \/ v > 1
  BY <1>2, <1>3 DEF Descends
<1>5. mException[Levels] = FALSE /\ Len(received) + 1 = v
  BY <1>2, <1>3 DEF Descends
<1> HIDE DEF v, Level, Generator
<1> QED BY <1>1, <1>2, <1>3, <1>4, <1>5, ValueGoesUp

LEMMA FmapGoesUp ==
    ASSUME RowInv, NEW g \in Generator, FmapYields(g)
    PROVE  g - 1 \in Level /\ HasControl(g - 1)'
<1> USE AsyncGeneratorAssumption DEF Level, Generator
<1>1. g \in Level /\ HasControl(g) /\ Ascends(g) /\ g + 1 \in g + 1..Levels
  BY Resuming DEF FmapYields
<1>2. /\ yielded' = yielded /\ begun' = begun \cup {g} /\ mCurrentValue[g + 1] = yielded
      /\ UNCHANGED <<mConsumerHandle, mException, received, caught>>
  BY <1>1 DEF FmapYields, gotVars, Ascends
<1>3. Transfer(g, yielded, "yielded") /\ yielded \in Nat
  BY <1>2 DEF FmapYields, RowInv, RowTypeInv
<1>4. \A k \in 0..Levels - 1 : k \in begun' <=> k > g - 1 \/ yielded > 1
  BY <1>1, <1>2 DEF Ascends
<1>5. /\ mException[Levels] = FALSE /\ yielded > 0 /\ Len(received) + 1 = yielded
      /\ \A k \in g + 1..Levels : state[k] = "yielded" /\ mCurrentValue[k] = yielded
  BY <1>1 DEF Ascends
<1> QED BY <1>1, <1>2, <1>3, <1>4, <1>5, ValueGoesUp

LEMMA SourceEndGoesUp == ASSUME RowInv, SourceEnds PROVE HasControl(Levels - 1)'
<1> USE AsyncGeneratorAssumption DEF Level, Generator
<1>1. Levels \in Generator /\ Levels \in Level /\ Levels + 1..Levels = {}
  OBVIOUS
<1>2. HasControl(Levels) /\ Len(received) = yielded
  BY <1>1, Running DEF SourceEnds, Descends
<1>3. PICK threw \in BOOLEAN : End(Levels, threw)
  BY DEF SourceEnds
<1> QED BY <1>1, <1>2, <1>3, EndGoesUp

LEMMA FmapEndGoesUp ==
    ASSUME RowInv, NEW g \in Generator, FmapEnds(g)
    PROVE  g - 1 \in Level /\ HasControl(g - 1)'
<1> USE AsyncGeneratorAssumption DEF Level, Generator
<1>1. /\ g \in Level /\ HasControl(g) /\ Unwinds(g)
      /\ g + 1 \in g + 1..Levels /\ g + 1 \in Generator
  BY Resuming DEF FmapEnds
<1>2. mException[g + 1] \in BOOLEAN /\ mException[g + 1] = mException[Levels]
  BY <1>1 DEF Unwinds, RowInv, RowTypeInv
<1>3. End(g, mException[g + 1])
  BY DEF FmapEnds
<1> QED BY <1>1, <1>2, <1>3, EndGoesUp DEF Unwinds

\* The consumer keeps the value and has control still, or all is over.
LEMMA ConsumerGoesOn == ASSUME RowInv, ConsumerGets PROVE HasControl(0)' \/ RowOver'
<1> USE AsyncGeneratorAssumption DEF Level, Generator
<1>0. RowTypeInv
  BY DEF RowInv
<1>1. /\ 0 \in Level /\ 0 < Levels /\ state[0] = "resumed" /\ HasControl(0)
      /\ 0 + 1 = 1 /\ 0..0 - 1 = {} /\ 1 \in Generator
  BY Resuming DEF ConsumerGets
<1>2. CASE mCurrentValue[1] # Nothing
  <2>1. Ascends(0)
    BY <1>1, <1>2, Resuming
  <2>2. /\ state' = [state EXCEPT ![0] = "running"] /\ begun' = begun \cup {0}
        /\ received' = Append(received, mCurrentValue[1])
        /\ UNCHANGED <<mCurrentValue, mException, mConsumerHandle, yielded, caught>>
    BY <1>2 DEF ConsumerGets
  <2>3. Len(received') = yielded /\ yielded \in Nat /\ yielded # 0
    BY <1>0, <2>1, <2>2 DEF RowTypeInv, Ascends
  <2>4. state'[0] = "running" /\ \A k \in 1..Levels : state'[k] = "yielded"
    BY <1>0, <1>1, <2>1, <2>2 DEF RowTypeInv, Ascends
  <2>5. begun' = 0..Levels - 1
    <3>1. \A k \in 0..Levels - 1 : k = 0 \/ k \in begun
      BY <2>1 DEF Ascends
    <3>2. begun \subseteq 0..Levels - 1 /\ 0 \in 0..Levels - 1
      BY <1>0 DEF RowTypeInv
    <3> QED BY <2>2, <3>1, <3>2
  <2>6. Descends(0)'
    BY <1>1, <2>1, <2>2, <2>3, <2>4, <2>5 DEF Descends, Ascends
  <2> QED BY <1>1, <2>2, <2>6 DEF HasControl
<1>3. CASE mCurrentValue[1] = Nothing
  <2>1. Unwinds(0)
    BY <1>1, <1>3, Resuming
  <2>2. /\ state' = [state EXCEPT ![0] = "final"] /\ caught' = mException[1]
        /\ UNCHANGED <<received, mException, yielded>>
    BY <1>3 DEF ConsumerGets
  <2>3. state'[0] = "final" /\ \A k \in Generator : state'[k] = "final"
    BY <1>0, <1>1, <2>1, <2>2 DEF RowTypeInv, Unwinds
  <2>4. caught' = mException'[Levels] /\ Len(received') = yielded'
    BY <1>1, <2>1, <2>2 DEF Unwinds
  <2> QED BY <2>3, <2>4 DEF RowOver
<1> QED BY <1>2, <1>3

LEMMA StepRowInv == ASSUME RowInv, [RowNext]_asyncVars PROVE RowInv'
<1> USE AsyncGeneratorAssumption DEF Level, Generator
<1>t. RowTypeInv /\ RowTypeInv'
  BY StepRowType DEF RowInv
<1>s. Levels \in Level /\ Levels - 1 \in Level /\ 0 \in Level
  OBVIOUS
<1> SUFFICES RowOver' \/ \E r \in Level : HasControl(r)'
  BY <1>t DEF RowInv
<1>1. ASSUME NEW l \in Level, Advance(l) PROVE \E r \in Level : HasControl(r)'
  BY <1>1, AdvanceHandsOn
<1>2. CASE SourceSuspend \/ SourceResume
  <2>1. HasControl(Levels) /\ Descends(Levels)
    BY <1>2, <1>s, WhoActs DEF SourceSuspend, SourceResume, HasControl, Ascends, Unwinds
  <2>2. /\ state'[Levels] \in {"running", "suspended"}
        /\ \A k \in Level : k # Levels => state'[k] = state[k]
        /\ UNCHANGED <<mCurrentValue, mException, mConsumerHandle, begun, yielded,
                       received, caught>>
    BY <1>2, <1>t DEF SourceSuspend, SourceResume, RowTypeInv, gotVars
  <2>3. Levels + 1..Levels = {} /\ \A k \in 0..Levels - 1 : k \in Level /\ k # Levels
    OBVIOUS
  <2>4. Descends(Levels)'
    BY <2>1, <2>2, <2>3 DEF Descends
  <2>5. HasControl(Levels)'
    BY <2>1, <2>2, <2>3, <2>4 DEF HasControl
  <2> QED BY <1>s, <2>5
<1>3. CASE YieldValue
  BY <1>3, <1>s, YieldGoesUp
<1>4. CASE SourceEnds
  BY <1>4, <1>s, SourceEndGoesUp
<1>5. CASE ConsumerGets
  BY <1>5, <1>s, ConsumerGoesOn
<1>6. CASE Stop
  <2>1. Descends(0) /\ caught = FALSE
    BY <1>6, <1>s, Running DEF Stop, HasControl
  <2>2. /\ state'[0] = "final" /\ \A g \in Generator : state'[g] = "destroyed"
        /\ UNCHANGED <<mException, yielded, received, caught>>
    BY <1>6 DEF Stop, gotVars
  <2> QED BY <2>1, <2>2 DEF RowOver, Descends
<1>7. ASSUME NEW g \in Generator, FmapYields(g) PROVE \E r \in Level : HasControl(r)'
  BY <1>7, FmapGoesUp
<1>8. ASSUME NEW g \in Generator, FmapEnds(g) PROVE \E r \in Level : HasControl(r)'
  BY <1>8, FmapEndGoesUp
<1>9. CASE UNCHANGED asyncVars
  BY <1>9 DEF asyncVars, RowInv, RowOver, HasControl, Descends, Ascends, Unwinds
<1> QED
  BY <1>1, <1>2, <1>3, <1>4, <1>5, <1>6, <1>7, <1>8, <1>9 DEF RowNext

LEMMA RowInvOneRuns == ASSUME RowInv PROVE OneRuns
<1> USE AsyncGeneratorAssumption DEF Level, Generator
<1> DEFINE runs == {l \in Level : state[l] \in {"running", "resumed", "suspended"}}
<1>0. RowTypeInv
  BY DEF RowInv
<1>1. \A i \in DOMAIN received : received[i] = i
  BY <1>0 DEF RowTypeInv
<1>2. CASE RowOver
  <2>1. \A l \in Level : l = 0 \/ l \in Generator
    OBVIOUS
  <2>2. runs = {} /\ 0 \in Level
    BY <1>2, <2>1 DEF RowOver
  <2>3. \A l \in 0..Levels - 1 : l \in Level
    OBVIOUS
  <2> QED BY <1>1, <1>2, <2>2, <2>3 DEF OneRuns, RowOver
<1>3. ASSUME NEW r \in Level, HasControl(r) PROVE OneRuns
  <2>1. state[r] \in {"running", "resumed", "suspended"}
    BY <1>3 DEF HasControl, Descends, Ascends, Unwinds
  <2>2. /\ \A k \in Level : k < r => state[k] = "advancing"
        /\ \A k \in Level : k > r => state[k] \in {"initial", "yielded", "final"}
    <3>1. ASSUME NEW k \in Level, k < r PROVE state[k] = "advancing"
      BY <1>3, <3>1 DEF HasControl
    <3>2. ASSUME NEW k \in Level, k > r PROVE state[k] \in {"initial", "yielded", "final"}
      <4>1. k \in r + 1..Levels
        BY <3>2
      <4> QED BY <1>3, <4>1 DEF HasControl, Descends, Ascends, Unwinds
    <3> QED BY <3>1, <3>2
  <2>3. runs = {r}
    <3>1. ASSUME NEW k \in Level, k # r PROVE k \notin runs
      <4>1. k < r \/ k > r
        BY <3>1
      <4> QED BY <2>2, <4>1
    <3> QED BY <2>1, <3>1
  <2>4. Cardinality(runs) = 1
    BY <2>3, FS_Singleton
  <2>5. state[0] # "final"
    BY <2>1, <2>2
  <2>6. ASSUME NEW l \in 0..Levels - 1, state[l] = "running"
        PROVE  state[l + 1] = IF l \in begun THEN "yielded" ELSE "initial"
    <3>1. l \in Level /\ l = r /\ l + 1 \in r + 1..Levels
      BY <2>3, <2>6
    <3>2. Descends(r)
      BY <1>3, <2>6, <3>1 DEF HasControl, Ascends, Unwinds
    <3> QED BY <3>1, <3>2 DEF Descends
  <2>7. ASSUME state[0] = "running" PROVE Len(received) = yielded
    <3>1. r = 0
      BY <2>3, <2>7
    <3> QED BY <1>3, <2>7, <3>1 DEF HasControl, Descends, Ascends, Unwinds
  <2> QED BY <1>1, <2>2, <2>3, <2>4, <2>5, <2>6, <2>7 DEF OneRuns
<1> QED BY <1>2, <1>3 DEF RowInv

\* However long the row and the run of values: control is with one coroutine
\* at a time, whoever asks for a value finds the next generator at its beginning
\* or at a co_yield, and the consumer gets every value once, in order, and the
\* exception after the last.
THEOREM RowSafety == RowSpec => []OneRuns
BY InitRowInv, StepRowInv, RowInvOneRuns, PTL DEF RowSpec

-----------------------------------------------------------------------------
\* recursive_generator

\* A generator whose promise has been linked to that of its parent.
Linked(k) == k = RootNode \/ mNode[k] # k

\* The generators between the root and the active one, both included.
OnChain(k) == Linked(k) /\ (~done[k] \/ k = mNode[RootNode])

RecursiveTypeInv ==
    /\ program \in Programs
    /\ mRoot \in [Nodes -> Nodes]
    /\ mNode \in [Nodes -> Nodes]
    /\ done \in [Nodes -> BOOLEAN]
    /\ at \in [Nodes -> Nat \ {0}]
    /\ stack \in Seq(Nodes)
    /\ mapper \in {"initial", "running", "yielded", "ended", "threw"}

\* The parent of a linked generator has the smaller number and is past the step
\* that yielded it.
LinkInv ==
    /\ mRoot[RootNode] = RootNode
    /\ Linked(mNode[RootNode])
    /\ \A k \in Nodes :
          /\ done[k] => Linked(k)
          /\ k # RootNode /\ Linked(k) =>
                /\ mNode[k] < k /\ mRoot[k] = RootNode
                /\ \E i \in DOMAIN program[mNode[k]] :
                      i < at[mNode[k]] /\ program[mNode[k]][i] = k

\* It is a chain: the parents of those on it are on it and not done, no two have
\* the same, and nobody's is the active one.
ChainInv ==
    /\ \A k \in Nodes \ {RootNode} : OnChain(k) =>
          /\ Linked(mNode[k]) /\ ~done[mNode[k]]
          /\ mNode[k] # mNode[RootNode]
    /\ \A j, k \in Nodes \ {RootNode} :
          OnChain(j) /\ OnChain(k) /\ mNode[j] = mNode[k] => j = k

\* Those that run, each inside the yield_value() of the one before, are the end
\* of the chain.
StackInv ==
    /\ \A i \in 1..Len(stack) : Linked(stack[i]) /\ ~done[stack[i]]
    /\ \A i, j \in 1..Len(stack) : i < j => stack[i] < stack[j]
    /\ \A i \in 1..Len(stack) - 1 : mNode[stack[i + 1]] = stack[i]
    /\ stack # <<>> =>
          stack[Len(stack)] = mNode[RootNode] /\ mapper = "running"
    /\ stack = <<>> /\ mapper \in {"initial", "yielded"} => ~done[mNode[RootNode]]

\* The inductive invariant.
RecursiveInv == RecursiveTypeInv /\ LinkInv /\ ChainInv /\ StackInv

\* A program is made of sequences, and a generator is yielded in one place only,
\* by one with a smaller number.
LEMMA ProgramSteps ==
    ASSUME Depth \in Nat \ {0}, MaxSteps \in Nat, program \in Programs,
           NEW n \in Nodes
    PROVE  /\ program[n] \in Seq(Nat) /\ Len(program[n]) \in 0..MaxSteps
           /\ \A i \in DOMAIN program[n] :
                 program[n][i] \in Nodes => program[n][i] > n
<1> USE DEF Nodes
<1> DEFINE S == {0, Depth + 1} \cup (n + 1)..Depth
<1>1. program[n] \in UNION {[1..l -> S] : l \in 0..MaxSteps}
  BY DEF Programs, Value, Throw
<1>2. PICK l \in 0..MaxSteps : program[n] \in [1..l -> S]
  BY <1>1
<1>3. S \subseteq Nat /\ l \in Nat /\ \A s \in S : s \in 1..Depth => s > n
  OBVIOUS
<1> HIDE DEF S
<1>4. program[n] \in [1..l -> Nat]
  BY <1>2, <1>3
<1>5. program[n] \in Seq(Nat) /\ Len(program[n]) = l
  BY <1>3, <1>4
<1> QED BY <1>2, <1>3, <1>5

LEMMA OnePlace ==
    ASSUME Depth \in Nat \ {0}, MaxSteps \in Nat, program \in Programs,
           NEW k \in Nodes \ {RootNode},
           NEW n \in Nodes, NEW m \in Nodes,
           NEW i \in DOMAIN program[n], NEW j \in DOMAIN program[m],
           program[n][i] = k, program[m][j] = k
    PROVE  n = m /\ i = j
<1> DEFINE A == {x \in Nodes \X (1..MaxSteps) :
                    x[2] \in DOMAIN program[x[1]] /\ program[x[1]][x[2]] = k}
<1>1. \A x, y \in A : x = y
  BY DEF Programs
<1>2. i \in 1..MaxSteps /\ j \in 1..MaxSteps
  <2>1. /\ program[n] \in Seq(Nat) /\ Len(program[n]) \in 0..MaxSteps
        /\ program[m] \in Seq(Nat) /\ Len(program[m]) \in 0..MaxSteps
    BY ProgramSteps
  <2> QED BY <2>1
<1>3. <<n, i>> \in A /\ <<m, j>> \in A
  BY <1>2
<1> HIDE DEF A
<1>4. <<n, i>> = <<m, j>>
  BY <1>1, <1>3
<1> QED BY <1>4

LEMMA InitRecursiveInv ==
    ASSUME Depth \in Nat \ {0}, NestInit
    PROVE  RecursiveInv
<1> USE DEF Nodes, RootNode, Linked, OnChain
<1>0. RootNode \in Nodes
  OBVIOUS
<1>1. /\ program \in Programs
      /\ mRoot = [n \in Nodes |-> n] /\ mNode = [n \in Nodes |-> n]
      /\ done = [n \in Nodes |-> FALSE] /\ at = [n \in Nodes |-> 1]
      /\ stack = <<>> /\ mapper = "initial"
  BY DEF NestInit, NestInitFor
<1>2. RecursiveTypeInv
  BY <1>1 DEF RecursiveTypeInv
<1>3. LinkInv
  BY <1>0, <1>1 DEF LinkInv
<1>4. ChainInv
  BY <1>0, <1>1 DEF ChainInv
<1>5. StackInv
  BY <1>0, <1>1 DEF StackInv
<1> QED BY <1>2, <1>3, <1>4, <1>5 DEF RecursiveInv

\* The innermost of those that run, and what is left when it returns.
LEMMA Innermost ==
    ASSUME RecursiveInv, stack # <<>>
    PROVE  LET leaf == mNode[RootNode]
               outer == Front(stack)
           IN  /\ Active = leaf /\ ~done[leaf] /\ mapper = "running"
               /\ stack \in Seq(Nodes) /\ Len(stack) \in Nat \ {0}
               /\ stack[Len(stack)] = leaf
               /\ outer \in Seq(Nodes) /\ Len(outer) = Len(stack) - 1
               /\ \A i \in 1..Len(outer) : outer[i] = stack[i]
               /\ outer # <<>> =>
                     /\ Last(outer) = outer[Len(outer)]
                     /\ Last(outer) = mNode[leaf]
                     /\ leaf # RootNode
<1> DEFINE leaf == mNode[RootNode]
           outer == Front(stack)
<1>1. stack \in Seq(Nodes) /\ Len(stack) \in Nat \ {0}
  BY DEF RecursiveInv, RecursiveTypeInv
<1>2. /\ stack[Len(stack)] = leaf /\ mapper = "running" /\ Len(stack) \in 1..Len(stack)
  BY <1>1 DEF RecursiveInv, StackInv
<1>3. ~done[leaf] /\ Linked(leaf)
  BY <1>2 DEF RecursiveInv, StackInv
<1>4. Active = leaf
  BY <1>2 DEF Active, Last
<1>5. /\ outer \in Seq(Nodes) /\ Len(outer) = Len(stack) - 1
      /\ \A i \in 1..Len(outer) : outer[i] = stack[i]
  <2>1. outer = SubSeq(stack, 1, Len(stack) - 1)
    BY DEF Front
  <2>2. /\ Len(stack) - 1 \in Int /\ 1 \in Int
        /\ \A i \in 1..Len(stack) - 1 : stack[i] \in Nodes
    BY <1>1
  <2>3. /\ outer \in Seq(Nodes)
        /\ Len(outer) = IF 1 <= Len(stack) - 1 THEN Len(stack) - 1 - 1 + 1 ELSE 0
        /\ \A i \in 1..Len(stack) - 1 - 1 + 1 : outer[i] = stack[1 + i - 1]
    BY <2>1, <2>2, SubSeqProperties
  <2> HIDE DEF outer
  <2>4. Len(outer) = Len(stack) - 1
    <3>1. \A l \in Nat \ {0} : (IF 1 <= l - 1 THEN l - 1 - 1 + 1 ELSE 0) = l - 1
      OBVIOUS
    <3>2. (IF 1 <= Len(stack) - 1 THEN Len(stack) - 1 - 1 + 1 ELSE 0) = Len(stack) - 1
      BY <1>1, <3>1
    <3> QED BY <2>3, <3>2
  <2>5. \A i \in 1..Len(outer) : i \in 1..Len(stack) - 1 - 1 + 1 /\ 1 + i - 1 = i
    BY <1>1, <2>4
  <2> QED BY <2>3, <2>4, <2>5
<1>6. ASSUME outer # <<>>
      PROVE  /\ Last(outer) = outer[Len(outer)]
             /\ Last(outer) = mNode[leaf]
             /\ leaf # RootNode
  <2>1. Len(outer) \in 1..Len(outer) /\ Len(outer) \in 1..Len(stack) - 1
    BY <1>1, <1>5, <1>6
  <2>2. Last(outer) = outer[Len(outer)]
    BY DEF Last
  <2>3. outer[Len(outer)] = stack[Len(stack) - 1] /\ Len(stack) - 1 + 1 = Len(stack)
    BY <1>1, <1>5, <2>1
  <2>4. Len(stack) - 1 \in 1..Len(stack) - 1
    BY <1>5, <2>1
  <2>5. mNode[leaf] = stack[Len(stack) - 1]
    BY <1>2, <2>3, <2>4 DEF RecursiveInv, StackInv
  <2>6. stack[Len(stack) - 1] < leaf
    <3>1. Len(stack) - 1 \in 1..Len(stack) /\ Len(stack) - 1 < Len(stack)
      BY <1>1, <2>4
    <3> QED BY <1>2, <3>1 DEF RecursiveInv, StackInv
  <2>7. stack[Len(stack) - 1] \in Nodes
    BY <1>1, <2>4
  <2>8. leaf # RootNode
    BY <2>6, <2>7 DEF Nodes, RootNode
  <2> QED BY <2>2, <2>3, <2>5, <2>8
<1> QED BY <1>1, <1>2, <1>3, <1>4, <1>5, <1>6

LEMMA StepRecursiveType ==
    ASSUME Depth \in Nat \ {0}, RecursiveInv, [NestNext]_generatorVars
    PROVE  RecursiveTypeInv'
<1>0. RecursiveTypeInv
  BY DEF RecursiveInv
<1>r. RootNode \in Nodes
  BY DEF Nodes, RootNode
<1> USE <1>r DEF RecursiveTypeInv
<1>a. ASSUME stack # <<>>
      PROVE  /\ Active \in Nodes
             /\ [at EXCEPT ![Active] = @ + 1] \in [Nodes -> Nat \ {0}]
  <2>1. Active \in Nodes
    BY <1>0, <1>a, Innermost
  <2>2. at[Active] + 1 \in Nat \ {0}
    BY <1>0, <2>1
  <2> QED BY <1>0, <2>1, <2>2
<1>1. CASE NestYieldValue
  BY <1>0, <1>1, <1>a DEF NestYieldValue, program_
<1>2. CASE YieldGenerator
  <2>1. Active \in Nodes /\ Step(Active) \in Nodes
    BY <1>0, <1>2, Innermost DEF YieldGenerator
  <2>2. Append(stack, Step(Active)) \in Seq(Nodes)
    BY <1>0, <2>1
  <2>3. /\ mNode' = [mNode EXCEPT ![mRoot[Active]] =
                           Step(Active),
                         ![Step(Active)] = Active]
        /\ mRoot' = [mRoot EXCEPT ![Step(Active)] =
                           mRoot[Active]]
        /\ at' = [at EXCEPT ![Active] = @ + 1]
        /\ stack' = Append(stack, Step(Active))
        /\ UNCHANGED <<program, done, mapper>>
    BY <1>2 DEF YieldGenerator, program_
  <2>4. at' \in [Nodes -> Nat \ {0}]
    BY <1>2, <1>a, <2>3 DEF YieldGenerator
  <2> QED BY <1>0, <2>1, <2>2, <2>3, <2>4
<1>3. CASE Complete
  <2>1. Active \in Nodes
    BY <1>0, <1>3, Innermost DEF Complete
  <2>2. Front(stack) \in Seq(Nodes)
    BY <1>3, Innermost DEF Complete
  <2>3. Front(stack) # <<>> => Last(Front(stack)) \in Nodes
    BY <1>0, <1>3, Innermost DEF Complete
  <2>4. mNode' \in [Nodes -> Nodes]
    BY <1>0, <1>3, <2>3 DEF Complete
  <2>5. /\ done' = [done EXCEPT ![Active] = TRUE]
        /\ stack' = Front(stack)
        /\ UNCHANGED <<program, mRoot, at, mapper>>
    BY <1>3 DEF Complete, program_
  <2> QED BY <1>0, <2>1, <2>2, <2>4, <2>5
<1>4. CASE Pull
  BY <1>0, <1>4 DEF Pull, program_, promises
<1>5. CASE PullParent
  BY <1>0, <1>5 DEF PullParent, program_
<1>6. CASE PullReturns
  BY <1>0, <1>6 DEF PullReturns, program_, promises
<1>7. CASE UNCHANGED generatorVars
  BY <1>0, <1>7 DEF generatorVars, program_, promises
<1> QED BY <1>1, <1>2, <1>3, <1>4, <1>5, <1>6, <1>7 DEF NestNext

\* What a co_yield of a generator finds, and what it leaves.
LEMMA YieldFinds ==
    ASSUME Depth \in Nat \ {0}, MaxSteps \in Nat, RecursiveInv, YieldGenerator
    PROVE  LET top == RootNode
               leaf == mNode[top]
               c == Step(leaf)
           IN  /\ leaf \in Nodes /\ Linked(leaf) /\ ~done[leaf]
               /\ mRoot[leaf] = top /\ top \in Nodes
               /\ c \in Nodes /\ c > leaf /\ c # top
               /\ ~Linked(c) /\ ~done[c]
               /\ at[leaf] \in DOMAIN program[leaf] /\ program[leaf][at[leaf]] = c
               /\ mNode' = [mNode EXCEPT ![top] = c, ![c] = leaf]
               /\ mRoot' = [mRoot EXCEPT ![c] = top]
               /\ at' = [at EXCEPT ![leaf] = @ + 1]
               /\ stack' = Append(stack, c) /\ mapper = "running"
               /\ UNCHANGED <<program, done, mapper>>
<1> DEFINE top == RootNode
           leaf == mNode[top]
           c == Step(leaf)
<1>0. RecursiveTypeInv /\ LinkInv
  BY DEF RecursiveInv
<1>1. /\ Active = leaf /\ ~done[leaf] /\ mapper = "running"
      /\ top \in Nodes /\ leaf \in Nodes
  BY <1>0, Innermost DEF YieldGenerator, RecursiveTypeInv, Nodes,
                         RootNode
<1>2. Linked(leaf) /\ mRoot[leaf] = top
  BY <1>0, <1>1 DEF LinkInv
<1>3. c \in Nodes
  BY <1>1 DEF YieldGenerator
<1>4. at[leaf] \in DOMAIN program[leaf] /\ program[leaf][at[leaf]] = c
  <2>1. at[leaf] \in Nat \ {0} /\ program[leaf] \in Seq(Nat) /\ Len(program[leaf]) \in Nat
    BY <1>0, <1>1, ProgramSteps DEF RecursiveTypeInv
  <2>2. CoReturn \notin Nodes
    BY DEF CoReturn, Nodes
  <2>3. at[leaf] <= Len(program[leaf]) /\ program[leaf][at[leaf]] = c
    BY <1>3, <2>1, <2>2 DEF Step
  <2> QED BY <2>1, <2>3
<1>5. c > leaf /\ c # top
  <2>1. c > leaf
    BY <1>0, <1>1, <1>3, <1>4, ProgramSteps DEF RecursiveTypeInv
  <2> QED BY <1>1, <1>3, <2>1 DEF Nodes, RootNode
<1> HIDE DEF c
<1>6. ~Linked(c)
  <2> SUFFICES ASSUME Linked(c) PROVE FALSE
    OBVIOUS
  <2>1. mNode[c] \in Nodes
    BY <1>0, <1>3 DEF RecursiveTypeInv
  <2>2. PICK i \in DOMAIN program[mNode[c]] :
           i < at[mNode[c]] /\ program[mNode[c]][i] = c
    BY <1>0, <1>3, <1>5 DEF LinkInv
  <2>3. mNode[c] = leaf /\ i = at[leaf]
    BY <1>0, <1>1, <1>3, <1>4, <1>5, <2>1, <2>2, OnePlace DEF RecursiveTypeInv
  <2>4. at[leaf] \in Nat
    BY <1>0, <1>1 DEF RecursiveTypeInv
  <2> QED BY <2>2, <2>3, <2>4
<1>7. ~done[c]
  BY <1>0, <1>3, <1>6 DEF LinkInv
<1>8. /\ mNode' = [mNode EXCEPT ![top] = c, ![c] = leaf]
      /\ mRoot' = [mRoot EXCEPT ![c] = top]
      /\ at' = [at EXCEPT ![leaf] = @ + 1]
      /\ stack' = Append(stack, c)
      /\ UNCHANGED <<program, done, mapper>>
  BY <1>1, <1>2 DEF YieldGenerator, program_, c
<1> QED BY <1>1, <1>2, <1>3, <1>4, <1>5, <1>6, <1>7, <1>8 DEF c

\* The chain grows by the generator that is yielded.
LEMMA YieldKeeps ==
    ASSUME Depth \in Nat \ {0}, MaxSteps \in Nat, RecursiveInv, YieldGenerator
    PROVE  LinkInv' /\ ChainInv' /\ StackInv'
<1> DEFINE top == RootNode
           leaf == mNode[top]
           c == Step(leaf)
           N_ == Nodes
           L(x) == x = top \/ mNode'[x] # x
           O(x) == L(x) /\ (~done'[x] \/ x = mNode'[top])
<1>0. RecursiveTypeInv /\ LinkInv /\ ChainInv /\ StackInv
  BY DEF RecursiveInv
<1>1. /\ leaf \in N_ /\ Linked(leaf) /\ ~done[leaf]
      /\ mRoot[leaf] = top /\ top \in N_
      /\ c \in N_ /\ c > leaf /\ c # top /\ ~Linked(c) /\ ~done[c]
      /\ at[leaf] \in DOMAIN program[leaf] /\ program[leaf][at[leaf]] = c
      /\ mNode' = [mNode EXCEPT ![top] = c, ![c] = leaf]
      /\ mRoot' = [mRoot EXCEPT ![c] = top]
      /\ at' = [at EXCEPT ![leaf] = @ + 1]
      /\ stack' = Append(stack, c) /\ mapper = "running"
      /\ UNCHANGED <<program, done, mapper>>
  BY YieldFinds
<1>2. /\ stack # <<>> /\ stack \in Seq(N_) /\ Len(stack) \in Nat \ {0}
      /\ stack[Len(stack)] = leaf
  BY Innermost DEF YieldGenerator
<1> HIDE DEF c
<1>3. N_ \subseteq Nat \ {0} /\ \A k \in N_ : k >= top
  BY DEF Nodes, RootNode
<1>4. leaf # c
  BY <1>1
<1> HIDE DEF N_, top, L, O
<1>5. /\ mNode'[top] = c /\ mNode'[c] = leaf
      /\ \A k \in N_ : k # top /\ k # c => mNode'[k] = mNode[k]
  BY <1>0, <1>1 DEF RecursiveTypeInv, N_
<1>6. \A k \in N_ : L(k) <=> Linked(k) \/ k = c
  BY <1>1, <1>4, <1>5 DEF Linked, top, L
<1>7. \A k \in N_ : O(k) <=> OnChain(k) \/ k = c
  BY <1>1, <1>5, <1>6 DEF OnChain, top, O
<1>8. LinkInv'
  <2>1. mRoot'[top] = top /\ mRoot'[c] = top
        /\ \A k \in N_ : k # c => mRoot'[k] = mRoot[k]
    BY <1>0, <1>1 DEF RecursiveTypeInv, LinkInv, N_, top
  <2>2. /\ at'[leaf] = at[leaf] + 1 /\ at[leaf] \in Nat
        /\ \A k \in N_ : at[k] \in Nat /\ at'[k] \in Nat /\ at[k] <= at'[k]
    BY <1>0, <1>1 DEF RecursiveTypeInv, N_
  <2>3. ASSUME NEW k \in N_, k # top, L(k)
        PROVE  /\ mNode'[k] < k /\ mRoot'[k] = top
               /\ \E i \in DOMAIN program'[mNode'[k]] :
                     i < at'[mNode'[k]] /\ program'[mNode'[k]][i] = k
    <3>1. CASE k = c
      <4>1. at[leaf] < at'[leaf]
        BY <2>2
      <4> QED BY <1>1, <1>3, <1>5, <2>1, <3>1, <4>1
    <3>2. CASE k # c
      <4>1. Linked(k) /\ mNode'[k] = mNode[k] /\ mRoot'[k] = mRoot[k]
        BY <1>5, <1>6, <2>1, <2>3, <3>2
      <4>2. /\ mNode[k] < k /\ mRoot[k] = top /\ mNode[k] \in N_
            /\ \E i \in DOMAIN program[mNode[k]] :
                  i < at[mNode[k]] /\ program[mNode[k]][i] = k
        BY <1>0, <2>3, <4>1 DEF LinkInv, RecursiveTypeInv, N_, top
      <4>3. PICK i \in DOMAIN program[mNode[k]] :
               i < at[mNode[k]] /\ program[mNode[k]][i] = k
        BY <4>2
      <4>4. i \in Nat
        <5>1. program[mNode[k]] \in Seq(Nat)
          BY <1>0, <4>2, ProgramSteps DEF RecursiveTypeInv, N_
        <5> QED BY <5>1
      <4>5. i < at'[mNode[k]]
        BY <2>2, <4>2, <4>3, <4>4
      <4> QED BY <1>1, <4>1, <4>2, <4>3, <4>5
    <3> QED BY <3>1, <3>2
  <2>4. \A k \in N_ : done'[k] => L(k)
    BY <1>0, <1>1, <1>6 DEF LinkInv, N_
  <2>5. L(mNode'[top])
    BY <1>1, <1>5, <1>6
  <2> QED BY <2>1, <2>3, <2>4, <2>5 DEF LinkInv, N_, top, L, Linked
<1>9. ChainInv'
  <2>1. ASSUME NEW k \in N_ \ {top}, O(k)
        PROVE  /\ L(mNode'[k]) /\ ~done'[mNode'[k]]
               /\ mNode'[k] # mNode'[top]
               /\ mNode'[k] = leaf => k = c
    <3>1. CASE k = c
      BY <1>1, <1>4, <1>5, <1>6, <3>1
    <3>2. CASE k # c
      <4>1. /\ Linked(mNode[k]) /\ ~done[mNode[k]] /\ mNode[k] # leaf
            /\ mNode[k] \in N_
        BY <1>0, <1>7, <2>1, <3>2 DEF ChainInv, RecursiveTypeInv, N_, top
      <4> QED BY <1>1, <1>5, <1>6, <2>1, <3>2, <4>1
    <3> QED BY <3>1, <3>2
  <2>2. ASSUME NEW j \in N_ \ {top}, NEW k \in N_ \ {top},
               O(j), O(k), mNode'[j] = mNode'[k]
        PROVE  j = k
    <3>1. CASE j = c \/ k = c
      BY <1>5, <2>1, <2>2, <3>1
    <3>2. CASE j # c /\ k # c
      <4>1. OnChain(j) /\ OnChain(k) /\ mNode[j] = mNode[k]
        BY <1>5, <1>7, <2>2, <3>2
      <4> QED BY <1>0, <4>1 DEF ChainInv, N_, top
    <3> QED BY <3>1, <3>2
  <2> QED BY <2>1, <2>2 DEF ChainInv, N_, top, L, O, Linked, OnChain
<1>10. StackInv'
  <2> DEFINE n == Len(stack)
  <2>1. /\ n \in Nat \ {0} /\ Len(stack') = n + 1 /\ stack'[n + 1] = c
        /\ \A i \in 1..n : stack'[i] = stack[i] /\ stack[i] \in N_
    BY <1>1, <1>2
  <2>2. /\ \A i \in 1..n : Linked(stack[i]) /\ ~done[stack[i]]
        /\ \A i, j \in 1..n : i < j => stack[i] < stack[j]
        /\ \A i \in 1..n - 1 : mNode[stack[i + 1]] = stack[i]
    BY <1>0 DEF StackInv
  <2>3. stack[n] = leaf
    BY <1>2
  <2> HIDE DEF n
  <2>4. \A i \in 1..n : stack[i] # c /\ stack[i] <= leaf
    <3>1. ASSUME NEW i \in 1..n PROVE stack[i] # c /\ stack[i] <= leaf
      <4>1. stack[i] # c
        BY <1>1, <2>2
      <4>2. CASE i = n
        BY <1>1, <1>3, <2>3, <4>1, <4>2
      <4>3. CASE i # n
        <5>1. i < n /\ n \in 1..n
          BY <2>1, <4>3
        <5>2. stack[i] < leaf
          BY <2>2, <2>3, <5>1
        <5> QED BY <1>1, <1>3, <2>1, <4>1, <5>2
      <4> QED BY <4>2, <4>3
    <3> QED BY <3>1
  <2>5. \A i \in 1..n + 1 : i = n + 1 \/ i \in 1..n
    BY <2>1
  <2>6. \A i \in 1..n + 1 : L(stack'[i]) /\ ~done'[stack'[i]]
    BY <1>1, <1>6, <2>1, <2>2, <2>5
  <2>7. ASSUME NEW i \in 1..n + 1, NEW j \in 1..n + 1, i < j
        PROVE  stack'[i] < stack'[j]
    <3>1. i \in 1..n
      BY <2>1, <2>7
    <3>2. CASE j = n + 1
      <4>1. stack[i] <= leaf /\ stack[i] \in Nat /\ leaf \in Nat /\ c \in Nat
        BY <1>1, <1>3, <2>1, <2>4, <3>1
      <4>2. stack[i] < c
        BY <1>1, <4>1
      <4> QED BY <2>1, <3>1, <3>2, <4>2
    <3>3. CASE j \in 1..n
      BY <2>1, <2>2, <2>7, <3>1, <3>3
    <3> QED BY <2>5, <3>2, <3>3
  <2>8. ASSUME NEW i \in 1..n PROVE mNode'[stack'[i + 1]] = stack'[i]
    <3>1. CASE i = n
      BY <1>5, <2>1, <2>3, <3>1
    <3>2. CASE i # n
      <4>1. i + 1 \in 1..n /\ i \in 1..n - 1 /\ i < i + 1
        BY <2>1, <3>2
      <4>2. stack[i + 1] # top
        <5>1. stack[i] < stack[i + 1] /\ stack[i] >= top
              /\ stack[i] \in Nat /\ stack[i + 1] \in Nat /\ top \in Nat
          BY <1>1, <1>3, <2>1, <2>2, <4>1
        <5> QED BY <5>1
      <4> QED BY <1>5, <2>1, <2>2, <2>4, <4>1, <4>2
    <3> QED BY <3>1, <3>2
  <2>9. stack'[Len(stack')] = mNode'[top] /\ mapper' = "running" /\ stack' # <<>>
    <3>1. Len(stack') # 0
      BY <2>1
    <3> QED BY <1>1, <1>2, <1>5, <2>1, <3>1
  <2>10. Len(stack') - 1 = n
    BY <2>1
  <2> QED BY <2>1, <2>6, <2>7, <2>8, <2>9, <2>10 DEF StackInv, top, L, Linked
<1> QED BY <1>8, <1>9, <1>10


\* The chain shrinks by the active generator when its parent is made the active
\* one, which was suspended in the co_yield of it.
LEMMA ParentActive ==
    ASSUME Depth \in Nat \ {0}, RecursiveInv,
           NEW leaf \in {mNode[RootNode]}, NEW parent \in {mNode[leaf]},
           leaf # RootNode,
           mNode' = [mNode EXCEPT ![RootNode] = parent],
           done'[leaf],
           \A k \in Nodes \ {leaf, parent} : done'[k] = done[k],
           UNCHANGED <<program, mRoot, at>>
    PROVE  /\ parent \in Nodes /\ Linked(parent) /\ ~done[parent]
           /\ mRoot[parent] = RootNode /\ parent < leaf
           /\ mNode'[RootNode] = parent
           /\ \A k \in Nodes \ {RootNode} : mNode'[k] = mNode[k]
           /\ LinkInv' /\ ChainInv'
<1> DEFINE top == RootNode
           N_ == Nodes
           L(x) == x = top \/ mNode'[x] # x
           O(x) == L(x) /\ (~done'[x] \/ x = mNode'[top])
<1>0. RecursiveTypeInv /\ LinkInv /\ ChainInv
  BY DEF RecursiveInv
<1>1. top \in N_ /\ leaf \in N_ /\ parent \in N_ /\ N_ \subseteq Nat
  BY <1>0 DEF RecursiveTypeInv, Nodes, RootNode
<1>2. OnChain(leaf) /\ Linked(leaf)
  BY <1>0 DEF LinkInv, OnChain
<1>3. Linked(parent) /\ ~done[parent] /\ parent # leaf
  BY <1>0, <1>1, <1>2 DEF ChainInv
<1>4. parent < leaf /\ mRoot[parent] = top
  BY <1>0, <1>1, <1>2, <1>3 DEF LinkInv
<1>5. /\ mNode'[top] = parent /\ \A k \in N_ \ {top} : mNode'[k] = mNode[k]
      /\ \A k \in N_ \ {leaf, parent} : done'[k] = done[k]
      /\ leaf # top /\ mNode[leaf] = parent
  BY <1>0, <1>1 DEF RecursiveTypeInv
<1> HIDE DEF N_, top, L, O
<1>6. \A k \in N_ : L(k) <=> Linked(k)
  BY <1>5 DEF L, Linked, top
<1>7. ASSUME NEW k \in N_, O(k) PROVE OnChain(k) /\ k # leaf
  <2>1. Linked(k) /\ k # leaf /\ (~done'[k] \/ k = parent)
    BY <1>3, <1>5, <1>6, <1>7 DEF O
  <2>2. ~done[k]
    BY <1>3, <1>5, <1>7, <2>1
  <2> QED BY <2>1, <2>2 DEF OnChain
<1>8. LinkInv'
  <2>1. \A k \in N_ : done'[k] => L(k)
    BY <1>0, <1>2, <1>3, <1>6 DEF LinkInv, N_
  <2>2. L(parent)
    BY <1>1, <1>3, <1>6
  <2>3. ASSUME NEW k \in N_, k # top, L(k)
        PROVE  /\ mNode'[k] < k /\ mRoot'[k] = top
               /\ \E i \in DOMAIN program'[mNode'[k]] :
                     i < at'[mNode'[k]] /\ program'[mNode'[k]][i] = k
    <3>1. Linked(k) /\ mNode'[k] = mNode[k]
      BY <1>5, <1>6, <2>3
    <3> QED BY <1>0, <2>3, <3>1 DEF LinkInv, N_, top
  <2>4. mRoot'[top] = top
    BY <1>0 DEF LinkInv, top
  <2> QED BY <1>5, <2>1, <2>2, <2>3, <2>4 DEF LinkInv, N_, top, L, Linked
<1>9. ChainInv'
  <2>1. ASSUME NEW k \in N_ \ {top}, O(k)
        PROVE  L(mNode'[k]) /\ ~done'[mNode'[k]] /\ mNode'[k] # mNode'[top]
    <3>1. OnChain(k) /\ k # leaf /\ mNode'[k] = mNode[k] /\ mNode[k] \in N_
      BY <1>0, <1>5, <1>7, <2>1 DEF RecursiveTypeInv, N_
    <3>2. Linked(mNode[k]) /\ ~done[mNode[k]] /\ mNode[k] # leaf
      BY <1>0, <3>1 DEF ChainInv, N_, top
    <3>3. mNode[k] # parent
      <4>1. leaf \in N_ \ {top} /\ k \in N_ \ {top}
        BY <1>1, <1>5, <2>1
      <4>2. mNode[k] = mNode[leaf] => k = leaf
        BY <1>0, <1>2, <3>1, <4>1 DEF ChainInv, N_, top
      <4> QED BY <1>5, <3>1, <4>2
    <3> QED BY <1>5, <1>6, <3>1, <3>2, <3>3
  <2>2. ASSUME NEW j \in N_ \ {top}, NEW k \in N_ \ {top},
               O(j), O(k), mNode'[j] = mNode'[k]
        PROVE  j = k
    <3>1. OnChain(j) /\ OnChain(k) /\ mNode[j] = mNode[k]
      BY <1>5, <1>7, <2>2
    <3> QED BY <1>0, <3>1 DEF ChainInv, N_, top
  <2> QED BY <2>1, <2>2 DEF ChainInv, N_, top, L, O, Linked, OnChain
<1> QED BY <1>1, <1>3, <1>4, <1>5, <1>8, <1>9 DEF N_, top

LEMMA CompleteKeeps ==
    ASSUME Depth \in Nat \ {0}, RecursiveInv, Complete
    PROVE  LinkInv' /\ ChainInv' /\ StackInv'
<1> DEFINE top == RootNode
           leaf == mNode[top]
           parent == mNode[leaf]
           N_ == Nodes
           outer == Front(stack)
           L(x) == x = top \/ mNode'[x] # x
<1>0. RecursiveTypeInv /\ LinkInv /\ ChainInv /\ StackInv
  BY DEF RecursiveInv
<1>1. /\ ~done[leaf] /\ mapper = "running"
      /\ stack \in Seq(N_) /\ Len(stack) \in Nat \ {0}
      /\ stack[Len(stack)] = leaf
      /\ outer \in Seq(N_) /\ Len(outer) = Len(stack) - 1
      /\ \A i \in 1..Len(outer) : outer[i] = stack[i]
      /\ outer # <<>> =>
            /\ Last(outer) = outer[Len(outer)]
            /\ Last(outer) = parent /\ leaf # top
  BY Innermost DEF Complete
<1>2. /\ done' = [done EXCEPT ![leaf] = TRUE] /\ stack' = outer
      /\ mNode' = IF outer = <<>> THEN mNode
                  ELSE [mNode EXCEPT ![mRoot[Last(outer)]] = Last(outer)]
      /\ UNCHANGED <<program, mRoot, at, mapper>>
  BY Innermost DEF Complete, program_
<1>3. top \in N_ /\ leaf \in N_ /\ N_ \subseteq Nat /\ \A k \in N_ : k >= top
  BY <1>0 DEF RecursiveTypeInv, Nodes, RootNode
<1>4. done'[leaf] /\ \A k \in N_ : k # leaf => done'[k] = done[k]
  BY <1>0, <1>2, <1>3 DEF RecursiveTypeInv
<1>5. CASE outer = <<>>
  <2>1. mNode' = mNode
    BY <1>2, <1>5
  <2>2. LinkInv'
    BY <1>0, <1>2, <1>3, <1>4, <2>1 DEF LinkInv, Linked
  <2>3. ASSUME NEW k \in N_ PROVE ~done'[k] \/ k = leaf => ~done[k] \/ k = leaf
    BY <1>4
  <2>4. ChainInv'
    <3>1. ASSUME NEW k \in N_ \ {top}, Linked(k), ~done'[k] \/ k = leaf
          PROVE  Linked(mNode[k]) /\ ~done'[mNode[k]] /\ mNode[k] # leaf
      <4>1. OnChain(k) /\ mNode[k] \in N_
        BY <1>0, <2>3, <3>1 DEF OnChain, RecursiveTypeInv
      <4> QED BY <1>0, <1>4, <3>1, <4>1 DEF ChainInv
    <3>2. ASSUME NEW j \in N_ \ {top}, NEW k \in N_ \ {top}, mNode[j] = mNode[k],
                 Linked(j), ~done'[j] \/ j = leaf, Linked(k), ~done'[k] \/ k = leaf
          PROVE  j = k
      <4>1. OnChain(j) /\ OnChain(k)
        BY <2>3, <3>2 DEF OnChain
      <4> QED BY <1>0, <3>2, <4>1 DEF ChainInv
    <3> QED BY <2>1, <3>1, <3>2 DEF ChainInv, OnChain, Linked
  <2>5. StackInv'
    <3>1. stack' = <<>> /\ mapper' = "running" /\ Len(stack') = 0
      BY <1>1, <1>2, <1>5
    <3> QED BY <3>1 DEF StackInv
  <2> QED BY <2>2, <2>4, <2>5
<1>6. CASE outer # <<>>
  <2>1. leaf # top /\ Last(outer) = parent /\ outer[Len(outer)] = parent
    BY <1>1, <1>6
  <2>2. mRoot[parent] = top
    <3>1. Linked(leaf) /\ OnChain(leaf)
      BY <1>0 DEF LinkInv, OnChain
    <3>2. Linked(parent) /\ parent \in N_
      BY <1>0, <1>3, <2>1, <3>1 DEF ChainInv, RecursiveTypeInv
    <3> QED BY <1>0, <3>2 DEF LinkInv
  <2>3. mNode' = [mNode EXCEPT ![top] = parent]
    BY <1>2, <1>6, <2>1, <2>2
  <2>4. /\ LinkInv' /\ ChainInv'
        /\ mNode'[top] = parent /\ \A k \in N_ \ {top} : mNode'[k] = mNode[k]
    BY <1>2, <1>4, <2>1, <2>3, ParentActive
  <2>5. StackInv'
    <3> DEFINE n == Len(stack)
    <3>1. /\ n \in Nat /\ Len(outer) = n - 1 /\ outer[n - 1] = parent /\ n - 1 # 0
          /\ \A i \in 1..n - 1 : outer[i] = stack[i] /\ stack[i] \in N_
      BY <1>1, <1>6, <2>1
    <3>2. /\ \A i \in 1..n : Linked(stack[i]) /\ ~done[stack[i]]
          /\ \A i, j \in 1..n : i < j => stack[i] < stack[j]
          /\ \A i \in 1..n - 1 : mNode[stack[i + 1]] = stack[i]
      BY <1>0 DEF StackInv
    <3>3. stack[n] = leaf
      BY <1>1
    <3> HIDE DEF n, outer, leaf, parent, top, N_, L
    <3>4. ASSUME NEW i \in 1..n - 1
          PROVE  L(outer[i]) /\ ~done'[outer[i]]
      <4>1. i \in 1..n /\ n \in 1..n /\ i < n
        BY <3>1
      <4>2. Linked(stack[i]) /\ ~done[stack[i]] /\ stack[i] < leaf /\ stack[i] \in N_
        BY <3>1, <3>2, <3>3, <4>1
      <4>3. stack[i] # leaf
        BY <1>3, <4>2
      <4>4. L(stack[i])
        BY <2>4, <4>2 DEF L, Linked, top
      <4> QED BY <1>4, <3>1, <4>2, <4>3, <4>4
    <3>5. \A i, j \in 1..n - 1 : i < j => outer[i] < outer[j]
      BY <3>1, <3>2
    <3>6. ASSUME NEW i \in 1..n - 1 - 1 PROVE mNode'[outer[i + 1]] = outer[i]
      <4>1. i \in 1..n - 1 /\ i + 1 \in 1..n - 1 /\ i \in 1..n /\ i + 1 \in 1..n /\ i < i + 1
        BY <3>1
      <4>2. outer[i + 1] = stack[i + 1] /\ outer[i] = stack[i] /\ stack[i] < stack[i + 1]
            /\ stack[i] \in N_ /\ stack[i + 1] \in N_
        BY <3>1, <3>2, <4>1
      <4>3. stack[i + 1] # top
        <5>1. stack[i] >= top /\ stack[i] \in Nat /\ stack[i + 1] \in Nat /\ top \in Nat
          BY <1>3, <4>2
        <5> QED BY <4>2, <5>1
      <4> QED BY <2>4, <3>2, <4>1, <4>2, <4>3
    <3>7. /\ stack' = outer /\ Len(outer) = n - 1 /\ outer # <<>> /\ mapper' = "running"
          /\ outer[Len(outer)] = mNode'[top]
      BY <1>1, <1>2, <1>6, <2>4, <3>1
    <3> QED BY <3>4, <3>5, <3>6, <3>7 DEF StackInv, L, Linked, top
  <2> QED BY <2>4, <2>5
<1> QED BY <1>5, <1>6

\* A co_yield of a value only moves the generator on.
LEMMA YieldValueKeeps ==
    ASSUME Depth \in Nat \ {0}, MaxSteps \in Nat, RecursiveInv, NestYieldValue
    PROVE  LinkInv' /\ ChainInv' /\ StackInv'
<1> DEFINE leaf == mNode[RootNode]
<1>0. RecursiveTypeInv /\ LinkInv /\ ChainInv /\ StackInv
  BY DEF RecursiveInv
<1>1. /\ at' = [at EXCEPT ![leaf] = @ + 1] /\ stack' = <<>> /\ mapper' = "running"
      /\ UNCHANGED <<program, mRoot, mNode, done>>
  BY Innermost DEF NestYieldValue, program_
<1>2. leaf \in Nodes
  BY <1>0 DEF RecursiveTypeInv, Nodes, RootNode
<1>3. \A k \in Nodes : at[k] \in Nat /\ at'[k] \in Nat /\ at[k] <= at'[k]
  BY <1>0, <1>1, <1>2 DEF RecursiveTypeInv
<1>4. LinkInv'
  <2>1. ASSUME NEW k \in Nodes, k # RootNode, Linked(k)
        PROVE  /\ mNode[k] < k /\ mRoot[k] = RootNode
               /\ \E i \in DOMAIN program[mNode[k]] :
                     i < at'[mNode[k]] /\ program[mNode[k]][i] = k
    <3>1. /\ mNode[k] < k /\ mRoot[k] = RootNode /\ mNode[k] \in Nodes
          /\ \E i \in DOMAIN program[mNode[k]] :
                i < at[mNode[k]] /\ program[mNode[k]][i] = k
      BY <1>0, <2>1 DEF LinkInv, RecursiveTypeInv
    <3>2. PICK i \in DOMAIN program[mNode[k]] :
             i < at[mNode[k]] /\ program[mNode[k]][i] = k
      BY <3>1
    <3>3. i \in Nat
      <4>1. program[mNode[k]] \in Seq(Nat)
        BY <1>0, <3>1, ProgramSteps DEF RecursiveTypeInv
      <4> QED BY <4>1
    <3>4. i < at'[mNode[k]]
      BY <1>3, <3>1, <3>2, <3>3
    <3> QED BY <3>1, <3>2, <3>4
  <2> QED BY <1>0, <1>1, <2>1 DEF LinkInv, Linked
<1>5. ChainInv'
  BY <1>0, <1>1 DEF ChainInv, OnChain, Linked
<1>6. StackInv'
  <2>1. Len(stack') = 0
    BY <1>1
  <2> QED BY <1>1, <2>1 DEF StackInv
<1> QED BY <1>4, <1>5, <1>6

\* pull() resumes one that is not done, and that nothing is inside.
LEMMA PullKeeps ==
    ASSUME RecursiveInv, Pull
    PROVE  LinkInv' /\ ChainInv' /\ StackInv'
<1>0. RecursiveTypeInv /\ LinkInv /\ ChainInv /\ StackInv
  BY DEF RecursiveInv
<1>1. /\ stack = <<>> /\ mapper \in {"initial", "yielded"}
      /\ stack' = <<mNode[RootNode]>> /\ mapper' = "running"
      /\ UNCHANGED <<program, mRoot, mNode, done, at>>
  BY DEF Pull, program_, promises
<1>2. LinkInv' /\ ChainInv'
  BY <1>0, <1>1 DEF LinkInv, ChainInv, OnChain, Linked
<1>3. Linked(mNode[RootNode]) /\ ~done[mNode[RootNode]]
  BY <1>0, <1>1 DEF LinkInv, StackInv
<1>4. Len(stack') = 1 /\ stack'[1] = mNode[RootNode]
  BY <1>1
<1>5. StackInv'
  BY <1>1, <1>3, <1>4 DEF StackInv, Linked
<1> QED BY <1>2, <1>5

\* The parent that pull() resumes, or in which it throws, is suspended.
LEMMA PullParentKeeps ==
    ASSUME Depth \in Nat \ {0}, RecursiveInv, PullParent
    PROVE  LinkInv' /\ ChainInv' /\ StackInv'
<1> DEFINE top == RootNode
           leaf == mNode[top]
           parent == mNode[leaf]
           throws == mNodeException[leaf] /\ parent \notin catches
<1>0. RecursiveTypeInv /\ LinkInv /\ ChainInv
  BY DEF RecursiveInv
<1>1. /\ mapper = "running" /\ leaf # top /\ done[leaf]
      /\ mNode' = [mNode EXCEPT ![top] = parent]
      /\ stack' = IF throws THEN <<>> ELSE <<parent>>
      /\ done' = [done EXCEPT ![parent] = throws]
      /\ UNCHANGED <<program, mRoot, at, mapper>>
  BY DEF PullParent, program_
<1>2. top \in Nodes /\ leaf \in Nodes /\ parent \in Nodes
  BY <1>0 DEF RecursiveTypeInv, Nodes, RootNode
<1>3. parent # leaf
  <2>1. OnChain(leaf)
    BY <1>0 DEF LinkInv, OnChain
  <2> QED BY <1>0, <1>1, <1>2, <2>1 DEF ChainInv
<1> HIDE DEF throws
<1>4. /\ done'[leaf] /\ done'[parent] = throws
      /\ \A k \in Nodes \ {leaf, parent} : done'[k] = done[k]
  BY <1>0, <1>1, <1>2, <1>3 DEF RecursiveTypeInv
<1>5. /\ LinkInv' /\ ChainInv' /\ Linked(parent) /\ mNode'[top] = parent
      /\ \A k \in Nodes \ {top} : mNode'[k] = mNode[k]
  BY <1>1, <1>4, ParentActive
<1>6. parent = top \/ mNode'[parent] # parent
  BY <1>2, <1>5 DEF Linked
<1>7. StackInv'
  <2>1. CASE throws
    <3>1. stack' = <<>> /\ Len(stack') = 0 /\ mapper' = "running"
      BY <1>1, <2>1
    <3> QED BY <3>1 DEF StackInv
  <2>2. CASE ~throws
    <3>1. stack' = <<parent>> /\ mapper' = "running"
      BY <1>1, <2>2
    <3>2. stack' # <<>> /\ Len(stack') = 1 /\ stack'[1] = parent
      BY <3>1
    <3> HIDE DEF parent, leaf, top
    <3>3. ~done'[parent]
      BY <1>4, <2>2
    <3>4. /\ \A i \in 1..Len(stack') : i = 1
          /\ \A i \in 1..Len(stack') - 1 : FALSE
      BY <3>2
    <3> QED BY <1>5, <1>6, <3>1, <3>2, <3>3, <3>4 DEF StackInv, Linked, top
  <2> QED BY <2>1, <2>2
<1> QED BY <1>5, <1>7

\* When pull() returns the active one can go on, or the root is done.
LEMMA PullReturnsKeeps ==
    ASSUME RecursiveInv, PullReturns
    PROVE  LinkInv' /\ ChainInv' /\ StackInv'
<1>0. LinkInv /\ ChainInv
  BY DEF RecursiveInv
<1>1. /\ stack' = <<>>
      /\ mNode[RootNode] = RootNode \/ ~done[mNode[RootNode]]
      /\ IF done[RootNode] THEN mapper' \in {"threw", "ended"}
         ELSE mapper' = "yielded"
      /\ UNCHANGED <<program, mRoot, mNode, done, at>>
  BY DEF PullReturns, program_, promises
<1>2. LinkInv' /\ ChainInv'
  BY <1>0, <1>1 DEF LinkInv, ChainInv, OnChain, Linked
<1>3. Len(stack') = 0
  BY <1>1
<1>4. StackInv'
  BY <1>1, <1>3 DEF StackInv
<1> QED BY <1>2, <1>4

LEMMA StepRecursiveInv ==
    ASSUME Depth \in Nat \ {0}, MaxSteps \in Nat, RecursiveInv,
           [NestNext]_generatorVars
    PROVE  RecursiveInv'
<1>1. RecursiveTypeInv'
  BY StepRecursiveType
<1>2. LinkInv' /\ ChainInv' /\ StackInv'
  <2>1. CASE NestYieldValue
    BY <2>1, YieldValueKeeps
  <2>2. CASE YieldGenerator
    BY <2>2, YieldKeeps
  <2>3. CASE Complete
    BY <2>3, CompleteKeeps
  <2>4. CASE Pull
    BY <2>4, PullKeeps
  <2>5. CASE PullParent
    BY <2>5, PullParentKeeps
  <2>6. CASE PullReturns
    BY <2>6, PullReturnsKeeps
  <2>7. CASE UNCHANGED generatorVars
    <3>1. UNCHANGED <<program, mRoot, mNode, done, at, stack, mapper>>
      BY <2>7 DEF generatorVars, program_, promises
    <3> QED BY <3>1 DEF RecursiveInv, LinkInv, ChainInv, StackInv, OnChain, Linked
  <2> QED BY <2>1, <2>2, <2>3, <2>4, <2>5, <2>6, <2>7 DEF NestNext
<1> QED BY <1>1, <1>2 DEF RecursiveInv

LEMMA RecursiveInvResumes ==
    ASSUME Depth \in Nat \ {0}, RecursiveInv
    PROVE  ResumesSuspended
<1> DEFINE leaf == mNode[RootNode]
<1>0. RecursiveTypeInv /\ LinkInv /\ ChainInv /\ StackInv
  BY DEF RecursiveInv
<1>1. /\ stack \in Seq(Nodes) /\ Len(stack) \in Nat
      /\ DOMAIN stack = 1..Len(stack)
      /\ \A i \in DOMAIN stack : stack[i] \in Nat
  <2>1. stack \in Seq(Nodes) /\ Nodes \subseteq Nat
    BY <1>0 DEF RecursiveTypeInv, Nodes
  <2>2. DOMAIN stack = 1..Len(stack) /\ Len(stack) \in Nat
    BY <2>1
  <2>3. \A i \in 1..Len(stack) : stack[i] \in Nodes
    BY <2>1
  <2> QED BY <2>1, <2>2, <2>3
<1>2. \A i \in DOMAIN stack : ~done[stack[i]]
  BY <1>0, <1>1 DEF StackInv
<1>3. IsInjective(stack)
  <2>1. ASSUME NEW i \in DOMAIN stack, NEW j \in DOMAIN stack, stack[i] = stack[j]
        PROVE  i = j
    <3>1. i \in Nat /\ j \in Nat
      BY <1>1
    <3>2. ~(i < j) /\ ~(j < i)
      BY <1>0, <1>1, <2>1 DEF StackInv
    <3> QED BY <3>1, <3>2
  <2> QED BY <2>1 DEF IsInjective
<1>4. stack # <<>> => Active = leaf
  BY Innermost
<1>5. stack = <<>> /\ mapper \in {"initial", "yielded"} => ~done[leaf]
  BY <1>0 DEF StackInv
<1>6. leaf # RootNode => ~done[mNode[leaf]]
  <2>1. leaf \in Nodes
    BY <1>0 DEF RecursiveTypeInv, Nodes, RootNode
  <2>2. OnChain(leaf)
    BY <1>0 DEF LinkInv, OnChain
  <2> QED BY <1>0, <2>1, <2>2 DEF ChainInv
<1> QED BY <1>2, <1>3, <1>4, <1>5, <1>6 DEF ResumesSuspended

\* However deep the generators are nested and whatever they do, no coroutine is
\* resumed that is running or done, by a nested call or by a step of the
\* iterator.
THEOREM ResumeSafety ==
    ASSUME Depth \in Nat \ {0}, MaxSteps \in Nat
    PROVE  NestSpec => []ResumesSuspended
<1>1. NestInit => RecursiveInv
  BY InitRecursiveInv
<1>2. RecursiveInv /\ [NestNext]_generatorVars => RecursiveInv'
  BY StepRecursiveInv
<1>3. RecursiveInv => ResumesSuspended
  BY RecursiveInvResumes
<1> QED BY <1>1, <1>2, <1>3, PTL DEF NestSpec

=============================================================================
