------------------------------ MODULE Generators ------------------------------
(***************************************************************************)
(* coro::recursive_generator and coro::generator.  A recursive_generator   *)
(* yields values and other recursive_generators, whose values then count   *)
(* as its own: the promise of the root keeps a pointer to the one that is  *)
(* active, each other one to its parent, and a step of the iterator of the *)
(* root resumes the active one itself.  A generator made by fmap() iterates*)
(* over the root, and the consumer over that; func is not modelled.        *)
(*                                                                         *)
(* What a generator does is a sequence of values, nested generators and    *)
(* "throw"; it ends after the last, or catches what a nested one throws    *)
(* and goes on, or does not.                                               *)
(***************************************************************************)
EXTENDS Naturals, SequencesExt

CONSTANTS
    Depth,      \* the generators are 1..Depth, and 1 is the root
    MaxSteps    \* bound: steps of a generator

Nodes == 1..Depth
RootNode == 1
Value == 0      \* steps: a value, a nested generator by its number, a throw
Throw == Depth + 1

CoReturn == Depth + 2

\* A throw is the last step.  Every generator that does something is nested in
\* one with a smaller number, and in one place.
Programs ==
    LET steps(n) == UNION {[1..l -> {Value, Throw} \cup (n + 1)..Depth] : l \in 0..MaxSteps}
        last(q) == \A i \in DOMAIN q : q[i] = Throw => i = Len(q)
        at(p, k) == {x \in Nodes \X (1..MaxSteps) :
                        x[2] \in DOMAIN p[x[1]] /\ p[x[1]][x[2]] = k}
    IN  {p \in [Nodes -> UNION {{q \in steps(n) : last(q)} : n \in Nodes}] :
            /\ \A n \in Nodes : p[n] \in steps(n)
            /\ \A k \in Nodes \ {RootNode} :
                  /\ \A x, y \in at(p, k) : x = y
                  /\ p[k] # <<>> => at(p, k) # {}}

VARIABLES
    program, catches,    \* what the generators do
    mRoot, mNode, mValue, mNodeException,    \* their promises
    done, at,            \* their coroutines: done(), and the step they are at
    stack,               \* the resume() calls under way, innermost last
    mapper,              \* the generator made by fmap()
    output               \* the values the consumer has got

program_ == <<program, catches>>
promises == <<mRoot, mNode, mValue, mNodeException>>
generatorVars == <<program_, promises, done, at, stack, mapper, output>>

NestInitFor(p, c) ==
    /\ program = p /\ catches = c
    /\ mRoot = [n \in Nodes |-> n] /\ mNode = [n \in Nodes |-> n]
    /\ mValue = [n \in Nodes |-> <<>>]
    /\ mNodeException = [n \in Nodes |-> FALSE]
    /\ done = [n \in Nodes |-> FALSE] /\ at = [n \in Nodes |-> 1]
    /\ stack = <<>> /\ mapper = "initial" /\ output = <<>>

NestInit == \E p \in Programs, c \in SUBSET Nodes : NestInitFor(p, c)

Active == Last(stack)
Step(n) == IF at[n] > Len(program[n]) THEN CoReturn ELSE program[n][at[n]]

-----------------------------------------------------------------------------
(* A coroutine that has been resumed runs                                  *)

\* co_yield of a value suspends it, and all that are inside a yield_value().
NestYieldValue ==
    /\ stack # <<>> /\ Step(Active) = Value
    /\ mValue' = [mValue EXCEPT ![Active] = <<Active, at[Active]>>]
    /\ at' = [at EXCEPT ![Active] = @ + 1]
    /\ stack' = <<>>
    /\ UNCHANGED <<program_, mRoot, mNode, mNodeException, done, mapper, output>>

\* co_yield of a generator links its promise and resumes it in the same call.
YieldGenerator ==
    /\ stack # <<>> /\ Step(Active) \in Nodes
    /\ mNode' = [mNode EXCEPT ![mRoot[Active]] = Step(Active), ![Step(Active)] = Active]
    /\ mRoot' = [mRoot EXCEPT ![Step(Active)] = mRoot[Active]]
    /\ at' = [at EXCEPT ![Active] = @ + 1]
    /\ stack' = Append(stack, Step(Active))
    /\ UNCHANGED <<program_, mValue, mNodeException, done, mapper, output>>

\* Mutant: the parent is not made the active one again.
Complete_Keep ==
    /\ stack # <<>> /\ Step(Active) \in {CoReturn, Throw}
    /\ done' = [done EXCEPT ![Active] = TRUE]
    /\ mNodeException' = [mNodeException EXCEPT ![Active] = Step(Active) = Throw]
    /\ stack' = Front(stack)
    /\ UNCHANGED <<program_, mRoot, mNode, mValue, at, mapper, output>>

\* It ends or throws.  Inside the yield_value() of its parent, the parent is
\* made the active one again and goes on; the awaitable has no promise then.
Complete ==
    LET outer == Front(stack)
    IN  /\ stack # <<>> /\ Step(Active) \in {CoReturn, Throw}
        /\ done' = [done EXCEPT ![Active] = TRUE]
        /\ mNodeException' = [mNodeException EXCEPT ![Active] = Step(Active) = Throw]
        /\ stack' = outer
        /\ mNode' = IF outer = <<>> THEN mNode
                    ELSE [mNode EXCEPT ![mRoot[Last(outer)]] = Last(outer)]
        /\ UNCHANGED <<program_, mRoot, mValue, at, mapper, output>>

-----------------------------------------------------------------------------
(* pull() of the root, and the generator that iterates over it             *)

\* begin() or ++ of the generator resumes it, and it calls begin() or ++.
Pull ==
    /\ stack = <<>> /\ mapper \in {"initial", "yielded"}
    /\ stack' = <<mNode[RootNode]>>
    /\ mapper' = "running"
    /\ UNCHANGED <<program_, promises, done, at, output>>

\* pull() goes on while the active one is complete: its parent is resumed,
\* which throws what it has thrown.
PullParent ==
    LET leaf == mNode[RootNode]
        parent == mNode[leaf]
        throws == mNodeException[leaf] /\ parent \notin catches
    IN  /\ stack = <<>> /\ mapper = "running"
        /\ leaf # RootNode /\ done[leaf]
        /\ mNode' = [mNode EXCEPT ![RootNode] = parent]
        /\ stack' = IF throws THEN <<>> ELSE <<parent>>
        /\ done' = [done EXCEPT ![parent] = throws]
        /\ mNodeException' = [mNodeException EXCEPT ![parent] = throws]
        /\ UNCHANGED <<program_, mRoot, mValue, at, mapper, output>>

\* Otherwise it returns; the iterator throws if the root has thrown, and so
\* does that of the generator.
PullReturns ==
    /\ stack = <<>> /\ mapper = "running"
    /\ mNode[RootNode] = RootNode \/ ~done[mNode[RootNode]]
    /\ IF done[RootNode]
       THEN /\ mapper' = IF mNodeException[RootNode] THEN "threw" ELSE "ended"
            /\ UNCHANGED output
       ELSE /\ mapper' = "yielded"
            /\ output' = Append(output, mValue[mNode[RootNode]])
    /\ UNCHANGED <<program_, promises, done, at, stack>>

NestNext ==
    NestYieldValue \/ YieldGenerator \/ Complete \/ Pull \/ PullParent \/ PullReturns

NestSpec == NestInit /\ [][NestNext]_generatorVars

-----------------------------------------------------------------------------

\* What the generators yield, depth first, and whether the root throws.  What
\* a nested one throws reaches its parent; if not `always', only when it has
\* yielded a value before.
Expected(always) ==
    LET ran[n \in Nodes] ==
            FoldLeftDomain(LAMBDA acc, i :
                LET s == program[n][i]
                IN  IF acc.threw THEN acc
                    ELSE IF s = Value THEN [acc EXCEPT !.out = Append(@, <<n, i>>)]
                    ELSE IF s = Throw THEN [acc EXCEPT !.threw = TRUE]
                    ELSE [out |-> acc.out \o ran[s].out,
                          threw |-> /\ ran[s].threw /\ n \notin catches
                                    /\ always \/ ran[s].out # <<>>],
                [out |-> <<>>, threw |-> FALSE], program[n])
    IN  ran[RootNode]

Yields(e) ==
    /\ IsPrefix(output, e.out)
    /\ mapper = "ended" => output = e.out /\ ~e.threw
    /\ mapper = "threw" => output = e.out /\ e.threw

\* The consumer gets the values of all the generators, depth first, each
\* once, and what is thrown past the root after them.  An exception of a
\* nested generator that has not yielded anything yet is dropped: its parent
\* runs in the call that resumed it and has nothing to ask for it.
DepthFirst == Yields(Expected(FALSE))

\* A coroutine is never resumed that is running or done, by whatever mixture of
\* nested calls and steps of the iterator the generators are reached: those
\* inside resume() are different and not done, the root's pointer leads to the
\* innermost of them, and otherwise to one that can go on unless pull() is about
\* to look at it; whose parent can go on in either case.
ResumesSuspended ==
    LET leaf == mNode[RootNode]
    IN  /\ IsInjective(stack)
        /\ \A i \in DOMAIN stack : ~done[stack[i]]
        /\ stack # <<>> => Active = leaf
        /\ stack = <<>> /\ mapper \in {"initial", "yielded"} => ~done[leaf]
        /\ leaf # RootNode => ~done[mNode[leaf]]

\* FALSE of the code: "exception thrown from recursive call can be caught by
\* caller", whenever it is thrown.
ExceptionsReachCaller == Yields(Expected(TRUE))

=============================================================================
