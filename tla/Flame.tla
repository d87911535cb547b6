------------------------------- MODULE Flame -------------------------------
(***************************************************************************)
(* How the profiler folds the register trace of one frame into functions   *)
(* and call stacks (profile.rs `profile_frame`).  The VM runs one          *)
(* instruction at a time; the profiler sees only its address and opcode    *)
(* and keeps a stack of its own beside the VM's.                           *)
(***************************************************************************)
EXTENDS Naturals, Sequences, SequencesExt, FiniteSets, FiniteSetsExt

CONSTANTS
    Functions,    \* the functions of the program, by their first pc
    EntryPoint,   \* the one that runs first
    MaxInsns,     \* longest trace
    MaxCalls      \* the VM's deepest call stack

ASSUME FlameAssumption ==
    /\ IsFiniteSet(Functions) /\ EntryPoint \in Functions
    /\ MaxInsns \in Nat /\ MaxCalls \in Nat \ {0}

VARIABLES
    calls,     \* the VM's call stack; empty once the entrypoint returned
    folding,   \* the profiler's own stack
    self,      \* instructions counted per function
    total,     \* with everything it called
    folded,    \* instructions counted per folded stack
    under,     \* ghost: instructions with the function on the VM's stack
    truth,     \* ghost: instructions per VM call stack
    odd        \* ghost: a register call re-entered, or the program recursed

flVars == <<calls, folding, self, total, folded, under, truth, odd>>

Zero == [f \in Functions |-> 0]
Here == Last(calls)
Executed == FoldSet(LAMBDA f, n : n + self[f], 0, Functions)

FlameInit ==
    /\ calls = <<EntryPoint>> /\ folding = <<EntryPoint>>
    /\ self = Zero /\ total = Zero /\ under = Zero
    /\ folded = [st \in {} |-> 0] /\ truth = [st \in {} |-> 0] /\ odd = FALSE

\* mutant: the stack is trusted, and a register call goes unseen
Trusted(stack, here) == stack

\* "Keep the stack honest": the function around the current pc is the innermost one.
Honest(stack, here) ==
    LET at == Max({0} \cup {h \in DOMAIN stack : stack[h] = here})
    IN  IF stack # <<>> /\ Last(stack) = here THEN stack
        ELSE IF at # 0 THEN SubSeq(stack, 1, at) ELSE Append(stack, here)

Times(f, stack) == Cardinality({h \in DOMAIN stack : stack[h] = f})

Tally(bag, key) ==
    [k \in DOMAIN bag \cup {key} |-> (IF k \in DOMAIN bag THEN bag[k] ELSE 0)
                                     + (IF k = key THEN 1 ELSE 0)]

\* The profiler's stack, made honest before an instruction is counted.
Stack == Honest(folding, Here)

\* Count the instruction about to run, and leave the two stacks as given.
Count(real, kept) ==
    LET stack == Stack
    IN  /\ Executed < MaxInsns
        /\ self' = [self EXCEPT ![Here] = @ + 1]
        /\ total' = [f \in Functions |-> total[f] + Times(f, stack)]
        /\ folded' = Tally(folded, stack)
        /\ under' = [f \in Functions |-> under[f] + (IF f \in Range(calls) THEN 1 ELSE 0)]
        /\ truth' = Tally(truth, calls)
        /\ calls' = real
        /\ folding' = kept

Plain == calls # <<>> /\ Count(calls, Stack) /\ UNCHANGED odd

\* An immediate call: the target is known and pushed at once.
CallImm(g) ==
    /\ Len(calls) \in 1..MaxCalls - 1
    /\ Count(Append(calls, g), Append(Stack, g))
    /\ odd' = (odd \/ g \in Range(calls))

\* A register call: the profiler learns the target from the next pc.
CallReg(g) ==
    /\ Len(calls) \in 1..MaxCalls - 1
    /\ Count(Append(calls, g), Stack)
    /\ odd' = (odd \/ g \in Range(calls))

Exit == calls # <<>> /\ Count(Front(calls), Front(Stack)) /\ UNCHANGED odd

FlameNext ==
    \/ Plain
    \/ \E g \in Functions : CallImm(g)
    \/ \E g \in Functions : CallReg(g)
    \/ Exit

\* Every instruction is counted once, under the stack it ran on, and once for
\* every function open at the time -- unless the program recurses, where a
\* function open twice is counted twice.
FoldedTrue ==
    /\ FoldSet(LAMBDA st, n : n + folded[st], 0, DOMAIN folded) = Executed
    /\ ~odd => total = under /\ folded = truth
=============================================================================
