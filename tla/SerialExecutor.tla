--------------------------- MODULE SerialExecutor ---------------------------
(***************************************************************************)
(* What an execution thread promises to the code that hands it commands    *)
(* (and, through UVExecutor, to Swift's actors): commands are taken one at *)
(* a time, in the order the queue accepted them and each at most once; an  *)
(* accepted command is taken sooner or later, unless the thread has been   *)
(* cancelled and halts.  How the thread is woken is not visible here.      *)
(***************************************************************************)
EXTENDS Naturals, Sequences

CONSTANTS Commands, NoCommand

VARIABLES accepted,    \* the commands in the order the queue accepted them
          taken,       \* how many of them were taken for execution
          current,     \* the command in execution, or NoCommand
          cancelled,   \* somebody asked the thread to end
          halted       \* the thread takes no further command

vars == <<accepted, taken, current, cancelled, halted>>

Init == /\ accepted = <<>>
        /\ taken = 0
        /\ current = NoCommand
        /\ cancelled = FALSE
        /\ halted = FALSE

Accept(c) == /\ accepted' = Append(accepted, c)
             /\ UNCHANGED <<taken, current, cancelled, halted>>

Take == /\ ~halted
        /\ current = NoCommand
        /\ taken < Len(accepted)
        /\ current' = accepted[taken + 1]
        /\ taken' = taken + 1
        /\ UNCHANGED <<accepted, cancelled, halted>>

Finish == /\ current # NoCommand
          /\ current' = NoCommand
          /\ UNCHANGED <<accepted, taken, cancelled, halted>>

Cancel == /\ cancelled' = TRUE
          /\ UNCHANGED <<accepted, taken, current, halted>>

(* A halt needs a cancellation.  It may strike in the middle of a command. *)
Halt == /\ cancelled
        /\ halted' = TRUE
        /\ UNCHANGED <<accepted, taken, current, cancelled>>

Next == \/ \E c \in Commands : Accept(c)
        \/ Take \/ Finish \/ Cancel \/ Halt

SafetySpec == Init /\ [][Next]_vars

Fairness == /\ WF_vars(Take)
            /\ WF_vars(~halted /\ Finish)

Spec == SafetySpec /\ Fairness
=============================================================================
