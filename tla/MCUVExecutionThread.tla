------------------------ MODULE MCUVExecutionThread ------------------------
(* Instances of UVExecutionThread for TLC.  The names of the commands tell *)
(* their kind; each is added at most once, which bounds the behaviour.     *)
EXTENDS UVExecutionThread, TLC

CONSTANTS loop, owner, user, controller, task1, task2, timer1, stop1, stop2

MCKind == [c \in Commands |-> IF c \in {stop1, stop2} THEN "stop"
                              ELSE IF c = timer1 THEN "timer" ELSE "task"]
=============================================================================
