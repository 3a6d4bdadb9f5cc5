---------------------------- MODULE UVSpawnStdio ----------------------------
(***************************************************************************)
(* The descriptors of a child process (unix/process.c): how uv_spawn puts  *)
(* the files it was asked for in the places 0 to Count - 1 of the child.   *)
(* On macOS it makes a list of file actions for posix_spawn; elsewhere,    *)
(* and where posix_spawn lacks a function, the forked child moves its      *)
(* descriptors itself and reports an error through a pipe.  A file is      *)
(* named by the descriptor it has in the parent.  One turn of a loop is    *)
(* one step, since the child has one thread.                               *)
(***************************************************************************)
EXTENDS Integers, FiniteSets

CONSTANTS Count,  \* stdio_count
          LastFd    \* the largest descriptor of the parent; there are enough
                  \* beyond it

ConstantsOK == Count \in Nat /\ Count >= 3 /\ LastFd \in Nat

VARIABLES
  way,      \* "fork" or "posix_spawn"
  asked,    \* pipes[fd][1] of the parent, -1 with UV_IGNORE
  pipes,    \* pipes[fd][1] as it is changed
  table,    \* the files of the descriptors, Closed where there is none
  cloexec,  \* those that exec closes
  errorFd,  \* signal_pipe[1], -1 without one
  fd,       \* the loops' variable
  at,       \* "parent"; "dup", "move", "close", "exec"; "running", "failed"
  heard     \* what a failure was written to

vars == <<way, asked, pipes, table, cloexec, errorFd, fd, at, heard>>

Places == 0..Count - 1
Fds == 0..LastFd + Count + 3

(* Files: the numbers, and these.                                          *)
Closed == -1
DevNull == -2
ErrorPipe == -3
OtherEnd == -4

Lowest(S) == CHOOSE d \in S : \A e \in S : d <= e
Free(t) == {d \in Fds : t[d] = Closed}

Init == /\ way = "fork" /\ at = "parent"
        /\ asked = [p \in Places |-> -1] /\ pipes = asked
        /\ table = [d \in Fds |-> Closed] /\ cloexec = {}
        /\ errorFd = -1 /\ fd = 0 /\ heard = Closed

(* The parent has the descriptors it hands on, and perhaps 0, 1 and 2.     *)
(* What it has may close at exec or not, and inherit files of its own that *)
(* do not, if the child is forked.  The error pipe comes last.             *)
Spawn(w, wanted, more, closeAll) ==
  LET open == ({wanted[p] : p \in Places} \ {-1}) \cup more
      files == [d \in Fds |-> IF d \in open THEN d ELSE Closed]
      r == Lowest(Free(files))
      e == Lowest(Free(files) \ {r})
  IN /\ way' = w /\ asked' = wanted /\ pipes' = wanted
     /\ IF w = "fork"
        THEN /\ table' = [files EXCEPT ![r] = OtherEnd, ![e] = ErrorPipe]
             /\ errorFd' = e
             /\ cloexec' = {r, e} \cup IF closeAll THEN open ELSE {}
        ELSE table' = files /\ errorFd' = -1 /\ cloexec' = Fds
     /\ fd' = 0 /\ at' = "dup"
     /\ UNCHANGED heard

-----------------------------------------------------------------------------
(* Both ways.                                                              *)

Turn(last, next) ==
  IF fd = last THEN fd' = 0 /\ at' = next ELSE fd' = fd + 1 /\ UNCHANGED at

(* dup2, which exec does not close.                                        *)
Put(file, d) == /\ table' = [table EXCEPT ![d] = file]
                /\ cloexec' = cloexec \ {d}

Low(p) == pipes[p] >= 0 /\ pipes[p] < p

(* The search of a descriptor for the copy of a low one, from u on and     *)
(* from fd2 on: a fork leaves it to the kernel.  After a match the loop    *)
(* goes on behind the first place, because fd2 is reset and then counted   *)
(* up.                                                                     *)
Slot[u \in Fds, fd2 \in 0..Count] ==
  IF fd2 = Count THEN u
  ELSE IF pipes[fd2] = u THEN Slot[u + 1, 1]
  ELSE Slot[u, fd2 + 1]

(* Variant of DupLow: the first three places are thought to be safe.    *)
DupBelow ==
  /\ at = "dup"
  /\ IF ~(Low(fd) /\ fd >= 3) THEN UNCHANGED <<pipes, table, cloexec>>
     ELSE LET new == Lowest({d \in Free(table) : d >= Count})
          IN /\ pipes' = [pipes EXCEPT ![fd] = new]
             /\ table' = [table EXCEPT ![new] = table[pipes[fd]]]
             /\ cloexec' = cloexec \ {new}
  /\ Turn(Count - 1, "move")
  /\ UNCHANGED <<way, asked, errorFd, heard>>

(* Low descriptors are copied, lest they are replaced before their turn.   *)
DupLow ==
  /\ at = "dup"
  /\ IF ~Low(fd) THEN UNCHANGED <<pipes, table, cloexec>>
     ELSE LET new == IF way = "fork"
                     THEN Lowest({d \in Free(table) : d >= Count})
                     ELSE Slot[Count, 0]
          IN /\ pipes' = [pipes EXCEPT ![fd] = new]
             /\ table' = [table EXCEPT ![new] = table[pipes[fd]]]
             /\ cloexec' = IF way = "fork" THEN cloexec \cup {new}
                           ELSE cloexec \ {new}
  /\ Turn(Count - 1, "move")
  /\ UNCHANGED <<way, asked, errorFd, heard>>

(* /dev/null for the first three places that are ignored: in the fork,     *)
(* open takes the lowest descriptor that is free, and that is the one      *)
(* wanted.                                                                 *)
Null == /\ pipes[fd] < 0
        /\ IF fd >= 3 THEN UNCHANGED <<table, cloexec>>
           ELSE IF way = "posix_spawn" THEN Put(DevNull, fd)
           ELSE LET freed == [table EXCEPT ![fd] = Closed]
                    d == Lowest(Free(freed))
                IN /\ table' = [freed EXCEPT ![fd] = DevNull,
                                  ![d] = IF d < Count THEN DevNull ELSE Closed]
                   /\ cloexec' = cloexec \ {fd, d}

(* A descriptor that is in its place is inherited, another put there.      *)
Move == /\ pipes[fd] >= 0
        /\ Put(table[pipes[fd]], fd)

MoveAll == /\ at = "move"
           /\ Null \/ Move
           /\ Turn(Count - 1, IF way = "fork" THEN "exec" ELSE "close")
           /\ UNCHANGED <<way, asked, pipes, errorFd, heard>>

(* posix_spawn: the descriptors that were copied from are closed.          *)
CloseRest ==
  /\ at = "close"
  /\ IF pipes[fd] >= Count
     THEN /\ table' = [table EXCEPT ![pipes[fd]] = Closed]
          /\ cloexec' = cloexec \ {pipes[fd]}
     ELSE UNCHANGED <<table, cloexec>>
  /\ Turn(Count - 1, "exec")
  /\ UNCHANGED <<way, asked, pipes, errorFd, heard>>

(* exec succeeds, or the forked child writes the error.                    *)
Exec == /\ at = "exec"
        /\ table' = [d \in Fds |-> IF d \in cloexec THEN Closed ELSE table[d]]
        /\ cloexec' = {}
        /\ at' = "running"
        /\ UNCHANGED <<way, asked, pipes, errorFd, fd, heard>>

ExecFails == /\ at = "exec" /\ way = "fork"
             /\ heard' = table[errorFd]
             /\ at' = "failed"
             /\ UNCHANGED <<way, asked, pipes, table, cloexec, errorFd, fd>>

-----------------------------------------------------------------------------
SpawnAny == /\ at = "parent"
            /\ \E w \in {"fork", "posix_spawn"},
                  wanted \in [Places -> -1..LastFd],
                  more \in {{}, {0, 1, 2}}, closeAll \in BOOLEAN :
                    Spawn(w, wanted, more, closeAll)

Next == \/ SpawnAny
        \/ DupLow \/ MoveAll \/ CloseRest \/ Exec \/ ExecFails

Spec == Init /\ [][Next]_vars

-----------------------------------------------------------------------------
(* Properties.                                                             *)

TypeOK == /\ way \in {"fork", "posix_spawn"}
          /\ asked \in [Places -> -1..LastFd] /\ pipes \in [Places -> Fds \cup {-1}]
          /\ table \in [Fds -> Fds \cup {Closed, DevNull, ErrorPipe, OtherEnd}]
          /\ cloexec \subseteq Fds
          /\ errorFd \in Fds \cup {-1} /\ fd \in Places
          /\ at \in {"parent", "dup", "move", "close", "exec", "running",
                     "failed"}
          /\ heard \in Fds \cup {Closed, DevNull, ErrorPipe, OtherEnd}

(* The search of posix_spawn gave a copy the number of the file for place  *)
(* 0, which it no longer looked at.                                        *)
Reused == \E p \in Places \ {0} : pipes[p] = pipes[0] /\ asked[p] # asked[0]

(* The child has each file in its place, although places are named by the  *)
(* numbers of each other's files, and the first three are never empty.     *)
(* The exception is the file of place 0 when its number was used again.    *)
PlacesFilled ==
  at = "running" =>
    \A p \in Places :
      CASE asked[p] >= 0 -> table[p] = asked[p] \/ (p = 0 /\ Reused)
        [] asked[p] < 0 /\ p < 3 -> table[p] = DevNull
        [] OTHER -> table[p] \in {Closed, p}

(* It has no other files, but for those of the parent that exec does not   *)
(* close.                                                                  *)
NothingElse ==
  at = "running" =>
    \A d \in Fds \ Places :
      table[d] = Closed \/ (way = "fork" /\ table[d] = d)

(* A child that fails to exec tells the parent, unless its end of the pipe *)
(* has a number that it had to give to a file, as it may when the parent   *)
(* has few files open.                                                     *)
ErrorHeard ==
  at = "failed" =>
    \/ heard = ErrorPipe
    \/ errorFd \in Places /\ (asked[errorFd] >= 0 \/ errorFd < 3)

-----------------------------------------------------------------------------
(* What the code does not do.                                              *)

(* process.c:559, of the copies of low descriptors: they could get         *)
(* replaced, "thus making both stdout and stderr go to the same fd, which  *)
(* was not the intention".  Files that differ stay apart.                  *)
FilesStayApart ==
  at = "running" =>
    \A p, q \in Places :
      asked[p] >= 0 /\ asked[q] >= 0 /\ asked[p] # asked[q] =>
        table[p] # table[q]
=============================================================================
