------------------------------ MODULE SerialTasks ------------------------------
(* Tasks, numbered as they are given to a queue, are done one at a time and in *)
(* that order, each once.                                                      *)
EXTENDS Integers, Sequences

VARIABLES
  given,  \* how many tasks were given
  done    \* the tasks done, in the order they were

Init == given = 0 /\ done = <<>>

Give == given' = given + 1 /\ UNCHANGED done

Do ==
  /\ Len(done) < given
  /\ done' = Append(done, Len(done) + 1)
  /\ UNCHANGED given

Spec == Init /\ [][Give \/ Do]_<<given, done>>
===============================================================================
