-------------------------- MODULE WriteBehindLog --------------------------
(***************************************************************************)
(* What the database layer promises to the threads that use it: a log of   *)
(* accepted operations that is applied from its head, each operation       *)
(* entirely or not at all, and that may be cut off when the process dies.  *)
(* Statements a thread executes directly take effect at once.              *)
(***************************************************************************)
EXTENDS Naturals, Sequences

CONSTANTS Operations, \* the operations that may be accepted
          Batches     \* the numbers of statements executed directly at once

VARIABLES pending,  \* the accepted operations not applied yet
          durable   \* the statements in effect

Direct == [ticket |-> 0, part |-> 0]

\* The statements by which an operation changes the database.
Effect(op) ==
    IF op.kind = "query" THEN <<>>
    ELSE [i \in 1 .. op.parts |-> [ticket |-> op.ticket, part |-> i]]

LogInit == pending = <<>> /\ durable = <<>>

Accept == \E op \in Operations : pending' = Append(pending, op) /\ durable' = durable

Apply ==
    /\ pending # <<>>
    /\ pending' = Tail(pending)
    /\ durable' = durable \o Effect(Head(pending))

\* The database refuses the operation.
Drop == pending # <<>> /\ pending' = Tail(pending) /\ durable' = durable

ExecuteDirectly ==
    /\ \E n \in Batches : durable' = durable \o [i \in 1 .. n |-> Direct]
    /\ pending' = pending

LoseTail == pending' = <<>> /\ durable' = durable

LogNext == Accept \/ Apply \/ Drop \/ ExecuteDirectly \/ LoseTail

LogSpec == LogInit /\ [][LogNext]_<<pending, durable>>
=============================================================================
