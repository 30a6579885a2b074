--------------------------- MODULE DeviceRefinement ---------------------------
(***************************************************************************)
(* Device implements ActionQueue.  The action the worker has taken and not *)
(* yet performed is still pending.                                         *)
(***************************************************************************)
EXTENDS DeviceInvariant

Taken == IF wpc = "act" THEN <<current>> ELSE <<>>
Waiting == {t \in Threads : pc[t] = "wait"}
Served == {t \in Waiting : returnEvent[t] # "unset"}

Queue == INSTANCE ActionQueue WITH
           pending <- Taken \o actionQueue,
           waiting <- Waiting,
           served <- Served,
           closed <- isClosing

\* The queue, the worker, PerformBlocking and Close together keep the promise of
\* ActionQueue: first in first out, exactly once, released only when served,
\* dropped only behind a Close and never for the thread that closes.
\* (Perform, PerformBlocking, ThreadedUpdate, Close)
ImplementsActionQueue == Queue!Spec
=============================================================================
