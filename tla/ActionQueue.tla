----------------------------- MODULE ActionQueue -----------------------------
(***************************************************************************)
(* What Device promises about the actions that threads hand to it, with    *)
(* no threads, locks or program counters: actions are performed one at a   *)
(* time, once, in the order in which they were submitted; a thread that    *)
(* submitted a blocking action is released only after it was performed;    *)
(* actions are dropped only after a close action was performed, and never  *)
(* an action of the thread that closed.                                    *)
(***************************************************************************)
EXTENDS Sequences

CONSTANTS
  Owner,    \* the thread that closes
  Actions   \* records with fields by (a thread) and req (op and blocking)

VARIABLES
  pending,  \* the actions submitted and neither performed nor dropped
  waiting,  \* the threads blocked on an action
  served,   \* those of them whose action has been performed
  closed    \* a close action has been performed since the last Reopen

vars == <<pending, waiting, served, closed>>

Init == pending = <<>> /\ waiting = {} /\ served = {} /\ closed = FALSE

Submit(a) ==
  /\ a.by \notin waiting
  /\ pending' = Append(pending, a)
  /\ waiting' = IF a.req.blocking THEN waiting \cup {a.by} ELSE waiting
  /\ UNCHANGED <<served, closed>>

Perform ==
  /\ pending # <<>>
  /\ pending' = Tail(pending)
  /\ served' = IF Head(pending).req.blocking THEN served \cup {Head(pending).by}
                                             ELSE served
  /\ closed' = (closed \/ Head(pending).req.op = "close")
  /\ UNCHANGED waiting

Release(t) ==
  /\ t \in served
  /\ waiting' = waiting \ {t} /\ served' = served \ {t}
  /\ UNCHANGED <<pending, closed>>

Drop ==
  /\ closed
  /\ \A i \in DOMAIN pending : pending[i].by # Owner
  /\ pending' = <<>>
  /\ UNCHANGED <<waiting, served, closed>>

Reopen ==
  /\ closed' = FALSE
  /\ UNCHANGED <<pending, waiting, served>>

Next ==
  \/ \E a \in Actions : Submit(a)
  \/ Perform
  \/ \E t \in served : Release(t)
  \/ Drop
  \/ Reopen

Spec == Init /\ [][Next]_vars
=============================================================================
