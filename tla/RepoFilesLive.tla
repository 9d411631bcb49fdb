---------------------------- MODULE RepoFilesLive ----------------------------
(***************************************************************************)
(* Every change request is answered.  Statements of open transactions wait *)
(* for one another and two batches may list the same files in opposite     *)
(* orders, so this needs the database's deadlock detection.                *)
(***************************************************************************)
EXTENDS RepoFiles

(* The next statement of h's transaction waits for g's transaction. *)
WaitsFor(h, g) ==
    /\ g # h
    /\ \E i \in DOMAIN batch[h] :
         LET c == batch[h][i] IN
         /\ Turn(h, i)
         /\ \/ /\ c.id # Unset
               /\ c.delete \/ Changed(loaded[h][c.id], c)
               /\ Holds(g, c.id)
            \/ /\ ~c.delete
               /\ c.path # Unset
               /\ c.id # Unset => Retitled(loaded[h][c.id], c)
               /\ Claims(g, c.path)

(* Transactions that wait for each other in a circle. *)
Deadlocked ==
    UNION {D \in SUBSET Handler : \A h \in D : \E g \in D : WaitsFor(h, g)}

BreakDeadlock == \E h \in Deadlocked : Fail(h)

(* A handler whose statement can go on does: the event loop resumes it, and *)
(* the database queues the transactions that wait for a row, so one that    *)
(* could go on again and again is not passed over for ever.  The database   *)
(* breaks a circle of waiting transactions.  Nothing else need ever happen: *)
(* no client need ask, no transaction need time out.                        *)
Fairness ==
    /\ \A h \in Handler : SF_vars(Handle(h))
    /\ WF_vars(BreakDeadlock)

LiveSpec == Spec /\ Fairness

(* Every request is answered, whatever the other handlers do: a transaction *)
(* never waits for ever, and no path through applyChanges keeps a lock.     *)
RequestsAnswered ==
    \A h \in Handler : pc[h] # "idle" ~> pc[h] = "idle"
=============================================================================
