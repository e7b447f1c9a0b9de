----------------------------- MODULE MCLockSeq ------------------------------
(***************************************************************************)
(* LockSeq for TLC.  For liveness, whose state space must be smaller, the  *)
(* timers of one client only may fire: it repeats its requests in every    *)
(* phase, and another client contends with it.                             *)
(***************************************************************************)
EXTENDS LockSeqChecked, TLC

Symmetry == Permutations(Client)

\* Bound: the clients whose requests time out.
Slow == {CHOOSE c \in Client : TRUE}

SlowNext == Next /\ \A c \in Client \ Slow : ~ Timeout(c)

SlowSpec == Init /\ [][SlowNext]_vars /\ Fairness

=============================================================================
