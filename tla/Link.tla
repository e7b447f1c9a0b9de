-------------------------------- MODULE Link --------------------------------
(***************************************************************************)
(* What a port promises its users, and what LockSeq assumes of it: one     *)
(* first-in-first-out queue per sender, that loses a message when it is    *)
(* sent or not at all, and from which a receive takes the oldest message   *)
(* of some sender.  No time, no receivers, no way to lose a message later. *)
(*                                                                         *)
(* The messages of a sender are numbered in the order of their sends, so   *)
(* its queue is the set of the numbers in it, and its head the least.      *)
(***************************************************************************)
EXTENDS Naturals

CONSTANT Sender

VARIABLES
    sent,       \* sent[s]: how many messages s has sent, lost ones included
    waiting,    \* waiting[s]: its messages under way
    received    \* received[s]: the last message of s that was received, or 0

linkVars == <<sent, waiting, received>>

Init ==
    /\ sent = [s \in Sender |-> 0]
    /\ waiting = [s \in Sender |-> {}]
    /\ received = [s \in Sender |-> 0]

Send(s) ==
    /\ sent' = [sent EXCEPT ![s] = @ + 1]
    /\ \/ waiting' = [waiting EXCEPT ![s] = @ \union {sent[s] + 1}]
       \/ UNCHANGED waiting
    /\ UNCHANGED received

\* The oldest message; the others stay.
Receive(s) ==
    /\ \E n \in waiting[s] :
          /\ \A k \in waiting[s] : n <= k
          /\ received' = [received EXCEPT ![s] = n]
          /\ waiting' = [waiting EXCEPT ![s] = @ \ {n}]
    /\ UNCHANGED sent

Next == \E s \in Sender : Send(s) \/ Receive(s)

Spec == Init /\ [][Next]_linkVars

=============================================================================
