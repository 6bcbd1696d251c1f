------------------------------- MODULE Delivery -------------------------------
(* What the delivery of a notification promises, abstractly: docs/notifications.md,
   "Retry and dead-letter".  A row is tried until it is delivered, suppressed or
   has had its attempts; what became of it then is final until an administrator
   queues it again.  Nothing is said of workers, transactions or consent. *)
EXTENDS Naturals

CONSTANTS Notes, MaxAttempts

VARIABLES
    phase,      \* of a row
    tries,      \* the attempts that count for it
    again       \* how often an administrator queued a row again

vars == <<phase, tries, again>>

\* The moves of a row n; a batch moves several rows in one step.
Queued(n)  == phase[n] = "none" /\ phase'[n] = "queued" /\ tries'[n] = tries[n]
Settled(n) ==
    /\ phase[n] \in {"none", "queued"} /\ phase'[n] \in {"sent", "suppressed"}
    /\ tries'[n] \in {tries[n], tries[n] + 1}
Fails(n)   == phase[n] = "queued" /\ phase'[n] = "queued" /\ tries'[n] = tries[n] + 1
GivenUp(n) ==
    /\ phase[n] = "queued" /\ phase'[n] = "dead"
    /\ tries'[n] = tries[n] + 1 /\ tries'[n] >= MaxAttempts
Stays(n)   == phase'[n] = phase[n] /\ tries'[n] = tries[n]

Moves(n) == Queued(n) \/ Settled(n) \/ Fails(n) \/ GivenUp(n) \/ Stays(n)

\* Work of the application: on any number of rows.
Works == again' = again /\ \A n \in Notes : Moves(n)

\* An administrator's resend, of one row; the attempts are kept.
QueuesAgain(n) ==
    /\ phase[n] # "none" /\ phase'[n] = "queued" /\ tries'[n] = tries[n]
    /\ again' = again + 1
    /\ \A x \in Notes \ {n} : Stays(x)

Init ==
    /\ phase = [n \in Notes |-> "none"]
    /\ tries = [n \in Notes |-> 0]
    /\ again = 0

Next == Works \/ \E n \in Notes : QueuesAgain(n)

Spec == Init /\ [][Next]_vars
=============================================================================
