------------------------------ MODULE Lifecycle ------------------------------
(* What a booking promises, abstractly: the transition table of
   payments/state_machine.py and nothing of inventory, time or money.  The
   database functions must never take a booking anywhere this module does not. *)
CONSTANT Keys           \* a booking is its customer's request key
VARIABLE status

\* payments/state_machine.py: ALLOWED_TRANSITIONS, one pair per permitted move.
AllowedTransitions ==
    ({"draft"}     \X {"pending", "cancelled"}) \cup
    ({"pending"}   \X {"confirmed", "rejected", "cancelled", "expired"}) \cup
    ({"confirmed"} \X {"cancelled", "completed", "refunded"}) \cup
    ({"cancelled", "completed"} \X {"refunded"})

\* One transaction may take two moves: an instant commit confirms the booking it
\* has just written, a cancellation with a full refund goes on to "refunded".
Moves ==
    AllowedTransitions \cup
    ({"none"} \X {"draft", "pending", "confirmed"}) \cup
    {<<"draft", "confirmed">>} \cup
    {<<from, "refunded">> : from \in {"pending", "confirmed"}}

Init == status = [k \in Keys |-> "none"]

Next == /\ status' \in [Keys -> {m[2] : m \in Moves} \cup {"none"}]
        /\ \A k \in Keys : status'[k] # status[k] => <<status[k], status'[k]>> \in Moves

Spec == Init /\ [][Next]_status
=============================================================================
