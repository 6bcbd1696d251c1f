---------------------------- MODULE Notifications ----------------------------
(* Delivery of notifications: migrations 020 and 024, core/notifications and
   payments/outbox.py.  A worker's request is one transaction: it claims rows,
   sends e-mail after e-mail, and commits the marks of all of them at the end, so
   that whatever undoes the transaction undoes the marks and not the e-mails. *)
EXTENDS Integers, FiniteSets

CONSTANTS
    Notes,          \* rows of app.notifications: one event, reader and channel
    InApp,          \* the rows of channel 'in_app'; the others are e-mails
    Marketing,      \* the rows of category 'marketing'
    Workers,        \* requests to dispatch or publish-outbox at one time
    Limit,          \* notification_worker_batch_size
    MaxAttempts,    \* notification_max_attempts
    MaxCrashes, MaxResends \* bounds on crashes and resends

ASSUME NotificationAssumptions ==
    /\ IsFiniteSet(Notes) /\ InApp \subseteq Notes /\ Marketing \subseteq Notes
    /\ Limit \in Nat \ {0} /\ MaxAttempts \in Nat \ {0}
    /\ MaxCrashes \in Nat /\ MaxResends \in Nat

VARIABLES
    consent,    \* user_private.marketing_consent of the reader
    made,       \* the rows that exist
    status,     \* notifications.status
    attempts,   \* notifications.attempts
    logged,     \* attempt_no of the row's notification_attempts
    dead,       \* rows with dead_lettered_at
    waiting,    \* rows whose next_retry_at is in the future
    mailed,     \* e-mails sent for a row since it was last given back
    tx,         \* the workers' transactions
    crashes, resends

rowVars == <<made, status, attempts, logged, dead, waiting>>
vars == <<consent, rowVars, mailed, tx, crashes, resends>>

Emails == Notes \ InApp
Jobs   == {"dispatch", "confirm"}
Idle   == [job |-> "none", todo |-> {}, done |-> {}, consent |-> FALSE]

NTypeOK ==
    /\ consent \in BOOLEAN
    /\ made \subseteq Notes
    /\ status \in [Notes -> {"pending", "sent", "failed", "suppressed"}]
    /\ attempts \in [Notes -> Nat]
    /\ logged \in [Notes -> SUBSET Nat]
    /\ dead \subseteq Emails /\ waiting \subseteq Emails
    /\ mailed \in [Notes -> Nat]
    /\ tx \in [Workers -> [job : Jobs \cup {"none"}, todo : SUBSET Emails,
                           done : SUBSET (Emails \X {"sent", "failed", "suppressed"}),
                           consent : BOOLEAN]]
    /\ crashes \in 0..MaxCrashes /\ resends \in 0..MaxResends

-----------------------------------------------------------------------------
(* Enqueueing. *)

Handled(w) == {d[1] : d \in tx[w].done}
Locked(n)  == \E w \in Workers : n \in tx[w].todo \cup Handled(w)

\* A row that was sent, or that has a feed entry (attempts = 1) and is suppressed,
\* is not written again.
Answered(n) ==
    /\ n \in made
    /\ status[n] = "sent" \/ (status[n] = "suppressed" /\ n \in InApp /\ attempts[n] = 1)

\* enqueue_user_notification in the transaction of the event.  The row's key is
\* the event, its subject, its reader and its channel: a later event of the kind
\* about the same subject finds the row.
Enqueue(n) ==
    /\ ~Locked(n)
    /\ made' = made \cup {n}
    /\ \/ Answered(n) /\ UNCHANGED <<status, attempts, logged>>
       \/ /\ ~Answered(n) /\ n \in Marketing /\ ~consent
          /\ status' = [status EXCEPT ![n] = IF @ = "pending" THEN "suppressed" ELSE @]
          /\ logged' = [logged EXCEPT ![n] = @ \cup {1}]
          /\ UNCHANGED attempts
       \/ /\ ~Answered(n) /\ n \in InApp /\ (n \in Marketing => consent)
          /\ status' = [status EXCEPT ![n] = IF @ = "pending" THEN "sent" ELSE @]
          /\ attempts' = [attempts EXCEPT ![n] = IF status[n] = "pending" THEN 1 ELSE @]
          /\ logged' = [logged EXCEPT ![n] = @ \cup {1}]
       \/ /\ ~Answered(n) /\ n \in Emails /\ (n \in Marketing => consent)
          /\ UNCHANGED <<status, attempts, logged>>
    /\ UNCHANGED <<consent, dead, waiting, mailed, tx, crashes, resends>>

-----------------------------------------------------------------------------
(* The workers. *)

\* Mutant: the claim does not skip locked rows.
ClaimableLocked(n) == n \in Emails /\ n \in made

\* Mutant: the claim takes rows of either channel.
ClaimableInApp(n) == n \in made /\ ~Locked(n)

\* Rows of either claim: FOR UPDATE SKIP LOCKED.
Claimable(n) == n \in Emails /\ n \in made /\ ~Locked(n)

\* Mutant: only pending rows are taken up again.
DuePending(job) == {n \in Notes : Claimable(n) /\ status[n] = "pending" /\ n \notin dead \cup waiting}

\* Mutant: the claim forgets that a row was dead-lettered.
DueDead(job) ==
    {n \in Notes :
        /\ Claimable(n)
        /\ \/ job = "dispatch" /\ status[n] \in {"pending", "failed"} /\ n \notin waiting
           \/ job = "confirm" /\ status[n] = "pending"}

\* claim_notification_batch takes the rows whose retry is due,
\* claim_confirmation_emails every pending one.  Which of them, if there are more
\* than the limit, is left open: the order by due time is not kept.
Due(job) ==
    {n \in Notes :
        /\ Claimable(n)
        /\ \/ job = "dispatch" /\ status[n] \in {"pending", "failed"} /\ n \notin dead \cup waiting
           \/ job = "confirm" /\ status[n] = "pending"}

Claim(w, job) ==
    /\ tx[w] = Idle
    /\ \E B \in SUBSET Due(job) :
          /\ B # {} /\ (B = Due(job) \/ Cardinality(B) = Limit) /\ Cardinality(B) <= Limit
          /\ tx' = [tx EXCEPT ![w] = [job |-> job, todo |-> B, done |-> {}, consent |-> consent]]
    /\ UNCHANGED <<consent, rowVars, mailed, crashes, resends>>

\* The e-mail of row n leaves.
Send(n) == mailed' = [mailed EXCEPT ![n] = @ + 1]

\* Row n is given back: what was sent for it so far will be sent again.
GiveBack(N) == mailed' = [n \in Notes |-> IF n \in N THEN 0 ELSE mailed[n]]

Opted(w, n) == tx[w].job = "dispatch" /\ n \in Marketing /\ ~tx[w].consent

Handle(w, n, outcome) ==
    tx' = [tx EXCEPT ![w] = [job |-> tx[w].job, consent |-> tx[w].consent, todo |-> tx[w].todo \ {n},
                              done |-> tx[w].done \cup {<<n, outcome>>}]]

\* deliver_one, and the loop of _deliver_email_notifications: the next row's
\* e-mail is sent or reported refused (and may have left all the same); only
\* deliver_one looks at the consent.
Deliver(w, n) ==
    /\ n \in tx[w].todo
    /\ tx[w].job = "dispatch" => attempts[n] + 1 \notin logged[n]
    /\ \/ Opted(w, n) /\ Handle(w, n, "suppressed") /\ UNCHANGED mailed
       \/ ~Opted(w, n) /\ Handle(w, n, "sent") /\ Send(n)
       \/ ~Opted(w, n) /\ Handle(w, n, "failed") /\ UNCHANGED mailed
    /\ UNCHANGED <<consent, rowVars, crashes, resends>>

\* The transaction is undone: its rows are as they were, the e-mails are not.
RollBack(w) ==
    /\ tx' = [tx EXCEPT ![w] = Idle]
    /\ GiveBack(Handled(w) \cup tx[w].todo)

\* record_notification_delivery meets an attempt_no that is taken and raises.
AttemptCollides(w, n) ==
    /\ n \in tx[w].todo /\ tx[w].job = "dispatch"
    /\ attempts[n] + 1 \in logged[n]
    /\ RollBack(w)
    /\ UNCHANGED <<consent, rowVars, crashes, resends>>

\* The marks of a dispatch (record_notification_delivery, every row of it) ...
MarkDispatched(done) ==
    LET failed == {d[1] : d \in {e \in done : e[2] = "failed"}}
        settled == {d[1] : d \in done} \ failed
    IN  /\ attempts' = [n \in Notes |-> IF n \in failed \cup settled THEN attempts[n] + 1 ELSE attempts[n]]
        /\ logged' = [n \in Notes |-> IF n \in failed \cup settled
                                      THEN logged[n] \cup {attempts[n] + 1} ELSE logged[n]]
        /\ LET over == {n \in failed : attempts[n] + 1 >= MaxAttempts}
           IN  /\ dead' = (dead \ settled) \cup over
               /\ waiting' = waiting \cup (failed \ over)

\* ... and of a publish-outbox (mark_confirmation_email): no log, no back-off, no
\* dead letter.
MarkConfirmed(done) ==
    /\ attempts' = [n \in Notes |-> IF <<n, "failed">> \in done THEN attempts[n] + 1 ELSE attempts[n]]
    /\ UNCHANGED <<logged, dead, waiting>>

Commit(w) ==
    LET done == tx[w].done
    IN  /\ tx[w] # Idle /\ tx[w].todo = {}
        /\ status' = [n \in Notes |-> IF \E d \in done : d[1] = n
                                      THEN (CHOOSE d \in done : d[1] = n)[2] ELSE status[n]]
        /\ IF tx[w].job = "dispatch" THEN MarkDispatched(done) ELSE MarkConfirmed(done)
        /\ tx' = [tx EXCEPT ![w] = Idle]
        /\ UNCHANGED <<consent, made, mailed, crashes, resends>>

\* The process or its connection ends before the commit.
Crash(w) ==
    /\ tx[w] # Idle /\ crashes < MaxCrashes
    /\ RollBack(w)
    /\ crashes' = crashes + 1
    /\ UNCHANGED <<consent, rowVars, resends>>

\* next_retry_at passes.
RetryDue(n) ==
    /\ n \in waiting
    /\ waiting' = waiting \ {n}
    /\ UNCHANGED <<consent, made, status, attempts, logged, dead, mailed, tx, crashes, resends>>

-----------------------------------------------------------------------------
(* The administrator and the reader. *)

\* Mutant: the dead letter is left in place.
ResendDead(n) ==
    /\ n \in made /\ ~Locked(n) /\ resends < MaxResends
    /\ status' = [status EXCEPT ![n] = "pending"]
    /\ waiting' = waiting \ {n}
    /\ GiveBack({n})
    /\ resends' = resends + 1
    /\ UNCHANGED <<consent, made, attempts, logged, dead, tx, crashes>>

\* admin_resend_notification, whatever the row's status; attempts are kept.
Resend(n) ==
    /\ n \in made /\ ~Locked(n) /\ resends < MaxResends
    /\ status' = [status EXCEPT ![n] = "pending"]
    /\ dead' = dead \ {n} /\ waiting' = waiting \ {n}
    /\ GiveBack({n})
    /\ resends' = resends + 1
    /\ UNCHANGED <<consent, made, attempts, logged, tx, crashes>>

\* The reader gives or withdraws the consent to marketing.
ChangeConsent ==
    /\ Marketing # {}
    /\ consent' = ~consent
    /\ UNCHANGED <<rowVars, mailed, tx, crashes, resends>>

-----------------------------------------------------------------------------
Init ==
    /\ consent \in BOOLEAN
    /\ made = {}
    /\ status = [n \in Notes |-> "pending"]
    /\ attempts = [n \in Notes |-> 0]
    /\ logged = [n \in Notes |-> {}]
    /\ dead = {} /\ waiting = {}
    /\ mailed = [n \in Notes |-> 0]
    /\ tx = [w \in Workers |-> Idle]
    /\ crashes = 0 /\ resends = 0

Dispatch(w) ==
    \/ Claim(w, "dispatch")
    \/ \E n \in tx[w].todo : Deliver(w, n) \/ AttemptCollides(w, n)
    \/ Commit(w)

Next ==
    \/ \E n \in Notes : Enqueue(n) \/ RetryDue(n) \/ Resend(n)
    \/ \E w \in Workers : Dispatch(w) \/ Claim(w, "confirm") \/ Crash(w)
    \/ ChangeConsent

Spec == Init /\ [][Next]_vars

\* The scheduler calls dispatch for ever, a request in progress goes on, and a
\* back-off passes.  Nobody has to call publish-outbox or resend.
FairSpec ==
    /\ Spec
    /\ \A w \in Workers : WF_vars(Dispatch(w))
    /\ \A n \in Notes : WF_vars(RetryDue(n))

-----------------------------------------------------------------------------
(* Properties. *)

\* A row is marked sent, at commit or in a transaction under way, exactly when one
\* e-mail has left for it since it was last given back by a roll-back, a reported
\* failure or a resend: two workers of either kind never send it twice, and no
\* row reads "sent" without an e-mail (020:536, SKIP LOCKED and the status).
OneMailPerMark ==
    \A n \in Emails :
        mailed[n] = IF status[n] = "sent" \/ \E w \in Workers : <<n, "sent">> \in tx[w].done
                    THEN 1 ELSE 0

\* docs/notifications.md:34, "After this, the row is dead-lettered": a dead letter
\* has had all its attempts, reads "failed" and waits for nobody, and a row in
\* back-off has attempts left or was queued again by an administrator.
DeadLettersExhausted ==
    /\ \A n \in dead : status[n] = "failed" /\ attempts[n] >= MaxAttempts /\ n \notin waiting
    /\ \A n \in waiting : attempts[n] < MaxAttempts

\* docs/notifications.md:34 and :39, "It only re-queues delivery": whatever workers of
\* either kind, roll-backs and later events do, a row is given up only when it has had
\* its attempts, and one that was sent, suppressed or dead-lettered is not worked on
\* again unless an administrator queues it.
PhaseOf(n) ==
    CASE n \notin made -> "none"
      [] n \in made /\ n \in dead -> "dead"
      [] n \in made \ dead /\ status[n] \in {"pending", "failed"} -> "queued"
      [] OTHER -> status[n]
Phases == [n \in Notes |-> PhaseOf(n)]
Mail   == INSTANCE Delivery WITH phase <- Phases, tries <- attempts, again <- resends
ImplementsDelivery == Mail!Spec

\* A row queued again whose next attempt number enqueueing has used: a suppressed
\* marketing e-mail is logged as attempt 1 and counts none.
Poisoned(n) == n \in made /\ status[n] = "pending" /\ attempts[n] + 1 \in logged[n]

\* backlog NTF.5, failed notifications retry and dead-letter after a limit: an
\* e-mail that is due is in the end sent, suppressed or dead, unless a poisoned row
\* makes the batches that claim it roll back.
Settles ==
    \A n \in Emails :
        (n \in made /\ status[n] \in {"pending", "failed"} /\ n \notin dead)
            ~> \/ status[n] \in {"sent", "suppressed"} \/ n \in dead
               \/ \E p \in Emails : Poisoned(p)
=============================================================================
