------------------------- MODULE NotificationsProofs -------------------------
(* Theorems about Notifications, for every number of rows, workers and attempts:
   one e-mail per mark, dead letters that have had their attempts, and the promises
   of Delivery.

   The two together are not inductive.  What they rest on is the row locks: the
   rows of two transactions under way are apart (Apart), a row has one outcome in
   its transaction (OneOutcome), and stays as it was claimed (AsClaimed). *)
EXTENDS Notifications, TLAPS

Rows(w) == tx[w].todo \cup Handled(w)

WaitingFailed == \A n \in waiting : status[n] = "failed"

OneOutcome ==
    \A w \in Workers : /\ tx[w].todo \cap Handled(w) = {}
                       /\ \A d, e \in tx[w].done : d[1] = e[1] => d = e

Apart == \A v, w \in Workers : v # w => Rows(v) \cap Rows(w) = {}

AsClaimed ==
    \A w \in Workers : \A n \in Rows(w) :
        /\ status[n] \in {"pending", "failed"} /\ n \notin dead
        /\ IF tx[w].job = "dispatch" THEN n \notin waiting ELSE status[n] = "pending"

NInv ==
    /\ NTypeOK /\ OneMailPerMark /\ DeadLettersExhausted
    /\ WaitingFailed /\ OneOutcome /\ Apart /\ AsClaimed

-----------------------------------------------------------------------------
\* No transaction under way has claimed a row that is not locked.
LEMMA Unlocked ==
  ASSUME NEW n, ~Locked(n), NEW w \in Workers
  PROVE  n \notin Rows(w) /\ \A o : <<n, o>> \notin tx[w].done
BY DEF Locked, Rows, Handled

\* The initial states: no row exists, no transaction is under way.
LEMMA InitNInv ==
  ASSUME NotificationAssumptions, Init
  PROVE  NInv
<1> USE NotificationAssumptions DEF Init
<1>1. NTypeOK
  BY DEF NTypeOK, Idle, Emails
<1>2. \A w \in Workers : tx[w].todo = {} /\ tx[w].done = {} /\ Rows(w) = {}
  BY DEF Idle, Rows, Handled
<1>3. OneMailPerMark
  BY <1>2 DEF OneMailPerMark, Emails
<1>4. DeadLettersExhausted /\ WaitingFailed
  BY DEF DeadLettersExhausted, WaitingFailed
<1>5. OneOutcome /\ Apart /\ AsClaimed
  BY <1>2 DEF OneOutcome, Apart, AsClaimed
<1> QED BY <1>1, <1>3, <1>4, <1>5 DEF NInv

-----------------------------------------------------------------------------
(* Steps that touch a row no transaction holds. *)

\* The three parts about transactions follow when tx is as it was and the rows
\* it holds are as they were.
LEMMA TransactionsKept ==
  ASSUME OneOutcome, Apart, AsClaimed, tx' = tx,
         \A w \in Workers : \A n \in Rows(w) :
             /\ status'[n] = status[n]
             /\ n \in dead' => n \in dead
             /\ n \in waiting' => n \in waiting
  PROVE  OneOutcome' /\ Apart' /\ AsClaimed'
BY DEF OneOutcome, Apart, AsClaimed, Rows, Handled

\* Enqueueing an event.
LEMMA EnqueueStep ==
  ASSUME NInv, NEW n \in Notes, Enqueue(n), NotificationAssumptions
  PROVE  NInv'
<1> USE NotificationAssumptions
<1>1. /\ tx' = tx /\ mailed' = mailed /\ dead' = dead /\ waiting' = waiting
      /\ status' \in [Notes -> {"pending", "sent", "failed", "suppressed"}]
      /\ \A r \in Notes : r # n => status'[r] = status[r] /\ attempts'[r] = attempts[r]
      /\ status[n] # "pending" => status'[n] = status[n]
      /\ n \in Emails => status'[n] \in {status[n], "suppressed"} /\ attempts'[n] = attempts[n]
  BY DEF Enqueue, NInv, NTypeOK, Emails
<1>2. NTypeOK'
  BY DEF Enqueue, NInv, NTypeOK
<1>3. \A w \in Workers : n \notin Rows(w) /\ \A o : <<n, o>> \notin tx[w].done
  BY Unlocked DEF Enqueue
<1>4. OneMailPerMark'
  <2>1. ASSUME NEW r \in Emails
        PROVE  status'[r] = "sent" <=> status[r] = "sent"
    BY <1>1 DEF Emails
  <2> QED BY <2>1, <1>1 DEF OneMailPerMark, NInv
<1>5. DeadLettersExhausted' /\ WaitingFailed'
  <2>1. dead \subseteq Emails /\ waiting \subseteq Emails
    BY DEF NInv, NTypeOK
  <2>2. \A r \in Emails : attempts'[r] = attempts[r]
    BY <1>1 DEF Emails
  <2>3. \A r \in dead \cup waiting : status'[r] = status[r] /\ status[r] = "failed"
    BY <2>1, <1>1 DEF NInv, DeadLettersExhausted, WaitingFailed, Emails
  <2> QED BY <2>1, <2>2, <2>3, <1>1 DEF NInv, DeadLettersExhausted, WaitingFailed
<1>6. OneOutcome' /\ Apart' /\ AsClaimed'
  <2>1. \A w \in Workers : \A r \in Rows(w) : status'[r] = status[r]
    <3>1. \A w \in Workers : Rows(w) \subseteq Notes
      BY DEF NInv, NTypeOK, Rows, Handled, Emails
    <3> QED BY <3>1, <1>1, <1>3
  <2> QED BY <2>1, <1>1, TransactionsKept DEF NInv
<1> QED BY <1>2, <1>4, <1>5, <1>6 DEF NInv

\* A back-off passes.
LEMMA RetryDueStep ==
  ASSUME NInv, NEW n \in Notes, RetryDue(n)
  PROVE  NInv'
<1>1. NTypeOK' /\ OneMailPerMark' /\ DeadLettersExhausted' /\ WaitingFailed'
  BY DEF NInv, RetryDue, NTypeOK, OneMailPerMark, DeadLettersExhausted, WaitingFailed
<1>2. OneOutcome' /\ Apart' /\ AsClaimed'
  BY TransactionsKept DEF NInv, RetryDue
<1> QED BY <1>1, <1>2 DEF NInv

\* The administrator queues a row again.
LEMMA ResendStep ==
  ASSUME NInv, NEW n \in Notes, Resend(n), NotificationAssumptions
  PROVE  NInv'
<1>1. NTypeOK'
  BY NotificationAssumptions DEF NInv, Resend, NTypeOK, GiveBack
<1>2. \A w \in Workers : n \notin Rows(w) /\ \A o : <<n, o>> \notin tx[w].done
  BY Unlocked DEF Resend
<1>3. /\ tx' = tx /\ status'[n] = "pending" /\ mailed'[n] = 0
      /\ \A r \in Notes \ {n} : status'[r] = status[r] /\ mailed'[r] = mailed[r]
      /\ dead' = dead \ {n} /\ waiting' = waiting \ {n} /\ attempts' = attempts
  BY DEF NInv, Resend, NTypeOK, GiveBack
<1>4. OneMailPerMark'
  BY <1>2, <1>3 DEF NInv, OneMailPerMark, Emails
<1>5. DeadLettersExhausted' /\ WaitingFailed'
  BY <1>3 DEF NInv, NTypeOK, DeadLettersExhausted, WaitingFailed, Emails
<1>6. OneOutcome' /\ Apart' /\ AsClaimed'
  <2>1. \A w \in Workers : Rows(w) \subseteq Notes
    BY DEF NInv, NTypeOK, Rows, Handled, Emails
  <2> QED BY <2>1, <1>2, <1>3, TransactionsKept DEF NInv
<1> QED BY <1>1, <1>4, <1>5, <1>6 DEF NInv

-----------------------------------------------------------------------------
(* Steps of a transaction. *)

\* A worker claims rows that no other holds.
LEMMA ClaimStep ==
  ASSUME NInv, NEW w \in Workers, NEW job \in Jobs, Claim(w, job)
  PROVE  NInv'
<1>1. PICK B \in SUBSET Due(job) :
         tx' = [tx EXCEPT ![w] = [job |-> job, todo |-> B, done |-> {}, consent |-> consent]]
  BY DEF Claim
<1>2. /\ status' = status /\ mailed' = mailed /\ attempts' = attempts
      /\ dead' = dead /\ waiting' = waiting
  BY DEF Claim, rowVars
<1>3. B \subseteq Emails
  BY <1>1 DEF Due, Claimable
<1>4. NTypeOK'
  BY <1>1, <1>3 DEF Claim, rowVars, NInv, NTypeOK
<1>5. /\ tx'[w].done = {} /\ tx'[w].todo = B /\ tx'[w].job = job
      /\ tx[w].done = {} /\ tx[w].todo = {}
      /\ \A v \in Workers \ {w} : tx'[v] = tx[v]
  BY <1>1 DEF NInv, NTypeOK, Claim, Idle
<1>6. Rows(w)' = B /\ \A v \in Workers \ {w} : Rows(v)' = Rows(v)
  BY <1>5 DEF Rows, Handled
<1>7. OneMailPerMark' /\ DeadLettersExhausted' /\ WaitingFailed'
  BY <1>2, <1>5 DEF NInv, OneMailPerMark, DeadLettersExhausted, WaitingFailed
<1>8. OneOutcome'
  <2>1. Handled(w)' = {} /\ \A v \in Workers \ {w} : Handled(v)' = Handled(v)
    BY <1>5 DEF Handled
  <2> QED BY <1>5, <2>1 DEF NInv, OneOutcome
<1>9. \A r \in B : /\ ~Locked(r) /\ status[r] \in {"pending", "failed"} /\ r \notin dead
                   /\ IF job = "dispatch" THEN r \notin waiting ELSE status[r] = "pending"
  <2> SUFFICES ASSUME NEW r \in Due(job)
               PROVE  /\ ~Locked(r) /\ status[r] \in {"pending", "failed"} /\ r \notin dead
                      /\ IF job = "dispatch" THEN r \notin waiting ELSE status[r] = "pending"
    OBVIOUS
  <2>1. ~Locked(r)
    BY DEF Due, Claimable
  <2>2. CASE job = "dispatch"
    BY <2>1, <2>2 DEF Due
  <2>3. CASE job = "confirm"
    BY <2>1, <2>3 DEF Due, NInv, DeadLettersExhausted
  <2> QED BY <2>2, <2>3 DEF Jobs
<1>10. Apart'
  <2>1. \A v \in Workers : B \cap Rows(v) = {}
    BY <1>9, Unlocked
  <2> QED BY <1>6, <2>1 DEF NInv, Apart
<1>11. AsClaimed'
  BY <1>2, <1>5, <1>6, <1>9 DEF NInv, AsClaimed
<1> QED BY <1>4, <1>7, <1>8, <1>10, <1>11 DEF NInv

\* The next e-mail of a transaction.
LEMMA DeliverStep ==
  ASSUME NInv, NEW w \in Workers, NEW n \in tx[w].todo, Deliver(w, n)
  PROVE  NInv'
<1>1. n \in Emails /\ n \in Notes /\ n \in Rows(w) /\ n \notin Handled(w)
  BY DEF NInv, NTypeOK, Emails, OneOutcome, Rows
<1>2. PICK o \in {"sent", "failed", "suppressed"} :
        /\ Handle(w, n, o)
        /\ mailed' = IF o = "sent" THEN [mailed EXCEPT ![n] = @ + 1] ELSE mailed
  BY DEF Deliver, Send
<1>3. /\ status' = status /\ attempts' = attempts /\ dead' = dead /\ waiting' = waiting
      /\ UNCHANGED <<consent, rowVars, crashes, resends>>
  BY DEF Deliver, rowVars
<1>4. /\ tx'[w].todo = tx[w].todo \ {n} /\ tx'[w].done = tx[w].done \cup {<<n, o>>}
      /\ tx'[w].job = tx[w].job /\ tx'[w].consent = tx[w].consent
      /\ \A v \in Workers \ {w} : tx'[v] = tx[v]
      /\ tx' \in [Workers -> [job : Jobs \cup {"none"}, todo : SUBSET Emails,
                           done : SUBSET (Emails \X {"sent", "failed", "suppressed"}),
                           consent : BOOLEAN]]
  <2> DEFINE row == [job |-> tx[w].job, consent |-> tx[w].consent, todo |-> tx[w].todo \ {n},
                     done |-> tx[w].done \cup {<<n, o>>}]
  <2>1. tx' = [tx EXCEPT ![w] = row]
    BY <1>2 DEF Handle
  <2>2. row \in [job : Jobs \cup {"none"}, todo : SUBSET Emails,
                 done : SUBSET (Emails \X {"sent", "failed", "suppressed"}), consent : BOOLEAN]
    BY <1>1 DEF NInv, NTypeOK
  <2>3. /\ row.todo = tx[w].todo \ {n} /\ row.done = tx[w].done \cup {<<n, o>>}
        /\ row.job = tx[w].job /\ row.consent = tx[w].consent
    BY DEF NInv, NTypeOK
  <2> HIDE DEF row
  <2> QED BY <2>1, <2>2, <2>3 DEF NInv, NTypeOK
<1>5. NTypeOK'
  BY <1>1, <1>2, <1>3, <1>4 DEF NInv, NTypeOK, rowVars
<1>6. Handled(w)' = Handled(w) \cup {n} /\ Rows(w)' = Rows(w)
      /\ \A v \in Workers \ {w} : Handled(v)' = Handled(v) /\ Rows(v)' = Rows(v)
  <2>1. Handled(w)' = Handled(w) \cup {n}
    <3>1. <<n, o>>[1] = n
      OBVIOUS
    <3>2. \A r : r \in Handled(w)' <=> \E d \in tx[w].done \cup {<<n, o>>} : r = d[1]
      BY <1>4 DEF Handled
    <3>3. \A r : r \in Handled(w) <=> \E d \in tx[w].done : r = d[1]
      BY DEF Handled
    <3>4. \A r : r \in Handled(w)' <=> r \in Handled(w) \/ r = n
      BY <3>1, <3>2, <3>3
    <3> QED BY <3>4
  <2>2. \A v \in Workers \ {w} : Handled(v)' = Handled(v) /\ tx'[v].todo = tx[v].todo
    BY <1>4 DEF Handled
  <2> QED BY <1>1, <1>4, <2>1, <2>2 DEF Rows
<1>7. OneMailPerMark'
  <2>1. status[n] # "sent" /\ \A v \in Workers : \A p : <<n, p>> \notin tx[v].done
    <3>1. \A v \in Workers : n \notin Handled(v)
      BY <1>1 DEF NInv, Apart, Rows
    <3> QED BY <1>1, <3>1 DEF NInv, AsClaimed, Handled
  <2>2. mailed[n] = 0
    BY <1>1, <2>1 DEF NInv, OneMailPerMark
  <2>3. mailed'[n] = IF o = "sent" THEN 1 ELSE 0
    BY <1>1, <1>2, <2>2 DEF NInv, NTypeOK
  <2>4. (\E v \in Workers : <<n, "sent">> \in tx'[v].done) <=> o = "sent"
    BY <2>1, <1>4
  <2>5. ASSUME NEW r \in Emails \ {n}
        PROVE  /\ mailed'[r] = mailed[r]
               /\ \A v \in Workers : <<r, "sent">> \in tx'[v].done <=> <<r, "sent">> \in tx[v].done
    BY <1>2, <1>4 DEF NInv, NTypeOK, Emails
  <2>6. mailed'[n] = IF status'[n] = "sent" \/ \E v \in Workers : <<n, "sent">> \in tx'[v].done
                     THEN 1 ELSE 0
    BY <2>1, <2>3, <2>4, <1>3
  <2>7. ASSUME NEW r \in Emails \ {n}
        PROVE  mailed'[r] = IF status'[r] = "sent" \/ \E v \in Workers : <<r, "sent">> \in tx'[v].done
                            THEN 1 ELSE 0
    BY <2>5, <1>3 DEF NInv, OneMailPerMark
  <2> QED BY <2>6, <2>7 DEF OneMailPerMark, Emails
<1>8. DeadLettersExhausted' /\ WaitingFailed'
  BY <1>3 DEF NInv, DeadLettersExhausted, WaitingFailed
<1>9. OneOutcome'
  <2>1. tx'[w].todo \cap Handled(w)' = {}
    BY <1>4, <1>6 DEF NInv, OneOutcome
  <2>2. \A d, e \in tx'[w].done : d[1] = e[1] => d = e
    BY <1>1, <1>4 DEF NInv, OneOutcome, Handled
  <2> QED BY <1>4, <1>6, <2>1, <2>2 DEF NInv, OneOutcome
<1>10. Apart' /\ AsClaimed'
  BY <1>3, <1>4, <1>6 DEF NInv, Apart, AsClaimed
<1> QED BY <1>5, <1>7, <1>8, <1>9, <1>10 DEF NInv

\* A transaction is undone: what the two actions that undo one have in common.
LEMMA RollBackStep ==
  ASSUME NInv, NEW w \in Workers, RollBack(w), UNCHANGED <<consent, rowVars>>,
         crashes' \in 0..MaxCrashes, resends' \in 0..MaxResends
  PROVE  NInv'
<1>1. /\ status' = status /\ attempts' = attempts /\ dead' = dead /\ waiting' = waiting
  BY DEF rowVars
<1>2. tx'[w] = Idle /\ \A v \in Workers \ {w} : tx'[v] = tx[v]
  BY DEF NInv, NTypeOK, RollBack
<1>3. NTypeOK'
  BY DEF NInv, NTypeOK, RollBack, GiveBack, Idle, rowVars
<1>4. /\ Rows(w)' = {} /\ Handled(w)' = {}
      /\ \A v \in Workers \ {w} : Rows(v)' = Rows(v) /\ Handled(v)' = Handled(v)
  BY <1>2 DEF Rows, Handled, Idle
<1>5. OneMailPerMark'
  <2> SUFFICES ASSUME NEW r \in Emails
               PROVE  mailed'[r] = IF status'[r] = "sent" \/ \E v \in Workers : <<r, "sent">> \in tx'[v].done
                                   THEN 1 ELSE 0
    BY DEF OneMailPerMark, Emails
  <2>1. CASE r \in Rows(w)
    <3>1. status[r] # "sent"
      BY <2>1 DEF NInv, AsClaimed
    <3>2. mailed'[r] = 0
      BY <2>1 DEF RollBack, GiveBack, Rows, Emails
    <3>3. \A v \in Workers : <<r, "sent">> \notin tx'[v].done
      BY <2>1, <1>2 DEF NInv, Apart, Rows, Handled, Idle
    <3> QED BY <3>1, <3>2, <3>3, <1>1
  <2>2. CASE r \notin Rows(w)
    <3>1. mailed'[r] = mailed[r]
      BY <2>2 DEF RollBack, GiveBack, Rows, Emails
    <3>2. <<r, "sent">> \notin tx[w].done /\ <<r, "sent">> \notin tx'[w].done
      BY <2>2, <1>2 DEF Rows, Handled, Idle
    <3>3. \A v \in Workers : <<r, "sent">> \in tx'[v].done <=> <<r, "sent">> \in tx[v].done
      BY <3>2, <1>2
    <3> QED BY <3>1, <3>3, <1>1 DEF NInv, OneMailPerMark
  <2> QED BY <2>1, <2>2
<1>6. DeadLettersExhausted' /\ WaitingFailed'
  BY <1>1 DEF NInv, DeadLettersExhausted, WaitingFailed
<1>7. OneOutcome' /\ Apart' /\ AsClaimed'
  BY <1>1, <1>2, <1>4 DEF NInv, OneOutcome, Apart, AsClaimed, Idle
<1> QED BY <1>3, <1>5, <1>6, <1>7 DEF NInv

\* The marks of a transaction.
LEMMA CommitStep ==
  ASSUME NInv, NEW w \in Workers, Commit(w), NotificationAssumptions
  PROVE  NInv'
<1> DEFINE done == tx[w].done
           outcome(n) == (CHOOSE d \in done : d[1] = n)[2]
<1> USE NotificationAssumptions
<1>1. /\ done \in SUBSET (Emails \X {"sent", "failed", "suppressed"})
      /\ \A d, e \in done : d[1] = e[1] => d = e
      /\ Handled(w) \subseteq Emails /\ Handled(w) = Rows(w)
  BY DEF NInv, NTypeOK, OneOutcome, Handled, Rows, Commit
<1>2. /\ \A n \in Handled(w) : /\ outcome(n) \in {"sent", "failed", "suppressed"}
                               /\ <<n, outcome(n)>> \in done
      /\ \A n, o : <<n, o>> \in done => n \in Handled(w) /\ o = outcome(n)
  <2>1. ASSUME NEW n \in Handled(w)
        PROVE  outcome(n) \in {"sent", "failed", "suppressed"} /\ <<n, outcome(n)>> \in done
    <3>1. PICK d \in done : d[1] = n
      BY DEF Handled
    <3>2. d = <<n, d[2]>> /\ d[2] \in {"sent", "failed", "suppressed"}
      BY <1>1, <3>1
    <3>3. outcome(n) = d[2]
      BY <1>1, <3>1
    <3> QED BY <3>1, <3>2, <3>3
  <2>2. ASSUME NEW n, NEW o, <<n, o>> \in done
        PROVE  n \in Handled(w) /\ o = outcome(n)
    <3>1. n \in Handled(w)
      BY <2>2 DEF Handled
    <3>2. <<n, outcome(n)>> = <<n, o>>
      BY <2>1, <2>2, <3>1, <1>1
    <3> QED BY <3>1, <3>2
  <2> QED BY <2>1, <2>2
<1>3. /\ \A n \in Notes : status'[n] = IF n \in Handled(w) THEN outcome(n) ELSE status[n]
      /\ status' \in [Notes -> {"pending", "sent", "failed", "suppressed"}]
  <2>1. status' = [n \in Notes |-> IF \E d \in done : d[1] = n THEN outcome(n) ELSE status[n]]
    BY DEF Commit
  <2>2. \A n : (\E d \in done : d[1] = n) <=> n \in Handled(w)
    BY DEF Handled
  <2> HIDE DEF outcome, done
  <2> QED BY <2>1, <2>2, <1>2 DEF NInv, NTypeOK
<1>4. /\ attempts' \in [Notes -> Nat] /\ logged' \in [Notes -> SUBSET Nat]
      /\ dead' \subseteq Emails /\ waiting' \subseteq Emails
      /\ \A n \in Notes : attempts'[n] >= attempts[n]
      /\ \A n \in Notes \ Handled(w) :
            attempts'[n] = attempts[n] /\ (n \in dead' <=> n \in dead) /\ (n \in waiting' <=> n \in waiting)
      /\ \A n \in Handled(w) :
            /\ n \in dead' => outcome(n) = "failed" /\ attempts'[n] >= MaxAttempts /\ n \notin waiting'
            /\ n \in waiting' => outcome(n) = "failed" /\ attempts'[n] < MaxAttempts
  <2>1. CASE tx[w].job = "dispatch"
    <3> DEFINE failed == {d[1] : d \in {e \in done : e[2] = "failed"}}
               settled == {d[1] : d \in done} \ failed
               over == {n \in failed : attempts[n] + 1 >= MaxAttempts}
    <3>1. /\ failed \cup settled = Handled(w)
          /\ \A n \in failed : n \in Handled(w) /\ outcome(n) = "failed"
      <4>1. failed \cup settled = Handled(w)
        BY DEF Handled
      <4>2. ASSUME NEW n \in failed
            PROVE  n \in Handled(w) /\ outcome(n) = "failed"
        <5>1. PICK d \in done : d[1] = n /\ d[2] = "failed"
          OBVIOUS
        <5>2. d = <<n, "failed">>
          BY <5>1, <1>1
        <5> QED BY <5>1, <5>2, <1>2
      <4> QED BY <4>1, <4>2
    <3>2. /\ attempts' = [n \in Notes |-> IF n \in failed \cup settled THEN attempts[n] + 1 ELSE attempts[n]]
          /\ logged' = [n \in Notes |-> IF n \in failed \cup settled
                                        THEN logged[n] \cup {attempts[n] + 1} ELSE logged[n]]
          /\ dead' = (dead \ settled) \cup over
          /\ waiting' = waiting \cup (failed \ over)
      BY <2>1 DEF Commit, MarkDispatched
    <3>3. \A n \in Handled(w) : n \notin dead /\ n \notin waiting /\ n \in Emails
      BY <2>1, <1>1 DEF NInv, AsClaimed
    <3>4. /\ attempts \in [Notes -> Nat] /\ logged \in [Notes -> SUBSET Nat]
          /\ dead \subseteq Emails /\ waiting \subseteq Emails /\ MaxAttempts \in Nat
          /\ Emails \subseteq Notes
      BY DEF NInv, NTypeOK, Emails
    <3> HIDE DEF failed, settled, outcome, done
    <3>5. \A n \in Notes : attempts[n] \in Nat /\ attempts'[n] = IF n \in Handled(w) THEN attempts[n] + 1 ELSE attempts[n]
      BY <3>1, <3>2, <3>4
    <3>6. attempts' \in [Notes -> Nat] /\ logged' \in [Notes -> SUBSET Nat]
      BY <3>2, <3>4
    <3>7. \A n \in over : n \in Handled(w) /\ outcome(n) = "failed" /\ attempts'[n] >= MaxAttempts
      BY <3>1, <3>3, <3>4, <3>5
    <3>8. \A n \in failed \ over : n \in Handled(w) /\ outcome(n) = "failed" /\ attempts'[n] < MaxAttempts
      BY <3>1, <3>3, <3>4, <3>5
    <3>9. settled \subseteq Handled(w)
      BY <3>1
    <3> HIDE DEF over
    <3>10. /\ \A n \in Notes : attempts'[n] >= attempts[n]
           /\ \A n \in Notes \ Handled(w) : attempts'[n] = attempts[n]
      BY <3>5
    <3>11. dead' \subseteq Emails /\ waiting' \subseteq Emails
      BY <3>2, <3>3, <3>4, <3>7, <3>8
    <3>12. \A n \in Notes \ Handled(w) : (n \in dead' <=> n \in dead) /\ (n \in waiting' <=> n \in waiting)
      BY <3>2, <3>7, <3>8, <3>9
    <3>13. ASSUME NEW n \in Handled(w)
           PROVE  /\ n \in dead' => n \in over
                  /\ n \in waiting' => n \in failed /\ n \notin over
      BY <3>2, <3>3
    <3>14. ASSUME NEW n \in Handled(w)
           PROVE  /\ n \in dead' => outcome(n) = "failed" /\ attempts'[n] >= MaxAttempts /\ n \notin waiting'
                  /\ n \in waiting' => outcome(n) = "failed" /\ attempts'[n] < MaxAttempts
      <4>1. CASE n \in over
        BY <4>1, <3>7, <3>13
      <4>2. CASE n \notin over
        BY <4>2, <3>8, <3>13
      <4> QED BY <4>1, <4>2
    <3> QED BY <3>6, <3>10, <3>11, <3>12, <3>14
  <2>2. CASE tx[w].job # "dispatch"
    <3>1. /\ attempts' = [n \in Notes |-> IF <<n, "failed">> \in done THEN attempts[n] + 1 ELSE attempts[n]]
          /\ logged' = logged /\ dead' = dead /\ waiting' = waiting
      BY <2>2 DEF Commit, MarkConfirmed
    <3>2. \A n \in Handled(w) : n \notin dead /\ n \notin waiting
      BY <2>2, <1>1 DEF NInv, AsClaimed, WaitingFailed
    <3> HIDE DEF outcome, done
    <3> QED BY <3>1, <3>2, <1>2 DEF NInv, NTypeOK
  <2> QED BY <2>1, <2>2
<1>5. tx'[w] = Idle /\ (\A v \in Workers \ {w} : tx'[v] = tx[v])
      /\ mailed' = mailed /\ UNCHANGED <<consent, made, crashes, resends>>
  BY DEF Commit, NInv, NTypeOK
<1>6. NTypeOK'
  <2>1. tx' \in [Workers -> [job : Jobs \cup {"none"}, todo : SUBSET Emails,
                             done : SUBSET (Emails \X {"sent", "failed", "suppressed"}),
                             consent : BOOLEAN]]
    BY DEF Commit, NInv, NTypeOK, Idle
  <2> HIDE DEF outcome, done
  <2> QED BY <2>1, <1>3, <1>4, <1>5 DEF NInv, NTypeOK
<1>7. /\ Rows(w)' = {} /\ Handled(w)' = {} /\ tx'[w].done = {} /\ tx'[w].todo = {}
      /\ \A v \in Workers \ {w} : Rows(v)' = Rows(v) /\ Handled(v)' = Handled(v)
  BY <1>5 DEF Rows, Handled, Idle
<1>8. \A v \in Workers \ {w} : Rows(v) \cap Handled(w) = {}
  BY <1>1 DEF NInv, Apart
<1>9. OneMailPerMark'
  <2> SUFFICES ASSUME NEW n \in Emails
               PROVE  mailed'[n] = IF status'[n] = "sent" \/ \E v \in Workers : <<n, "sent">> \in tx'[v].done
                                   THEN 1 ELSE 0
    BY DEF OneMailPerMark, Emails
  <2>0. n \in Notes
    BY DEF Emails
  <2> HIDE DEF outcome
  <2>1. CASE n \in Handled(w)
    <3>1. status'[n] = "sent" <=> <<n, "sent">> \in done
      BY <2>0, <2>1, <1>2, <1>3
    <3>2. \A v \in Workers : v # w => <<n, "sent">> \notin tx[v].done
      BY <2>1, <1>8 DEF Rows, Handled
    <3>3. status[n] # "sent"
      BY <2>1, <1>1 DEF NInv, AsClaimed
    <3> QED BY <3>1, <3>2, <3>3, <1>5, <1>7 DEF NInv, OneMailPerMark
  <2>2. CASE n \notin Handled(w)
    <3>1. status'[n] = status[n]
      BY <2>0, <2>2, <1>3
    <3>2. <<n, "sent">> \notin tx[w].done
      BY <2>2, <1>2
    <3> QED BY <3>1, <3>2, <1>5, <1>7 DEF NInv, OneMailPerMark
  <2> QED BY <2>1, <2>2
<1>10. DeadLettersExhausted' /\ WaitingFailed'
  <2>1. dead' \subseteq Notes /\ waiting' \subseteq Notes
    BY <1>4 DEF Emails
  <2> HIDE DEF outcome, done
  <2> QED BY <2>1, <1>3, <1>4 DEF NInv, DeadLettersExhausted, WaitingFailed
<1>11. OneOutcome' /\ Apart'
  BY <1>5, <1>7 DEF NInv, OneOutcome, Apart
<1>12. AsClaimed'
  <2> SUFFICES ASSUME NEW v \in Workers \ {w}, NEW n \in Rows(v)
               PROVE  /\ status'[n] \in {"pending", "failed"} /\ n \notin dead'
                      /\ IF tx'[v].job = "dispatch" THEN n \notin waiting' ELSE status'[n] = "pending"
    BY <1>7 DEF AsClaimed
  <2>1. n \in Notes /\ n \notin Handled(w)
    BY <1>8 DEF NInv, NTypeOK, Rows, Handled, Emails
  <2>2. status'[n] = status[n] /\ (n \in dead' <=> n \in dead) /\ (n \in waiting' <=> n \in waiting)
    BY <2>1, <1>3, <1>4
  <2> QED BY <2>2, <1>5 DEF NInv, AsClaimed
<1> QED BY <1>6, <1>9, <1>10, <1>11, <1>12 DEF NInv

-----------------------------------------------------------------------------
\* Every step keeps the invariant: one step per action.
LEMMA NextNInv ==
  ASSUME NotificationAssumptions, NInv, [Next]_vars
  PROVE  NInv'
<1> USE NotificationAssumptions
<1>1. CASE UNCHANGED vars
  BY <1>1 DEF NInv, vars, rowVars, NTypeOK, OneMailPerMark, DeadLettersExhausted,
              WaitingFailed, OneOutcome, Apart, AsClaimed, Rows, Handled
<1>2. CASE \E n \in Notes : Enqueue(n) \/ RetryDue(n) \/ Resend(n)
  BY <1>2, EnqueueStep, RetryDueStep, ResendStep
<1>3. CASE \E w \in Workers : Dispatch(w) \/ Claim(w, "confirm") \/ Crash(w)
  <2>1. PICK w \in Workers : Dispatch(w) \/ Claim(w, "confirm") \/ Crash(w)
    BY <1>3
  <2>2. CASE \E job \in Jobs : Claim(w, job)
    BY <2>2, ClaimStep
  <2>3. CASE \E n \in tx[w].todo : Deliver(w, n)
    BY <2>3, DeliverStep
  <2>4. CASE \E n \in tx[w].todo : AttemptCollides(w, n)
    <3>1. PICK n \in tx[w].todo : AttemptCollides(w, n)
      BY <2>4
    <3>2. crashes' \in 0..MaxCrashes /\ resends' \in 0..MaxResends
      BY <3>1 DEF AttemptCollides, NInv, NTypeOK
    <3> QED BY <3>1, <3>2, RollBackStep DEF AttemptCollides
  <2>5. CASE Commit(w)
    BY <2>5, CommitStep
  <2>6. CASE Crash(w)
    <3>1. /\ crashes' \in 0..MaxCrashes /\ resends' \in 0..MaxResends
      BY <2>6 DEF Crash, NInv, NTypeOK
    <3> QED BY <2>6, <3>1, RollBackStep DEF Crash
  <2> QED BY <2>1, <2>2, <2>3, <2>4, <2>5, <2>6 DEF Dispatch, Jobs
<1>4. CASE ChangeConsent
  <2>1. /\ NTypeOK' /\ tx' = tx /\ status' = status /\ dead' = dead
        /\ waiting' = waiting /\ mailed' = mailed /\ attempts' = attempts
    BY <1>4 DEF ChangeConsent, NInv, NTypeOK, rowVars
  <2> QED BY <2>1 DEF NInv, OneMailPerMark, DeadLettersExhausted, WaitingFailed,
                      OneOutcome, Apart, AsClaimed, Rows, Handled
<1> QED BY <1>1, <1>2, <1>3, <1>4 DEF Next

\* The invariant holds in every reachable state.
LEMMA NInvAlways == Spec => []NInv
<1>1. Init => NInv
  BY InitNInv, NotificationAssumptions
<1>2. NInv /\ [Next]_vars => NInv'
  BY NextNInv, NotificationAssumptions
<1> QED BY <1>1, <1>2, PTL DEF Spec

\* The variables keep their types.
THEOREM NotificationsTypeCorrect == Spec => []NTypeOK
<1>1. NInv => NTypeOK
  BY DEF NInv
<1> QED BY <1>1, NInvAlways, PTL

\* Whichever workers run together, crash or collide, one e-mail leaves for each
\* mark "sent": the row locks of the two claims are enough.
THEOREM MailSound == Spec => []OneMailPerMark
<1>1. NInv => OneMailPerMark
  BY DEF NInv
<1> QED BY <1>1, NInvAlways, PTL

\* A dead letter has had all its attempts, however often it was queued again and
\* whichever worker counted them.
THEOREM DeadLettersSound == Spec => []DeadLettersExhausted
<1>1. NInv => DeadLettersExhausted
  BY DEF NInv
<1> QED BY <1>1, NInvAlways, PTL

-----------------------------------------------------------------------------
(* The phases of Delivery. *)

\* A row that no event made is as it was, nobody works on it, and a row of the feed
\* is attempted once.
MadeInv ==
    /\ \A n \in Notes \ made : status[n] = "pending" /\ n \notin dead
    /\ \A w \in Workers : Rows(w) \subseteq made
    /\ \A n \in InApp : attempts[n] \in {0, 1}

\* What a commit makes of one row.
LEMMA CommitRow ==
    ASSUME NInv, NEW w \in Workers, Commit(w), NEW n \in Notes
    PROVE  \/ /\ n \notin Handled(w)
              /\ status'[n] = status[n] /\ attempts'[n] = attempts[n] /\ (n \in dead' <=> n \in dead)
           \/ /\ n \in Handled(w)
              /\ status'[n] \in {"sent", "failed", "suppressed"}
              /\ attempts'[n] \in {attempts[n], attempts[n] + 1}
              /\ status'[n] = "failed" => attempts'[n] = attempts[n] + 1
              /\ n \in dead' => status'[n] = "failed" /\ attempts'[n] >= MaxAttempts
<1> DEFINE done == tx[w].done
           failed == {d[1] : d \in {e \in done : e[2] = "failed"}}
           settled == {d[1] : d \in done} \ failed
           over == {x \in failed : attempts[x] + 1 >= MaxAttempts}
<1>1. /\ done \subseteq Emails \X {"sent", "failed", "suppressed"}
      /\ \A d, e \in done : d[1] = e[1] => d = e
      /\ Handled(w) = {d[1] : d \in done} /\ attempts \in [Notes -> Nat]
  BY DEF NInv, NTypeOK, OneOutcome, Handled
<1>2. status'[n] = IF \E d \in done : d[1] = n THEN (CHOOSE d \in done : d[1] = n)[2] ELSE status[n]
  BY DEF Commit
<1>3. CASE n \notin Handled(w)
  <2>1. \A d \in done : d[1] # n
    BY <1>1, <1>3
  <2>2. n \notin failed /\ n \notin settled /\ n \notin over /\ <<n, "failed">> \notin done
    BY <2>1
  <2>3. attempts'[n] = attempts[n] /\ (n \in dead' <=> n \in dead)
    <3>1. CASE tx[w].job = "dispatch"
      <4>1. /\ attempts' = [x \in Notes |-> IF x \in failed \cup settled THEN attempts[x] + 1 ELSE attempts[x]]
            /\ dead' = (dead \ settled) \cup over
        BY <3>1 DEF Commit, MarkDispatched
      <4> HIDE DEF failed, settled, over
      <4> QED BY <2>2, <4>1
    <3>2. CASE tx[w].job # "dispatch"
      BY <2>2, <3>2 DEF Commit, MarkConfirmed
    <3> QED BY <3>1, <3>2
  <2> QED BY <1>2, <1>3, <2>1, <2>3
<1>4. CASE n \in Handled(w)
  <2>1. PICK d \in done : d[1] = n
    BY <1>1, <1>4
  <2>2. d = <<n, d[2]>> /\ d[2] \in {"sent", "failed", "suppressed"}
    BY <1>1, <2>1
  <2>3. status'[n] = d[2]
    BY <1>1, <1>2, <2>1
  <2>4. n \notin dead
    BY <1>4 DEF NInv, AsClaimed, Rows
  <2>5. CASE tx[w].job = "dispatch"
    <3>1. n \in failed \cup settled
      BY <2>1
    <3>2. n \in over => d[2] = "failed" /\ attempts[n] + 1 >= MaxAttempts
      BY <1>1, <2>1
    <3>3. /\ attempts' = [x \in Notes |-> IF x \in failed \cup settled THEN attempts[x] + 1 ELSE attempts[x]]
          /\ dead' = (dead \ settled) \cup over
      BY <2>5 DEF Commit, MarkDispatched
    <3> HIDE DEF failed, settled, over
    <3> QED BY <1>4, <2>2, <2>3, <2>4, <3>1, <3>2, <3>3
  <2>6. CASE tx[w].job # "dispatch"
    <3>1. /\ attempts'[n] = IF <<n, "failed">> \in done THEN attempts[n] + 1 ELSE attempts[n]
          /\ dead' = dead
      BY <2>6 DEF Commit, MarkConfirmed
    <3>2. d[2] = "failed" => <<n, "failed">> \in done
      BY <2>1, <2>2
    <3> HIDE DEF done
    <3> QED BY <1>4, <2>2, <2>3, <2>4, <3>1, <3>2
  <2> QED BY <2>5, <2>6
<1> QED BY <1>3, <1>4

\* A row of a transaction is an e-mail.
LEMMA RowsAreEmails == ASSUME NInv, NEW w \in Workers PROVE Rows(w) \subseteq Emails
BY DEF NInv, NTypeOK, Rows, Handled, Emails

\* Every step keeps it.
LEMMA MadeStep ==
    ASSUME NotificationAssumptions, NInv, MadeInv, [Next]_vars
    PROVE  MadeInv'
<1>0. InApp \subseteq Notes /\ attempts \in [Notes -> Nat] /\ status \in [Notes -> {"pending", "sent", "failed", "suppressed"}]
  BY DEF NotificationAssumptions, NInv, NTypeOK
<1>1. ASSUME UNCHANGED <<made, status, attempts, dead>>, \A w \in Workers : Rows(w)' \subseteq made
      PROVE  MadeInv'
  BY <1>1 DEF MadeInv
<1>2. CASE UNCHANGED <<made, status, attempts, dead, tx>>
  BY <1>1, <1>2 DEF MadeInv, Rows, Handled
<1>3. ASSUME NEW n \in Notes, Enqueue(n) PROVE MadeInv'
  <2>1. /\ made' = made \cup {n} /\ dead' = dead /\ \A w \in Workers : Rows(w)' = Rows(w)
        /\ \A x \in Notes \ {n} : status'[x] = status[x] /\ attempts'[x] = attempts[x]
    BY <1>0, <1>3 DEF Enqueue, Rows, Handled
  <2>2. attempts'[n] \in {attempts[n], 1}
    BY <1>0, <1>3 DEF Enqueue
  <2> QED BY <1>0, <2>1, <2>2 DEF MadeInv
<1>4. ASSUME NEW n \in Notes, Resend(n) PROVE MadeInv'
  <2>1. /\ n \in made /\ made' = made /\ dead' \subseteq dead /\ attempts' = attempts
        /\ \A x \in Notes \ {n} : status'[x] = status[x]
        /\ \A w \in Workers : Rows(w)' = Rows(w)
    BY <1>0, <1>4 DEF Resend, Rows, Handled
  <2> QED BY <2>1 DEF MadeInv
<1>5. ASSUME NEW w \in Workers, NEW job \in Jobs, Claim(w, job) PROVE MadeInv'
  <2>1. PICK B \in SUBSET Due(job) :
           tx' = [tx EXCEPT ![w] = [job |-> job, todo |-> B, done |-> {}, consent |-> consent]]
    BY <1>5 DEF Claim
  <2>2. B \subseteq made
    BY <2>1 DEF Due, Claimable
  <2>3. tx'[w].todo = B /\ tx'[w].done = {} /\ \A v \in Workers \ {w} : tx'[v] = tx[v]
    BY <2>1 DEF NInv, NTypeOK
  <2>4. Rows(w)' = B /\ \A v \in Workers \ {w} : Rows(v)' = Rows(v)
    BY <2>3 DEF Rows, Handled
  <2> QED BY <1>1, <1>5, <2>2, <2>4 DEF Claim, rowVars, MadeInv
<1>6. ASSUME NEW w \in Workers, NEW n \in tx[w].todo, Deliver(w, n) PROVE MadeInv'
  <2>1. PICK o : Handle(w, n, o)
    BY <1>6 DEF Deliver
  <2>2. /\ tx'[w].todo = tx[w].todo \ {n} /\ tx'[w].done = tx[w].done \cup {<<n, o>>}
        /\ \A v \in Workers \ {w} : tx'[v] = tx[v]
    BY <2>1 DEF Handle, NInv, NTypeOK
  <2>3. Rows(w)' \subseteq Rows(w) /\ \A v \in Workers \ {w} : Rows(v)' = Rows(v)
    BY <2>2 DEF Rows, Handled
  <2> QED BY <1>1, <1>6, <2>3 DEF Deliver, rowVars, MadeInv
<1>7. ASSUME NEW w \in Workers, tx' = [tx EXCEPT ![w] = Idle]
      PROVE  \A v \in Workers : Rows(v)' \subseteq Rows(v)
  <2>1. tx'[w] = Idle /\ \A v \in Workers \ {w} : tx'[v] = tx[v]
    BY <1>7 DEF NInv, NTypeOK
  <2> QED BY <2>1 DEF Rows, Handled, Idle
<1>8. ASSUME NEW w \in Workers, RollBack(w), UNCHANGED rowVars PROVE MadeInv'
  BY <1>1, <1>7, <1>8 DEF RollBack, rowVars, MadeInv
<1>9. ASSUME NEW w \in Workers, Commit(w) PROVE MadeInv'
  <2>1. made' = made /\ \A v \in Workers : Rows(v)' \subseteq made
    BY <1>7, <1>9 DEF Commit, MadeInv
  <2>2. Handled(w) \subseteq made /\ Handled(w) \cap InApp = {}
    BY RowsAreEmails DEF MadeInv, Rows, Emails
  <2>3. \A n \in Notes \ Handled(w) :
            status'[n] = status[n] /\ attempts'[n] = attempts[n] /\ (n \in dead' <=> n \in dead)
    BY <1>9, CommitRow
  <2> QED BY <1>0, <2>1, <2>2, <2>3 DEF MadeInv
<1>10. Next => \/ UNCHANGED <<made, status, attempts, dead, tx>>
               \/ \E n \in Notes : Enqueue(n) \/ Resend(n)
               \/ \E w \in Workers, job \in Jobs : Claim(w, job)
               \/ \E w \in Workers : \E n \in tx[w].todo : Deliver(w, n)
               \/ \E w \in Workers : (RollBack(w) /\ UNCHANGED rowVars) \/ Commit(w)
  BY DEF Next, RetryDue, ChangeConsent, Dispatch, Crash, AttemptCollides, Jobs, rowVars
<1> QED BY <1>2, <1>3, <1>4, <1>5, <1>6, <1>8, <1>9, <1>10 DEF vars, rowVars

\* A row that a step leaves alone stays.
LEMMA SamePhase ==
    ASSUME NEW n \in Notes, attempts'[n] = attempts[n], status'[n] = status[n],
           n \in made' <=> n \in made, n \in dead' <=> n \in dead
    PROVE  Mail!Stays(n)
<1>1. Phases[n] = PhaseOf(n) /\ Phases'[n] = PhaseOf(n)'
  BY DEF Phases
<1>2. PhaseOf(n)' = PhaseOf(n)
  BY DEF PhaseOf
<1> QED BY <1>1, <1>2 DEF Mail!Stays

\* An event's row.
LEMMA EnqueueMoves ==
    ASSUME NotificationAssumptions, NInv, MadeInv, NEW n \in Notes, Enqueue(n)
    PROVE  Mail!Works
<1>0. /\ attempts \in [Notes -> Nat] /\ dead \subseteq Emails
      /\ status \in [Notes -> {"pending", "sent", "failed", "suppressed"}]
      /\ n \in dead => status[n] = "failed"
      /\ n \notin made => status[n] = "pending" /\ n \notin dead
      /\ n \in InApp => attempts[n] \in {0, 1}
  BY DEF NInv, NTypeOK, DeadLettersExhausted, MadeInv
<1>1. made' = made \cup {n} /\ dead' = dead /\ resends' = resends
  BY DEF Enqueue
<1>2. \A x \in Notes \ {n} : Mail!Stays(x)
  <2> SUFFICES ASSUME NEW x \in Notes \ {n} PROVE Mail!Stays(x)
    OBVIOUS
  <2>1. status'[x] = status[x] /\ attempts'[x] = attempts[x]
    BY <1>0 DEF Enqueue
  <2> QED BY <1>1, <2>1, SamePhase
<1>3. Phases[n] = PhaseOf(n) /\ Phases'[n] = PhaseOf(n)'
  BY DEF Phases
<1>4. Mail!Moves(n)
  <2>1. CASE status'[n] = status[n] /\ attempts'[n] = attempts[n]
    <3>1. CASE n \in made
      BY <1>1, <2>1, <3>1, SamePhase DEF Mail!Moves
    <3>2. CASE n \notin made
      <4>1. PhaseOf(n) = "none" /\ PhaseOf(n)' = "queued"
        BY <1>0, <1>1, <2>1, <3>2 DEF PhaseOf
      <4> QED BY <1>3, <2>1, <4>1 DEF Mail!Moves, Mail!Queued
    <3> QED BY <3>1, <3>2
  <2>2. CASE status[n] = "pending" /\ status'[n] \in {"sent", "suppressed"} /\ attempts'[n] \in {attempts[n], attempts[n] + 1}
    <3>1. n \notin dead /\ PhaseOf(n) \in {"none", "queued"} /\ PhaseOf(n)' = status'[n]
      BY <1>0, <1>1, <2>2 DEF PhaseOf
    <3> QED BY <1>3, <2>2, <3>1 DEF Mail!Moves, Mail!Settled
  <2> QED BY <1>0, <2>1, <2>2 DEF Enqueue
<1> QED BY <1>1, <1>2, <1>4 DEF Mail!Works, Mail!Moves

\* The marks of a transaction.
LEMMA CommitMoves ==
    ASSUME NInv, MadeInv, NEW w \in Workers, Commit(w)
    PROVE  Mail!Works
<1>0. made' = made /\ resends' = resends
  BY DEF Commit
<1>1. ASSUME NEW n \in Notes PROVE Mail!Moves(n)
  <2>1. CASE n \notin Handled(w)
    BY <1>0, <2>1, CommitRow, SamePhase DEF Mail!Moves
  <2>2. CASE n \in Handled(w)
    <3>1. n \in made /\ status[n] \in {"pending", "failed"} /\ n \notin dead
      BY <2>2 DEF Rows, NInv, AsClaimed, MadeInv
    <3>2. /\ status'[n] \in {"sent", "failed", "suppressed"}
          /\ attempts'[n] \in {attempts[n], attempts[n] + 1}
          /\ status'[n] = "failed" => attempts'[n] = attempts[n] + 1
          /\ n \in dead' => status'[n] = "failed" /\ attempts'[n] >= MaxAttempts
      BY <2>2, CommitRow
    <3>3. Phases[n] = "queued" /\ Phases'[n] = PhaseOf(n)'
      BY <3>1 DEF Phases, PhaseOf
    <3>4. CASE status'[n] \in {"sent", "suppressed"}
      <4>1. PhaseOf(n)' = status'[n]
        BY <1>0, <3>1, <3>2, <3>4 DEF PhaseOf
      <4> QED BY <3>2, <3>3, <3>4, <4>1 DEF Mail!Moves, Mail!Settled
    <3>5. CASE status'[n] = "failed" /\ n \notin dead'
      <4>1. PhaseOf(n)' = "queued"
        BY <1>0, <3>1, <3>5 DEF PhaseOf
      <4> QED BY <3>2, <3>3, <3>5, <4>1 DEF Mail!Moves, Mail!Fails
    <3>6. CASE n \in dead'
      <4>1. PhaseOf(n)' = "dead"
        BY <1>0, <3>1, <3>6 DEF PhaseOf
      <4> QED BY <3>2, <3>3, <3>6, <4>1 DEF Mail!Moves, Mail!GivenUp
    <3> QED BY <3>2, <3>4, <3>5, <3>6
  <2> QED BY <2>1, <2>2
<1> QED BY <1>0, <1>1 DEF Mail!Works

\* The administrator's resend.
LEMMA ResendMoves ==
    ASSUME NInv, NEW n \in Notes, Resend(n)
    PROVE  Mail!QueuesAgain(n)
<1>1. /\ n \in made /\ made' = made /\ dead' = dead \ {n} /\ attempts' = attempts /\ resends' = resends + 1
      /\ status'[n] = "pending" /\ \A x \in Notes \ {n} : status'[x] = status[x]
  BY DEF Resend, NInv, NTypeOK
<1>2. \A x \in Notes \ {n} : Mail!Stays(x)
  BY <1>1, SamePhase
<1>3. PhaseOf(n) # "none" /\ PhaseOf(n)' = "queued"
  BY <1>1 DEF PhaseOf, NInv, NTypeOK
<1>4. Phases[n] = PhaseOf(n) /\ Phases'[n] = PhaseOf(n)'
  BY DEF Phases
<1> QED BY <1>1, <1>2, <1>3, <1>4 DEF Mail!QueuesAgain

\* The workers implement the delivery: a row is given up only when it has had its
\* attempts, and what was sent, suppressed or dead-lettered is worked on again only
\* when an administrator queues it (docs/notifications.md:34 and :39).
THEOREM DeliveryKept == Spec => ImplementsDelivery
<1>1. Init => Mail!Init /\ MadeInv
  <2> SUFFICES ASSUME Init PROVE Mail!Init /\ MadeInv
    OBVIOUS
  <2>1. \A w \in Workers : Rows(w) = {}
    BY DEF Init, Rows, Handled, Idle
  <2>2. MadeInv
    BY <2>1, NotificationAssumptions DEF NotificationAssumptions, Init, MadeInv
  <2>3. Phases = [n \in Notes |-> "none"]
    BY DEF Init, Phases, PhaseOf
  <2> QED BY <2>2, <2>3 DEF Init, Mail!Init
<1>2. NInv /\ MadeInv /\ [Next]_vars => MadeInv'
  BY MadeStep, NotificationAssumptions
<1>3. NInv /\ MadeInv /\ [Next]_vars => [Mail!Next]_(Mail!vars)
  <2> SUFFICES ASSUME NInv, MadeInv, [Next]_vars PROVE [Mail!Next]_(Mail!vars)
    OBVIOUS
  <2>1. CASE UNCHANGED <<made, status, attempts, dead, resends>>
    <3>1. Phases' = Phases
      BY <2>1 DEF Phases, PhaseOf
    <3> QED BY <2>1, <3>1 DEF Mail!vars
  <2>2. Next => \/ UNCHANGED <<made, status, attempts, dead, resends>>
                \/ \E n \in Notes : Enqueue(n) \/ Resend(n)
                \/ \E w \in Workers : Commit(w)
    BY DEF Next, RetryDue, ChangeConsent, Dispatch, Crash, AttemptCollides, Claim, Deliver, rowVars
  <2> QED BY <2>1, <2>2, EnqueueMoves, CommitMoves, ResendMoves, NotificationAssumptions
          DEF Mail!Next, vars, rowVars
<1> QED BY <1>1, <1>2, <1>3, NInvAlways, PTL DEF Spec, ImplementsDelivery, Mail!Spec
=============================================================================
