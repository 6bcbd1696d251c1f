---------------------------- MODULE Announcements ----------------------------
(* What notify_booking_row (062, over 020) tells whom: the trigger on app.bookings
   joined to every step of Bookings.  A booking moved by a tour's reschedule is
   left out, as tours are. *)
EXTENDS Bookings

VARIABLES
    told,       \* pairs of a booking and an event emitted for it
    repeated    \* those of them that were emitted more than once

annVars == <<vars, told, repeated>>

\* The writes of k's row in one step, as pairs of the old and the new status: the
\* trigger fires for each of them.
RowWrites(k) ==
    LET from == status[k]
        to == status'[k]
        through == IF to = "confirmed" /\ from \in {"none", "draft"} THEN {"pending"}
                   ELSE IF to = "refunded" /\ from # "cancelled" THEN {"cancelled"} ELSE {}
    IN  IF from = to THEN {}
        ELSE IF through = {} THEN {<<from, to>>}
        ELSE ({from} \X through) \cup (through \X {to})

\* Mutant: the trigger before 062, which passed over a lapsed request.
EventsBefore062(from, to, m) ==
    IF from = "none" /\ to = "pending"
    THEN {"booking.requested", "business.booking.requested"}
    ELSE {to} \cap {"confirmed", "rejected", "cancelled"}

\* Mutant: the money returned is announced as a cancellation.
EventsOfRefunds(from, to, m) ==
    IF from = "none" /\ to = "pending"
    THEN {"booking.requested", "business.booking.requested"}
    ELSE {IF to = "refunded" THEN "cancelled" ELSE to}
            \cap ({"confirmed", "rejected", "cancelled"}
                        \cup (IF from # "none" /\ m = "request" THEN {"expired"} ELSE {}))

\* notify_booking_row on a write, for a booking of mode m; the event booking.<status>
\* is named by the status.
Events(from, to, m) ==
    IF from = "none" /\ to = "pending"
    THEN {"booking.requested", "business.booking.requested"}
    ELSE {to} \cap ({"confirmed", "rejected", "cancelled"}
                        \cup (IF from # "none" /\ m = "request" THEN {"expired"} ELSE {}))

\* What the writes of k's row in one step emit; no two of them the same event.
EventsOf(k) == UNION {Events(x[1], x[2], mode'[k]) : x \in RowWrites(k)}

Announce ==
    LET emitted == UNION {{k} \X EventsOf(k) : k \in Keys}
    IN  /\ told' = told \cup emitted
        /\ repeated' = repeated \cup (told \cap emitted)

AnnInit == Init /\ told = {} /\ repeated = {}
AnnSpec == AnnInit /\ [][Next /\ Announce]_annVars

-----------------------------------------------------------------------------
(* Properties. *)

\* backlog NTF.2 and the trigger's comment "An unanswered request that lapses is
\* news too" (062:894): whichever of the business, the traveller, the
\* administrator, the provider or the sweep ended or confirmed a booking, the
\* traveller has been told so.
TravellerTold ==
    \A k \in Keys :
        /\ status[k] \in {"confirmed", "rejected", "cancelled"} => <<k, status[k]>> \in told
        /\ status[k] = "completed" => <<k, "confirmed">> \in told
        /\ status[k] = "refunded" => <<k, "cancelled">> \in told
        /\ status[k] = "expired" /\ mode[k] = "request" => <<k, "expired">> \in told

\* 020:402 and 020:498: an event's dedupe key is made of its name and booking, so a
\* second one of a name rewrites the row of the first and, if that was sent, reaches
\* nobody.  Whatever paths a booking takes (a cancellation that is refunded later, an
\* instant commit of two writes), the trigger never emits one of its events again;
\* and the business was asked about every booking that did not begin as a draft.
ToldOnce ==
    /\ repeated = {}
    /\ \A k \in Keys \ DraftKeys :
          status[k] # "none" => {k} \X {"booking.requested", "business.booking.requested"} \subseteq told
=============================================================================
