---------------------------- MODULE PlanSessions -----------------------------
(* The planner's sessions and the versions they seal: services/api/app/planner
   pipeline.py, manual.py and persist.py over migrations 018 and 057.  A request
   reads the session row when it arrives and writes versions and row at its
   commit; nothing is locked in between, so several may be at work on one
   session.  What the optimizer makes of the catalogue is any set of places that
   honours the exclusions. *)
EXTENDS Naturals, Sequences, FiniteSets

CONSTANTS
    Places,         \* published experiences
    Details,        \* what a day's date, group and budget may be
    Blocked,        \* days (ordered picks, details) the feasibility check refuses
    Sessions, Trips,
    Requests,       \* bound: the requests that are made
    MaxStops,       \* bound on the stops of a plan
    MaxVersions,    \* bound on sealed versions
    MaxPreviews,    \* bound on replacement previews
    NoPlace, NoSession, NoTrip

\* The orders in which a set of places, or any of them, can be picked.
OrdersOf(S) == {o \in [1..Cardinality(S) -> S] : \A i, j \in DOMAIN o : o[i] = o[j] => i = j}
Orders == UNION {OrdersOf(S) : S \in SUBSET Places}

ASSUME PlannerAssumptions ==
    /\ Details # {} /\ NoPlace \notin Places /\ NoSession \notin Sessions /\ NoTrip \notin Trips
    /\ Blocked \subseteq Orders \X Details
    /\ MaxStops \in Nat /\ MaxVersions \in Nat /\ MaxPreviews \in Nat

VARIABLES
    versions,   \* the sealed trip_versions, in the order they were sealed
    session,    \* planner_sessions
    previews,   \* what each preview_id promised
    request     \* the requests under way and the answers on their way back

planVars == <<versions, session, previews, request>>

Numbers == 0..MaxVersions
NoPending == [kind |-> "none", pid |-> 0, locks |-> {}, out |-> {}]
NoRow == [status |-> "none", trip |-> NoTrip, cur |-> 0, pending |-> NoPending]
NoStop == [version |-> 0, place |-> NoPlace]
NoArgs == [stop |-> NoStop, to |-> NoPlace, pid |-> 0, flag |-> FALSE,
           picks |-> <<>>, details |-> CHOOSE d \in Details : TRUE, trip |-> NoTrip]
NoAnswer == [ok |-> FALSE, sid |-> NoSession, ver |-> 0, pid |-> 0, asks |-> FALSE]
Idle == [stage |-> "idle", kind |-> "none", sid |-> NoSession, snap |-> NoRow,
         args |-> NoArgs, answer |-> NoAnswer]

Kinds == {"none", "create", "clarify", "regenerate", "lock", "preview", "accept",
          "cancel", "understand", "refine", "manual", "edit"}
Pendings == [kind : {"none", "replace", "refine"}, pid : 0..MaxPreviews,
             locks : SUBSET Places, out : SUBSET Places]
Rows == [status : {"none", "planned", "infeasible"}, trip : Trips \cup {NoTrip},
         cur : Numbers, pending : Pendings]
Stops == [version : Numbers, place : Places \cup {NoPlace}]
Versions == [trip : Trips, places : (SUBSET Places) \ {{}}, locked : SUBSET Places,
             asked : SUBSET Places, base : Numbers, via : 0..MaxPreviews]

PlanTypeOK ==
    /\ Len(versions) <= MaxVersions /\ \A v \in 1..Len(versions) : versions[v] \in Versions
    /\ session \in [Sessions -> Rows]
    /\ Len(previews) <= MaxPreviews
    /\ \A p \in 1..Len(previews) : previews[p] \in [base : Numbers, locks : SUBSET Places]
    /\ DOMAIN request = Requests
    /\ \A q \in Requests :
        /\ request[q].stage \in {"idle", "read", "orphaned", "answered", "following", "done"} /\ request[q].kind \in Kinds
        /\ request[q].sid \in Sessions \cup {NoSession} /\ request[q].snap \in Rows
        /\ request[q].answer.ver \in 0..Len(versions)
        /\ request[q].answer.pid \in 0..Len(previews)

-----------------------------------------------------------------------------
\* The stops of a version have identities of their own, so a stop names its version.
IsStopOf(stop, v) == v # 0 /\ stop.version = v /\ stop.place \in versions[v].places
Locked(v) == IF v = 0 THEN {} ELSE versions[v].locked
Unlocked(v) == IF v = 0 THEN {} ELSE versions[v].places \ versions[v].locked

\* assemble_plan: locked places first, then any others that are not excluded; a
\* locked place may turn out not to fit.  No stop at all is "infeasible".
\* Mutant: a plan without stops is sealed as well.
BuildsNothing(locks, out) ==
    {B \in SUBSET ((Places \ out) \cup locks) : Cardinality(B) <= MaxStops}
Builds(locks, out) ==
    {B \in SUBSET ((Places \ out) \cup locks) : Cardinality(B) \in 1..MaxStops}

UsedTrips == {versions[v].trip : v \in 1..Len(versions)} \cup {session[s].trip : s \in Sessions}
TripFor(trip) == IF trip # NoTrip THEN {trip} ELSE Trips \ UsedTrips

Seal(version) == /\ Len(versions) < MaxVersions
                 /\ versions' = Append(versions, version)

Reading(q) == request[q].stage \in {"read", "orphaned"}

\* Nobody hears the answer to a request whose connection broke.
Answer(q, a) == request' = [request EXCEPT ![q] =
    IF request[q].stage = "orphaned" THEN [Idle EXCEPT !.stage = "done"]
    ELSE [Idle EXCEPT !.stage = "answered", !.kind = request[q].kind, !.sid = request[q].sid,
                      !.answer = a]]
\* Mutant: a new version leaves the replacement that was previewed acceptable.
KeepPending(q) == request[q].snap.pending
PendingAfter(q) == NoPending

Ready(q, kind) == Reading(q) /\ request[q].kind = kind

\* A version made from version base (0: from the traveller's words alone) is sealed
\* for session s and becomes its current one.
SealFor(q, s, base, locks, out, via, pending) ==
    \E B \in Builds(locks, out), t \in TripFor(request[q].snap.trip) :
        /\ Seal([trip |-> t, places |-> B, locked |-> B \cap locks, asked |-> locks,
                 base |-> base, via |-> via])
        /\ session' = [session EXCEPT ![s] =
               [status |-> "planned", trip |-> t, cur |-> Len(versions'), pending |-> pending]]
        /\ Answer(q, [NoAnswer EXCEPT !.ok = TRUE, !.sid = s, !.ver = Len(versions')])
        /\ UNCHANGED previews

\* planner_upsert_session with what the request read, but for the pending action.
WriteBack(s, row, pending) ==
    session' = [session EXCEPT ![s] =
        [row EXCEPT !.pending = pending,
                    !.trip = IF row.trip = NoTrip THEN session[s].trip ELSE row.trip,
                    !.cur = IF row.cur = 0 THEN session[s].cur ELSE row.cur]]

\* "infeasible": the page hears of no plan, whatever the session still has.
NoPlan(q, s, asks) == Answer(q, [NoAnswer EXCEPT !.ok = TRUE, !.sid = s, !.asks = asks])

-----------------------------------------------------------------------------
(* The operations. *)

\* start_or_continue, for a new session and for the answers to its questions; it
\* alone keeps the pending action of the session it plans anew.
StartOrContinue(q) ==
    \E s \in Sessions :
        /\ \/ Ready(q, "create") /\ session[s].status = "none"
           \/ Ready(q, "clarify") /\ s = request[q].sid
        /\ \/ SealFor(q, s, 0, {}, {}, 0, request[q].snap.pending)
           \/ /\ WriteBack(s, [request[q].snap EXCEPT !.status = "infeasible", !.cur = 0], NoPending)
              /\ \E asks \in BOOLEAN : NoPlan(q, s, asks)
              /\ UNCHANGED <<versions, previews>>

Regenerate(q) ==
    /\ Ready(q, "regenerate")
    /\ LET r == request[q] IN
        \/ SealFor(q, r.sid, r.snap.cur, Locked(r.snap.cur), Unlocked(r.snap.cur), 0, PendingAfter(q))
        \/ NoPlan(q, r.sid, FALSE) /\ UNCHANGED <<versions, session, previews>>

SetLock(q) ==
    /\ Ready(q, "lock")
    /\ LET r == request[q]
           locks == IF r.args.flag THEN Locked(r.snap.cur) \cup {r.args.stop.place}
                                   ELSE Locked(r.snap.cur) \ {r.args.stop.place}
       IN  /\ IsStopOf(r.args.stop, r.snap.cur)
           /\ \/ SealFor(q, r.sid, r.snap.cur, locks, {}, 0, PendingAfter(q))
              \/ NoPlan(q, r.sid, FALSE) /\ UNCHANGED <<versions, session, previews>>

\* preview_replace: the answer promises the locks it stores with the preview.
PreviewReplace(q) ==
    /\ Ready(q, "preview") /\ Len(previews) < MaxPreviews
    /\ LET r     == request[q]
           gone  == r.args.stop.place
           locks == (Locked(r.snap.cur) \ {gone}) \cup {r.args.to}
           pid   == Len(previews) + 1
       IN  /\ IsStopOf(r.args.stop, r.snap.cur)
           /\ previews' = Append(previews, [base |-> r.snap.cur, locks |-> locks])
           /\ WriteBack(r.sid, r.snap, [kind |-> "replace", pid |-> pid, locks |-> locks,
                                        out |-> Unlocked(r.snap.cur) \ {gone}])
           /\ Answer(q, [NoAnswer EXCEPT !.ok = TRUE, !.sid = r.sid, !.pid = pid])
           /\ UNCHANGED versions

\* accept_replace seals without asking whether the plan is feasible; an empty one
\* is refused by planner_persist_version.
AcceptReplace(q) ==
    /\ Ready(q, "accept")
    /\ LET r == request[q] IN
        /\ r.snap.pending.kind = "replace" /\ r.snap.pending.pid = r.args.pid
        /\ SealFor(q, r.sid, r.snap.cur, r.snap.pending.locks, r.snap.pending.out, r.args.pid, NoPending)

CancelReplace(q) ==
    /\ Ready(q, "cancel")
    /\ WriteBack(request[q].sid, request[q].snap, NoPending)
    /\ Answer(q, [NoAnswer EXCEPT !.ok = TRUE, !.sid = request[q].sid])
    /\ UNCHANGED <<versions, previews>>

\* refine_preview: what is not understood clears the pending action as well.
RefinePreview(q) ==
    /\ Ready(q, "understand")
    /\ \E understood \in BOOLEAN :
        /\ WriteBack(request[q].sid, request[q].snap,
               IF understood THEN [NoPending EXCEPT !.kind = "refine"] ELSE NoPending)
        /\ Answer(q, [NoAnswer EXCEPT !.ok = TRUE, !.sid = request[q].sid, !.asks = ~understood])
    /\ UNCHANGED <<versions, previews>>

\* refine_apply builds without any locks.
RefineApply(q) ==
    /\ Ready(q, "refine") /\ request[q].snap.pending.kind = "refine"
    /\ \/ SealFor(q, request[q].sid, request[q].snap.cur, {}, {}, 0, NoPending)
       \/ NoPlan(q, request[q].sid, FALSE) /\ UNCHANGED <<versions, session, previews>>

Picked(order) == {order[i] : i \in DOMAIN order}

\* build_manual: a day the check refuses is sealed only with its warnings accepted.
BuildManual(q) ==
    /\ Ready(q, "manual")
    /\ LET a == request[q].args IN
        /\ <<a.picks, a.details>> \in Blocked => a.flag
        /\ \E t \in TripFor(a.trip) :
            Seal([trip |-> t, places |-> Picked(a.picks), locked |-> {}, asked |-> {}, base |-> 0, via |-> 0])
        /\ Answer(q, [NoAnswer EXCEPT !.ok = TRUE, !.ver = Len(versions')])
        /\ UNCHANGED <<session, previews>>

\* A guard that fails or a limit that is reached; or an answer that is lost.
Fails(q) ==
    /\ \/ Reading(q) /\ request[q].kind # "edit"
       \/ request[q].stage = "answered" /\ request[q].answer.ok
    /\ Answer(q, NoAnswer)
    /\ UNCHANGED <<versions, session, previews>>

Serve(q) ==
    \/ StartOrContinue(q) \/ Regenerate(q) \/ SetLock(q)
    \/ PreviewReplace(q) \/ AcceptReplace(q) \/ CancelReplace(q)
    \/ RefinePreview(q) \/ RefineApply(q) \/ BuildManual(q)
    \/ Fails(q)

PlanInit ==
    /\ versions = <<>> /\ previews = <<>>
    /\ session = [s \in Sessions |-> NoRow]
    /\ request = [q \in Requests |-> Idle]

\* A request arrives and reads the row of its session.
Arrive(q, kind, s, args) ==
    /\ request[q].stage = "idle"
    /\ request' = [request EXCEPT ![q] =
           [stage |-> "read", kind |-> kind, sid |-> s,
            snap |-> IF s = NoSession THEN NoRow ELSE session[s],
            args |-> args, answer |-> NoAnswer]]
    /\ UNCHANGED <<versions, session, previews>>
=============================================================================
