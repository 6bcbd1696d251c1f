------------------------------ MODULE PlanFlow -------------------------------
(* The page that plans a day, apps/web/src/components/plan/plan-flow.tsx with the
   timeline and the replacement panel of planner-view.tsx and the day check of
   day-panel.tsx, over PlanSessions.  An answer is handled whenever it comes; only
   some controls are off while the page is waiting for one. *)
EXTENDS PlanSessions

CONSTANTS
    Nowhere,        \* no day was checked yet
    Tabs,           \* the tabs on the page; a plan that is reopened has none
    MaxAsked        \* bound on the day checks that are out at a time

Modes == {"ai", "manual"}

ASSUME FlowAssumptions == Tabs \subseteq Modes /\ MaxAsked \in Nat

VARIABLES
    mode, step,
    shown,          \* session and version on the page
    asks,           \* the session has questions for the traveller
    pending,
    manualTrip,     \* the trip a manual plan is saved to
    picks, details, \* the day in the builder
    accept,         \* acceptWarnings
    replacing,      \* replaceStopId
    preview,        \* the preview_id in the panel
    check           \* useDayCheck: what it knows, waits for and shows

reviewVars  == <<shown, asks, pending, manualTrip, replacing, preview>>
builderVars == <<picks, details, accept, check>>
vars == <<planVars, mode, step, reviewVars, builderVars>>

Steps == {"destination", "details", "places", "review"}
NoSessionShown == [sid |-> NoSession, ver |-> 0]
Today == [picks |-> picks, details |-> details]
Days == [picks : Orders, details : Details]

TypeOK ==
    /\ PlanTypeOK
    /\ mode \in Modes /\ step \in Steps
    /\ shown.sid \in Sessions \cup {NoSession} /\ shown.ver \in 0..Len(versions)
    /\ asks \in BOOLEAN /\ pending \in BOOLEAN /\ accept \in BOOLEAN
    /\ manualTrip \in Trips \cup {NoTrip}
    /\ picks \in Orders /\ details \in Details
    /\ replacing \in Stops /\ preview \in 0..Len(previews)
    /\ check.of \in Days \cup {Nowhere} /\ check.asking \subseteq Days
    /\ check.waiting \in BOOLEAN /\ check.checking \in BOOLEAN /\ check.failed \in BOOLEAN

-----------------------------------------------------------------------------
(* The day check: one effect per day, a timer and then a request; an effect that
   is replaced aborts its own. *)

\* The day changes to (p, d): the old effect is aborted and a timer started.
Changes(p, d) ==
    /\ picks' = p /\ details' = d
    /\ check' = IF p = picks /\ d = details THEN check
                ELSE [check EXCEPT !.waiting = p # <<>>, !.live = FALSE]

Ask ==
    /\ check.waiting /\ Cardinality(check.asking) < MaxAsked
    /\ check' = [check EXCEPT !.waiting = FALSE, !.checking = TRUE, !.live = TRUE,
                              !.asking = @ \cup {Today}]
    /\ UNCHANGED <<planVars, mode, step, reviewVars, picks, details, accept>>

\* Mutant: an answer is taken without looking whether its effect was aborted.
NeverAborted(d) == d \in check.asking
StillWanted(d) == check.live /\ d = Today

CheckAnswers(d) ==
    /\ d \in check.asking
    /\ \/ check' = IF StillWanted(d)
                     THEN [check EXCEPT !.asking = @ \ {d}, !.of = d, !.failed = FALSE,
                                        !.checking = FALSE, !.live = FALSE]
                     ELSE [check EXCEPT !.asking = @ \ {d}]
       \/ check' = IF StillWanted(d)
                     THEN [check EXCEPT !.asking = @ \ {d}, !.failed = TRUE,
                                        !.checking = FALSE, !.live = FALSE]
                     ELSE [check EXCEPT !.asking = @ \ {d}]
    /\ UNCHANGED <<planVars, mode, step, reviewVars, picks, details, accept>>

\* The last answer stays on the page until the next one, but never without picks.
DayBlocked ==
    /\ picks # <<>> /\ check.of # Nowhere
    /\ <<check.of.picks, check.of.details>> \in Blocked

-----------------------------------------------------------------------------
(* The builder. *)

InBuilder == step = "places" /\ mode = "manual"

\* togglePick, movePick, applyOrder, keepFirstDay and clearPicks.
ChangePicks(p) ==
    /\ InBuilder /\ p # picks
    /\ Changes(p, details)
    /\ accept' = FALSE
    /\ UNCHANGED <<planVars, mode, step, reviewVars>>

\* The date and the group, which leave the acceptance of warnings alone.
ChangeDetails(d) ==
    /\ step = "details" /\ d # details
    /\ Changes(picks, d)
    /\ UNCHANGED <<planVars, mode, step, reviewVars, accept>>

AcceptWarnings ==
    /\ InBuilder /\ DayBlocked /\ ~accept
    /\ accept' = TRUE
    /\ UNCHANGED <<planVars, mode, step, reviewVars, picks, details, check>>

SaveManual(q) ==
    /\ InBuilder /\ picks # <<>> /\ ~pending /\ (DayBlocked => accept)
    /\ Arrive(q, "manual", NoSession,
           [NoArgs EXCEPT !.picks = picks, !.details = details, !.trip = manualTrip, !.flag = accept])
    /\ shown' = NoSessionShown /\ asks' = FALSE /\ step' = "review" /\ pending' = TRUE
    /\ UNCHANGED <<mode, manualTrip, replacing, preview, builderVars>>

-----------------------------------------------------------------------------
(* The steps of the page.  None of them asks the server for the plan. *)

Forget == /\ manualTrip' = NoTrip /\ accept' = FALSE
          /\ shown' = NoSessionShown /\ asks' = FALSE
          /\ Changes(<<>>, details)

Goto(to) ==
    /\ \/ step = "destination" /\ to = "details"
       \/ step = "details" /\ to \in {"destination"} \cup (IF mode = "manual" THEN {"places"} ELSE {})
       \/ step = "places" /\ to = "details"
       \/ step = "review" /\ shown.ver # 0 /\ mode = "manual" /\ to = "places"
       \/ step = "review" /\ shown.ver = 0 /\ ~pending /\ to = "details"
    /\ step' = to
    /\ UNCHANGED <<planVars, mode, reviewVars, builderVars>>

\* "Pick places yourself", where no plan came.
TakeOver ==
    /\ step = "review" /\ shown.ver = 0 /\ ~pending /\ mode = "ai"
    /\ mode' = "manual" /\ step' = "places"
    /\ UNCHANGED <<planVars, reviewVars, builderVars>>

StartOver ==
    /\ step = "review" /\ ~pending
    /\ Forget /\ replacing' = NoStop /\ preview' = 0
    /\ step' = "destination"
    /\ UNCHANGED <<planVars, mode, pending>>

SwitchMode(m) ==
    /\ m # mode /\ ~pending
    /\ Forget /\ mode' = m /\ step' = "destination"
    /\ UNCHANGED <<planVars, pending, replacing, preview>>

-----------------------------------------------------------------------------
(* What the review asks of the server. *)

Reviewing == step = "review" /\ shown.ver # 0 /\ shown.sid # NoSession

\* run: the page waits; presses that are not disabled meanwhile come here as well.
Runs(q, kind, s, args) ==
    /\ Arrive(q, kind, s, args)
    /\ pending' = TRUE

Generate(q) ==
    /\ step = "details" /\ mode = "ai" /\ ~pending
    /\ Runs(q, "create", NoSession, NoArgs)
    /\ shown' = NoSessionShown /\ asks' = FALSE /\ step' = "review"
    /\ UNCHANGED <<mode, manualTrip, replacing, preview, builderVars>>

Clarify(q) ==
    /\ step = "review" /\ shown.ver = 0 /\ ~pending /\ asks
    /\ Runs(q, "clarify", shown.sid, NoArgs)
    /\ UNCHANGED <<mode, step, shown, asks, manualTrip, replacing, preview, builderVars>>

PressRegenerate(q) ==
    /\ Reviewing /\ ~pending
    /\ Runs(q, "regenerate", shown.sid, NoArgs)
    /\ UNCHANGED <<mode, step, shown, asks, manualTrip, replacing, preview, builderVars>>

\* The lock of a stop is not off while the page is waiting.
PressLock(q, x) ==
    /\ Reviewing /\ x \in versions[shown.ver].places
    /\ Runs(q, "lock", shown.sid,
           [NoArgs EXCEPT !.stop = [version |-> shown.ver, place |-> x],
                          !.flag = x \notin versions[shown.ver].locked])
    /\ UNCHANGED <<mode, step, shown, asks, manualTrip, replacing, preview, builderVars>>

OpenReplace(x) ==
    /\ Reviewing /\ x \in versions[shown.ver].places
    /\ replacing # [version |-> shown.ver, place |-> x]
    /\ replacing' = [version |-> shown.ver, place |-> x]
    /\ UNCHANGED <<planVars, mode, step, shown, asks, pending, manualTrip, preview, builderVars>>

CloseReplace ==
    /\ Reviewing /\ replacing # NoStop
    /\ replacing' = NoStop /\ preview' = 0
    /\ UNCHANGED <<planVars, mode, step, shown, asks, pending, manualTrip, builderVars>>

\* The panel stays open after a change: its stop and preview may be old.
PressPreview(q, to) ==
    /\ Reviewing /\ replacing # NoStop
    /\ Arrive(q, "preview", shown.sid, [NoArgs EXCEPT !.stop = replacing, !.to = to])
    /\ UNCHANGED <<mode, step, reviewVars, builderVars>>

PressAccept(q) ==
    /\ Reviewing /\ replacing # NoStop /\ preview # 0
    /\ Runs(q, "accept", shown.sid, [NoArgs EXCEPT !.pid = preview])
    /\ UNCHANGED <<mode, step, shown, asks, manualTrip, replacing, preview, builderVars>>

PressCancel(q) ==
    /\ Reviewing /\ replacing # NoStop /\ preview # 0
    /\ Arrive(q, "cancel", shown.sid, NoArgs)
    /\ UNCHANGED <<mode, step, reviewVars, builderVars>>

\* applyRefine, first half: the words are read before anything is applied.
PressRefine(q) ==
    /\ Reviewing /\ ~pending
    /\ Runs(q, "understand", shown.sid, NoArgs)
    /\ UNCHANGED <<mode, step, shown, asks, manualTrip, replacing, preview, builderVars>>

\* editManually: the places of the plan are looked up one by one.
PressEdit(q) ==
    /\ step = "review" /\ mode = "ai" /\ shown.ver # 0 /\ ~pending
    /\ Runs(q, "edit", NoSession, [NoArgs EXCEPT !.stop = [version |-> shown.ver, place |-> NoPlace]])
    /\ UNCHANGED <<mode, step, shown, asks, manualTrip, replacing, preview, builderVars>>

-----------------------------------------------------------------------------
(* Answers. *)

Done(q) == request' = [request EXCEPT ![q] = [Idle EXCEPT !.stage = "done"]]
Answered(q, kinds) == request[q].stage = "answered" /\ request[q].kind \in kinds

RunKinds == {"create", "clarify", "regenerate", "lock", "accept", "refine", "manual"}

\* What it shows of an answer is on the page; it goes on waiting for the versions of
\* the trip, or the places of the towns.
Follows(q) == request' = [request EXCEPT ![q] = [Idle EXCEPT !.stage = "following"]]

\* setSession(next), whatever the page shows by now.
Receive(q) ==
    /\ Answered(q, RunKinds) /\ request[q].answer.ok
    /\ LET a == request[q].answer IN
        /\ shown' = [sid |-> a.sid, ver |-> a.ver] /\ asks' = a.asks
        /\ manualTrip' = IF a.ver = 0 THEN manualTrip ELSE versions[a.ver].trip
        /\ IF a.ver = 0 THEN Done(q) /\ pending' = FALSE ELSE Follows(q) /\ pending' = pending
    /\ UNCHANGED <<versions, session, previews, mode, step, replacing, preview, builderVars>>

\* An error ends the wait, of runs and of the reading that comes before a refinement.
ReceiveError(q) ==
    /\ Answered(q, RunKinds \cup {"understand"}) /\ ~request[q].answer.ok
    /\ Done(q) /\ pending' = FALSE
    /\ UNCHANGED <<versions, session, previews, mode, step, shown, asks, manualTrip,
                   replacing, preview, builderVars>>

\* The connection breaks while the server is at work, which goes on.
BreaksOff(q) ==
    /\ request[q].stage = "read"
    /\ IF request[q].kind = "edit" THEN Done(q)
       ELSE request' = [request EXCEPT ![q] = [@ EXCEPT !.stage = "orphaned"]]
    /\ pending' = IF request[q].kind \in {"preview", "cancel"} THEN pending ELSE FALSE
    /\ UNCHANGED <<versions, session, previews, mode, step, shown, asks, manualTrip,
                   replacing, preview, builderVars>>

\* Mutant: what was not understood returns without ending the wait.
WaitOn == pending
WaitEnds == FALSE

\* applyRefine, second half.
Understood(q) ==
    /\ Answered(q, {"understand"}) /\ request[q].answer.ok
    /\ IF request[q].answer.asks
         THEN Done(q) /\ pending' = WaitEnds
         ELSE /\ request' = [request EXCEPT ![q] =
                     [Idle EXCEPT !.stage = "read", !.kind = "refine", !.sid = request[q].sid,
                                  !.snap = session[request[q].sid]]]
              /\ pending' = TRUE
    /\ UNCHANGED <<versions, session, previews, mode, step, shown, asks, manualTrip,
                   replacing, preview, builderVars>>

ReceivePreview(q) ==
    /\ Answered(q, {"preview", "cancel"})
    /\ preview' = IF request[q].answer.ok THEN request[q].answer.pid ELSE preview
    /\ Done(q)
    /\ UNCHANGED <<versions, session, previews, mode, step, shown, asks, pending, manualTrip,
                   replacing, builderVars>>

\* The plan it began with is edited; those of its places that were found, in order.
StartEditing(q, found) ==
    /\ request[q].stage = "read" /\ request[q].kind = "edit"
    /\ LET v == request[q].args.stop.version IN
        /\ found # <<>> /\ Picked(found) \subseteq versions[v].places
        /\ \E d \in Details : Changes(found, d)
        /\ manualTrip' = versions[v].trip
    /\ mode' = "manual" /\ step' = "places" /\ accept' = FALSE
    /\ Follows(q) /\ pending' = pending
    /\ UNCHANGED <<versions, session, previews, shown, asks, replacing, preview>>

\* fetchTripVersions or openPlaces has come back, or failed.
FollowedUp(q) ==
    /\ request[q].stage = "following"
    /\ Done(q) /\ pending' = FALSE
    /\ UNCHANGED <<versions, session, previews, mode, step, shown, asks, manualTrip,
                   replacing, preview, builderVars>>

-----------------------------------------------------------------------------
Init ==
    /\ PlanInit
    /\ mode = "ai" /\ step = "destination"
    /\ shown = NoSessionShown /\ asks = FALSE /\ pending = FALSE
    /\ manualTrip = NoTrip
    /\ picks = <<>> /\ details = NoArgs.details /\ accept = FALSE
    /\ replacing = NoStop /\ preview = 0
    /\ check = [of |-> Nowhere, asking |-> {}, waiting |-> FALSE, checking |-> FALSE,
                failed |-> FALSE, live |-> FALSE]

BuilderNext ==
    \/ Ask \/ AcceptWarnings
    \/ \E d \in Days : CheckAnswers(d)
    \/ \E p \in Orders : ChangePicks(p)
    \/ \E d \in Details : ChangeDetails(d)

PageNext ==
    \/ TakeOver \/ StartOver \/ CloseReplace
    \/ \E to \in Steps : Goto(to)
    \/ \E m \in Tabs : SwitchMode(m)
    \/ \E x \in Places : OpenReplace(x)

RequestNext(q) ==
    \/ SaveManual(q) \/ Generate(q) \/ Clarify(q) \/ PressRegenerate(q)
    \/ PressAccept(q) \/ PressCancel(q) \/ PressRefine(q) \/ PressEdit(q)
    \/ \E x \in Places : PressLock(q, x) \/ PressPreview(q, x)
    \/ Receive(q) \/ ReceiveError(q) \/ BreaksOff(q) \/ Understood(q) \/ ReceivePreview(q)
    \/ FollowedUp(q) \/ \E found \in Orders : StartEditing(q, found)
    \/ Serve(q) /\ UNCHANGED <<mode, step, reviewVars, builderVars>>

Next == BuilderNext \/ PageNext \/ \E q \in Requests : RequestNext(q)

Spec == Init /\ [][Next]_vars

-----------------------------------------------------------------------------
(* Properties. *)

\* Accepting a replacement (accept_replace) seals what was previewed: with the locks
\* of the preview and from the version it was made on, however many changes came in
\* between, unless the session's whole day was told anew (start_or_continue).
AcceptIsPreviewed ==
    \A v \in 1..Len(versions) : versions[v].via # 0 =>
        LET base == versions[v].base
            promise == previews[versions[v].via] IN
        /\ versions[v].asked = promise.locks
        /\ base = promise.base \/ versions[base].base = 0

\* The page never waits for nothing: while its controls are off, an answer is on
\* its way (run, applyRefine and editManually have five places that end a wait).
PendingMeansBusy ==
    pending => \E q \in Requests :
        request[q].stage \in {"read", "answered", "following"} /\ request[q].kind \notin {"preview", "cancel"}

\* At rest the builder's verdict is about the day on the page, not an earlier one
\* (useDayCheck).
CheckIsOfTheDay ==
    picks # <<>> /\ ~check.waiting /\ ~check.checking /\ ~check.failed => check.of = Today
=============================================================================
