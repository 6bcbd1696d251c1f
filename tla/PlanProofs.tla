----------------------------- MODULE PlanProofs ------------------------------
(* The types of the planner and its page, what an accepted replacement seals, the
   page's waits and its day check, for every set of places, sessions and
   requests and every bound.  SessionsInv says of every row, the ones that
   requests have read included, that its pending replacement is one that was
   previewed: rows are written back from old copies, and the copies fit too. *)
EXTENDS PlanFlow, FiniteSetTheorems, TLAPS

Promises == [base : Numbers, locks : SUBSET Places]
ArgTypes == [stop : Stops, to : Places \cup {NoPlace}, pid : 0..MaxPreviews, flag : BOOLEAN,
             picks : Orders, details : Details, trip : Trips \cup {NoTrip}]
AnswerTypes == [ok : BOOLEAN, sid : Sessions \cup {NoSession}, ver : Numbers,
                pid : 0..MaxPreviews, asks : BOOLEAN]
RequestTypes == [stage : {"idle", "read", "orphaned", "answered", "following", "done"}, kind : Kinds,
                 sid : Sessions \cup {NoSession}, snap : Rows, args : ArgTypes,
                 answer : AnswerTypes]

\* A pending replacement was previewed, from the row's version or before the whole
\* day was told anew.
PendingFits(act, cur, vs, ps) ==
    act.kind = "replace" =>
        /\ act.pid \in 1..Len(ps) /\ cur # 0
        /\ act.locks = ps[act.pid].locks
        /\ cur = ps[act.pid].base \/ vs[cur].base = 0
Fits(row, vs, ps) == row.cur \in 0..Len(vs) /\ PendingFits(row.pending, row.cur, vs, ps)

\* A request holds a row that fits, and its answer names what there is.
Good(r, vs, ps) ==
    /\ Fits(r.snap, vs, ps)
    /\ r.answer.ver <= Len(vs) /\ r.answer.pid <= Len(ps)
    /\ r.kind = "understand" => r.sid \in Sessions
    /\ r.kind = "manual" /\ r.stage \in {"read", "orphaned"} => r.args.picks # <<>>
    /\ r.kind = "preview" /\ r.stage \in {"read", "orphaned"} => r.args.to \in Places
    /\ r.kind = "edit" /\ r.stage = "read" => r.args.stop.version \in 1..Len(vs)

Previewed(v, vs, ps) == v.via # 0 =>
    /\ v.via \in 1..Len(ps) /\ v.base \in 1..Len(vs)
    /\ v.asked = ps[v.via].locks
    /\ v.base = ps[v.via].base \/ vs[v.base].base = 0

Sealed ==
    /\ versions \in Seq(Versions) /\ Len(versions) <= MaxVersions
    /\ previews \in Seq(Promises) /\ Len(previews) <= MaxPreviews

SessionsInv ==
    /\ Sealed
    /\ session \in [Sessions -> Rows] /\ request \in [Requests -> RequestTypes]
    /\ \A s \in Sessions : Fits(session[s], versions, previews)
    /\ \A q \in Requests : Good(request[q], versions, previews)
    /\ \A v \in 1..Len(versions) : Previewed(versions[v], versions, previews)

-----------------------------------------------------------------------------
(* Versions and previews are only ever added. *)

Grows ==
    /\ Sealed'
    /\ Len(versions) <= Len(versions') /\ Len(previews) <= Len(previews')
    /\ \A v \in 1..Len(versions) : versions'[v] = versions[v]
    /\ \A p \in 1..Len(previews) : previews'[p] = previews[p]

\* What fits goes on fitting.
LEMMA FitsOn ==
    ASSUME Sealed, Grows
    PROVE  /\ \A row \in Rows : Fits(row, versions, previews) => Fits(row, versions', previews')
           /\ \A r \in RequestTypes : Good(r, versions, previews) => Good(r, versions', previews')
           /\ \A v \in Versions : Previewed(v, versions, previews) => Previewed(v, versions', previews')
<1>0. Len(versions) \in Nat /\ Len(versions') \in Nat /\ Len(previews) \in Nat /\ Len(previews') \in Nat
  BY DEF Sealed, Grows
<1>1. ASSUME NEW row \in Rows, Fits(row, versions, previews)
      PROVE  Fits(row, versions', previews')
  <2>1. row.cur \in 0..Len(versions')
    BY <1>0, <1>1 DEF Fits, Grows
  <2>2. row.cur # 0 => versions'[row.cur] = versions[row.cur]
    BY <1>0, <1>1 DEF Fits, Grows
  <2>3. row.pending.pid \in 1..Len(previews) => /\ previews'[row.pending.pid] = previews[row.pending.pid]
                                                /\ row.pending.pid \in 1..Len(previews')
    BY <1>0 DEF Grows
  <2> QED BY <1>1, <2>1, <2>2, <2>3 DEF Fits, PendingFits
<1>2. ASSUME NEW r \in RequestTypes, Good(r, versions, previews)
      PROVE  Good(r, versions', previews')
  <2>1. r.snap \in Rows /\ r.answer.ver \in Nat /\ r.answer.pid \in Nat
    BY DEF RequestTypes, AnswerTypes, Numbers
  <2>2. Fits(r.snap, versions', previews')
    BY <1>1, <1>2, <2>1 DEF Good
  <2>3. Len(versions) <= Len(versions') /\ Len(previews) <= Len(previews')
    BY DEF Grows
  <2> QED BY <1>0, <1>2, <2>1, <2>2, <2>3 DEF Good
<1>3. ASSUME NEW v \in Versions, Previewed(v, versions, previews)
      PROVE  Previewed(v, versions', previews')
  <2>1. v.via \in 1..Len(previews) => previews'[v.via] = previews[v.via] /\ v.via \in 1..Len(previews')
    BY <1>0 DEF Grows
  <2>2. v.base \in 1..Len(versions) => versions'[v.base] = versions[v.base] /\ v.base \in 1..Len(versions')
    BY <1>0 DEF Grows
  <2> QED BY <1>3, <2>1, <2>2 DEF Previewed
<1> QED BY <1>1, <1>2, <1>3

\* A version is sealed.
LEMMA SealGrows ==
    ASSUME Sealed, NEW v \in Versions, Seal(v), UNCHANGED previews
    PROVE  /\ Grows /\ Len(versions') = Len(versions) + 1 /\ versions'[Len(versions')] = v
           /\ Len(versions') \in Numbers
BY PlannerAssumptions DEF PlannerAssumptions, Sealed, Seal, Grows, Numbers

\* A preview is stored.
LEMMA PreviewGrows ==
    ASSUME Sealed, NEW p \in Promises, Len(previews) < MaxPreviews, previews' = Append(previews, p),
           UNCHANGED versions
    PROVE  /\ Grows /\ Len(previews') = Len(previews) + 1 /\ previews'[Len(previews')] = p
           /\ Len(previews') \in 0..MaxPreviews
BY PlannerAssumptions DEF PlannerAssumptions, Sealed, Grows

\* Nothing is sealed or stored.
LEMMA NothingGrows ==
    ASSUME Sealed, UNCHANGED <<versions, previews>>
    PROVE  Grows
BY DEF Sealed, Grows

-----------------------------------------------------------------------------
(* Requests and answers. *)

\* The values that stand for nothing have their types.
LEMMA OrderOfNone == <<>> \in Orders
<1>1. Cardinality({}) = 0
  BY FS_EmptySet
<1>2. <<>> \in [1..0 -> {}] /\ DOMAIN <<>> = {}
  OBVIOUS
<1>3. <<>> \in OrdersOf({})
  BY <1>1, <1>2 DEF OrdersOf
<1> QED BY <1>3 DEF Orders

\* An order that is not empty picks places.
LEMMA OrderOfSome ==
    ASSUME NEW o \in Orders
    PROVE  Picked(o) \subseteq Places /\ (o # <<>> => Picked(o) # {})
<1>1. PICK S \in SUBSET Places : o \in [1..Cardinality(S) -> S]
  BY DEF Orders, OrdersOf
<1>2. Picked(o) \subseteq Places
  BY <1>1 DEF Picked
<1>3. ASSUME Picked(o) = {} PROVE o = <<>>
  <2>1. DOMAIN o = {}
    BY <1>3 DEF Picked
  <2>2. o = [i \in {} |-> o[i]] /\ <<>> = [i \in {} |-> o[i]]
    BY <1>1, <2>1
  <2> QED BY <2>2
<1> QED BY <1>2, <1>3

LEMMA Nothings ==
    /\ NoRow \in Rows /\ NoPending \in Pendings /\ NoStop \in Stops
    /\ NoArgs \in ArgTypes /\ NoAnswer \in AnswerTypes /\ Idle \in RequestTypes
<1>1. 0 \in Numbers /\ 0 \in 0..MaxPreviews
  BY PlannerAssumptions DEF PlannerAssumptions, Numbers
<1>2. (CHOOSE d \in Details : TRUE) \in Details
  BY PlannerAssumptions DEF PlannerAssumptions
<1>3. NoPending \in Pendings
  BY <1>1 DEF NoPending, Pendings
<1>4. NoRow \in Rows
  BY <1>1, <1>3 DEF NoRow, Rows
<1>5. NoStop \in Stops
  BY <1>1 DEF NoStop, Stops
<1>6. NoArgs \in ArgTypes
  BY <1>1, <1>2, <1>5, OrderOfNone DEF NoArgs, ArgTypes
<1>7. NoAnswer \in AnswerTypes
  BY <1>1 DEF NoAnswer, AnswerTypes
<1>8. Idle \in RequestTypes
  BY <1>4, <1>6, <1>7 DEF Idle, RequestTypes, Kinds
<1> QED BY <1>3, <1>4, <1>5, <1>6, <1>7, <1>8

\* The row of a session that is not there fits.
LEMMA NoRowFits == ASSUME Sealed PROVE Fits(NoRow, versions, previews)
BY DEF Sealed, Fits, PendingFits, NoRow, NoPending

\* A step of requests that leaves the sessions.
LEMMA PutRequest ==
    ASSUME SessionsInv, UNCHANGED <<versions, previews, session>>, NEW q \in Requests,
           NEW r \in RequestTypes, Good(r, versions, previews), request' = [request EXCEPT ![q] = r]
    PROVE  SessionsInv'
<1>1. request' \in [Requests -> RequestTypes] /\ \A x \in Requests : Good(request'[x], versions, previews)
  BY DEF SessionsInv
<1> QED BY <1>1 DEF SessionsInv, Sealed

\* A request arrives.
LEMMA ArriveStep ==
    ASSUME SessionsInv, NEW q \in Requests, NEW kind \in Kinds, NEW s \in Sessions \cup {NoSession},
           NEW args \in ArgTypes, Arrive(q, kind, s, args),
           kind = "understand" => s \in Sessions,
           kind = "manual" => args.picks # <<>>,
           kind = "preview" => args.to \in Places,
           kind = "edit" => args.stop.version \in 1..Len(versions)
    PROVE  /\ SessionsInv'
           /\ request[q].stage = "idle" /\ request'[q].stage = "read" /\ request'[q].kind = kind
           /\ \A x \in Requests \ {q} : request'[x] = request[x]
<1> DEFINE snap == IF s = NoSession THEN NoRow ELSE session[s]
           r == [stage |-> "read", kind |-> kind, sid |-> s, snap |-> snap, args |-> args,
                 answer |-> NoAnswer]
<1>1. snap \in Rows /\ Fits(snap, versions, previews)
  BY Nothings, NoRowFits DEF SessionsInv
<1>2. request[q].stage = "idle" /\ request' = [request EXCEPT ![q] = r]
      /\ UNCHANGED <<versions, session, previews>>
  BY DEF Arrive
<1> HIDE DEF snap
<1>3. r \in RequestTypes
  BY <1>1, Nothings DEF RequestTypes
<1>4. Good(r, versions, previews)
  BY <1>1 DEF Good, NoAnswer, SessionsInv, Sealed
<1>5. r.stage = "read" /\ r.kind = kind
  OBVIOUS
<1> HIDE DEF r
<1>6. SessionsInv'
  BY <1>2, <1>3, <1>4, PutRequest
<1> QED BY <1>2, <1>5, <1>6 DEF SessionsInv

\* A request is over.
LEMMA DoneStep ==
    ASSUME SessionsInv, NEW q \in Requests, Done(q), UNCHANGED <<versions, previews, session>>
    PROVE  /\ SessionsInv' /\ request'[q].stage = "done"
           /\ \A x \in Requests \ {q} : request'[x] = request[x]
<1> DEFINE r == [Idle EXCEPT !.stage = "done"]
<1>1. /\ r \in RequestTypes /\ r.snap = NoRow /\ r.kind = "none" /\ r.answer = NoAnswer /\ r.stage = "done"
  BY Nothings DEF Idle, RequestTypes
<1>2. request' = [request EXCEPT ![q] = r]
  BY DEF Done
<1> HIDE DEF r
<1>3. Good(r, versions, previews)
  BY <1>1, NoRowFits DEF Good, NoAnswer, SessionsInv, Sealed
<1> QED BY <1>1, <1>2, <1>3, PutRequest DEF SessionsInv

\* A request whose answer is shown goes on with what follows.
LEMMA FollowsStep ==
    ASSUME SessionsInv, NEW q \in Requests, Follows(q), UNCHANGED <<versions, previews, session>>
    PROVE  /\ SessionsInv' /\ request'[q].stage = "following" /\ request'[q].kind = "none"
<1> DEFINE r == [Idle EXCEPT !.stage = "following"]
<1>1. /\ r \in RequestTypes /\ r.snap = NoRow /\ r.kind = "none" /\ r.answer = NoAnswer
      /\ r.stage = "following"
  BY Nothings DEF Idle, RequestTypes
<1>2. request' = [request EXCEPT ![q] = r]
  BY DEF Follows
<1> HIDE DEF r
<1>3. Good(r, versions, previews)
  BY <1>1, NoRowFits DEF Good, NoAnswer, SessionsInv, Sealed
<1> QED BY <1>1, <1>2, <1>3, PutRequest DEF SessionsInv

\* What an answer leaves of the requests.
LEMMA AnswerStep ==
    ASSUME SessionsInv, Grows, NEW q \in Requests, NEW a \in AnswerTypes, Answer(q, a),
           a.ver <= Len(versions'), a.pid <= Len(previews')
    PROVE  /\ request' \in [Requests -> RequestTypes]
           /\ \A x \in Requests : Good(request'[x], versions', previews')
           /\ \A x \in Requests \ {q} : request'[x] = request[x]
           /\ request[q].stage # "orphaned" =>
                  request'[q].stage = "answered" /\ request'[q].kind = request[q].kind
<1> DEFINE r == IF request[q].stage = "orphaned" THEN [Idle EXCEPT !.stage = "done"]
    ELSE [Idle EXCEPT !.stage = "answered", !.kind = request[q].kind, !.sid = request[q].sid,
                      !.answer = a]
<1>1. request[q] \in RequestTypes /\ Good(request[q], versions, previews)
  BY DEF SessionsInv
<1>2. /\ r \in RequestTypes /\ r.snap = NoRow /\ r.stage \in {"done", "answered"}
      /\ r.kind = "none" \/ (r.kind = request[q].kind /\ r.sid = request[q].sid)
      /\ r.answer \in {a, NoAnswer}
      /\ request[q].stage # "orphaned" => r.stage = "answered" /\ r.kind = request[q].kind
  BY <1>1, Nothings DEF Idle, RequestTypes
<1>3. request' = [request EXCEPT ![q] = r]
  BY DEF Answer
<1> HIDE DEF r
<1>4. Good(r, versions', previews')
  <2>1. Fits(NoRow, versions', previews')
    BY DEF Grows, Sealed, Fits, PendingFits, NoRow, NoPending
  <2>2. r.answer.ver <= Len(versions') /\ r.answer.pid <= Len(previews')
    BY <1>2 DEF NoAnswer, Grows, Sealed
  <2> QED BY <1>1, <1>2, <2>1, <2>2 DEF Good
<1>5. \A x \in Requests : Good(request[x], versions', previews')
  BY FitsOn DEF SessionsInv
<1> QED BY <1>2, <1>3, <1>4, <1>5 DEF SessionsInv

\* What the sessions keep of a step that grows the versions or the previews.
LEMMA GrownInv ==
    ASSUME SessionsInv, Grows, session' \in [Sessions -> Rows],
           \A s \in Sessions : Fits(session'[s], versions', previews'),
           request' \in [Requests -> RequestTypes],
           \A x \in Requests : Good(request'[x], versions', previews'),
           \A v \in 1..Len(versions') : v > Len(versions) => Previewed(versions'[v], versions', previews')
    PROVE  SessionsInv'
<1>1. ASSUME NEW v \in 1..Len(versions'), v <= Len(versions)
      PROVE  Previewed(versions'[v], versions', previews')
  <2>1. v \in 1..Len(versions) /\ versions[v] \in Versions
    BY <1>1 DEF SessionsInv, Sealed
  <2> QED BY <2>1, FitsOn DEF SessionsInv, Grows
<1>2. \A v \in 1..Len(versions') : v <= Len(versions) \/ v > Len(versions)
  BY DEF SessionsInv, Grows, Sealed
<1> QED BY <1>1, <1>2 DEF SessionsInv, Grows

-----------------------------------------------------------------------------
(* The operations of the server. *)

\* A version is sealed for a session.
LEMMA SealForStep ==
    ASSUME SessionsInv, NEW q \in Requests, NEW s \in Sessions \cup {NoSession},
           NEW base \in 0..Len(versions), NEW locks \in SUBSET Places, NEW out \in SUBSET Places,
           NEW via \in 0..Len(previews), NEW act \in Pendings,
           SealFor(q, s, base, locks, out, via, act),
           via # 0 => /\ base # 0 /\ locks = previews[via].locks
                      /\ base = previews[via].base \/ versions[base].base = 0,
           act.kind = "replace" => /\ base = 0 /\ act.pid \in 1..Len(previews)
                                       /\ act.locks = previews[act.pid].locks
    PROVE  SessionsInv' /\ Grows /\ \E a \in AnswerTypes : Answer(q, a)
<1>1. PICK B \in Builds(locks, out), t \in TripFor(request[q].snap.trip) :
        /\ Seal([trip |-> t, places |-> B, locked |-> B \cap locks, asked |-> locks,
                 base |-> base, via |-> via])
        /\ session' = [session EXCEPT ![s] =
               [status |-> "planned", trip |-> t, cur |-> Len(versions'), pending |-> act]]
        /\ Answer(q, [NoAnswer EXCEPT !.ok = TRUE, !.sid = s, !.ver = Len(versions')])
        /\ UNCHANGED previews
  BY DEF SealFor
<1> DEFINE v == [trip |-> t, places |-> B, locked |-> B \cap locks, asked |-> locks, base |-> base, via |-> via]
           row == [status |-> "planned", trip |-> t, cur |-> Len(versions'), pending |-> act]
           a == [NoAnswer EXCEPT !.ok = TRUE, !.sid = s, !.ver = Len(versions')]
<1>0. /\ Sealed /\ Len(versions) \in Nat /\ Len(previews) \in Nat
      /\ Len(versions) <= MaxVersions /\ Len(previews) <= MaxPreviews
  BY DEF SessionsInv, Sealed
<1>2. B \subseteq Places /\ B # {} /\ t \in Trips
  <2>1. B # {}
    <3>1. Cardinality(B) \in 1..MaxStops
      BY DEF Builds
    <3>2. Cardinality({}) = 0
      BY FS_EmptySet
    <3>3. 0 \notin 1..MaxStops
      OBVIOUS
    <3> QED BY <3>1, <3>2, <3>3
  <2>2. t \in Trips
    <3>1. request[q].snap.trip \in Trips \cup {NoTrip}
      BY DEF SessionsInv, RequestTypes, Rows
    <3> QED BY <3>1 DEF TripFor
  <2> QED BY <2>1, <2>2 DEF Builds
<1>3. v \in Versions
  <2>1. base \in Numbers /\ via \in 0..MaxPreviews
    BY <1>0, PlannerAssumptions DEF PlannerAssumptions, Numbers
  <2> QED BY <1>2, <2>1 DEF Versions
<1>4. Seal(v) /\ UNCHANGED previews /\ session' = [session EXCEPT ![s] = row] /\ Answer(q, a)
  BY <1>1
<1>5. v.base = base /\ v.via = via /\ v.asked = locks
  OBVIOUS
<1> HIDE DEF v
<1>6. /\ Grows /\ Len(versions') = Len(versions) + 1 /\ versions'[Len(versions')] = v
      /\ Len(versions') \in Numbers
  BY <1>0, <1>3, <1>4, SealGrows
<1>7. row \in Rows /\ row.cur = Len(versions') /\ row.pending = act
  BY <1>2, <1>6 DEF Rows
<1>8. a \in AnswerTypes /\ a.ver = Len(versions') /\ a.pid = 0
  BY <1>6, Nothings DEF NoAnswer, AnswerTypes
<1> HIDE DEF row, a
<1>9. Fits(row, versions', previews')
  BY <1>0, <1>4, <1>5, <1>6, <1>7 DEF Fits, PendingFits
<1>10. session' \in [Sessions -> Rows] /\ \A x \in Sessions : Fits(session'[x], versions', previews')
  BY <1>0, <1>4, <1>6, <1>7, <1>9, FitsOn DEF SessionsInv
<1>11. Previewed(v, versions', previews')
  <2>1. base # 0 => versions'[base] = versions[base] /\ base \in 1..Len(versions')
    BY <1>0, <1>6 DEF Grows
  <2> QED BY <1>0, <1>4, <1>5, <2>1 DEF Previewed
<1>12. \A x \in 1..Len(versions') : x > Len(versions) => Previewed(versions'[x], versions', previews')
  BY <1>0, <1>6, <1>11
<1>13. /\ request' \in [Requests -> RequestTypes]
       /\ \A x \in Requests : Good(request'[x], versions', previews')
  BY <1>0, <1>4, <1>6, <1>8, AnswerStep
<1> QED BY <1>4, <1>6, <1>8, <1>10, <1>12, <1>13, GrownInv

\* The stops of a version are places.
LEMMA PlacesOf ==
    ASSUME Sealed, NEW v \in 0..Len(versions)
    PROVE  /\ Locked(v) \subseteq Places /\ Unlocked(v) \subseteq Places
           /\ \A stop : IsStopOf(stop, v) => stop.place \in Places /\ v # 0
<1>1. v # 0 => versions[v] \in Versions
  <2>1. Len(versions) \in Nat
    BY DEF Sealed
  <2>2. v # 0 => v \in 1..Len(versions)
    BY <2>1
  <2> QED BY <2>2 DEF Sealed
<1>2. v # 0 => versions[v].places \subseteq Places /\ versions[v].locked \subseteq Places
  BY <1>1 DEF Versions
<1> QED BY <1>2 DEF Locked, Unlocked, IsStopOf

\* A row is written back.
LEMMA WriteBackStep ==
    ASSUME SessionsInv, Grows, versions' = versions, NEW s \in Sessions \cup {NoSession}, NEW row \in Rows,
           row.cur \in 0..Len(versions), NEW act \in Pendings, WriteBack(s, row, act),
           PendingFits(act, row.cur, versions', previews')
    PROVE  /\ session' \in [Sessions -> Rows]
           /\ \A x \in Sessions : Fits(session'[x], versions', previews')
<1> DEFINE new == [row EXCEPT !.pending = act,
                    !.trip = IF row.trip = NoTrip THEN session[s].trip ELSE row.trip,
                    !.cur = IF row.cur = 0 THEN session[s].cur ELSE row.cur]
<1>0. \A x \in Sessions : Fits(session[x], versions', previews')
  BY FitsOn DEF SessionsInv
<1>1. session' = [session EXCEPT ![s] = new]
  BY DEF WriteBack
<1>2. ASSUME s \in Sessions PROVE new \in Rows /\ Fits(new, versions', previews')
  <2>1. session[s] \in Rows /\ session[s].cur \in 0..Len(versions)
    BY <1>2 DEF SessionsInv, Fits
  <2>2. new \in Rows /\ new.pending = act /\ new.cur = IF row.cur = 0 THEN session[s].cur ELSE row.cur
    BY <2>1 DEF Rows
  <2>3. row.cur = 0 => act.kind # "replace"
    BY DEF PendingFits
  <2> HIDE DEF new
  <2> QED BY <2>1, <2>2, <2>3 DEF Fits, PendingFits
<1> HIDE DEF new
<1>3. session \in [Sessions -> Rows]
  BY DEF SessionsInv
<1> QED BY <1>0, <1>1, <1>2, <1>3

\* start_or_continue, regenerate and set_lock.
LEMMA PlanningSteps ==
    ASSUME SessionsInv, NEW q \in Requests, StartOrContinue(q) \/ Regenerate(q) \/ SetLock(q)
    PROVE  SessionsInv' /\ Grows /\ \E a \in AnswerTypes : Answer(q, a)
<1> DEFINE r == request[q]
<1>r. r \in RequestTypes /\ Good(r, versions, previews) /\ Sealed
  BY DEF SessionsInv
<1>0. /\ Sealed /\ Len(versions) \in Nat /\ Len(previews) \in Nat /\ 0 \in 0..Len(previews)
      /\ r \in RequestTypes /\ r.snap \in Rows /\ Fits(r.snap, versions, previews)
      /\ Good(r, versions, previews) /\ r.snap.cur \in 0..Len(versions) /\ r.snap.pending \in Pendings
  BY <1>r DEF Sealed, RequestTypes, Good, Fits, Rows
<1> HIDE DEF r
<1>1. /\ Locked(r.snap.cur) \subseteq Places /\ Unlocked(r.snap.cur) \subseteq Places
      /\ IsStopOf(r.args.stop, r.snap.cur) => r.args.stop.place \in Places /\ r.snap.cur # 0
  BY <1>0, PlacesOf
\* No plan came: the versions and the sessions stay, or the row is written back.
<1>2. ASSUME NEW s \in Sessions \cup {NoSession}, NEW b \in BOOLEAN, NoPlan(q, s, b),
             UNCHANGED <<versions, previews>>,
             session' \in [Sessions -> Rows], \A x \in Sessions : Fits(session'[x], versions', previews')
      PROVE  SessionsInv' /\ Grows /\ \E a \in AnswerTypes : Answer(q, a)
  <2> DEFINE a == [NoAnswer EXCEPT !.ok = TRUE, !.sid = s, !.asks = b]
  <2>1. a \in AnswerTypes /\ a.ver = 0 /\ a.pid = 0
    BY Nothings DEF NoAnswer, AnswerTypes
  <2>2. Answer(q, a)
    BY <1>2 DEF NoPlan
  <2> HIDE DEF a
  <2>3. Grows
    BY <1>0, <1>2, NothingGrows
  <2>4. /\ request' \in [Requests -> RequestTypes]
        /\ \A x \in Requests : Good(request'[x], versions', previews')
    BY <1>0, <1>2, <2>1, <2>2, <2>3, AnswerStep
  <2>5. \A x \in 1..Len(versions') : x > Len(versions) => Previewed(versions'[x], versions', previews')
    BY <1>0, <1>2
  <2> QED BY <1>2, <2>1, <2>2, <2>3, <2>4, <2>5, GrownInv
<1>3. CASE StartOrContinue(q)
  <2>1. PICK s \in Sessions :
          \/ SealFor(q, s, 0, {}, {}, 0, r.snap.pending)
          \/ /\ WriteBack(s, [r.snap EXCEPT !.status = "infeasible", !.cur = 0], NoPending)
             /\ \E b \in BOOLEAN : NoPlan(q, s, b)
             /\ UNCHANGED <<versions, previews>>
    BY <1>3 DEF StartOrContinue, r
  <2>2. CASE SealFor(q, s, 0, {}, {}, 0, r.snap.pending)
    <3>1. r.snap.pending.kind = "replace" => /\ r.snap.pending.pid \in 1..Len(previews)
                                             /\ r.snap.pending.locks = previews[r.snap.pending.pid].locks
      BY <1>0 DEF Fits, PendingFits
    <3>2. 0 \in 0..Len(versions)
      BY <1>0
    <3> QED BY <1>0, <2>2, <3>1, <3>2, SealForStep
  <2>3. CASE /\ WriteBack(s, [r.snap EXCEPT !.status = "infeasible", !.cur = 0], NoPending)
             /\ \E b \in BOOLEAN : NoPlan(q, s, b)
             /\ UNCHANGED <<versions, previews>>
    <3> DEFINE row == [r.snap EXCEPT !.status = "infeasible", !.cur = 0]
    <3>0. 0 \in Numbers /\ 0 \in 0..Len(versions)
      BY <1>0, PlannerAssumptions DEF PlannerAssumptions, Numbers
    <3>1. row \in Rows /\ row.cur \in 0..Len(versions)
      BY <1>0, <3>0 DEF Rows
    <3>2. WriteBack(s, row, NoPending)
      BY <2>3
    <3> HIDE DEF row
    <3>3. PendingFits(NoPending, row.cur, versions', previews')
      BY DEF PendingFits, NoPending
    <3>4. /\ session' \in [Sessions -> Rows]
          /\ \A x \in Sessions : Fits(session'[x], versions', previews')
      BY <1>0, <2>3, <3>1, <3>2, <3>3, NothingGrows, Nothings, WriteBackStep
    <3> QED BY <1>2, <2>3, <3>4
  <2> QED BY <2>1, <2>2, <2>3
<1>4. ASSUME NEW locks \in SUBSET Places, NEW out \in SUBSET Places,
             \/ SealFor(q, r.sid, r.snap.cur, locks, out, 0, NoPending)
             \/ NoPlan(q, r.sid, FALSE) /\ UNCHANGED <<versions, session, previews>>
      PROVE  SessionsInv' /\ Grows /\ \E a \in AnswerTypes : Answer(q, a)
  <2>1. r.sid \in Sessions \cup {NoSession} /\ NoPending \in Pendings /\ NoPending.kind # "replace"
    BY <1>0, Nothings DEF RequestTypes, NoPending
  <2>2. CASE SealFor(q, r.sid, r.snap.cur, locks, out, 0, NoPending)
    BY <1>0, <2>1, <2>2, SealForStep
  <2>3. CASE NoPlan(q, r.sid, FALSE) /\ UNCHANGED <<versions, session, previews>>
    <3>1. session' \in [Sessions -> Rows] /\ \A x \in Sessions : Fits(session'[x], versions', previews')
      BY <2>3 DEF SessionsInv
    <3> QED BY <1>2, <2>1, <2>3, <3>1
  <2> QED BY <1>4, <2>2, <2>3
<1>5. CASE Regenerate(q)
  BY <1>1, <1>4, <1>5 DEF Regenerate, PendingAfter, r
<1>6. CASE SetLock(q)
  <2> DEFINE locks == IF r.args.flag THEN Locked(r.snap.cur) \cup {r.args.stop.place}
                                     ELSE Locked(r.snap.cur) \ {r.args.stop.place}
  <2>1. IsStopOf(r.args.stop, r.snap.cur)
        /\ \/ SealFor(q, r.sid, r.snap.cur, locks, {}, 0, NoPending)
           \/ NoPlan(q, r.sid, FALSE) /\ UNCHANGED <<versions, session, previews>>
    BY <1>6 DEF SetLock, PendingAfter, r
  <2>2. r.args.stop.place \in Places
    BY <1>1, <2>1
  <2>3. locks \in SUBSET Places /\ {} \in SUBSET Places
    BY <1>1, <2>2
  <2> HIDE DEF locks
  <2>4. \/ SealFor(q, r.sid, r.snap.cur, locks, {}, 0, NoPending)
        \/ NoPlan(q, r.sid, FALSE) /\ UNCHANGED <<versions, session, previews>>
    BY <2>1
  <2> QED BY <1>4, <2>3, <2>4
<1> QED BY <1>3, <1>5, <1>6

\* The pending actions: previewed, accepted, cancelled, understood and applied.
LEMMA PendingSteps ==
    ASSUME SessionsInv, NEW q \in Requests,
           PreviewReplace(q) \/ AcceptReplace(q) \/ CancelReplace(q) \/ RefinePreview(q) \/ RefineApply(q)
    PROVE  SessionsInv' /\ Grows /\ \E a \in AnswerTypes : Answer(q, a)
<1> DEFINE r == request[q]
<1>r. r \in RequestTypes /\ Good(r, versions, previews) /\ Sealed
  BY DEF SessionsInv
<1>0. /\ Sealed /\ Len(versions) \in Nat /\ Len(previews) \in Nat /\ 0 \in 0..Len(previews)
      /\ r \in RequestTypes /\ r.snap \in Rows /\ Fits(r.snap, versions, previews)
      /\ Good(r, versions, previews) /\ r.snap.cur \in 0..Len(versions) /\ r.snap.pending \in Pendings
      /\ r.sid \in Sessions \cup {NoSession} /\ NoPending \in Pendings /\ NoPending.kind # "replace"
  BY <1>r, Nothings DEF Sealed, RequestTypes, Good, Fits, Rows, NoPending
<1> HIDE DEF r
<1>1. /\ Locked(r.snap.cur) \subseteq Places /\ Unlocked(r.snap.cur) \subseteq Places
      /\ IsStopOf(r.args.stop, r.snap.cur) => r.args.stop.place \in Places /\ r.snap.cur # 0
  BY <1>0, PlacesOf
\* A row is written back without a version.
<1>2. ASSUME Grows, versions' = versions, NEW act \in Pendings, WriteBack(r.sid, r.snap, act),
             PendingFits(act, r.snap.cur, versions', previews'),
             NEW a \in AnswerTypes, Answer(q, a), a.ver = 0, a.pid <= Len(previews')
      PROVE  SessionsInv'
  <2>1. /\ session' \in [Sessions -> Rows]
        /\ \A x \in Sessions : Fits(session'[x], versions', previews')
    BY <1>0, <1>2, WriteBackStep
  <2>2. a.ver <= Len(versions')
    BY <1>0, <1>2
  <2>3. /\ request' \in [Requests -> RequestTypes]
        /\ \A x \in Requests : Good(request'[x], versions', previews')
    BY <1>2, <2>2, AnswerStep
  <2>4. \A x \in 1..Len(versions') : x > Len(versions) => Previewed(versions'[x], versions', previews')
    BY <1>0, <1>2
  <2> QED BY <1>2, <2>1, <2>3, <2>4, GrownInv
\* Nor with a preview.
<1>3. ASSUME NEW act \in Pendings, act.kind # "replace", WriteBack(r.sid, r.snap, act),
             NEW a \in AnswerTypes, Answer(q, a), a.ver = 0, a.pid = 0,
             UNCHANGED <<versions, previews>>
      PROVE  SessionsInv'
  <2>1. Grows
    BY <1>0, <1>3, NothingGrows
  <2>2. PendingFits(act, r.snap.cur, versions', previews')
    BY <1>3 DEF PendingFits
  <2>3. a.pid <= Len(previews')
    BY <1>0, <1>3
  <2> QED BY <1>2, <1>3, <2>1, <2>2, <2>3
<1>4. CASE PreviewReplace(q)
  <2> DEFINE gone  == r.args.stop.place
             locks == (Locked(r.snap.cur) \ {gone}) \cup {r.args.to}
             pid   == Len(previews) + 1
             p     == [base |-> r.snap.cur, locks |-> locks]
             act   == [kind |-> "replace", pid |-> pid, locks |-> locks,
                       out |-> Unlocked(r.snap.cur) \ {gone}]
             a     == [NoAnswer EXCEPT !.ok = TRUE, !.sid = r.sid, !.pid = pid]
  <2>1. /\ Len(previews) < MaxPreviews /\ IsStopOf(r.args.stop, r.snap.cur)
        /\ previews' = Append(previews, p) /\ WriteBack(r.sid, r.snap, act) /\ Answer(q, a)
        /\ UNCHANGED versions
    BY <1>4 DEF PreviewReplace, r
  <2>2. r.args.to \in Places
    BY <1>0, <1>4 DEF PreviewReplace, Ready, Reading, Good, r
  <2>3. locks \subseteq Places /\ p \in Promises /\ p.locks = locks /\ p.base = r.snap.cur
    BY <1>0, <1>1, <2>2, PlannerAssumptions DEF PlannerAssumptions, Promises, Sealed, Numbers
  <2> HIDE DEF p
  <2>4. /\ Grows /\ Len(previews') = pid /\ previews'[pid] = p /\ pid \in 0..MaxPreviews
    BY <1>0, <2>1, <2>3, PreviewGrows
  <2>5. act \in Pendings /\ act.pid = pid /\ act.locks = locks
    BY <1>1, <2>3, <2>4 DEF Pendings
  <2>6. a \in AnswerTypes /\ a.ver = 0 /\ a.pid = pid
    BY <1>0, <2>4, Nothings DEF NoAnswer, AnswerTypes
  <2>7. pid \in 1..Len(previews') /\ r.snap.cur # 0
    BY <1>0, <2>1, <2>4 DEF IsStopOf
  <2> HIDE DEF act, a, pid, locks
  <2>8. PendingFits(act, r.snap.cur, versions', previews')
    BY <2>3, <2>4, <2>5, <2>7 DEF PendingFits
  <2> QED BY <1>0, <1>2, <2>1, <2>4, <2>5, <2>6, <2>7, <2>8
<1>5. CASE AcceptReplace(q)
  <2> DEFINE act == r.snap.pending
  <2>1. act.kind = "replace" /\ act.pid = r.args.pid
        /\ SealFor(q, r.sid, r.snap.cur, act.locks, act.out, act.pid, NoPending)
    BY <1>5 DEF AcceptReplace, r
  <2>2. /\ act.pid \in 1..Len(previews) /\ r.snap.cur # 0 /\ act.locks = previews[act.pid].locks
        /\ r.snap.cur = previews[act.pid].base \/ versions[r.snap.cur].base = 0
    BY <1>0, <2>1 DEF Fits, PendingFits
  <2>3. act.locks \in SUBSET Places /\ act.out \in SUBSET Places /\ act.pid \in 0..Len(previews)
    BY <1>0, <2>2 DEF Pendings
  <2> HIDE DEF act
  <2> QED BY <1>0, <2>1, <2>2, <2>3, SealForStep
<1>6. CASE CancelReplace(q)
  <2> DEFINE a == [NoAnswer EXCEPT !.ok = TRUE, !.sid = r.sid]
  <2>1. a \in AnswerTypes /\ a.ver = 0 /\ a.pid = 0
    BY <1>0, Nothings DEF NoAnswer, AnswerTypes
  <2>2. WriteBack(r.sid, r.snap, NoPending) /\ Answer(q, a) /\ UNCHANGED <<versions, previews>>
    BY <1>6 DEF CancelReplace, r
  <2> HIDE DEF a
  <2> QED BY <1>0, <1>3, <2>1, <2>2, NothingGrows
<1>7. CASE RefinePreview(q)
  <2>1. PICK understood \in BOOLEAN :
          /\ WriteBack(r.sid, r.snap, IF understood THEN [NoPending EXCEPT !.kind = "refine"] ELSE NoPending)
          /\ Answer(q, [NoAnswer EXCEPT !.ok = TRUE, !.sid = r.sid, !.asks = ~understood])
    BY <1>7 DEF RefinePreview, r
  <2> DEFINE act == IF understood THEN [NoPending EXCEPT !.kind = "refine"] ELSE NoPending
             a   == [NoAnswer EXCEPT !.ok = TRUE, !.sid = r.sid, !.asks = ~understood]
  <2>2. act \in Pendings /\ act.kind # "replace"
    BY <1>0 DEF Pendings, NoPending
  <2>3. a \in AnswerTypes /\ a.ver = 0 /\ a.pid = 0
    BY <1>0, Nothings DEF NoAnswer, AnswerTypes
  <2>4. WriteBack(r.sid, r.snap, act) /\ Answer(q, a) /\ UNCHANGED <<versions, previews>>
    BY <1>7, <2>1 DEF RefinePreview
  <2> HIDE DEF a, act
  <2> QED BY <1>0, <1>3, <2>2, <2>3, <2>4, NothingGrows
<1>8. CASE RefineApply(q)
  <2>1. CASE SealFor(q, r.sid, r.snap.cur, {}, {}, 0, NoPending)
    BY <1>0, <2>1, SealForStep
  <2>2. CASE NoPlan(q, r.sid, FALSE) /\ UNCHANGED <<versions, session, previews>>
    <3> DEFINE a == [NoAnswer EXCEPT !.ok = TRUE, !.sid = r.sid, !.asks = FALSE]
    <3>1. a \in AnswerTypes /\ a.ver = 0 /\ a.pid = 0
      BY <1>0, Nothings DEF NoAnswer, AnswerTypes
    <3>2. Answer(q, a)
      BY <2>2 DEF NoPlan
    <3> HIDE DEF a
    <3>3. Grows
      BY <1>0, <2>2, NothingGrows
    <3>4. a.ver <= Len(versions') /\ a.pid <= Len(previews')
      BY <1>0, <2>2, <3>1
    <3>5. /\ request' \in [Requests -> RequestTypes]
          /\ \A x \in Requests : Good(request'[x], versions', previews')
      BY <3>1, <3>2, <3>3, <3>4, AnswerStep
    <3>6. /\ session' \in [Sessions -> Rows] /\ \A x \in Sessions : Fits(session'[x], versions', previews')
          /\ \A x \in 1..Len(versions') : x > Len(versions) => Previewed(versions'[x], versions', previews')
      BY <1>0, <2>2 DEF SessionsInv
    <3> QED BY <3>1, <3>2, <3>3, <3>5, <3>6, GrownInv
  <2> QED BY <1>8, <2>1, <2>2 DEF RefineApply, r
<1> QED BY <1>4, <1>5, <1>6, <1>7, <1>8

\* A manual plan.
LEMMA ManualStep ==
    ASSUME SessionsInv, NEW q \in Requests, BuildManual(q)
    PROVE  SessionsInv' /\ Grows /\ \E a \in AnswerTypes : Answer(q, a)
<1> DEFINE r == request[q]
           a == [NoAnswer EXCEPT !.ok = TRUE, !.ver = Len(versions')]
<1>0. /\ Sealed /\ Len(versions) \in Nat /\ Len(previews) \in Nat /\ r \in RequestTypes
      /\ Good(r, versions, previews) /\ 0 \in Numbers /\ 0 \in 0..MaxPreviews
  BY PlannerAssumptions DEF PlannerAssumptions, SessionsInv, Sealed, Numbers
<1>1. PICK t \in TripFor(r.args.trip) :
        Seal([trip |-> t, places |-> Picked(r.args.picks), locked |-> {}, asked |-> {}, base |-> 0, via |-> 0])
  BY DEF BuildManual, r
<1>2. /\ Picked(r.args.picks) # {} /\ Picked(r.args.picks) \subseteq Places
      /\ r.args.trip \in Trips \cup {NoTrip}
  <2>1. r.args.picks # <<>> /\ r.args.picks \in Orders /\ r.args.trip \in Trips \cup {NoTrip}
    BY <1>0 DEF BuildManual, Ready, Reading, Good, RequestTypes, ArgTypes
  <2> HIDE DEF r
  <2> QED BY <2>1, OrderOfSome
<1>3. Answer(q, a) /\ UNCHANGED <<session, previews>>
  BY DEF BuildManual
<1> HIDE DEF r
<1>4. t \in Trips
  BY <1>2 DEF TripFor
<1> DEFINE v == [trip |-> t, places |-> Picked(r.args.picks), locked |-> {}, asked |-> {}, base |-> 0, via |-> 0]
<1>5. v \in Versions /\ v.via = 0
  BY <1>0, <1>2, <1>4 DEF Versions
<1>6. Seal(v)
  BY <1>1
<1> HIDE DEF v
<1>7. /\ Grows /\ Len(versions') = Len(versions) + 1 /\ versions'[Len(versions')] = v
      /\ Len(versions') \in Numbers
  BY <1>0, <1>3, <1>5, <1>6, SealGrows
<1>8. a \in AnswerTypes /\ a.ver = Len(versions') /\ a.pid = 0
  BY <1>7, Nothings DEF NoAnswer, AnswerTypes
<1> HIDE DEF a
<1>9. a.ver <= Len(versions') /\ a.pid <= Len(previews')
  BY <1>0, <1>3, <1>7, <1>8
<1>10. /\ request' \in [Requests -> RequestTypes]
       /\ \A x \in Requests : Good(request'[x], versions', previews')
  BY <1>3, <1>7, <1>8, <1>9, AnswerStep
<1>11. /\ session' \in [Sessions -> Rows]
       /\ \A s \in Sessions : Fits(session'[s], versions', previews')
  BY <1>0, <1>3, <1>7, FitsOn DEF SessionsInv
<1>12. \A x \in 1..Len(versions') : x > Len(versions) => Previewed(versions'[x], versions', previews')
  BY <1>0, <1>5, <1>7 DEF Previewed
<1> QED BY <1>3, <1>7, <1>8, <1>10, <1>11, <1>12, GrownInv

\* A request fails or its answer is lost.
LEMMA FailStep ==
    ASSUME SessionsInv, NEW q \in Requests, Fails(q)
    PROVE  SessionsInv' /\ Grows /\ \E a \in AnswerTypes : Answer(q, a)
<1>1. Answer(q, NoAnswer) /\ UNCHANGED <<versions, session, previews>> /\ NoAnswer \in AnswerTypes
  BY Nothings DEF Fails
<1>2. Grows /\ NoAnswer.ver <= Len(versions') /\ NoAnswer.pid <= Len(previews')
  BY <1>1, NothingGrows DEF SessionsInv, Sealed, NoAnswer
<1>3. /\ request' \in [Requests -> RequestTypes]
      /\ \A x \in Requests : Good(request'[x], versions', previews')
  BY <1>1, <1>2, AnswerStep
<1>4. /\ session' \in [Sessions -> Rows] /\ \A s \in Sessions : Fits(session'[s], versions', previews')
      /\ \A x \in 1..Len(versions') : x > Len(versions) => Previewed(versions'[x], versions', previews')
  BY <1>1 DEF SessionsInv, Sealed
<1> QED BY <1>1, <1>2, <1>3, <1>4, GrownInv

\* Everything the server does.
LEMMA ServeStep ==
    ASSUME SessionsInv, NEW q \in Requests, Serve(q)
    PROVE  /\ SessionsInv' /\ Grows
           /\ \A x \in Requests \ {q} : request'[x] = request[x]
           /\ request[q].stage # "orphaned" =>
                  request'[q].stage = "answered" /\ request'[q].kind = request[q].kind
<1>1. SessionsInv' /\ Grows /\ \E a \in AnswerTypes : Answer(q, a)
  BY PlanningSteps, PendingSteps, ManualStep, FailStep DEF Serve
<1>2. PICK a \in AnswerTypes : Answer(q, a)
  BY <1>1
<1>3. \A x \in Requests \ {q} : request'[x] = request[x]
  BY <1>2 DEF Answer, SessionsInv
<1>4. ASSUME request[q].stage # "orphaned"
      PROVE  request'[q].stage = "answered" /\ request'[q].kind = request[q].kind
  BY <1>2, <1>4 DEF Answer, SessionsInv, Idle
<1> QED BY <1>1, <1>3, <1>4

-----------------------------------------------------------------------------
(* The page. *)

PageTypes ==
    /\ mode \in Modes /\ step \in Steps
    /\ shown \in [sid : Sessions \cup {NoSession}, ver : Numbers] /\ shown.ver <= Len(versions)
    /\ asks \in BOOLEAN /\ manualTrip \in Trips \cup {NoTrip}
    /\ replacing \in Stops /\ preview \in 0..Len(previews)

\* A day on the page was checked, or is waiting for its check, or it failed.
CheckInv ==
    /\ picks \in Orders /\ details \in Details /\ accept \in BOOLEAN
    /\ check \in [of : Days \cup {Nowhere}, asking : SUBSET Days, waiting : BOOLEAN,
                  checking : BOOLEAN, failed : BOOLEAN, live : BOOLEAN]
    /\ check.live => check.checking
    /\ picks # <<>> => check.waiting \/ check.live \/ check.failed \/ check.of = Today

FlowInv == SessionsInv /\ PageTypes /\ CheckInv /\ pending \in BOOLEAN /\ PendingMeansBusy

\* An answer the page waits for.
Busy(r) == r.stage \in {"read", "answered"} /\ r.kind \notin {"preview", "cancel"}

\* The day changes.
LEMMA DayChanges ==
    ASSUME CheckInv, NEW p \in Orders, NEW d \in Details, Changes(p, d), accept' \in BOOLEAN
    PROVE  CheckInv'
<1>1. CASE p = picks /\ d = details
  BY <1>1 DEF CheckInv, Changes, Today
<1>2. CASE ~(p = picks /\ d = details)
  <2>1. PICK b \in BOOLEAN : b = (p # <<>>)
    OBVIOUS
  <2>2. check' = [check EXCEPT !.waiting = b, !.live = FALSE] /\ picks' = p /\ details' = d
    BY <1>2, <2>1 DEF Changes
  <2>3. /\ check' \in [of : Days \cup {Nowhere}, asking : SUBSET Days, waiting : BOOLEAN,
                       checking : BOOLEAN, failed : BOOLEAN, live : BOOLEAN]
        /\ check'.waiting = b /\ check'.live = FALSE
    BY <2>2 DEF CheckInv, Days
  <2> QED BY <2>1, <2>2, <2>3 DEF CheckInv
<1> QED BY <1>1, <1>2

\* The check of a day is asked for and answered.
LEMMA CheckSteps ==
    ASSUME CheckInv, Ask \/ \E d \in Days : CheckAnswers(d)
    PROVE  CheckInv' /\ UNCHANGED <<planVars, mode, step, reviewVars>>
<1>0. /\ Today \in Days /\ check \in [of : Days \cup {Nowhere}, asking : SUBSET Days, waiting : BOOLEAN,
                       checking : BOOLEAN, failed : BOOLEAN, live : BOOLEAN]
  BY DEF CheckInv, Today, Days
<1>1. CASE Ask
  <2>1. /\ check' = [check EXCEPT !.waiting = FALSE, !.checking = TRUE, !.live = TRUE,
                                  !.asking = @ \cup {Today}]
        /\ UNCHANGED <<planVars, mode, step, reviewVars, picks, details, accept>>
    BY <1>1 DEF Ask
  <2> QED BY <1>0, <2>1 DEF CheckInv, Today
<1>2. CASE \E d \in Days : CheckAnswers(d)
  <2>1. PICK d \in Days : CheckAnswers(d)
    BY <1>2
  <2>2. UNCHANGED <<planVars, mode, step, reviewVars, picks, details, accept>>
    BY <2>1 DEF CheckAnswers
  <2>3. CASE StillWanted(d)
    <3>1. d = Today
      BY <2>3 DEF StillWanted
    <3>2. \/ check' = [check EXCEPT !.asking = @ \ {d}, !.of = d, !.failed = FALSE,
                                    !.checking = FALSE, !.live = FALSE]
          \/ check' = [check EXCEPT !.asking = @ \ {d}, !.failed = TRUE, !.checking = FALSE, !.live = FALSE]
      BY <2>1, <2>3 DEF CheckAnswers
    <3> QED BY <1>0, <2>2, <3>1, <3>2 DEF CheckInv, Today
  <2>4. CASE ~StillWanted(d)
    <3>1. check' = [check EXCEPT !.asking = @ \ {d}]
      BY <2>1, <2>4 DEF CheckAnswers
    <3> QED BY <1>0, <2>2, <3>1 DEF CheckInv, Today
  <2> QED BY <2>2, <2>3, <2>4
<1> QED BY <1>1, <1>2

\* The request and the wait of a press.
LEMMA PressStep ==
    ASSUME FlowInv, NEW q \in Requests, NEW kind \in Kinds, NEW s \in Sessions \cup {NoSession},
           NEW args \in ArgTypes, Arrive(q, kind, s, args),
           kind = "understand" => s \in Sessions,
           kind = "manual" => args.picks # <<>>,
           kind = "preview" => args.to \in Places,
           kind = "edit" => args.stop.version \in 1..Len(versions),
           PageTypes', CheckInv',
           pending' = pending \/ (pending' = TRUE /\ kind \notin {"preview", "cancel"})
    PROVE  FlowInv'
<1>1. /\ SessionsInv'
      /\ request[q].stage = "idle" /\ request'[q].stage = "read" /\ request'[q].kind = kind
      /\ \A x \in Requests \ {q} : request'[x] = request[x]
  BY ArriveStep DEF FlowInv
<1>2. PendingMeansBusy'
  <2>1. CASE pending' = TRUE /\ kind \notin {"preview", "cancel"}
    BY <1>1, <2>1 DEF PendingMeansBusy
  <2>2. CASE pending' = pending
    BY <1>1, <2>2 DEF FlowInv, PendingMeansBusy
  <2> QED BY <2>1, <2>2
<1> QED BY <1>1, <1>2 DEF FlowInv

\* A step that asks nothing of the server.
LEMMA LocalStep ==
    ASSUME FlowInv, UNCHANGED <<planVars, pending>>, PageTypes', CheckInv'
    PROVE  FlowInv'
BY DEF FlowInv, planVars, SessionsInv, Sealed, PendingMeansBusy

\* A request that ends, and the wait with it unless it was not waited for.
LEMMA EndStep ==
    ASSUME FlowInv, NEW q \in Requests, Done(q), UNCHANGED <<versions, previews, session>>,
           PageTypes', CheckInv',
           pending' = FALSE \/ (pending' = pending /\ request[q].kind \in {"preview", "cancel"})
    PROVE  FlowInv'
<1>1. SessionsInv' /\ \A x \in Requests \ {q} : request'[x] = request[x]
  BY DoneStep DEF FlowInv
<1>2. PendingMeansBusy'
  BY <1>1 DEF FlowInv, PendingMeansBusy
<1> QED BY <1>1, <1>2 DEF FlowInv

\* A request that goes on, and the wait with it.
LEMMA FollowStep ==
    ASSUME FlowInv, NEW q \in Requests, Follows(q), UNCHANGED <<versions, previews, session>>,
           PageTypes', CheckInv', pending' = pending
    PROVE  FlowInv'
<1>1. SessionsInv' /\ request'[q].stage = "following" /\ request'[q].kind = "none"
  BY FollowsStep DEF FlowInv
<1>2. PendingMeansBusy'
  BY <1>1 DEF PendingMeansBusy
<1> QED BY <1>1, <1>2 DEF FlowInv

\* The builder.
LEMMA BuilderStep ==
    ASSUME FlowInv, BuilderNext
    PROVE  FlowInv'
<1>1. CASE Ask \/ \E d \in Days : CheckAnswers(d)
  <2>1. CheckInv' /\ UNCHANGED <<planVars, mode, step, reviewVars>>
    BY <1>1, CheckSteps DEF FlowInv
  <2>2. PageTypes'
    BY <2>1 DEF FlowInv, PageTypes, reviewVars, planVars
  <2> QED BY <2>1, <2>2, LocalStep DEF reviewVars
<1>2. CASE AcceptWarnings
  <2>1. /\ UNCHANGED <<planVars, mode, step, reviewVars, picks, details, check>> /\ accept' = TRUE
    BY <1>2 DEF AcceptWarnings
  <2>2. PageTypes' /\ CheckInv'
    BY <2>1 DEF FlowInv, PageTypes, reviewVars, planVars, CheckInv, Today
  <2> QED BY <2>1, <2>2, LocalStep DEF reviewVars
<1>3. CASE \E p \in Orders : ChangePicks(p)
  <2>1. PICK p \in Orders : ChangePicks(p)
    BY <1>3
  <2>2. Changes(p, details) /\ accept' = FALSE /\ UNCHANGED <<planVars, mode, step, reviewVars>>
    BY <2>1 DEF ChangePicks
  <2>3. CheckInv'
    BY <2>2, DayChanges DEF FlowInv, CheckInv
  <2>4. PageTypes'
    BY <2>2 DEF FlowInv, PageTypes, reviewVars, planVars
  <2> QED BY <2>2, <2>3, <2>4, LocalStep DEF reviewVars
<1>4. CASE \E d \in Details : ChangeDetails(d)
  <2>1. PICK d \in Details : ChangeDetails(d)
    BY <1>4
  <2>2. Changes(picks, d) /\ UNCHANGED <<planVars, mode, step, reviewVars, accept>>
    BY <2>1 DEF ChangeDetails
  <2>3. CheckInv'
    BY <2>2, DayChanges DEF FlowInv, CheckInv
  <2>4. PageTypes'
    BY <2>2 DEF FlowInv, PageTypes, reviewVars, planVars
  <2> QED BY <2>2, <2>3, <2>4, LocalStep DEF reviewVars
<1> QED BY <1>1, <1>2, <1>3, <1>4 DEF BuilderNext

\* The steps of the page that ask nothing.
LEMMA WalkStep ==
    ASSUME FlowInv, PageNext
    PROVE  FlowInv'
<1>0. NoSessionShown \in [sid : Sessions \cup {NoSession}, ver : Numbers] /\ NoSessionShown.ver = 0
      /\ 0 <= Len(versions) /\ 0 \in 0..Len(previews)
  BY PlannerAssumptions DEF PlannerAssumptions, NoSessionShown, Numbers, FlowInv, SessionsInv, Sealed
<1>1. CASE TakeOver \/ \E to \in Steps : Goto(to)
  <2>1. /\ UNCHANGED <<planVars, reviewVars, builderVars>> /\ mode' \in Modes /\ step' \in Steps
    BY <1>1 DEF TakeOver, Goto, FlowInv, PageTypes, Modes, Steps
  <2>2. PageTypes' /\ CheckInv'
    BY <2>1 DEF FlowInv, PageTypes, reviewVars, planVars, CheckInv, Today, builderVars
  <2> QED BY <2>1, <2>2, LocalStep DEF reviewVars
<1>2. CASE CloseReplace \/ \E x \in Places : OpenReplace(x)
  <2>1. /\ UNCHANGED <<planVars, mode, step, shown, asks, pending, manualTrip, builderVars>>
        /\ replacing' \in Stops /\ preview' \in 0..Len(previews)
    <3>1. CASE CloseReplace
      BY <1>0, <3>1, Nothings DEF CloseReplace
    <3>2. CASE \E x \in Places : OpenReplace(x)
      BY <3>2 DEF OpenReplace, Stops, FlowInv, PageTypes
    <3> QED BY <1>2, <3>1, <3>2
  <2>2. PageTypes' /\ CheckInv'
    BY <2>1 DEF FlowInv, PageTypes, planVars, CheckInv, Today, builderVars
  <2> QED BY <2>1, <2>2, LocalStep
<1>3. CASE StartOver \/ \E m \in Tabs : SwitchMode(m)
  <2>1. /\ Forget /\ UNCHANGED <<planVars, pending>>
        /\ mode' \in Modes /\ step' \in Steps /\ replacing' \in Stops /\ preview' \in 0..Len(previews)
    <3>1. CASE StartOver
      BY <1>0, <3>1, Nothings DEF StartOver, Steps, FlowInv, PageTypes
    <3>2. CASE \E m \in Tabs : SwitchMode(m)
      BY <3>2, FlowAssumptions DEF FlowAssumptions, SwitchMode, Steps, FlowInv, PageTypes
    <3> QED BY <1>3, <3>1, <3>2
  <2>2. /\ manualTrip' = NoTrip /\ accept' = FALSE /\ shown' = NoSessionShown /\ asks' = FALSE
        /\ Changes(<<>>, details)
    BY <2>1 DEF Forget
  <2>3. CheckInv'
    BY <2>2, DayChanges, OrderOfNone DEF FlowInv, CheckInv
  <2>4. PageTypes'
    BY <1>0, <2>1, <2>2 DEF FlowInv, PageTypes, planVars
  <2> QED BY <2>1, <2>3, <2>4, LocalStep
<1> QED BY <1>1, <1>2, <1>3 DEF PageNext

\* The presses that ask the server.
LEMMA AskingStep ==
    ASSUME FlowInv, NEW q \in Requests,
           \/ SaveManual(q) \/ Generate(q) \/ Clarify(q) \/ PressRegenerate(q)
           \/ PressAccept(q) \/ PressCancel(q) \/ PressRefine(q) \/ PressEdit(q)
           \/ \E x \in Places : PressLock(q, x) \/ PressPreview(q, x)
    PROVE  FlowInv'
<1>0. /\ NoSessionShown \in [sid : Sessions \cup {NoSession}, ver : Numbers] /\ NoSessionShown.ver = 0
      /\ Len(versions) \in Nat /\ Len(previews) \in 0..MaxPreviews
      /\ NoArgs \in ArgTypes /\ NoSession \in Sessions \cup {NoSession}
  BY Nothings, PlannerAssumptions DEF PlannerAssumptions, NoSessionShown, Numbers, FlowInv, SessionsInv, Sealed
<1>t. /\ PageTypes /\ CheckInv /\ shown.sid \in Sessions \cup {NoSession} /\ shown.ver \in Nat
      /\ shown.ver \in Numbers /\ shown.ver <= Len(versions)
      /\ details \in Details /\ picks \in Orders /\ accept \in BOOLEAN
  BY DEF FlowInv, PageTypes, Numbers, CheckInv
\* A press that leaves the page as it is.
<1>1. ASSUME NEW kind \in Kinds, NEW s \in Sessions \cup {NoSession}, NEW args \in ArgTypes,
             Arrive(q, kind, s, args),
             kind = "understand" => s \in Sessions,
             kind = "preview" => args.to \in Places,
             kind = "edit" => args.stop.version \in 1..Len(versions),
             kind # "manual",
             UNCHANGED <<mode, step, shown, asks, manualTrip, replacing, preview, builderVars>>,
             pending' = pending \/ (pending' = TRUE /\ kind \notin {"preview", "cancel"})
      PROVE  FlowInv'
  <2>1. PageTypes' /\ CheckInv'
    BY <1>1, <1>t DEF PageTypes, CheckInv, Today, builderVars, Arrive
  <2> QED BY <1>1, <2>1, PressStep
<1>2. CASE SaveManual(q) \/ Generate(q)
  <2>1. /\ shown' = NoSessionShown /\ asks' = FALSE /\ step' = "review" /\ pending' = TRUE
        /\ UNCHANGED <<mode, manualTrip, replacing, preview, builderVars, versions, previews>>
    BY <1>2 DEF SaveManual, Generate, Runs, Arrive
  <2>c. CheckInv'
    BY <1>t, <2>1 DEF CheckInv, Today, builderVars
  <2>p. shown' \in [sid : Sessions \cup {NoSession}, ver : Numbers] /\ shown'.ver <= Len(versions')
    BY <1>0, <2>1
  <2>2. PageTypes' /\ CheckInv'
    BY <1>t, <2>1, <2>c, <2>p DEF PageTypes, Steps
  <2>3. CASE Generate(q)
    BY <1>0, <2>1, <2>2, <2>3, PressStep DEF Generate, Runs, Kinds
  <2>4. CASE SaveManual(q)
    <3> DEFINE args == [NoArgs EXCEPT !.picks = picks, !.details = details, !.trip = manualTrip, !.flag = accept]
    <3>1. args \in ArgTypes /\ args.picks = picks
      BY <1>0, <1>t DEF PageTypes, ArgTypes, NoArgs
    <3>2. Arrive(q, "manual", NoSession, args) /\ picks # <<>>
      BY <2>4 DEF SaveManual
    <3> HIDE DEF args
    <3> QED BY <1>0, <2>1, <2>2, <3>1, <3>2, PressStep DEF Kinds
  <2> QED BY <1>2, <2>3, <2>4
<1>3. CASE Clarify(q) \/ PressRegenerate(q) \/ PressRefine(q)
  <2>1. PICK kind \in {"clarify", "regenerate", "understand"} :
          /\ Arrive(q, kind, shown.sid, NoArgs) /\ pending' = TRUE
          /\ kind = "understand" => shown.sid # NoSession
          /\ UNCHANGED <<mode, step, shown, asks, manualTrip, replacing, preview, builderVars>>
    BY <1>3 DEF Clarify, PressRegenerate, PressRefine, Runs, Reviewing
  <2> QED BY <1>0, <1>1, <1>t, <2>1 DEF Kinds
<1>4. CASE PressAccept(q)
  <2> DEFINE args == [NoArgs EXCEPT !.pid = preview]
  <2>0. preview \in 0..MaxPreviews
    BY <1>0, <1>t, PlannerAssumptions DEF PlannerAssumptions, PageTypes
  <2>1. args \in ArgTypes
    BY <1>0, <2>0 DEF ArgTypes, NoArgs
  <2>2. Arrive(q, "accept", shown.sid, args) /\ pending' = TRUE
        /\ UNCHANGED <<mode, step, shown, asks, manualTrip, replacing, preview, builderVars>>
    BY <1>4 DEF PressAccept, Runs
  <2> HIDE DEF args
  <2> QED BY <1>1, <1>t, <2>1, <2>2 DEF Kinds
<1>5. CASE PressCancel(q)
  BY <1>0, <1>1, <1>5, <1>t DEF Kinds, PressCancel, reviewVars
<1>6. CASE PressEdit(q)
  <2> DEFINE stop == [version |-> shown.ver, place |-> NoPlace]
             args == [NoArgs EXCEPT !.stop = stop]
  <2>1. stop \in Stops /\ stop.version = shown.ver
    BY <1>t DEF Stops
  <2>2. args \in ArgTypes /\ args.stop = stop
    BY <1>0, <2>1 DEF ArgTypes, NoArgs
  <2>3. Arrive(q, "edit", NoSession, args) /\ pending' = TRUE /\ shown.ver # 0
        /\ UNCHANGED <<mode, step, shown, asks, manualTrip, replacing, preview, builderVars>>
    BY <1>6 DEF PressEdit, Runs
  <2> HIDE DEF args, stop
  <2>4. args.stop.version \in 1..Len(versions)
    BY <1>0, <1>t, <2>1, <2>2, <2>3
  <2> QED BY <1>0, <1>1, <2>2, <2>3, <2>4 DEF Kinds
<1>7. CASE \E x \in Places : PressLock(q, x)
  <2>1. PICK x \in Places : PressLock(q, x)
    BY <1>7
  <2>2. PICK b \in BOOLEAN : b = (x \notin versions[shown.ver].locked)
    OBVIOUS
  <2> DEFINE stop == [version |-> shown.ver, place |-> x]
             args == [NoArgs EXCEPT !.stop = stop, !.flag = b]
  <2>3. stop \in Stops
    BY <1>t DEF Stops
  <2>4. args \in ArgTypes
    BY <1>0, <2>3 DEF ArgTypes, NoArgs
  <2>5. Arrive(q, "lock", shown.sid, args) /\ pending' = TRUE
        /\ UNCHANGED <<mode, step, shown, asks, manualTrip, replacing, preview, builderVars>>
    BY <2>1, <2>2 DEF PressLock, Runs
  <2> HIDE DEF args
  <2> QED BY <1>1, <1>t, <2>4, <2>5 DEF Kinds
<1>8. CASE \E x \in Places : PressPreview(q, x)
  <2>1. PICK x \in Places : PressPreview(q, x)
    BY <1>8
  <2> DEFINE args == [NoArgs EXCEPT !.stop = replacing, !.to = x]
  <2>2. args \in ArgTypes /\ args.to = x
    BY <1>0, <1>t DEF PageTypes, ArgTypes, NoArgs
  <2>3. Arrive(q, "preview", shown.sid, args)
        /\ UNCHANGED <<mode, step, shown, asks, pending, manualTrip, replacing, preview, builderVars>>
    BY <2>1 DEF PressPreview, reviewVars
  <2> HIDE DEF args
  <2> QED BY <1>1, <1>t, <2>2, <2>3 DEF Kinds
<1> QED BY <1>2, <1>3, <1>4, <1>5, <1>6, <1>7, <1>8

\* A version is of a trip.
LEMMA TripOf == ASSUME Sealed, NEW v \in 1..Len(versions) PROVE versions[v].trip \in Trips
<1>1. versions[v] \in Versions
  BY DEF Sealed
<1> QED BY <1>1 DEF Versions

\* The answers, and the requests that break off.
LEMMA AnswerSteps ==
    ASSUME FlowInv, NEW q \in Requests,
           \/ Receive(q) \/ ReceiveError(q) \/ BreaksOff(q) \/ Understood(q) \/ ReceivePreview(q)
           \/ FollowedUp(q) \/ \E found \in Orders : StartEditing(q, found)
    PROVE  FlowInv'
<1> DEFINE r == request[q]
<1>0. /\ SessionsInv /\ Sealed /\ Len(versions) \in Nat /\ Len(previews) \in Nat
      /\ r \in RequestTypes /\ Good(r, versions, previews)
      /\ PageTypes /\ CheckInv
  BY DEF FlowInv, SessionsInv, Sealed
<1>1. CASE Receive(q)
  <2>1. /\ r.answer \in AnswerTypes /\ r.answer.ver <= Len(versions) /\ r.answer.ver \in Nat
    BY <1>0 DEF RequestTypes, AnswerTypes, Good, Numbers
  <2>2. r.answer.ver # 0 => versions[r.answer.ver].trip \in Trips
    <3>1. r.answer.ver # 0 => r.answer.ver \in 1..Len(versions)
      BY <1>0, <2>1
    <3> QED BY <1>0, <3>1, TripOf
  <2>3. /\ shown' = [sid |-> r.answer.sid, ver |-> r.answer.ver] /\ asks' = r.answer.asks
        /\ manualTrip' = IF r.answer.ver = 0 THEN manualTrip ELSE versions[r.answer.ver].trip
        /\ \/ Done(q) /\ pending' = FALSE
           \/ Follows(q) /\ pending' = pending
        /\ UNCHANGED <<versions, session, previews, mode, step, replacing, preview, builderVars>>
    BY <1>1 DEF Receive
  <2> HIDE DEF r
  <2>4. CheckInv'
    BY <1>0, <2>3 DEF CheckInv, Today, builderVars
  <2>5. shown' \in [sid : Sessions \cup {NoSession}, ver : Numbers] /\ shown'.ver <= Len(versions')
        /\ asks' \in BOOLEAN /\ manualTrip' \in Trips \cup {NoTrip}
    BY <1>0, <2>1, <2>2, <2>3 DEF AnswerTypes, PageTypes
  <2>6. PageTypes'
    BY <1>0, <2>3, <2>5 DEF PageTypes
  <2> QED BY <2>3, <2>4, <2>6, EndStep, FollowStep
\* Steps that leave what the page shows.
<1>2. ASSUME UNCHANGED <<versions, session, previews, mode, step, shown, asks, manualTrip,
                         replacing, preview, builderVars>>
      PROVE  PageTypes' /\ CheckInv'
  BY <1>0, <1>2 DEF PageTypes, CheckInv, Today, builderVars
<1>3. CASE ReceiveError(q)
  BY <1>2, <1>3, EndStep DEF ReceiveError
<1>4. CASE BreaksOff(q)
  <2>1. UNCHANGED <<versions, session, previews, mode, step, shown, asks, manualTrip,
                    replacing, preview, builderVars>>
    BY <1>4 DEF BreaksOff
  <2>2. r.stage = "read"
        /\ pending' = IF r.kind \in {"preview", "cancel"} THEN pending ELSE FALSE
    BY <1>4 DEF BreaksOff
  <2>3. CASE r.kind = "edit"
    BY <1>2, <1>4, <2>1, <2>2, <2>3, EndStep DEF BreaksOff
  <2>4. CASE r.kind # "edit"
    <3> DEFINE o == [r EXCEPT !.stage = "orphaned"]
    <3>1. request' = [request EXCEPT ![q] = o]
      BY <1>4, <2>4 DEF BreaksOff
    <3>2. o \in RequestTypes /\ Good(o, versions, previews)
      <4>1. /\ o \in RequestTypes /\ o.stage = "orphaned" /\ o.kind = r.kind /\ o.snap = r.snap
            /\ o.answer = r.answer /\ o.sid = r.sid /\ o.args = r.args
        BY <1>0 DEF RequestTypes
      <4> HIDE DEF o, r
      <4> QED BY <1>0, <2>2, <4>1 DEF Good
    <3> HIDE DEF o
    <3>3. SessionsInv'
      BY <1>0, <2>1, <3>1, <3>2, PutRequest
    <3>4. \A x \in Requests \ {q} : request'[x] = request[x]
      BY <1>0, <3>1 DEF SessionsInv
    <3>5. PendingMeansBusy'
      BY <2>2, <3>4 DEF FlowInv, PendingMeansBusy
    <3> QED BY <1>2, <2>1, <2>2, <3>3, <3>5 DEF FlowInv
  <2> QED BY <2>3, <2>4
<1>5. CASE Understood(q)
  <2>1. UNCHANGED <<versions, session, previews, mode, step, shown, asks, manualTrip,
                    replacing, preview, builderVars>> /\ r.kind = "understand"
    BY <1>5 DEF Understood, Answered
  <2>2. CASE r.answer.asks
    BY <1>2, <1>5, <2>1, <2>2, EndStep DEF Understood, WaitEnds
  <2>3. CASE ~r.answer.asks
    <3> DEFINE n == [Idle EXCEPT !.stage = "read", !.kind = "refine", !.sid = r.sid, !.snap = session[r.sid]]
    <3>1. request' = [request EXCEPT ![q] = n] /\ pending' = TRUE
      BY <1>5, <2>3 DEF Understood
    <3>2. r.sid \in Sessions
      BY <1>0, <2>1 DEF Good
    <3>3. session[r.sid] \in Rows /\ Fits(session[r.sid], versions, previews)
      BY <1>0, <3>2 DEF SessionsInv
    <3> HIDE DEF r
    <3>4. /\ n \in RequestTypes /\ n.stage = "read" /\ n.kind = "refine" /\ n.snap = session[r.sid]
          /\ n.answer = NoAnswer
      BY <3>2, <3>3, Nothings DEF Idle, RequestTypes, Kinds
    <3> HIDE DEF n
    <3>5. Good(n, versions, previews)
      BY <1>0, <3>3, <3>4 DEF Good, NoAnswer
    <3>6. SessionsInv'
      BY <1>0, <2>1, <3>1, <3>4, <3>5, PutRequest
    <3>7. PendingMeansBusy'
      BY <1>0, <3>1, <3>4 DEF PendingMeansBusy, SessionsInv
    <3> QED BY <1>2, <2>1, <3>1, <3>6, <3>7 DEF FlowInv
  <2> QED BY <2>2, <2>3
<1>6. CASE ReceivePreview(q)
  <2>1. /\ preview' \in 0..Len(previews) /\ Done(q)
        /\ r.kind \in {"preview", "cancel"}
        /\ UNCHANGED <<versions, session, previews, mode, step, shown, asks, pending, manualTrip,
                       replacing, builderVars>>
    BY <1>0, <1>6 DEF ReceivePreview, Answered, PageTypes, Good, RequestTypes, AnswerTypes
  <2>2. PageTypes' /\ CheckInv'
    BY <1>0, <2>1 DEF PageTypes, CheckInv, Today, builderVars
  <2> QED BY <2>1, <2>2, EndStep
<1>7. CASE \E found \in Orders : StartEditing(q, found)
  <2>1. PICK found \in Orders : StartEditing(q, found)
    BY <1>7
  <2>2. PICK d \in Details : Changes(found, d)
    BY <2>1 DEF StartEditing
  <2>3. /\ manualTrip' = versions[r.args.stop.version].trip
        /\ mode' = "manual" /\ step' = "places" /\ accept' = FALSE /\ Follows(q) /\ pending' = pending
        /\ UNCHANGED <<versions, session, previews, shown, asks, replacing, preview>>
    BY <2>1 DEF StartEditing
  <2>4. r.args.stop.version \in 1..Len(versions)
    BY <1>0, <2>1 DEF StartEditing, Good
  <2>5. manualTrip' \in Trips
    BY <1>0, <2>3, <2>4, TripOf
  <2>6. CheckInv'
    BY <1>0, <2>2, <2>3, DayChanges
  <2>7. PageTypes'
    BY <1>0, <2>3, <2>5 DEF PageTypes, Modes, Steps
  <2> QED BY <2>3, <2>6, <2>7, FollowStep
<1>8. CASE FollowedUp(q)
  BY <1>2, <1>8, EndStep DEF FollowedUp
<1> QED BY <1>1, <1>3, <1>4, <1>5, <1>6, <1>7, <1>8

\* Every step keeps the invariant.
LEMMA FlowNext == FlowInv /\ [Next]_vars => FlowInv'
<1> SUFFICES ASSUME FlowInv, [Next]_vars PROVE FlowInv'
  OBVIOUS
<1>1. CASE UNCHANGED vars
  <2>1. PageTypes' /\ CheckInv'
    BY <1>1 DEF FlowInv, PageTypes, CheckInv, Today, vars, builderVars, reviewVars, planVars
  <2> QED BY <1>1, <2>1, LocalStep DEF vars, reviewVars
<1>2. CASE \E q \in Requests : Serve(q) /\ UNCHANGED <<mode, step, reviewVars, builderVars>>
  <2>1. PICK q \in Requests : Serve(q) /\ UNCHANGED <<mode, step, reviewVars, builderVars>>
    BY <1>2
  <2>2. /\ SessionsInv' /\ Grows
        /\ \A x \in Requests \ {q} : request'[x] = request[x]
        /\ request[q].stage # "orphaned" =>
               request'[q].stage = "answered" /\ request'[q].kind = request[q].kind
    BY <2>1, ServeStep DEF FlowInv
  <2>3. PendingMeansBusy'
    BY <2>1, <2>2 DEF FlowInv, PendingMeansBusy, reviewVars
  <2>4. CheckInv'
    BY <2>1 DEF FlowInv, CheckInv, Today, builderVars
  <2>5. /\ Len(versions) <= Len(versions') /\ Len(previews) <= Len(previews')
        /\ Len(versions) \in Nat /\ Len(versions') \in Nat /\ Len(previews) \in Nat /\ Len(previews') \in Nat
        /\ shown.ver \in Nat
    BY <2>2 DEF Grows, Sealed, FlowInv, SessionsInv, PageTypes, Numbers
  <2>6. PageTypes'
    BY <2>1, <2>5 DEF FlowInv, PageTypes, reviewVars
  <2> QED BY <2>1, <2>2, <2>3, <2>4, <2>6 DEF FlowInv, reviewVars
<1>3. CASE BuilderNext \/ PageNext
  BY <1>3, BuilderStep, WalkStep
<1> QED BY <1>1, <1>2, <1>3, AskingStep, AnswerSteps DEF Next, RequestNext

LEMMA FlowInit == Init => FlowInv
<1> SUFFICES ASSUME Init PROVE FlowInv
  OBVIOUS
<1>1. Sealed
  BY PlannerAssumptions DEF PlannerAssumptions, Init, PlanInit, Sealed
<1>2. SessionsInv
  <2>1. Fits(NoRow, versions, previews) /\ Idle.snap = NoRow /\ Idle.answer = NoAnswer
        /\ Idle.kind = "none"
    BY <1>1, NoRowFits DEF Idle
  <2>2. Good(Idle, versions, previews)
    BY <1>1, <2>1 DEF Good, Sealed, NoAnswer
  <2>3. Len(versions) = 0
    BY DEF Init, PlanInit
  <2>4. session \in [Sessions -> Rows] /\ \A s \in Sessions : session[s] = NoRow
    BY Nothings DEF Init, PlanInit
  <2>5. request \in [Requests -> RequestTypes] /\ \A q \in Requests : request[q] = Idle
    BY Nothings DEF Init, PlanInit
  <2>6. \A v \in 1..Len(versions) : Previewed(versions[v], versions, previews)
    BY <2>3
  <2>7. \A s \in Sessions : Fits(session[s], versions, previews)
    BY <2>1, <2>4
  <2>8. \A q \in Requests : Good(request[q], versions, previews)
    BY <2>2, <2>5
  <2> QED BY <1>1, <2>4, <2>5, <2>6, <2>7, <2>8 DEF SessionsInv
<1>3. PageTypes
  <2>1. Len(versions) \in Nat /\ Len(previews) \in Nat /\ 0 \in Numbers
    BY <1>1, PlannerAssumptions DEF PlannerAssumptions, Sealed, Numbers
  <2>2. shown \in [sid : Sessions \cup {NoSession}, ver : Numbers] /\ shown.ver = 0
    BY <2>1 DEF Init, NoSessionShown
  <2>3. preview \in 0..Len(previews) /\ shown.ver <= Len(versions)
    BY <2>1, <2>2 DEF Init
  <2> QED BY <2>2, <2>3, Nothings DEF Init, PageTypes, Modes, Steps
<1>4. CheckInv
  <2>1. NoArgs.details \in Details
    BY Nothings DEF ArgTypes
  <2> QED BY <2>1, OrderOfNone DEF Init, CheckInv
<1>5. pending \in BOOLEAN /\ PendingMeansBusy
  BY DEF Init, PendingMeansBusy
<1> QED BY <1>2, <1>3, <1>4, <1>5 DEF FlowInv

LEMMA FlowInvariance == Spec => []FlowInv
BY FlowInit, FlowNext, PTL DEF Spec

-----------------------------------------------------------------------------
\* The variables of the planner and of its page keep their types.
THEOREM PlanTypeCorrect == Spec => []TypeOK
<1>1. FlowInv => TypeOK
  <2> SUFFICES ASSUME FlowInv PROVE TypeOK
    OBVIOUS
  <2>1. PlanTypeOK
    <3>1. \A q \in Requests : /\ request[q] \in RequestTypes /\ request[q].answer \in AnswerTypes
                              /\ Good(request[q], versions, previews)
      BY DEF FlowInv, SessionsInv, RequestTypes
    <3>2. \A q \in Requests : /\ request[q].answer.ver \in 0..Len(versions)
                              /\ request[q].answer.pid \in 0..Len(previews)
      BY <3>1 DEF Good, AnswerTypes, Numbers, FlowInv, SessionsInv, Sealed
    <3>3. \A q \in Requests :
             /\ request[q].stage \in {"idle", "read", "orphaned", "answered", "following", "done"}
             /\ request[q].kind \in Kinds
             /\ request[q].sid \in Sessions \cup {NoSession} /\ request[q].snap \in Rows
      BY <3>1 DEF RequestTypes
    <3>4. /\ \A v \in 1..Len(versions) : versions[v] \in Versions
          /\ \A p \in 1..Len(previews) : previews[p] \in [base : Numbers, locks : SUBSET Places]
          /\ Len(versions) <= MaxVersions /\ Len(previews) <= MaxPreviews
      <4>1. Sealed
        BY DEF FlowInv, SessionsInv
      <4>2. \A v \in 1..Len(versions) : versions[v] \in Versions
        BY <4>1 DEF Sealed
      <4>3. \A p \in 1..Len(previews) : previews[p] \in Promises
        BY <4>1 DEF Sealed
      <4> QED BY <4>1, <4>2, <4>3 DEF Sealed, Promises
    <3>5. session \in [Sessions -> Rows] /\ DOMAIN request = Requests
      BY DEF FlowInv, SessionsInv
    <3> QED BY <3>2, <3>3, <3>4, <3>5 DEF PlanTypeOK
  <2>2. shown.ver \in 0..Len(versions) /\ shown.sid \in Sessions \cup {NoSession}
    BY DEF FlowInv, PageTypes, Numbers, SessionsInv, Sealed
  <2> QED BY <2>1, <2>2 DEF FlowInv, PageTypes, CheckInv, TypeOK
<1> QED BY <1>1, FlowInvariance, PTL

\* An accepted replacement seals what its preview promised (pipeline.py:
\* preview_replace, accept_replace), however many requests were at work.
THEOREM AcceptSound == Spec => []AcceptIsPreviewed
<1>1. FlowInv => AcceptIsPreviewed
  BY DEF FlowInv, SessionsInv, Previewed, AcceptIsPreviewed
<1> QED BY <1>1, FlowInvariance, PTL

\* The page never waits for an answer that is not on its way (plan-flow.tsx: run,
\* applyRefine, editManually).
THEOREM WaitSound == Spec => []PendingMeansBusy
<1>1. FlowInv => PendingMeansBusy
  BY DEF FlowInv
<1> QED BY <1>1, FlowInvariance, PTL

\* The day check that is at rest is about the day on the page (day-panel.tsx).
THEOREM CheckSound == Spec => []CheckIsOfTheDay
<1>1. FlowInv => CheckIsOfTheDay
  BY DEF FlowInv, CheckInv, CheckIsOfTheDay
<1> QED BY <1>1, FlowInvariance, PTL
=============================================================================
