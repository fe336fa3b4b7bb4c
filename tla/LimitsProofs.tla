---------------------------- MODULE LimitsProofs ----------------------------
(*****************************************************************************)
(* The limits of the dashboard's routes, for any number of users,            *)
(* Organizations, tabs, tokens and pings and for any limits: a slot that is  *)
(* taken is a live stream or a ping that waits, whatever ends it and in      *)
(* whatever order, and a limiter's windows have counted the calls let in.    *)
(*****************************************************************************)
EXTENDS Dashboard, FixedWindows, FiniteSetTheorems, TLAPS

-----------------------------------------------------------------------------
(* Slots *)

SlotRows == [organization : [Organizations -> Nat], user : [Users -> Nat]]

\* Of those in `holders`, the ones of user u, and of Organization o's users.
HeldBy(holders, of, u) == {h \in holders : of[h] = u}
HeldIn(holders, of, o) == {h \in holders : OrganizationOf[of[h]] = o}

\* A row of slots counts its holders.
Counted(rows, holders, of) ==
    /\ \A u \in Users : rows.user[u] = Cardinality(HeldBy(holders, of, u))
    /\ \A o \in Organizations : rows.organization[o] = Cardinality(HeldIn(holders, of, o))

\* The slots of user v and of the Organization have gone up, or down, by `step`.
OneSlot(rows, v, step, after) ==
    /\ \A u \in Users : after.user[u] = rows.user[u] + (IF u = v THEN step ELSE 0)
    /\ \A o \in Organizations :
          after.organization[o] = rows.organization[o] + (IF o = OrganizationOf[v] THEN step ELSE 0)

\* Slots are counted from zero up and down to zero.
LEMMA SlotsMove ==
    ASSUME OrganizationOf \in [Users -> Organizations], NEW rows \in SlotRows, NEW v \in Users
    PROVE  /\ Acquired(rows, v) \in SlotRows /\ Released(rows, v) \in SlotRows
           /\ OneSlot(rows, v, 1, Acquired(rows, v))
           /\ rows.user[v] > 0 /\ rows.organization[OrganizationOf[v]] > 0 =>
                 OneSlot(rows, v, -1, Released(rows, v))
<1> DEFINE w == OrganizationOf[v]  taken == rows.organization  of == rows.user
           more == [organization |-> [taken EXCEPT ![w] = @ + 1], user |-> [of EXCEPT ![v] = @ + 1]]
           less == [organization |-> [taken EXCEPT ![w] = IF @ = 0 THEN 0 ELSE @ - 1],
                    user |-> [of EXCEPT ![v] = @ - 1]]
<1>1. w \in Organizations /\ taken \in [Organizations -> Nat] /\ of \in [Users -> Nat]
  BY DEF SlotRows
<1>2. rows = [organization |-> taken, user |-> of] BY DEF SlotRows
<1>3. Acquired(rows, v) = more
  <2>1. Acquired(rows, v) = [rows EXCEPT !.organization[w] = @ + 1, !.user[v] = @ + 1]
    BY DEF Acquired
  <2> QED BY <1>1, <1>2, <2>1
<1>4. of[v] # 0 => Released(rows, v) = less BY <1>2 DEF Released
<1>5. of[v] = 0 => Released(rows, v) = rows BY DEF Released
<1> HIDE DEF w, taken, of
<1>6. /\ [taken EXCEPT ![w] = @ + 1] \in [Organizations -> Nat]
      /\ [of EXCEPT ![v] = @ + 1] \in [Users -> Nat]
  BY <1>1
<1>7. [taken EXCEPT ![w] = IF @ = 0 THEN 0 ELSE @ - 1] \in [Organizations -> Nat] BY <1>1
<1>8. of[v] # 0 => [of EXCEPT ![v] = @ - 1] \in [Users -> Nat] BY <1>1
<1>9. more \in SlotRows /\ (of[v] # 0 => less \in SlotRows) BY <1>6, <1>7, <1>8 DEF SlotRows
<1>10. of[v] \in Nat BY <1>1
<1>11. OneSlot(rows, v, 1, more) BY <1>1 DEF OneSlot, taken, of, w
<1>12. taken[w] > 0 => OneSlot(rows, v, -1, less)
  <2>1. \A u \in Users : less.user[u] = of[u] + (IF u = v THEN -1 ELSE 0) BY <1>1
  <2>2. taken[w] > 0 => \A o \in Organizations :
           less.organization[o] = taken[o] + (IF o = w THEN -1 ELSE 0)
    BY <1>1
  <2> HIDE DEF less
  <2> QED BY <2>1, <2>2 DEF OneSlot, taken, of, w
<1> HIDE DEF more, less
<1>13. of[v] > 0 => Released(rows, v) = less BY <1>4, <1>10
<1>14. Acquired(rows, v) \in SlotRows /\ Released(rows, v) \in SlotRows
  BY <1>3, <1>4, <1>5, <1>9
<1>15. of[v] > 0 /\ taken[w] > 0 => OneSlot(rows, v, -1, Released(rows, v)) BY <1>12, <1>13
<1>16. OneSlot(rows, v, 1, Acquired(rows, v)) BY <1>3, <1>11
<1> QED BY <1>14, <1>15, <1>16 DEF w, taken, of

\* Who takes a slot is one more holder.
LEMMA SlotTaken ==
    ASSUME OrganizationOf \in [Users -> Organizations], NEW rows \in SlotRows,
           NEW holders, IsFiniteSet(holders), NEW of, Counted(rows, holders, of),
           NEW x, x \notin holders, NEW after, after[x] \in Users,
           \A h \in holders : after[h] = of[h]
    PROVE  Counted(Acquired(rows, after[x]), holders \cup {x}, after)
<1> DEFINE v == after[x]  all == holders \cup {x}
<1>1. \A u : HeldBy(all, after, u) = IF u = v THEN HeldBy(holders, of, u) \cup {x}
                                      ELSE HeldBy(holders, of, u)
  BY DEF HeldBy
<1>2. \A o : HeldIn(all, after, o) = IF o = OrganizationOf[v] THEN HeldIn(holders, of, o) \cup {x}
                                      ELSE HeldIn(holders, of, o)
  BY DEF HeldIn
<1>3. \A u : HeldBy(holders, of, u) \subseteq holders /\ x \notin HeldBy(holders, of, u)
  BY DEF HeldBy
<1>4. \A o : HeldIn(holders, of, o) \subseteq holders /\ x \notin HeldIn(holders, of, o)
  BY DEF HeldIn
<1>5. \A S : S \subseteq holders /\ x \notin S => Cardinality(S \cup {x}) = Cardinality(S) + 1
  BY FS_Subset, FS_AddElement
<1> HIDE DEF v, all
<1>6. v \in Users BY DEF v
<1>7. \A u \in Users : rows.user[u] \in Nat BY DEF SlotRows
<1>8. \A o \in Organizations : rows.organization[o] \in Nat BY DEF SlotRows
<1>9. OneSlot(rows, v, 1, Acquired(rows, v)) BY <1>6, SlotsMove
<1>10. ASSUME NEW u \in Users
      PROVE  Acquired(rows, v).user[u] = Cardinality(HeldBy(all, after, u))
  <2>1. Acquired(rows, v).user[u] = rows.user[u] + (IF u = v THEN 1 ELSE 0)
    BY <1>9 DEF OneSlot
  <2>2. rows.user[u] = Cardinality(HeldBy(holders, of, u)) BY DEF Counted
  <2>3. Cardinality(HeldBy(holders, of, u) \cup {x}) = rows.user[u] + 1 BY <1>3, <1>5, <2>2
  <2> QED BY <1>1, <1>7, <2>1, <2>2, <2>3
<1>11. ASSUME NEW o \in Organizations
       PROVE  Acquired(rows, v).organization[o] = Cardinality(HeldIn(all, after, o))
  <2>1. Acquired(rows, v).organization[o] =
           rows.organization[o] + (IF o = OrganizationOf[v] THEN 1 ELSE 0)
    BY <1>9 DEF OneSlot
  <2>2. rows.organization[o] = Cardinality(HeldIn(holders, of, o)) BY DEF Counted
  <2>3. Cardinality(HeldIn(holders, of, o) \cup {x}) = rows.organization[o] + 1 BY <1>4, <1>5, <2>2
  <2> QED BY <1>2, <1>8, <2>1, <2>2, <2>3
<1> QED BY <1>10, <1>11 DEF Counted, v, all

\* Who gives it back is one less.
LEMMA SlotReturned ==
    ASSUME OrganizationOf \in [Users -> Organizations], NEW rows \in SlotRows,
           NEW holders, IsFiniteSet(holders), NEW of, Counted(rows, holders, of),
           NEW x \in holders, of[x] \in Users,
           NEW after, \A h \in holders \ {x} : after[h] = of[h]
    PROVE  Counted(Released(rows, of[x]), holders \ {x}, after)
<1> DEFINE v == of[x]  w == OrganizationOf[v]  rest == holders \ {x}
<1>1. \A u : HeldBy(rest, after, u) = IF u = v THEN HeldBy(holders, of, u) \ {x}
                                       ELSE HeldBy(holders, of, u)
  BY DEF HeldBy
<1>2. \A o : HeldIn(rest, after, o) = IF o = w THEN HeldIn(holders, of, o) \ {x}
                                       ELSE HeldIn(holders, of, o)
  BY DEF HeldIn
<1>3. x \in HeldBy(holders, of, v) /\ x \in HeldIn(holders, of, w) BY DEF HeldBy, HeldIn
<1>4. HeldBy(holders, of, v) \subseteq holders /\ HeldIn(holders, of, w) \subseteq holders
  BY DEF HeldBy, HeldIn
<1> HIDE DEF v, w, rest
<1>5. v \in Users /\ w \in Organizations /\ w = OrganizationOf[v] BY DEF v, w
<1>6. ASSUME NEW S, x \in S, S \subseteq holders
      PROVE  Cardinality(S) \in Nat \ {0} /\ Cardinality(S \ {x}) = Cardinality(S) - 1
  <2>1. IsFiniteSet(S) BY <1>6, FS_Subset
  <2>2. S # {} BY <1>6
  <2> QED BY <1>6, <2>1, <2>2, FS_RemoveElement, FS_EmptySet, FS_CardinalityType
<1>7. /\ Cardinality(HeldBy(holders, of, v)) \in Nat \ {0}
      /\ Cardinality(HeldBy(holders, of, v) \ {x}) = Cardinality(HeldBy(holders, of, v)) - 1
  BY <1>3, <1>4, <1>6
<1>8. /\ Cardinality(HeldIn(holders, of, w)) \in Nat \ {0}
      /\ Cardinality(HeldIn(holders, of, w) \ {x}) = Cardinality(HeldIn(holders, of, w)) - 1
  BY <1>3, <1>4, <1>6
<1>9. /\ \A u \in Users : rows.user[u] = Cardinality(HeldBy(holders, of, u))
      /\ \A o \in Organizations : rows.organization[o] = Cardinality(HeldIn(holders, of, o))
  BY DEF Counted
<1>10. rows.user[v] \in Nat \ {0} /\ rows.organization[w] \in Nat \ {0}
  BY <1>5, <1>7, <1>8, <1>9
<1>11. OneSlot(rows, v, -1, Released(rows, v))
  <2>1. rows.user[v] > 0 /\ rows.organization[OrganizationOf[v]] > 0 BY <1>5, <1>10
  <2>2. v \in Users BY <1>5
  <2> QED BY <2>1, <2>2, SlotsMove
<1>12. ASSUME NEW u \in Users
       PROVE  Released(rows, v).user[u] = Cardinality(HeldBy(rest, after, u))
  <2>1. Released(rows, v).user[u] = rows.user[u] + (IF u = v THEN -1 ELSE 0)
    BY <1>11 DEF OneSlot
  <2>2. CASE u = v
    <3>1. HeldBy(rest, after, v) = HeldBy(holders, of, v) \ {x} BY <1>1
    <3>2. rows.user[v] = Cardinality(HeldBy(holders, of, v)) BY <1>5, <1>9
    <3>3. Released(rows, v).user[v] = rows.user[v] - 1 BY <2>1, <2>2
    <3> QED BY <1>7, <2>2, <3>1, <3>2, <3>3
  <2>3. CASE u # v
    <3>1. rows.user[u] \in Nat BY DEF SlotRows
    <3> QED BY <1>1, <1>9, <2>1, <2>3, <3>1
  <2> QED BY <2>2, <2>3
<1>13. ASSUME NEW o \in Organizations
       PROVE  Released(rows, v).organization[o] = Cardinality(HeldIn(rest, after, o))
  <2>1. Released(rows, v).organization[o] = rows.organization[o] + (IF o = w THEN -1 ELSE 0)
    BY <1>5, <1>11 DEF OneSlot
  <2>2. CASE o = w
    <3>1. HeldIn(rest, after, w) = HeldIn(holders, of, w) \ {x} BY <1>2
    <3>2. rows.organization[w] = Cardinality(HeldIn(holders, of, w)) BY <1>5, <1>9
    <3>3. Released(rows, v).organization[w] = rows.organization[w] - 1 BY <2>1, <2>2
    <3> QED BY <1>8, <2>2, <3>1, <3>2, <3>3
  <2>3. CASE o # w
    <3>1. rows.organization[o] \in Nat BY DEF SlotRows
    <3> QED BY <1>2, <1>9, <2>1, <2>3, <3>1
  <2> QED BY <2>2, <2>3
<1> QED BY <1>12, <1>13 DEF Counted, v, rest

-----------------------------------------------------------------------------
(* The dashboard: types *)

\* A refresh of tab b that is begun is a refresh.
LEMMA RefreshStarts ==
    ASSUME DashboardTypeOK, NEW b \in Tabs, NEW by \in {"event", "other"}, StartRefresh(b, by)
    PROVE  refreshes' \in [Tabs -> [1..MaxRefreshes -> Refresh]]
BY DEF DashboardTypeOK, StartRefresh, Refresh

\* An event in each stream that is open.
LEMMA EventsAreCounted ==
    ASSUME DashboardTypeOK, emitRefresh
    PROVE  events' \in [Tabs -> Nat]
BY DEF DashboardTypeOK, emitRefresh

\* What is saved, and what the tab learns of it, is a change of the user's.
EditRows == [kind : EditKinds \cup {"none"}, value : 0..MaxChanges, previous : 0..MaxChanges,
             state : {"none", "sent", "saved", "failed"}]

\* What a tab shows and has sent, its stream, and what the Server holds of it.
Lives == {"free", "issued", "open", "ended", "past"}
PagesTyped ==
    /\ {data, changes} \subseteq 0..MaxChanges
    /\ page \in [Tabs -> Pages]
    /\ shown \in [Tabs -> 0..MaxChanges]
    /\ refreshes \in [Tabs -> [1..MaxRefreshes -> Refresh]]
    /\ edit \in [Tabs -> EditRows]
StreamsTyped ==
    /\ stream \in [Tabs -> {"closed", "authorizing", "connecting", "open", "waiting"}]
    /\ token \in [Tabs -> LiveTokens \cup {NoToken}]
    /\ \A b \in Tabs : token[b] # NoToken <=> stream[b] \in {"connecting", "open"}
    /\ events \in [Tabs -> Nat]
ServerTyped ==
    /\ lives \in [LiveTokens -> Lives]
    /\ owner \in [LiveTokens -> Tabs]
    /\ slots \in SlotRows

\* The types are those of the three parts, before a step and after it.
LEMMA TypeParts ==
    /\ DashboardTypeOK <=> PagesTyped /\ StreamsTyped /\ ServerTyped
    /\ DashboardTypeOK' <=> PagesTyped' /\ StreamsTyped' /\ ServerTyped'
BY ZenonT(20) DEF DashboardTypeOK, PagesTyped, StreamsTyped, ServerTyped, EditRows, SlotRows, Lives

\* The refreshes of a tab keep their types.
LEMMA RefreshTypes ==
    ASSUME DashboardTypeOK, NEW b \in Tabs,
           \/ RefreshWhenVisible(b) \/ RefreshOnEvent(b)
           \/ \E i \in 1..MaxRefreshes : \/ ServeContext(b, i) \/ ServeSessions(b, i)
                                         \/ ShowContext(b, i) \/ ShowSessions(b, i)
                                         \/ RefreshFails(b, i)
    PROVE  DashboardTypeOK'
<1>1. CASE RefreshWhenVisible(b)
  BY <1>1, RefreshStarts DEF DashboardTypeOK, RefreshWhenVisible, liveVars
<1>2. CASE RefreshOnEvent(b)
  <2>1. refreshes' \in [Tabs -> [1..MaxRefreshes -> Refresh]]
    BY <1>2, RefreshStarts DEF RefreshOnEvent, DashboardTypeOK
  <2>2. events' \in [Tabs -> Nat] BY <1>2 DEF RefreshOnEvent, DashboardTypeOK
  <2> QED BY <1>2, <2>1, <2>2 DEF DashboardTypeOK, RefreshOnEvent, liveVars
<1>3. ASSUME NEW i \in 1..MaxRefreshes, Serve(b, i) PROVE DashboardTypeOK'
  <2>0. refreshes[b] \in [1..MaxRefreshes -> Refresh] BY DEF DashboardTypeOK
  <2>1. refreshes[b] \in [1..MaxRefreshes -> Refresh] /\ refreshes[b][i] \in Refresh BY <2>0
  <2> DEFINE row == [refreshes[b][i] EXCEPT !.answer = data]
  <2>2. row \in Refresh BY <2>1 DEF Refresh, DashboardTypeOK
  <2>3. refreshes' = [refreshes EXCEPT ![b] = [@ EXCEPT ![i] = row]] BY <1>3 DEF Serve
  <2> HIDE DEF row
  <2>4. [refreshes[b] EXCEPT ![i] = row] \in [1..MaxRefreshes -> Refresh] BY <2>1, <2>2
  <2>5. refreshes' \in [Tabs -> [1..MaxRefreshes -> Refresh]]
    BY <2>3, <2>4 DEF DashboardTypeOK
  <2> QED BY <1>3, <2>5 DEF DashboardTypeOK, Serve, liveVars
<1>4. NoRefresh \in Refresh BY DEF NoRefresh, Refresh
<1>5. ASSUME NEW i \in 1..MaxRefreshes, Show(b, i) PROVE DashboardTypeOK'
  <2>1. refreshes' \in [Tabs -> [1..MaxRefreshes -> Refresh]]
    BY <1>4, <1>5 DEF Show, DashboardTypeOK
  <2>5. refreshes[b] \in [1..MaxRefreshes -> Refresh] BY DEF DashboardTypeOK
  <2>2. refreshes[b][i] \in Refresh BY <2>5
  <2>3. refreshes[b][i].answer \in 0..MaxChanges BY <1>5, <2>2 DEF Show, Refresh
  <2>4. shown' \in [Tabs -> 0..MaxChanges] BY <1>5, <2>3 DEF Show, DashboardTypeOK
  <2> QED BY <1>5, <2>1, <2>4 DEF DashboardTypeOK, Show, liveVars
<1>6. ASSUME NEW i \in 1..MaxRefreshes, RefreshFails(b, i) PROVE DashboardTypeOK'
  <2>1. refreshes' \in [Tabs -> [1..MaxRefreshes -> Refresh]]
    BY <1>4, <1>6 DEF RefreshFails, DashboardTypeOK
  <2> QED BY <1>6, <2>1 DEF DashboardTypeOK, RefreshFails, liveVars
<1> QED BY <1>1, <1>2, <1>3, <1>5, <1>6 DEF ServeContext, ServeSessions, ShowContext, ShowSessions

\* A change that is begun, served, refused, shown or put back keeps the types.
LEMMA EditTypes ==
    ASSUME DashboardTypeOK, NEW b \in Tabs,
           \/ \E kind \in EditKinds : Save(b, kind) \/ controlRequest(b, kind)
           \/ RouteRefuses(b) \/ SaveSucceeds(b) \/ SaveRestores(b)
    PROVE  DashboardTypeOK'
<1>0. NoEdit \in EditRows /\ edit \in [Tabs -> EditRows] /\ edit[b] \in EditRows
  BY DashboardBounds DEF NoEdit, EditRows, DashboardTypeOK
<1>1. ASSUME NEW state \in {"saved", "failed"}, Answered(b, state)
      PROVE  edit' \in [Tabs -> EditRows]
  <2>1. [edit[b] EXCEPT !.state = state] \in EditRows BY <1>0 DEF EditRows
  <2> QED BY <1>0, <1>1, <2>1 DEF Answered
<1>2. ASSUME NEW kind \in EditKinds, Save(b, kind) PROVE DashboardTypeOK'
  <2>1. changes + 1 \in 0..MaxChanges BY <1>2, DashboardBounds DEF Save, DashboardTypeOK
  <2>2. shown' \in [Tabs -> 0..MaxChanges] BY <1>2, <2>1 DEF Save, DashboardTypeOK
  <2>3. shown[b] \in 0..MaxChanges /\ 0 \in 0..MaxChanges BY DashboardBounds DEF DashboardTypeOK
  <2>4. edit' \in [Tabs -> EditRows] BY <1>0, <1>2, <2>1, <2>3 DEF Save, EditRows
  <2> QED BY <1>2, <2>1, <2>2, <2>4 DEF DashboardTypeOK, Save, EditRows, liveVars
<1>3. ASSUME NEW kind \in EditKinds, controlRequest(b, kind) PROVE DashboardTypeOK'
  <2>1. data' \in 0..MaxChanges BY <1>0, <1>3 DEF controlRequest, EditRows
  <2>2. edit' \in [Tabs -> EditRows] BY <1>1, <1>3 DEF controlRequest
  <2>3. events' \in [Tabs -> Nat]
    BY <1>3, EventsAreCounted DEF controlRequest, DashboardTypeOK
  <2> QED BY <1>3, <2>1, <2>2, <2>3 DEF DashboardTypeOK, controlRequest, EditRows, liveVars
<1>4. CASE RouteRefuses(b)
  <2>1. edit' \in [Tabs -> EditRows] BY <1>1, <1>4 DEF RouteRefuses
  <2> QED BY <1>4, <2>1 DEF DashboardTypeOK, RouteRefuses, EditRows, liveVars
<1>5. CASE SaveSucceeds(b)
  <2>1. edit' \in [Tabs -> EditRows] BY <1>0, <1>5 DEF SaveSucceeds
  <2>2. shown' \in [Tabs -> 0..MaxChanges] BY <1>0, <1>5 DEF SaveSucceeds, DashboardTypeOK, EditRows
  <2>3. refreshes' \in [Tabs -> [1..MaxRefreshes -> Refresh]]
    BY <1>5, RefreshStarts DEF SaveSucceeds, DashboardTypeOK
  <2> QED BY <1>5, <2>1, <2>2, <2>3 DEF DashboardTypeOK, SaveSucceeds, EditRows, liveVars
<1>6. CASE SaveRestores(b)
  <2>1. edit' \in [Tabs -> EditRows] BY <1>0, <1>6 DEF SaveRestores
  <2>2. shown' \in [Tabs -> 0..MaxChanges] BY <1>0, <1>6 DEF SaveRestores, DashboardTypeOK, EditRows
  <2>3. refreshes' \in [Tabs -> [1..MaxRefreshes -> Refresh]]
    BY <1>6, RefreshStarts DEF SaveRestores, DashboardTypeOK
  <2> QED BY <1>6, <2>1, <2>2, <2>3 DEF DashboardTypeOK, SaveRestores, EditRows, liveVars
<1> QED BY <1>2, <1>3, <1>4, <1>5, <1>6

\* Tabs, their streams and the Server's side of these keep the types.
LEMMA StreamTypes ==
    ASSUME DashboardTypeOK,
           \/ ServerChanges
           \/ \E b \in Tabs : \/ TabOpens(b) \/ TabCloses(b) \/ Retry(b) \/ createControlLiveToken(b)
                              \/ ConnectionFails(b) \/ StreamDone(b) \/ OpenStream(b)
           \/ \E t \in LiveTokens : \/ OpenAbandoned(t) \/ TokenExpiry(t) \/ ResponseCloses(t)
                                    \/ TokenForgotten(t)
    PROVE  DashboardTypeOK'
<1>0. PagesTyped /\ StreamsTyped /\ ServerTyped BY TypeParts
<1>1. CASE ServerChanges
  <2>1. changes + 1 \in 0..MaxChanges BY <1>1, DashboardBounds DEF ServerChanges, DashboardTypeOK
  <2>2. events' \in [Tabs -> Nat] BY <1>1, EventsAreCounted DEF ServerChanges, DashboardTypeOK
  <2>3. /\ data' = changes + 1 /\ changes' = changes + 1
        /\ UNCHANGED <<page, shown, refreshes, edit, stream, token, liveVars>>
    BY <1>1 DEF ServerChanges
  <2>4. PagesTyped' BY <1>0, <2>1, <2>3 DEF PagesTyped
  <2>5. StreamsTyped' BY <1>0, <2>2, <2>3 DEF StreamsTyped
  <2>6. ServerTyped' BY <1>0, <2>3 DEF ServerTyped, liveVars
  <2> QED BY <2>4, <2>5, <2>6, TypeParts
<1>2. ASSUME NEW b \in Tabs, TabOpens(b) PROVE DashboardTypeOK'
  <2>1. PICK p \in Pages : page' = [page EXCEPT ![b] = p] BY <1>2 DEF TabOpens
  <2>2. /\ shown' = [shown EXCEPT ![b] = data] /\ stream' = [stream EXCEPT ![b] = "authorizing"]
        /\ stream[b] = "closed"
        /\ UNCHANGED <<data, changes, refreshes, edit, token, events, liveVars>>
    BY <1>2 DEF TabOpens, IsOpen
  <2>3. PagesTyped' BY <1>0, <2>1, <2>2 DEF PagesTyped
  <2>4. StreamsTyped' BY <1>0, <2>2 DEF StreamsTyped
  <2>5. ServerTyped' BY <1>0, <2>2 DEF ServerTyped, liveVars
  <2> QED BY <2>3, <2>4, <2>5, TypeParts
<1>3. ASSUME NEW b \in Tabs, TabCloses(b) PROVE DashboardTypeOK'
  <2> DEFINE row == IF edit[b].state = "sent" THEN [edit[b] EXCEPT !.previous = 0] ELSE NoEdit
             none == [i \in 1..MaxRefreshes |-> NoRefresh]
  <2>1. /\ stream' = [stream EXCEPT ![b] = "closed"] /\ token' = [token EXCEPT ![b] = NoToken]
        /\ events' = [events EXCEPT ![b] = 0] /\ refreshes' = [refreshes EXCEPT ![b] = none]
        /\ edit' = [edit EXCEPT ![b] = row]
        /\ page' = [page EXCEPT ![b] = "context"] /\ shown' = [shown EXCEPT ![b] = 0]
        /\ UNCHANGED <<data, changes, liveVars>>
    BY <1>3 DEF TabCloses
  <2>2. edit[b] \in EditRows /\ NoEdit \in EditRows /\ 0 \in 0..MaxChanges
    BY <1>0, DashboardBounds DEF PagesTyped, EditRows, NoEdit
  <2>3. row \in EditRows BY <2>2 DEF EditRows
  <2>4. none \in [1..MaxRefreshes -> Refresh] BY DEF NoRefresh, Refresh
  <2> HIDE DEF row, none
  <2>5. /\ edit' \in [Tabs -> EditRows] /\ refreshes' \in [Tabs -> [1..MaxRefreshes -> Refresh]]
        /\ shown' \in [Tabs -> 0..MaxChanges] /\ page' \in [Tabs -> Pages]
    BY <1>0, <2>1, <2>2, <2>3, <2>4 DEF PagesTyped, Pages
  <2>6. PagesTyped' BY <1>0, <2>1, <2>5 DEF PagesTyped
  <2>7. StreamsTyped' BY <1>0, <2>1 DEF StreamsTyped
  <2>8. ServerTyped' BY <1>0, <2>1 DEF ServerTyped, liveVars
  <2> QED BY <2>6, <2>7, <2>8, TypeParts
<1>4. ASSUME NEW b \in Tabs,
             UNCHANGED <<page, data, changes, shown, refreshes, edit, lives, owner, slots>>, StreamsTyped'
      PROVE  DashboardTypeOK'
  <2>1. PagesTyped' BY <1>0, <1>4 DEF PagesTyped
  <2>2. ServerTyped' BY <1>0, <1>4 DEF ServerTyped
  <2> QED BY <1>4, <2>1, <2>2, TypeParts
<1>5. ASSUME NEW b \in Tabs, Retry(b) PROVE DashboardTypeOK'
  <2>1. StreamsTyped' BY <1>0, <1>5 DEF StreamsTyped, Retry
  <2>2. UNCHANGED <<page, data, changes, shown, refreshes, edit, lives, owner, slots>>
    BY <1>5 DEF Retry, liveVars
  <2> QED BY <1>4, <2>1, <2>2
<1>6. ASSUME NEW b \in Tabs, Wait(b) PROVE StreamsTyped'
  BY <1>0, <1>6 DEF StreamsTyped, Wait
<1>7. ASSUME NEW b \in Tabs, ConnectionFails(b) \/ StreamDone(b) PROVE DashboardTypeOK'
  <2>1. Wait(b) /\ UNCHANGED <<page, data, changes, shown, refreshes, edit, lives, owner, slots>>
    BY <1>7 DEF ConnectionFails, StreamDone, liveVars
  <2> QED BY <1>4, <1>6, <2>1
<1>8. ASSUME NEW b \in Tabs, createControlLiveToken(b) PROVE DashboardTypeOK'
  <2>1. PICK t \in LiveTokens : /\ lives' = [lives EXCEPT ![t] = "issued"]
                                /\ owner' = [owner EXCEPT ![t] = b]
                                /\ token' = [token EXCEPT ![b] = t]
    BY <1>8 DEF createControlLiveToken
  <2>2. t # NoToken BY DashboardBounds
  <2>3. /\ stream' = [stream EXCEPT ![b] = "connecting"]
        /\ UNCHANGED <<page, data, changes, shown, refreshes, edit, events, slots>>
    BY <1>8 DEF createControlLiveToken
  <2>4. PagesTyped' BY <1>0, <2>3 DEF PagesTyped
  <2>5. StreamsTyped'
    <3>1. /\ stream' \in [Tabs -> {"closed", "authorizing", "connecting", "open", "waiting"}]
          /\ token' \in [Tabs -> LiveTokens \cup {NoToken}] /\ events' \in [Tabs -> Nat]
      BY <1>0, <2>1, <2>3 DEF StreamsTyped
    <3>2. ASSUME NEW c \in Tabs PROVE token'[c] # NoToken <=> stream'[c] \in {"connecting", "open"}
      <4>1. CASE c = b
        <5>1. token'[b] = t /\ stream'[b] = "connecting" BY <1>0, <2>1, <2>3 DEF StreamsTyped
        <5> QED BY <2>2, <4>1, <5>1
      <4>2. CASE c # b
        <5>1. token'[c] = token[c] /\ stream'[c] = stream[c]
          BY <1>0, <2>1, <2>3, <4>2 DEF StreamsTyped
        <5> QED BY <1>0, <5>1 DEF StreamsTyped
      <4> QED BY <4>1, <4>2
    <3> QED BY <3>1, <3>2 DEF StreamsTyped
  <2>6. lives' \in [LiveTokens -> Lives] BY <1>0, <2>1 DEF ServerTyped, Lives
  <2>7. owner' \in [LiveTokens -> Tabs] BY <1>0, <2>1 DEF ServerTyped
  <2>8. ServerTyped' BY <1>0, <2>3, <2>6, <2>7 DEF ServerTyped
  <2> QED BY <2>4, <2>5, <2>8, TypeParts
<1>9. slots \in SlotRows BY <1>0 DEF ServerTyped
<1>10. ASSUME NEW u \in Users PROVE Acquired(slots, u) \in SlotRows /\ Released(slots, u) \in SlotRows
  BY <1>9, <1>10, SlotsMove, DashboardBounds
<1>11. ASSUME NEW b \in Tabs, OpenStream(b) PROVE DashboardTypeOK'
  <2>1. stream[b] = "connecting" /\ UNCHANGED <<page, data, changes, shown, refreshes, edit, owner>>
    BY <1>11 DEF OpenStream
  <2>2. PagesTyped' BY <1>0, <2>1 DEF PagesTyped
  <2>3. slots' = Acquired(slots, UserOf[b]) \/ slots' = slots BY <1>11 DEF OpenStream
  <2>4. UserOf[b] \in Users BY DashboardBounds
  <2>5. slots' \in SlotRows BY <1>9, <1>10, <2>3, <2>4
  <2>6. PICK state \in {"open", "past"} : lives' = [lives EXCEPT ![token[b]] = state]
    BY <1>11 DEF OpenStream
  <2>7. token[b] \in LiveTokens BY <1>0, <2>1 DEF StreamsTyped
  <2>8. ServerTyped'
    <3>1. lives \in [LiveTokens -> Lives] /\ state \in Lives BY <1>0 DEF ServerTyped, Lives
    <3>2. lives' \in [LiveTokens -> Lives] BY <2>6, <3>1
    <3> QED BY <1>0, <2>1, <2>5, <3>2 DEF ServerTyped
  <2>9. Wait(b) \/ (stream' = [stream EXCEPT ![b] = "open"] /\ UNCHANGED <<token, events>>)
    BY <1>11 DEF OpenStream
  <2>10. ASSUME stream' = [stream EXCEPT ![b] = "open"], UNCHANGED <<token, events>>
         PROVE  StreamsTyped'
    <3>1. /\ stream' \in [Tabs -> {"closed", "authorizing", "connecting", "open", "waiting"}]
          /\ token' = token /\ events' = events
      BY <1>0, <2>10 DEF StreamsTyped
    <3>2. \A c \in Tabs : token[c] # NoToken <=> stream'[c] \in {"connecting", "open"}
      <4>1. \A c \in Tabs : stream'[c] = IF c = b THEN "open" ELSE stream[c]
        BY <1>0, <2>10 DEF StreamsTyped
      <4> QED BY <1>0, <2>1, <4>1 DEF StreamsTyped
    <3> QED BY <1>0, <3>1, <3>2 DEF StreamsTyped
  <2>11. StreamsTyped' BY <1>6, <2>9, <2>10
  <2> QED BY <2>2, <2>8, <2>11, TypeParts
<1>12. ASSUME NEW t \in LiveTokens, UNCHANGED <<data, changes, tabVars, owner>>, slots' \in SlotRows,
              lives' \in [LiveTokens -> Lives]
       PROVE  DashboardTypeOK'
  <2>1. PagesTyped' BY <1>0, <1>12 DEF PagesTyped, tabVars
  <2>2. StreamsTyped' BY <1>0, <1>12 DEF StreamsTyped, tabVars
  <2>3. ServerTyped' BY <1>0, <1>12 DEF ServerTyped
  <2> QED BY <2>1, <2>2, <2>3, TypeParts
<1>13. ASSUME NEW t \in LiveTokens,
              OpenAbandoned(t) \/ TokenExpiry(t) \/ ResponseCloses(t) \/ TokenForgotten(t)
       PROVE  DashboardTypeOK'
  <2>1. UNCHANGED <<data, changes, tabVars, owner>>
    BY <1>13 DEF OpenAbandoned, TokenExpiry, ResponseCloses, TokenForgotten
  <2>2. PICK state \in Lives : lives' = [lives EXCEPT ![t] = state]
    BY <1>13 DEF OpenAbandoned, TokenExpiry, ResponseCloses, TokenForgotten, Lives
  <2>3. lives' \in [LiveTokens -> Lives] BY <1>0, <2>2 DEF ServerTyped
  <2> DEFINE u == UserOf[owner[t]]
  <2>4. u \in Users BY <1>0, DashboardBounds DEF ServerTyped
  <2>5. slots' = Acquired(slots, u) \/ slots' = Released(slots, u) \/ slots' = slots
    BY <1>13 DEF OpenAbandoned, TokenExpiry, ResponseCloses, TokenForgotten, cleanup
  <2> HIDE DEF u
  <2>6. slots' \in SlotRows BY <1>9, <1>10, <2>4, <2>5
  <2> QED BY <1>12, <2>1, <2>3, <2>6
<1> QED BY <1>1, <1>2, <1>3, <1>5, <1>7, <1>8, <1>11, <1>13

\* Every step keeps the types.
LEMMA DashboardTypeStep == DashboardTypeOK /\ [DashboardNext]_dashboardVars => DashboardTypeOK'
<1> SUFFICES ASSUME DashboardTypeOK, [DashboardNext]_dashboardVars PROVE DashboardTypeOK' OBVIOUS
<1>1. CASE UNCHANGED dashboardVars BY <1>1 DEF DashboardTypeOK, dashboardVars, tabVars, liveVars
<1>2. ASSUME NEW b \in Tabs,
             \/ saveMachine(b) \/ saveDetails(b) \/ saveTimeZone(b) \/ setRead(b)
             \/ removeMachine(b) \/ changeAgent(b) \/ decide(b) \/ ServeSave(b)
      PROVE  \E kind \in EditKinds : Save(b, kind) \/ controlRequest(b, kind)
  BY <1>2 DEF saveMachine, saveDetails, saveTimeZone, setRead, removeMachine, changeAgent, decide,
     ServeSave, updateMachineDetails, revokeMachine, updateOrganizationSettings,
     upsertUserPreferences, markNotificationRead, updateAgent, superviseSession, EditKinds
<1>3. CASE DashboardNext BY <1>2, <1>3, RefreshTypes, EditTypes, StreamTypes DEF DashboardNext
<1> QED BY <1>1, <1>3

-----------------------------------------------------------------------------
(* The dashboard: the slots of its streams *)

\* The streams that are open, and the user each is counted for.
Streams == {t \in LiveTokens : lives[t] = "open"}
StreamUser == [t \in LiveTokens |-> UserOf[owner[t]]]

\* A tab holds a token that was issued to it and is not forgotten, and as long
\* as the tab is connecting nobody else has opened a stream with it.
TokensHeld ==
    \A b \in Tabs :
        /\ token[b] # NoToken => owner[token[b]] = b /\ lives[token[b]] # "free"
        /\ stream[b] = "connecting" => lives[token[b]] # "open"

SlotsInv == DashboardTypeOK /\ TokensHeld /\ SlotsAreStreams

\* The slots are the open streams', as a limiter counts them.
LEMMA StreamsHold ==
    /\ IsFiniteSet(Streams)
    /\ SlotsAreStreams <=> Counted(slots, Streams, StreamUser)
    /\ SlotsAreStreams' <=> Counted(slots', Streams', StreamUser')
<1>1. IsFiniteSet(Streams)
  <2>1. Streams \subseteq LiveTokens BY DEF Streams
  <2> QED BY <2>1, FS_Subset, DashboardBounds
<1>2. /\ \A u : HeldBy(Streams, StreamUser, u)
                  = {t \in LiveTokens : lives[t] = "open" /\ UserOf[owner[t]] = u}
      /\ \A o : HeldIn(Streams, StreamUser, o)
                  = {t \in LiveTokens : lives[t] = "open" /\ OrganizationOf[UserOf[owner[t]]] = o}
  BY DEF HeldBy, HeldIn, Streams, StreamUser
<1>3. /\ \A u : HeldBy(Streams', StreamUser', u)
                  = {t \in LiveTokens : lives'[t] = "open" /\ UserOf[owner'[t]] = u}
      /\ \A o : HeldIn(Streams', StreamUser', o)
                  = {t \in LiveTokens : lives'[t] = "open" /\ OrganizationOf[UserOf[owner'[t]]] = o}
  BY DEF HeldBy, HeldIn, Streams, StreamUser
<1>4. SlotsAreStreams <=> Counted(slots, Streams, StreamUser)
  BY <1>2 DEF SlotsAreStreams, Counted
<1>5. SlotsAreStreams' <=> Counted(slots', Streams', StreamUser')
  BY <1>3 DEF SlotsAreStreams, Counted
<1> QED BY <1>1, <1>4, <1>5

\* A stream that opens takes a slot of its user's and one of the Organization's.
LEMMA StreamOpens ==
    ASSUME DashboardTypeOK, SlotsAreStreams, NEW t \in LiveTokens, lives[t] # "open",
           lives' = [lives EXCEPT ![t] = "open"], owner' = owner,
           slots' = Acquired(slots, UserOf[owner[t]])
    PROVE  SlotsAreStreams'
<1>1. /\ OrganizationOf \in [Users -> Organizations] /\ slots \in SlotRows
      /\ UserOf[owner[t]] \in Users
  BY DashboardBounds DEF DashboardTypeOK, SlotRows
<1>2. Streams' = Streams \cup {t} /\ t \notin Streams BY DEF Streams, DashboardTypeOK
<1>3. StreamUser' = StreamUser /\ StreamUser[t] = UserOf[owner[t]] BY DEF StreamUser
<1>4. Counted(Acquired(slots, StreamUser[t]), Streams \cup {t}, StreamUser)
  BY <1>1, <1>2, <1>3, StreamsHold, SlotTaken
<1> QED BY <1>2, <1>3, <1>4, StreamsHold

\* One that ends gives both back.
LEMMA StreamEnds ==
    ASSUME DashboardTypeOK, SlotsAreStreams, NEW t \in LiveTokens, lives[t] = "open",
           NEW past \in {"ended", "past"}, lives' = [lives EXCEPT ![t] = past], owner' = owner,
           slots' = Released(slots, UserOf[owner[t]])
    PROVE  SlotsAreStreams'
<1>1. /\ OrganizationOf \in [Users -> Organizations] /\ slots \in SlotRows
      /\ UserOf[owner[t]] \in Users
  BY DashboardBounds DEF DashboardTypeOK, SlotRows
<1>2. Streams' = Streams \ {t} /\ t \in Streams BY DEF Streams, DashboardTypeOK
<1>3. StreamUser' = StreamUser /\ StreamUser[t] = UserOf[owner[t]] BY DEF StreamUser
<1>4. Counted(Released(slots, StreamUser[t]), Streams \ {t}, StreamUser)
  BY <1>1, <1>2, <1>3, StreamsHold, SlotReturned
<1> QED BY <1>2, <1>3, <1>4, StreamsHold

\* Nothing else counts.
LEMMA StreamsRest ==
    ASSUME SlotsAreStreams, slots' = slots,
           \A t \in LiveTokens : /\ lives'[t] = "open" <=> lives[t] = "open"
                                 /\ lives[t] = "open" => owner'[t] = owner[t]
    PROVE  SlotsAreStreams'
BY DEF SlotsAreStreams

\* A tab that lets go of its token, or keeps it, holds no other.
LEMMA TokensLeft ==
    ASSUME DashboardTypeOK, TokensHeld, lives' = lives, owner' = owner,
           \A b \in Tabs : \/ token'[b] = token[b] /\ stream'[b] = stream[b]
                           \/ token'[b] = NoToken /\ stream'[b] # "connecting"
                           \/ token'[b] = token[b] /\ stream'[b] # "connecting"
    PROVE  TokensHeld'
BY DEF TokensHeld

\* A stream that opens is its tab's, and one that does not use up its token.
LEMMA OpenSlots ==
    ASSUME SlotsInv, NEW b \in Tabs, OpenStream(b)
    PROVE  TokensHeld' /\ SlotsAreStreams'
<1> DEFINE t == token[b]
<1>0. DashboardTypeOK /\ TokensHeld /\ SlotsAreStreams BY DEF SlotsInv
<1>1. stream[b] = "connecting" /\ t \in LiveTokens /\ owner[t] = b /\ lives[t] # "open"
  BY <1>0 DEF OpenStream, DashboardTypeOK, TokensHeld
<1>2. owner' = owner BY DEF OpenStream
<1>3. \A c \in Tabs : c # b => token[c] # t
  BY <1>0, <1>1, DashboardBounds DEF TokensHeld
<1>6. /\ lives \in [LiveTokens -> {"free", "issued", "open", "ended", "past"}]
      /\ token \in [Tabs -> LiveTokens \cup {NoToken}]
      /\ stream \in [Tabs -> {"closed", "authorizing", "connecting", "open", "waiting"}]
      /\ \A c \in Tabs : token[c] # NoToken <=> stream[c] \in {"connecting", "open"}
  BY <1>0 DEF DashboardTypeOK
<1>4. CASE verifyControlLiveToken(t) /\ MayAcquire(slots, UserOf[b])
  <2>1. /\ lives' = [lives EXCEPT ![t] = "open"] /\ stream' = [stream EXCEPT ![b] = "open"]
        /\ slots' = Acquired(slots, UserOf[owner[t]]) /\ token' = token
    BY <1>1, <1>4 DEF OpenStream
  <2>2. SlotsAreStreams' BY <1>0, <1>1, <1>2, <2>1, StreamOpens
  <2>3. TokensHeld'
    <3>1. \A c \in Tabs : c # b /\ token[c] # NoToken => lives'[token[c]] = lives[token[c]]
      BY <1>3, <1>6, <2>1
    <3>2. lives'[t] = "open" /\ stream'[b] = "open" /\ \A c \in Tabs : c # b => stream'[c] = stream[c]
      BY <1>1, <1>6, <2>1
    <3> QED BY <1>0, <1>1, <1>2, <1>6, <2>1, <3>1, <3>2 DEF TokensHeld
  <2> QED BY <2>2, <2>3
<1>5. CASE ~(verifyControlLiveToken(t) /\ MayAcquire(slots, UserOf[b]))
  <2>1. /\ lives' = [lives EXCEPT ![t] = "past"] /\ slots' = slots
        /\ stream' = [stream EXCEPT ![b] = "waiting"]
        /\ token' = [token EXCEPT ![b] = NoToken]
    BY <1>5 DEF OpenStream, Wait
  <2>2. TokensHeld'
    <3>1. \A c \in Tabs : c # b /\ token[c] # NoToken => lives'[token[c]] = lives[token[c]]
      BY <1>3, <1>6, <2>1
    <3>2. token'[b] = NoToken /\ stream'[b] = "waiting" BY <1>6, <2>1
    <3>3. \A c \in Tabs : c # b => token'[c] = token[c] /\ stream'[c] = stream[c] BY <1>6, <2>1
    <3> QED BY <1>0, <1>2, <1>6, <3>1, <3>2, <3>3 DEF TokensHeld
  <2>3. \A s \in LiveTokens : lives'[s] = "open" <=> lives[s] = "open"
    BY <1>0, <1>1, <2>1 DEF DashboardTypeOK
  <2>4. SlotsAreStreams' BY <1>0, <1>2, <2>1, <2>3, StreamsRest
  <2> QED BY <2>2, <2>4
<1> QED BY <1>4, <1>5

\* A token gets a tab, or its time ends, or nobody knows of it any more.
LEMMA TokenSlots ==
    ASSUME SlotsInv,
           \/ \E b \in Tabs : createControlLiveToken(b)
           \/ \E t \in LiveTokens : \/ OpenAbandoned(t) \/ TokenExpiry(t) \/ ResponseCloses(t)
                                    \/ TokenForgotten(t)
    PROVE  TokensHeld' /\ SlotsAreStreams'
<1>0. DashboardTypeOK /\ TokensHeld /\ SlotsAreStreams BY DEF SlotsInv
<1>1. ASSUME NEW b \in Tabs, createControlLiveToken(b) PROVE TokensHeld' /\ SlotsAreStreams'
  <2>1. PICK t \in LiveTokens : /\ lives[t] = "free" /\ lives' = [lives EXCEPT ![t] = "issued"]
                                /\ owner' = [owner EXCEPT ![t] = b]
                                /\ token' = [token EXCEPT ![b] = t]
    BY <1>1 DEF createControlLiveToken
  <2>2. slots' = slots /\ stream' = [stream EXCEPT ![b] = "connecting"]
    BY <1>1 DEF createControlLiveToken
  <2>3. \A s \in LiveTokens : /\ lives'[s] = "open" <=> lives[s] = "open"
                              /\ lives[s] = "open" => owner'[s] = owner[s]
    BY <1>0, <2>1 DEF DashboardTypeOK
  <2>4. SlotsAreStreams' BY <1>0, <2>2, <2>3, StreamsRest
  <2>5. ASSUME NEW c \in Tabs, c # b
        PROVE  /\ token'[c] # NoToken => owner'[token'[c]] = c /\ lives'[token'[c]] # "free"
               /\ stream'[c] = "connecting" => lives'[token'[c]] # "open"
    <3>1. token'[c] = token[c] /\ stream'[c] = stream[c] BY <1>0, <2>1, <2>2, <2>5 DEF DashboardTypeOK
    <3>2. token[c] # NoToken => token[c] \in LiveTokens /\ token[c] # t
      BY <1>0, <2>1 DEF TokensHeld, DashboardTypeOK
    <3>3. stream[c] = "connecting" => token[c] # NoToken BY <1>0 DEF DashboardTypeOK
    <3>4. token[c] # NoToken => /\ owner'[token[c]] = owner[token[c]]
                                /\ lives'[token[c]] = lives[token[c]]
      BY <1>0, <2>1, <3>2 DEF DashboardTypeOK
    <3> QED BY <1>0, <3>1, <3>3, <3>4 DEF TokensHeld
  <2>6. token'[b] = t /\ owner'[t] = b /\ lives'[t] = "issued"
    BY <1>0, <2>1 DEF DashboardTypeOK
  <2>7. TokensHeld' BY <2>5, <2>6 DEF TokensHeld
  <2> QED BY <2>4, <2>7
<1>2. ASSUME NEW t \in LiveTokens, NEW state \in {"open", "ended", "past"},
             lives[t] # "free", lives' = [lives EXCEPT ![t] = state], UNCHANGED <<tabVars, owner>>,
             state = "open" => token[owner[t]] # t
      PROVE  TokensHeld'
  <2>1. token' = token /\ stream' = stream /\ owner' = owner BY <1>2 DEF tabVars
  <2>2. \A c \in Tabs : token[c] = t => c = owner[t] BY <1>0, <1>2, DashboardBounds DEF TokensHeld
  <2>3. \A c \in Tabs : token[c] # NoToken => token[c] \in LiveTokens BY <1>0 DEF DashboardTypeOK
  <2>4. \A c \in Tabs : stream[c] = "connecting" => token[c] # NoToken BY <1>0 DEF DashboardTypeOK
  <2>5. lives \in [LiveTokens -> {"free", "issued", "open", "ended", "past"}]
    BY <1>0 DEF DashboardTypeOK
  <2> QED BY <1>0, <1>2, <2>1, <2>2, <2>3, <2>4, <2>5 DEF TokensHeld
<1>3. ASSUME NEW t \in LiveTokens, OpenAbandoned(t) PROVE TokensHeld' /\ SlotsAreStreams'
  <2>1. lives[t] = "issued" /\ token[owner[t]] # t /\ UNCHANGED <<tabVars, owner>>
    BY <1>3 DEF OpenAbandoned, verifyControlLiveToken
  <2>2. owner' = owner BY <2>1
  <2>3. CASE /\ lives' = [lives EXCEPT ![t] = "open"]
             /\ slots' = Acquired(slots, UserOf[owner[t]])
    <3>1. SlotsAreStreams' BY <1>0, <2>1, <2>2, <2>3, StreamOpens
    <3> QED BY <1>2, <2>1, <2>3, <3>1
  <2>4. CASE lives' = [lives EXCEPT ![t] = "past"] /\ slots' = slots
    <3>1. \A s \in LiveTokens : lives'[s] = "open" <=> lives[s] = "open"
      BY <1>0, <2>1, <2>4 DEF DashboardTypeOK
    <3>2. SlotsAreStreams' BY <1>0, <2>2, <2>4, <3>1, StreamsRest
    <3> QED BY <1>2, <2>1, <2>4, <3>2
  <2> QED BY <1>3, <2>3, <2>4 DEF OpenAbandoned
<1>4. ASSUME NEW t \in LiveTokens, TokenExpiry(t) \/ ResponseCloses(t)
      PROVE  TokensHeld' /\ SlotsAreStreams'
  <2>1. lives[t] \in {"issued", "open", "ended"} /\ UNCHANGED <<tabVars, owner>> /\ cleanup(t)
    BY <1>4 DEF TokenExpiry, ResponseCloses
  <2>2. PICK past \in {"ended", "past"} : lives' = [lives EXCEPT ![t] = past]
    BY <1>4 DEF TokenExpiry, ResponseCloses
  <2>3. owner' = owner BY <2>1
  <2>4. TokensHeld' BY <1>2, <2>1, <2>2
  <2>5. CASE lives[t] = "open"
    <3>1. slots' = Released(slots, UserOf[owner[t]]) BY <2>1, <2>5 DEF cleanup
    <3> QED BY <1>0, <2>2, <2>3, <2>4, <2>5, <3>1, StreamEnds
  <2>6. CASE lives[t] # "open"
    <3>1. slots' = slots BY <2>1, <2>6 DEF cleanup
    <3>2. \A s \in LiveTokens : lives'[s] = "open" <=> lives[s] = "open"
      BY <1>0, <2>2, <2>6 DEF DashboardTypeOK
    <3>3. SlotsAreStreams' BY <1>0, <2>3, <3>1, <3>2, StreamsRest
    <3> QED BY <2>4, <3>3
  <2> QED BY <2>5, <2>6
<1>5. ASSUME NEW t \in LiveTokens, TokenForgotten(t) PROVE TokensHeld' /\ SlotsAreStreams'
  <2>1. /\ lives[t] = "past" /\ lives' = [lives EXCEPT ![t] = "free"] /\ slots' = slots
        /\ \A b \in Tabs : token[b] # t
        /\ token' = token /\ stream' = stream /\ owner' = owner
    BY <1>5 DEF TokenForgotten, tabVars
  <2>2. \A s \in LiveTokens : lives'[s] = "open" <=> lives[s] = "open"
    BY <1>0, <2>1 DEF DashboardTypeOK
  <2>3. SlotsAreStreams' BY <1>0, <2>1, <2>2, StreamsRest
  <2>4. \A b \in Tabs : token[b] # NoToken => lives'[token[b]] = lives[token[b]]
    BY <1>0, <2>1 DEF DashboardTypeOK
  <2>5. \A b \in Tabs : stream[b] = "connecting" => token[b] # NoToken BY <1>0 DEF DashboardTypeOK
  <2>6. TokensHeld' BY <1>0, <2>1, <2>4, <2>5 DEF TokensHeld
  <2> QED BY <2>3, <2>6
<1> QED BY <1>1, <1>3, <1>4, <1>5

\* A tab that opens, closes or waits leaves the Server's side as it is.
LEMMA TabSlots ==
    ASSUME SlotsInv, NEW b \in Tabs,
           \/ TabOpens(b) \/ TabCloses(b) \/ Retry(b) \/ ConnectionFails(b) \/ StreamDone(b)
    PROVE  TokensHeld' /\ SlotsAreStreams'
<1>0. DashboardTypeOK /\ TokensHeld /\ SlotsAreStreams BY DEF SlotsInv
<1>1. lives' = lives /\ owner' = owner /\ slots' = slots
  BY DEF TabOpens, TabCloses, Retry, ConnectionFails, StreamDone, liveVars
<1>2. \A c \in Tabs : \/ token'[c] = token[c] /\ stream'[c] = stream[c]
                      \/ token'[c] = NoToken /\ stream'[c] # "connecting"
                      \/ token'[c] = token[c] /\ stream'[c] # "connecting"
  <2>1. \/ token' = token \/ token' = [token EXCEPT ![b] = NoToken]
    BY DEF TabOpens, TabCloses, Retry, ConnectionFails, StreamDone, Wait
  <2>2. PICK state \in {"closed", "authorizing", "waiting"} : stream' = [stream EXCEPT ![b] = state]
    BY DEF TabOpens, TabCloses, Retry, ConnectionFails, StreamDone, Wait
  <2>3. /\ DOMAIN token = Tabs /\ DOMAIN stream = Tabs BY <1>0 DEF DashboardTypeOK
  <2>4. stream'[b] # "connecting" /\ \A c \in Tabs : c # b => stream'[c] = stream[c]
    BY <2>2, <2>3
  <2>5. token'[b] \in {token[b], NoToken} /\ \A c \in Tabs : c # b => token'[c] = token[c]
    BY <2>1, <2>3
  <2> QED BY <2>4, <2>5
<1>3. TokensHeld' BY <1>0, <1>1, <1>2, TokensLeft
<1>4. SlotsAreStreams' BY <1>0, <1>1, StreamsRest
<1> QED BY <1>3, <1>4

\* Refreshes and changes touch neither tokens nor slots.
LEMMA PageSlots ==
    ASSUME UNCHANGED dashboardVars \/ ServerChanges \/ \E b \in Tabs :
             \/ RefreshWhenVisible(b) \/ RefreshOnEvent(b)
             \/ \E i \in 1..MaxRefreshes : \/ ServeContext(b, i) \/ ServeSessions(b, i)
                                           \/ ShowContext(b, i) \/ ShowSessions(b, i)
                                           \/ RefreshFails(b, i)
             \/ saveMachine(b) \/ saveDetails(b) \/ saveTimeZone(b) \/ setRead(b)
             \/ removeMachine(b) \/ changeAgent(b) \/ decide(b)
             \/ ServeSave(b) \/ RouteRefuses(b) \/ SaveSucceeds(b) \/ SaveRestores(b)
    PROVE  UNCHANGED <<stream, token, liveVars>>
<1>1. CASE UNCHANGED dashboardVars BY <1>1 DEF dashboardVars, tabVars
<1>2. CASE ServerChanges BY <1>2 DEF ServerChanges
<1>3. ASSUME NEW b \in Tabs,
             \/ RefreshWhenVisible(b) \/ RefreshOnEvent(b)
             \/ \E i \in 1..MaxRefreshes : \/ ServeContext(b, i) \/ ServeSessions(b, i)
                                           \/ ShowContext(b, i) \/ ShowSessions(b, i)
                                           \/ RefreshFails(b, i)
      PROVE  UNCHANGED <<stream, token, liveVars>>
  BY <1>3 DEF RefreshWhenVisible, RefreshOnEvent, ServeContext, ServeSessions, Serve,
     ShowContext, ShowSessions, Show, RefreshFails
<1>4. ASSUME NEW b \in Tabs,
             \/ saveMachine(b) \/ saveDetails(b) \/ saveTimeZone(b) \/ setRead(b)
             \/ removeMachine(b) \/ changeAgent(b) \/ decide(b)
             \/ ServeSave(b) \/ RouteRefuses(b) \/ SaveSucceeds(b) \/ SaveRestores(b)
      PROVE  UNCHANGED <<stream, token, liveVars>>
  BY <1>4 DEF saveMachine, saveDetails, saveTimeZone, setRead, removeMachine, changeAgent, decide,
     Save, ServeSave, updateMachineDetails, revokeMachine, updateOrganizationSettings,
     upsertUserPreferences, markNotificationRead, updateAgent, superviseSession, controlRequest,
     RouteRefuses, SaveSucceeds, SaveRestores
<1> QED BY <1>1, <1>2, <1>3, <1>4

\* Every step keeps the count.
LEMMA SlotsStep == SlotsInv /\ [DashboardNext]_dashboardVars => SlotsInv'
<1> SUFFICES ASSUME SlotsInv, [DashboardNext]_dashboardVars PROVE SlotsInv' OBVIOUS
<1>0. DashboardTypeOK /\ TokensHeld /\ SlotsAreStreams /\ DashboardTypeOK'
  BY DashboardTypeStep DEF SlotsInv
<1>1. CASE UNCHANGED <<stream, token, liveVars>>
  BY <1>0, <1>1 DEF SlotsInv, TokensHeld, SlotsAreStreams, liveVars
<1>2. \/ UNCHANGED <<stream, token, liveVars>>
      \/ TokensHeld' /\ SlotsAreStreams'
  BY OpenSlots, TokenSlots, TabSlots, PageSlots DEF DashboardNext
<1> QED BY <1>0, <1>1, <1>2 DEF SlotsInv

\* At first nobody holds a token and no slot is taken.
LEMMA SlotsInitially == DashboardInit => SlotsInv
<1> SUFFICES ASSUME DashboardInit PROVE SlotsInv OBVIOUS
<1>1. NoEdit \in EditRows /\ NoRefresh \in Refresh /\ 0 \in 0..MaxChanges
  BY DashboardBounds DEF NoEdit, EditRows, NoRefresh, Refresh
<1>2. NoSlots = [organization |-> [o \in Organizations |-> 0], user |-> [u \in Users |-> 0]]
  BY DEF NoSlots
<1>3. edit \in [Tabs -> EditRows] BY <1>1 DEF DashboardInit
<1>4. DashboardTypeOK BY <1>1, <1>2, <1>3 DEF DashboardInit, DashboardTypeOK, EditRows, Pages
<1>5. TokensHeld BY DEF DashboardInit, TokensHeld
<1>6. \A u : HeldBy({}, StreamUser, u) = {} BY DEF HeldBy
<1>7. \A o : HeldIn({}, StreamUser, o) = {} BY DEF HeldIn
<1>8. Streams = {} BY DEF DashboardInit, Streams
<1>9. Counted(slots, {}, StreamUser)
  BY <1>2, <1>6, <1>7, FS_EmptySet DEF Counted, DashboardInit
<1>10. SlotsAreStreams BY <1>8, <1>9, StreamsHold
<1> QED BY <1>4, <1>5, <1>10 DEF SlotsInv

-----------------------------------------------------------------------------
(* The dashboard: theorems *)

\* What the tabs, their streams and the slots hold, however many of them and
\* in whatever order their requests are answered.
THEOREM DashboardTypes == DashboardSpec => []DashboardTypeOK
<1>1. DashboardInit => DashboardTypeOK BY SlotsInitially DEF SlotsInv
<1> QED BY <1>1, DashboardTypeStep, PTL DEF DashboardSpec

\* The control event streams: a user's slots, and an Organization's, are its open
\* streams, one each: no end of a stream, by its token's minute, its close event
\* or a tab that has given it up, keeps a slot or gives one back twice.
THEOREM DashboardSlotsAreStreams == DashboardSpec => []SlotsAreStreams
<1>1. SlotsInv => SlotsAreStreams BY DEF SlotsInv
<1> QED BY <1>1, SlotsInitially, SlotsStep, PTL DEF DashboardSpec

-----------------------------------------------------------------------------
(* The limiters: one key's window *)

\* Of a set C of calls, those from time t on, and those of a stretch of time.
From(C, t) == {c \in C : c.at >= t}
Within(C, from, to) == {c \in C : c.at >= from /\ c.at < to}

\* A window that is open at time t has counted the calls since it began, one
\* of which began it; those of the window's length before are within the limit
\* too, one being missing.
Open(limit, C, window, t) ==
    LET begun == window.resetsAt - WindowLength IN
    /\ begun <= t /\ t < window.resetsAt
    /\ window.count = Cardinality(From(C, begun)) /\ window.count <= limit
    /\ \E c \in C : c.at = begun
    /\ Cardinality(Within(C, begun - WindowLength + 1, begun)) < limit

\* Where no window is open there is no call at the time itself, and those of a
\* window's length before are fewer than the limit.
Shut(limit, C, t) ==
    /\ \A c \in C : c.at < t
    /\ Cardinality(From(C, t - WindowLength + 1)) < limit

\* Fewer calls are no more.
LEMMA FewerCalls ==
    ASSUME NEW C, IsFiniteSet(C), NEW D, D \subseteq C
    PROVE  /\ IsFiniteSet(D)
           /\ Cardinality(D) \in Nat /\ Cardinality(C) \in Nat
           /\ Cardinality(D) <= Cardinality(C)
BY FS_Subset, FS_CardinalityType

\* Calls at whole times, none after time t.
CallsUntil(C, t) == IsFiniteSet(C) /\ \A c \in C : c.at \in Int /\ c.at <= t

\* The clock moves on: a window goes on or has ended.
LEMMA WindowTicks ==
    ASSUME NEW t \in Nat, NEW later, later = t + 1, NEW limit \in Nat, NEW C, CallsUntil(C, t),
           NEW window, window.resetsAt \in Nat, Open(limit, C, window, t)
    PROVE  IF later < window.resetsAt THEN Open(limit, C, window, later) ELSE Shut(limit, C, later)
<1> DEFINE begun == window.resetsAt - WindowLength
<1>0. WindowLength \in Nat \ {0} /\ begun \in Int BY LimitsArePositive
<1>1. CASE later < window.resetsAt BY <1>0, <1>1 DEF Open
<1>2. CASE later >= window.resetsAt
  <2>1. later = window.resetsAt BY <1>2 DEF Open
  <2>2. \A c \in C : c.at < later BY DEF CallsUntil
  <2>3. PICK c \in C : c.at = begun BY DEF Open
  <2>4. From(C, later - WindowLength + 1) \subseteq From(C, begun) \ {c}
    BY <1>0, <2>1, <2>3 DEF From, CallsUntil
  <2>5. c \in From(C, begun) /\ IsFiniteSet(From(C, begun))
    BY <1>0, <2>3, FewerCalls DEF From, CallsUntil
  <2>6. /\ Cardinality(From(C, begun) \ {c}) = Cardinality(From(C, begun)) - 1
        /\ IsFiniteSet(From(C, begun) \ {c})
    BY <2>5, FS_RemoveElement
  <2>7. Cardinality(From(C, begun)) <= limit BY DEF Open
  <2>8. /\ Cardinality(From(C, later - WindowLength + 1)) <= Cardinality(From(C, begun) \ {c})
        /\ Cardinality(From(C, later - WindowLength + 1)) \in Nat
        /\ Cardinality(From(C, begun)) \in Nat
    BY <2>4, <2>5, <2>6, FewerCalls, FS_CardinalityType
  <2>9. Cardinality(From(C, later - WindowLength + 1)) < limit BY <2>6, <2>7, <2>8
  <2>10. Shut(limit, C, later) BY <2>2, <2>9 DEF Shut
  <2> QED BY <1>2, <2>1, <2>10
<1> QED BY <1>1, <1>2

\* So does a key without a window.
LEMMA ShutTicks ==
    ASSUME NEW t \in Nat, NEW later, later = t + 1, NEW limit \in Nat, NEW C, CallsUntil(C, t), Shut(limit, C, t)
    PROVE  Shut(limit, C, later)
<1>0. WindowLength \in Nat BY LimitsArePositive
<1>1. From(C, later - WindowLength + 1) \subseteq From(C, t - WindowLength + 1)
  BY <1>0 DEF From, CallsUntil
<1>2. From(C, t - WindowLength + 1) \subseteq C BY DEF From
<1>3. /\ Cardinality(From(C, later - WindowLength + 1)) <= Cardinality(From(C, t - WindowLength + 1))
      /\ Cardinality(From(C, later - WindowLength + 1)) \in Nat
      /\ Cardinality(From(C, t - WindowLength + 1)) \in Nat
  BY <1>1, <1>2, FewerCalls DEF CallsUntil
<1>4. Cardinality(From(C, later - WindowLength + 1)) < limit BY <1>3 DEF Shut
<1>5. \A c \in C : c.at < later BY DEF CallsUntil
<1> QED BY <1>4, <1>5 DEF Shut

\* Calls that are a window's length old are forgotten.
LEMMA WindowForgets ==
    ASSUME NEW t \in Nat, NEW limit \in Nat, NEW C, CallsUntil(C, t),
           NEW D, D \subseteq C, \A c \in C : c.at + WindowLength > t => c \in D
    PROVE  /\ CallsUntil(D, t)
           /\ Shut(limit, C, t) => Shut(limit, D, t)
           /\ \A window : window.resetsAt \in Nat /\ Open(limit, C, window, t)
                             => Open(limit, D, window, t)
<1>0. WindowLength \in Nat BY LimitsArePositive
<1>1. CallsUntil(D, t) BY FewerCalls DEF CallsUntil
<1>2. ASSUME Shut(limit, C, t) PROVE Shut(limit, D, t)
  <2>1. /\ From(D, t - WindowLength + 1) \subseteq From(C, t - WindowLength + 1)
        /\ From(C, t - WindowLength + 1) \subseteq C
    BY DEF From
  <2>2. /\ Cardinality(From(D, t - WindowLength + 1)) <= Cardinality(From(C, t - WindowLength + 1))
        /\ Cardinality(From(D, t - WindowLength + 1)) \in Nat
        /\ Cardinality(From(C, t - WindowLength + 1)) \in Nat
    BY <2>1, FewerCalls DEF CallsUntil
  <2>3. Cardinality(From(D, t - WindowLength + 1)) < limit BY <1>2, <2>2 DEF Shut
  <2> QED BY <1>2, <2>3 DEF Shut
<1>3. ASSUME NEW window, window.resetsAt \in Nat, Open(limit, C, window, t)
      PROVE  Open(limit, D, window, t)
  <2> DEFINE begun == window.resetsAt - WindowLength
  <2>1. begun \in Int /\ begun + WindowLength > t BY <1>0, <1>3 DEF Open
  <2>2. From(D, begun) = From(C, begun) BY <1>0, <1>3, <2>1 DEF From, CallsUntil
  <2>3. \E c \in D : c.at = begun BY <1>3, <2>1 DEF Open
  <2>4. /\ Within(D, begun - WindowLength + 1, begun) \subseteq Within(C, begun - WindowLength + 1, begun)
        /\ Within(C, begun - WindowLength + 1, begun) \subseteq C
    BY DEF Within
  <2>5. /\ Cardinality(Within(D, begun - WindowLength + 1, begun))
               <= Cardinality(Within(C, begun - WindowLength + 1, begun))
        /\ Cardinality(Within(D, begun - WindowLength + 1, begun)) \in Nat
        /\ Cardinality(Within(C, begun - WindowLength + 1, begun)) \in Nat
    BY <2>4, FewerCalls DEF CallsUntil
  <2>6. Cardinality(Within(D, begun - WindowLength + 1, begun)) < limit BY <1>3, <2>5 DEF Open
  <2> QED BY <1>3, <2>2, <2>3, <2>6 DEF Open
<1> QED BY <1>1, <1>2, <1>3

\* One more call in a window that has not counted up to its limit.
LEMMA WindowCounts ==
    ASSUME NEW t \in Nat, NEW limit \in Nat, NEW C, CallsUntil(C, t),
           NEW window, window.resetsAt \in Nat, Open(limit, C, window, t), window.count < limit,
           NEW call, call \notin C, call.at = t,
           NEW next, next.resetsAt = window.resetsAt, next.count = window.count + 1
    PROVE  Open(limit, C \cup {call}, next, t)
<1> DEFINE begun == window.resetsAt - WindowLength
<1>0. WindowLength \in Nat /\ begun \in Int /\ begun <= t BY LimitsArePositive DEF Open
<1>1. From(C \cup {call}, begun) = From(C, begun) \cup {call} BY <1>0 DEF From
<1>2. From(C, begun) \subseteq C /\ call \notin From(C, begun) BY DEF From
<1>3. IsFiniteSet(From(C, begun)) BY <1>2, FewerCalls DEF CallsUntil
<1>4. Cardinality(From(C, begun) \cup {call}) = Cardinality(From(C, begun)) + 1
  BY <1>2, <1>3, FS_AddElement
<1>5. Cardinality(From(C, begun)) \in Nat BY <1>3, FS_CardinalityType
<1>6. window.count = Cardinality(From(C, begun)) BY DEF Open
<1> HIDE DEF begun
<1>7. next.count = Cardinality(From(C \cup {call}, begun)) /\ next.count <= limit
  BY <1>1, <1>4, <1>5, <1>6
<1> USE DEF begun
<1>8. Within(C \cup {call}, begun - WindowLength + 1, begun) = Within(C, begun - WindowLength + 1, begun)
  BY <1>0 DEF Within
<1> QED BY <1>7, <1>8 DEF Open

\* A call that begins a window.
LEMMA WindowBegins ==
    ASSUME NEW t \in Nat, NEW limit \in Nat \ {0}, NEW C, CallsUntil(C, t), Shut(limit, C, t),
           NEW call, call.at = t,
           NEW next, next.resetsAt = t + WindowLength, next.count = 1
    PROVE  Open(limit, C \cup {call}, next, t)
<1>0. WindowLength \in Nat \ {0} BY LimitsArePositive
<1>1. next.resetsAt - WindowLength = t BY <1>0
<1>2. From(C \cup {call}, t) = {call} BY DEF From, Shut, CallsUntil
<1>3. Cardinality({call}) = 1 BY FS_Singleton
<1>4. Within(C \cup {call}, t - WindowLength + 1, t) \subseteq From(C, t - WindowLength + 1)
  BY <1>0 DEF Within, From
<1>5. From(C, t - WindowLength + 1) \subseteq C BY DEF From
<1>6. /\ Cardinality(Within(C \cup {call}, t - WindowLength + 1, t))
             <= Cardinality(From(C, t - WindowLength + 1))
      /\ Cardinality(Within(C \cup {call}, t - WindowLength + 1, t)) \in Nat
      /\ Cardinality(From(C, t - WindowLength + 1)) \in Nat
  BY <1>4, <1>5, FewerCalls DEF CallsUntil
<1>7. Cardinality(Within(C \cup {call}, t - WindowLength + 1, t)) < limit BY <1>6 DEF Shut
<1>8. t < next.resetsAt BY <1>0
<1>9. \E c \in C \cup {call} : c.at = t OBVIOUS
<1> QED BY <1>1, <1>2, <1>3, <1>7, <1>8, <1>9 DEF Open

\* Either way no window's length up to now holds two full windows.
LEMMA BurstBounded ==
    ASSUME NEW t \in Nat, NEW limit \in Nat \ {0}, NEW C, CallsUntil(C, t)
    PROVE  /\ Shut(limit, C, t) => Cardinality(From(C, t - WindowLength + 1)) <= 2 * limit - 1
           /\ \A window : window.resetsAt \in Nat /\ Open(limit, C, window, t)
                 => Cardinality(From(C, t - WindowLength + 1)) <= 2 * limit - 1
<1>0. WindowLength \in Nat BY LimitsArePositive
<1> DEFINE recent == From(C, t - WindowLength + 1)
<1>1. recent \subseteq C BY DEF From
<1>2. Cardinality(recent) \in Nat BY <1>1, FewerCalls DEF CallsUntil
<1>3. ASSUME Shut(limit, C, t) PROVE Cardinality(recent) <= 2 * limit - 1
  BY <1>2, <1>3 DEF Shut
<1>4. ASSUME NEW window, window.resetsAt \in Nat, Open(limit, C, window, t)
      PROVE  Cardinality(recent) <= 2 * limit - 1
  <2> DEFINE begun == window.resetsAt - WindowLength
             before == Within(C, begun - WindowLength + 1, begun)
             since == From(C, begun)
  <2>1. begun \in Int /\ begun <= t BY <1>0, <1>4 DEF Open
  <2>2. recent \subseteq before \cup since BY <1>0, <2>1 DEF From, Within, CallsUntil
  <2>3. before \subseteq C /\ since \subseteq C BY DEF From, Within
  <2>4. /\ IsFiniteSet(before) /\ IsFiniteSet(since)
        /\ Cardinality(before) \in Nat /\ Cardinality(since) \in Nat
    BY <2>3, FewerCalls DEF CallsUntil
  <2>5. Cardinality(before) < limit /\ Cardinality(since) <= limit BY <1>4 DEF Open
  <2> HIDE DEF recent, before, since
  <2>6. /\ IsFiniteSet(before \cup since)
        /\ Cardinality(before \cup since)
               = Cardinality(before) + Cardinality(since) - Cardinality(before \cap since)
    BY <2>4, FS_Union
  <2>7. Cardinality(before \cap since) \in Nat BY <2>4, FewerCalls
  <2>8. Cardinality(recent) <= Cardinality(before \cup since)
        /\ Cardinality(before \cup since) \in Nat
    BY <2>2, <2>6, FewerCalls
  <2> QED BY <1>2, <2>4, <2>5, <2>6, <2>7, <2>8
<1> QED BY <1>3, <1>4

-----------------------------------------------------------------------------
(* The limiters: types *)

WindowRows(s) == [count : 1..Limit(s), resetsAt : 0..MaxTime]
ScopeTyped(s, w) ==
    /\ DOMAIN w \subseteq Keys(s) /\ w \in [DOMAIN w -> WindowRows(s)]
    /\ IsFiniteSet(DOMAIN w) /\ Cardinality(DOMAIN w) <= MaxTrackedKeys

\* The limits, the length of a window and the keys of a scope.
LEMMA ScopeFacts ==
    /\ WindowLength \in Nat \ {0} /\ MaxTrackedKeys \in Nat \ {0} /\ MaxTime \in Nat
    /\ \A s \in Scopes : Limit(s) \in Nat \ {0} /\ \A u \in Users : Key(s, u) \in Keys(s)
BY LimitsArePositive, WindowsBounds DEF Scopes, Limit, Key, Keys

\* What is left of a scope's windows at a time are those that end later.
LEMMA PruneTyped ==
    ASSUME NEW s \in Scopes, NEW w, ScopeTyped(s, w), NEW t
    PROVE  /\ ScopeTyped(s, Pruned(w, t))
           /\ \A k : k \in DOMAIN Pruned(w, t) <=> k \in DOMAIN w /\ w[k].resetsAt > t
           /\ \A k \in DOMAIN Pruned(w, t) : Pruned(w, t)[k] = w[k]
<1> DEFINE left == {key \in DOMAIN w : w[key].resetsAt > t}
<1>1. Pruned(w, t) = [k \in left |-> w[k]] BY DEF Pruned
<1>2. IsFiniteSet(left) /\ Cardinality(left) <= Cardinality(DOMAIN w)
      /\ Cardinality(left) \in Nat /\ Cardinality(DOMAIN w) \in Nat
  BY FewerCalls DEF ScopeTyped
<1>3. Cardinality(left) <= MaxTrackedKeys BY <1>2, ScopeFacts DEF ScopeTyped
<1>4. \A k \in left : w[k] \in WindowRows(s) BY DEF ScopeTyped
<1>5. left \subseteq Keys(s) BY DEF ScopeTyped
<1>6. \A k : k \in left <=> k \in DOMAIN w /\ w[k].resetsAt > t OBVIOUS
<1> HIDE DEF left
<1>7. ScopeTyped(s, [k \in left |-> w[k]]) BY <1>2, <1>3, <1>4, <1>5 DEF ScopeTyped
<1> QED BY <1>1, <1>6, <1>7

\* What one more call of key k at time t makes of a scope's windows.
OneMore(s, w, k, t, after) ==
    /\ DOMAIN after = DOMAIN w \cup {k}
    /\ \A key \in DOMAIN w \ {k} : after[key] = w[key]
    /\ k \in DOMAIN w => /\ w[k].count < Limit(s)
                         /\ after[k].count = w[k].count + 1
                         /\ after[k].resetsAt = w[k].resetsAt
    /\ k \notin DOMAIN w => /\ after[k].count = 1
                            /\ after[k].resetsAt = t + WindowLength

\* A call that may be counted is counted within the limit, in a window of its
\* own where there was none.
LEMMA ConsumeTyped ==
    ASSUME NEW s \in Scopes, NEW w, ScopeTyped(s, w), NEW k \in Keys(s), NEW t, Prepared(t),
           canAllowPrepared(s, w, k)
    PROVE  /\ ScopeTyped(s, consumePrepared(w, k, t))
           /\ OneMore(s, w, k, t, consumePrepared(w, k, t))
<1> DEFINE after == consumePrepared(w, k, t)
<1>1. t \in Nat /\ t + WindowLength \in 0..MaxTime BY ScopeFacts DEF Prepared
<1>2. CASE k \in DOMAIN w
  <2> DEFINE row == [w[k] EXCEPT !.count = @ + 1]
  <2>1. after = [w EXCEPT ![k] = row] BY <1>2 DEF consumePrepared
  <2>2. w[k] \in WindowRows(s) BY <1>2 DEF ScopeTyped
  <2>3. w[k].count < Limit(s) BY <1>2 DEF canAllowPrepared
  <2>4. row \in WindowRows(s) /\ row.count = w[k].count + 1 /\ row.resetsAt = w[k].resetsAt
    BY <2>2, <2>3, ScopeFacts DEF WindowRows
  <2> HIDE DEF row, after
  <2>5. w \in [DOMAIN w -> WindowRows(s)] BY DEF ScopeTyped
  <2>6. /\ after \in [DOMAIN w -> WindowRows(s)] /\ after[k] = row
        /\ \A key \in DOMAIN w \ {k} : after[key] = w[key]
    BY <1>2, <2>1, <2>4, <2>5
  <2>7. DOMAIN after = DOMAIN w /\ DOMAIN w = DOMAIN w \cup {k} BY <1>2, <2>6
  <2>8. ScopeTyped(s, after) BY <2>6, <2>7 DEF ScopeTyped
  <2>9. OneMore(s, w, k, t, after) BY <1>2, <2>3, <2>4, <2>6, <2>7 DEF OneMore
  <2> QED BY <2>8, <2>9 DEF after
<1>3. CASE k \notin DOMAIN w
  <2> DEFINE row == [count |-> 1, resetsAt |-> t + WindowLength]  all == DOMAIN w \cup {k}
  <2>1. after = [key \in all |-> IF key = k THEN row ELSE w[key]] BY <1>3 DEF consumePrepared
  <2>2. row \in WindowRows(s) /\ row.count = 1 /\ row.resetsAt = t + WindowLength
    BY <1>1, ScopeFacts DEF WindowRows
  <2>3. Cardinality(DOMAIN w) < MaxTrackedKeys BY <1>3 DEF canAllowPrepared
  <2>4. IsFiniteSet(DOMAIN w) /\ \A key \in DOMAIN w : w[key] \in WindowRows(s)
    BY DEF ScopeTyped
  <2>5. IsFiniteSet(all) /\ Cardinality(all) = Cardinality(DOMAIN w) + 1
    BY <1>3, <2>4, FS_AddElement
  <2>6. Cardinality(all) <= MaxTrackedKeys
    BY <2>3, <2>4, <2>5, FS_CardinalityType, ScopeFacts
  <2>7. all \subseteq Keys(s) BY DEF ScopeTyped
  <2> HIDE DEF row, after
  <2>8. /\ after \in [all -> WindowRows(s)] /\ after[k] = row /\ DOMAIN after = all
        /\ \A key \in DOMAIN w \ {k} : after[key] = w[key]
    BY <2>1, <2>2, <2>4
  <2>9. ScopeTyped(s, after)
    <3> HIDE DEF all
    <3> QED BY <2>5, <2>6, <2>7, <2>8 DEF ScopeTyped
  <2>10. OneMore(s, w, k, t, after) BY <1>3, <2>2, <2>8 DEF OneMore
  <2> QED BY <2>9, <2>10 DEF after
<1> QED BY <1>2, <1>3

\* A ping that asks is counted by both limiters, each of which may, or by none.
LEMMA PingAsks ==
    ASSUME NEW p \in PingIds, NEW u \in Users, BeginPing(p, u)
    PROVE  /\ now' = now /\ pingSlots' = pingSlots /\ ping[p] = NoPing
           /\ \/ /\ Prepared(now) /\ calls' = Recorded(u)
                 /\ ping' = [ping EXCEPT ![p] = [user |-> u, stage |-> "reading"]]
                 /\ \A s \in Scopes :
                       LET live == Pruned(windows[s], now) IN
                       /\ canAllowPrepared(s, live, Key(s, u))
                       /\ windows'[s] = consumePrepared(live, Key(s, u), now)
              \/ /\ calls' = calls /\ ping' = ping
                 /\ \A s \in Scopes : windows'[s] \in {windows[s], Pruned(windows[s], now)}
<1> DEFINE live == [s \in Scopes |-> Pruned(windows[s], now)]
<1>1. AskLimiter(p, u, live) BY DEF BeginPing
<1>2. \A s \in Scopes : live[s] = Pruned(windows[s], now) OBVIOUS
<1> HIDE DEF live
<1>3. now' = now /\ pingSlots' = pingSlots /\ ping[p] = NoPing BY <1>1 DEF AskLimiter, NextFree
<1>4. windows' = consume(u, live) BY <1>1 DEF AskLimiter
<1>5. CASE Allowed(u, live)
  <2>1. /\ Prepared(now) /\ canAllowPrepared("users", live["users"], u)
        /\ canAllowPrepared("organizations", live["organizations"], OrganizationOf[u])
    BY <1>5 DEF Allowed, ByUser
  <2>2. \A s \in Scopes : canAllowPrepared(s, live[s], Key(s, u)) BY <2>1 DEF Scopes, Key
  <2>3. \A s \in Scopes : windows'[s] = consumePrepared(live[s], Key(s, u), now)
    BY <1>4, <1>5 DEF consume
  <2>4. calls' = Recorded(u) /\ ping' = [ping EXCEPT ![p] = [user |-> u, stage |-> "reading"]]
    BY <1>1, <1>5 DEF AskLimiter
  <2> QED BY <1>2, <1>3, <2>1, <2>2, <2>3, <2>4
<1>6. CASE ~Allowed(u, live)
  <2>1. \A s \in Scopes : windows'[s] \in {windows[s], live[s]} BY <1>4, <1>6 DEF consume
  <2>2. calls' = calls /\ ping' = ping BY <1>1, <1>6 DEF AskLimiter
  <2> QED BY <1>2, <1>3, <2>1, <2>2
<1> QED BY <1>5, <1>6

-----------------------------------------------------------------------------
(* The limiters: the calls of a key and what its window says of them *)

\* Calls of one user at one time are numbered.
SameTime(u, t) == {c \in calls : c.user = u /\ c.at = t}
CallsNumbered ==
    \A c \in calls : c.at <= now /\ c.number <= Cardinality(SameTime(c.user, c.at))

CallsOf(s, k) == {c \in calls : Key(s, c.user) = k}
Tracks(s, k) == k \in DOMAIN windows[s] /\ windows[s][k].resetsAt > now
KeyCounts(s, k) ==
    /\ Tracks(s, k) => Open(Limit(s), CallsOf(s, k), windows[s][k], now)
    /\ ~Tracks(s, k) => Shut(Limit(s), CallsOf(s, k), now)

\* Every key's calls are those its window has counted, or are few.
KeysCount == \A s \in Scopes : \A k \in Keys(s) : KeyCounts(s, k)

\* What is known of a call, and of a new one.
CallRows == [user : Users, at : 0..MaxTime, number : Nat]
NewCall(u) == [user |-> u, at |-> now, number |-> Cardinality(SameTime(u, now)) + 1]
Kept == {c \in calls : c.at + WindowLength > now}

\* A new call is none of those before.
LEMMA CallIsNew ==
    ASSUME WindowsTypeOK, CallsNumbered, NEW u \in Users
    PROVE  /\ Recorded(u) = Kept \cup {NewCall(u)}
           /\ NewCall(u) \in CallRows /\ NewCall(u) \notin calls
           /\ NewCall(u).user = u /\ NewCall(u).at = now
<1> DEFINE new == NewCall(u)
<1>1. Recorded(u) = Kept \cup {new} BY DEF Recorded, Kept, NewCall, SameTime
<1>2. SameTime(u, now) \subseteq calls BY DEF SameTime
<1>3. Cardinality(SameTime(u, now)) \in Nat BY <1>2, FewerCalls DEF WindowsTypeOK
<1>4. /\ new.user = u /\ new.at = now /\ new.number = Cardinality(SameTime(u, now)) + 1
      /\ new \in CallRows
  BY <1>3 DEF NewCall, CallRows, WindowsTypeOK
<1> HIDE DEF new
<1>5. new \notin calls
  <2> SUFFICES ASSUME new \in calls PROVE FALSE OBVIOUS
  <2>1. new.number <= Cardinality(SameTime(new.user, new.at)) BY DEF CallsNumbered
  <2>2. new.number <= Cardinality(SameTime(u, now)) BY <1>4, <2>1
  <2> QED BY <1>3, <1>4, <2>2
<1> QED BY <1>1, <1>4, <1>5 DEF new

\* The calls of a key happen at times of the clock.
LEMMA KeyCalls ==
    ASSUME WindowsTypeOK, CallsNumbered, NEW s \in Scopes, NEW k
    PROVE  CallsUntil(CallsOf(s, k), now)
<1>1. CallsOf(s, k) \subseteq calls BY DEF CallsOf
<1>2. IsFiniteSet(CallsOf(s, k)) BY <1>1, FewerCalls DEF WindowsTypeOK
<1>3. \A c \in calls : c.at \in Int /\ c.at <= now BY DEF WindowsTypeOK, CallsNumbered
<1> QED BY <1>1, <1>2, <1>3 DEF CallsUntil

\* Calls that are let in are numbered, and those kept keep their numbers.
LEMMA NumbersStep ==
    ASSUME WindowsTypeOK, CallsNumbered, NEW u \in Users, calls' = Recorded(u), now' = now
    PROVE  /\ CallsNumbered' /\ calls' \subseteq CallRows /\ IsFiniteSet(calls')
<1> PICK new : new = NewCall(u) OBVIOUS
<1>0. calls' = Kept \cup {new} BY CallIsNew
<1>1. /\ new \in CallRows /\ new \notin calls /\ new.user = u /\ new.at = now
      /\ new.number = Cardinality(SameTime(u, now)) + 1
  <2>1. new.number = Cardinality(SameTime(u, now)) + 1 BY DEF NewCall
  <2> QED BY <2>1, CallIsNew
<1>2. Kept \subseteq calls /\ IsFiniteSet(calls) /\ calls \subseteq CallRows
  BY DEF Kept, WindowsTypeOK, CallRows
<1>3. IsFiniteSet(Kept) BY <1>2, FewerCalls
<1>4. IsFiniteSet(calls') BY <1>0, <1>3, FS_AddElement
<1>5. calls' \subseteq CallRows BY <1>0, <1>1, <1>2
<1>6. now \in Nat /\ WindowLength \in Nat \ {0} BY ScopeFacts DEF WindowsTypeOK
<1>7. SameTime(u, now)' = SameTime(u, now) \cup {new}
  <2>1. \A c \in SameTime(u, now) : c \in Kept BY <1>6 DEF SameTime, Kept
  <2> QED BY <1>0, <1>1, <1>2, <2>1 DEF SameTime
<1>8. IsFiniteSet(SameTime(u, now)) /\ new \notin SameTime(u, now)
  <2>1. SameTime(u, now) \subseteq calls BY DEF SameTime
  <2> QED BY <1>1, <1>2, <2>1, FewerCalls
<1>9. Cardinality(SameTime(u, now)') = Cardinality(SameTime(u, now)) + 1
  BY <1>7, <1>8, FS_AddElement
<1>10. ASSUME NEW c \in Kept
       PROVE  c.at <= now /\ c.number <= Cardinality(SameTime(c.user, c.at)')
  <2>1. c.at <= now /\ c.number <= Cardinality(SameTime(c.user, c.at))
    BY <1>2 DEF CallsNumbered
  <2>2. SameTime(c.user, c.at) \subseteq SameTime(c.user, c.at)'
    BY <1>0 DEF SameTime, Kept
  <2>3. SameTime(c.user, c.at)' \subseteq calls' BY DEF SameTime
  <2>4. /\ Cardinality(SameTime(c.user, c.at)) <= Cardinality(SameTime(c.user, c.at)')
        /\ Cardinality(SameTime(c.user, c.at)) \in Nat
        /\ Cardinality(SameTime(c.user, c.at)') \in Nat
    BY <1>4, <2>2, <2>3, FewerCalls
  <2>5. c.number \in Nat BY <1>2 DEF CallRows
  <2> QED BY <2>1, <2>4, <2>5
<1>11. new.at <= now /\ new.number <= Cardinality(SameTime(new.user, new.at)')
  <2>1. SameTime(new.user, new.at)' = SameTime(u, now)' BY <1>1 DEF SameTime
  <2>2. Cardinality(SameTime(u, now)) \in Nat BY <1>8, FS_CardinalityType
  <2> QED BY <1>1, <1>6, <1>9, <2>1, <2>2
<1>12. CallsNumbered' BY <1>0, <1>10, <1>11 DEF CallsNumbered
<1> QED BY <1>4, <1>5, <1>12

\* The clock moves on for every key.
LEMMA TickCounts ==
    ASSUME WindowsTypeOK, CallsNumbered, KeysCount, Tick
    PROVE  KeysCount' /\ CallsNumbered'
<1>1. now \in Nat /\ now' = now + 1 /\ windows' = windows /\ calls' = calls
  BY DEF Tick, WindowsTypeOK
<1>2. CallsNumbered'
  <2>1. \A c \in calls : c.at \in Nat BY DEF WindowsTypeOK
  <2>2. \A u, t : SameTime(u, t)' = SameTime(u, t) BY <1>1 DEF SameTime
  <2>3. \A c \in calls : c.at <= now' BY <1>1, <2>1 DEF CallsNumbered
  <2> QED BY <1>1, <2>2, <2>3 DEF CallsNumbered
<1>3. ASSUME NEW s \in Scopes, NEW k \in Keys(s) PROVE KeyCounts(s, k)'
  <2> DEFINE C == CallsOf(s, k)  window == windows[s][k]
  <2>1. CallsUntil(C, now) /\ KeyCounts(s, k) BY KeyCalls DEF KeysCount
  <2>2. C' = C /\ window' = window BY <1>1 DEF CallsOf
  <2>3. Limit(s) \in Nat BY ScopeFacts
  <2>4. Tracks(s, k) => window.resetsAt \in Nat BY DEF Tracks, WindowsTypeOK
  <2>5. Tracks(s, k)' <=> k \in DOMAIN windows[s] /\ window.resetsAt > now' BY <1>1 DEF Tracks
  <2> HIDE DEF C
  <2>6. CASE Tracks(s, k)
    <3>1. Open(Limit(s), C, window, now) BY <2>1, <2>6 DEF KeyCounts, C
    <3>2. window.resetsAt \in Nat /\ k \in DOMAIN windows[s] BY <2>4, <2>6 DEF Tracks
    <3> HIDE DEF window
    <3>3. IF now' < window.resetsAt THEN Open(Limit(s), C, window, now') ELSE Shut(Limit(s), C, now')
      BY <1>1, <2>1, <2>3, <3>1, <3>2, WindowTicks
    <3>4. Tracks(s, k)' <=> now' < window.resetsAt BY <1>1, <2>5, <3>2
    <3>5. Tracks(s, k)' => Open(Limit(s), C, window, now') BY <3>3, <3>4
    <3>6. ~Tracks(s, k)' => Shut(Limit(s), C, now') BY <3>3, <3>4
    <3> QED BY <2>2, <3>5, <3>6 DEF KeyCounts, C, window
  <2>7. CASE ~Tracks(s, k)
    <3>1. Shut(Limit(s), C, now) BY <2>1, <2>7 DEF KeyCounts, C
    <3>2. Shut(Limit(s), C, now') BY <1>1, <2>1, <2>3, <3>1, ShutTicks
    <3>3. k \in DOMAIN windows[s] => window.resetsAt \in Nat BY DEF WindowsTypeOK
    <3>4. ~Tracks(s, k)' BY <1>1, <2>5, <2>7, <3>3 DEF Tracks
    <3> QED BY <2>2, <3>2, <3>4 DEF KeyCounts, C
  <2> QED BY <2>6, <2>7
<1> QED BY <1>2, <1>3 DEF KeysCount

\* A call that is refused changes no count: windows that have ended may go.
LEMMA RefusedCounts ==
    ASSUME WindowsTypeOK, NEW s \in Scopes, NEW k \in Keys(s), KeyCounts(s, k),
           now' = now, calls' = calls, windows'[s] \in {windows[s], Pruned(windows[s], now)}
    PROVE  KeyCounts(s, k)'
<1>1. ScopeTyped(s, windows[s]) BY DEF ScopeTyped, WindowsTypeOK, WindowRows
<1>2. CallsOf(s, k)' = CallsOf(s, k) BY DEF CallsOf
<1>3. /\ Tracks(s, k)' <=> Tracks(s, k)
      /\ Tracks(s, k) => windows'[s][k] = windows[s][k]
  <2>1. CASE windows'[s] = windows[s] BY <2>1 DEF Tracks
  <2>2. CASE windows'[s] = Pruned(windows[s], now)
    <3>1. /\ k \in DOMAIN windows'[s] <=> Tracks(s, k)
          /\ Tracks(s, k) => windows'[s][k] = windows[s][k]
      BY <1>1, <2>2, PruneTyped DEF Tracks
    <3> QED BY <3>1 DEF Tracks
  <2> QED BY <2>1, <2>2
<1> QED BY <1>2, <1>3 DEF KeyCounts

\* One that is let in is counted for its key and no other.
LEMMA AdmittedCounts ==
    ASSUME WindowsTypeOK, CallsNumbered, NEW u \in Users, NEW s \in Scopes, NEW k \in Keys(s),
           KeyCounts(s, k), Prepared(now), now' = now, calls' = Recorded(u),
           canAllowPrepared(s, Pruned(windows[s], now), Key(s, u)),
           windows'[s] = consumePrepared(Pruned(windows[s], now), Key(s, u), now)
    PROVE  KeyCounts(s, k)'
<1> DEFINE live == Pruned(windows[s], now)  C == CallsOf(s, k)
           D == {c \in C : c.at + WindowLength > now}
<1> PICK key : key = Key(s, u) OBVIOUS
<1> PICK new : new = NewCall(u) OBVIOUS
<1>1. ScopeTyped(s, windows[s]) BY DEF ScopeTyped, WindowsTypeOK, WindowRows
<1>2. /\ ScopeTyped(s, live)
      /\ k \in DOMAIN live <=> Tracks(s, k)
      /\ Tracks(s, k) => live[k] = windows[s][k] /\ live[k].resetsAt \in Nat /\ live[k].count \in Nat
      /\ \A j \in DOMAIN live : live[j].resetsAt > now
  <2>1. /\ ScopeTyped(s, live)
        /\ k \in DOMAIN live <=> Tracks(s, k)
        /\ Tracks(s, k) => live[k] = windows[s][k]
        /\ \A j \in DOMAIN live : live[j].resetsAt > now
    BY <1>1, PruneTyped DEF Tracks
  <2>2. Tracks(s, k) => windows[s][k].resetsAt \in Nat /\ windows[s][k].count \in Nat
    BY ScopeFacts DEF Tracks, WindowsTypeOK
  <2> QED BY <2>1, <2>2
<1>3. key \in Keys(s) /\ now \in Nat /\ Limit(s) \in Nat \ {0} /\ WindowLength \in Nat \ {0}
  BY ScopeFacts DEF WindowsTypeOK
<1>4. CallsUntil(C, now) BY KeyCalls
<1>5. D \subseteq C /\ \A c \in C : c.at + WindowLength > now => c \in D OBVIOUS
<1>6. /\ Tracks(s, k) => Open(Limit(s), C, live[k], now)
      /\ ~Tracks(s, k) => Shut(Limit(s), C, now)
  BY <1>2 DEF KeyCounts
<1>7. /\ calls' = Kept \cup {new} /\ new \notin calls /\ new.user = u /\ new.at = now
  BY CallIsNew
<1>8. CallsOf(s, k)' = IF k = key THEN D \cup {new} ELSE D
  BY <1>7 DEF CallsOf, Kept
<1>9. new \notin D BY <1>7 DEF CallsOf
<1> DEFINE next == windows'[s]
<1>10. canAllowPrepared(s, live, key) /\ next = consumePrepared(live, key, now) OBVIOUS
<1>11. Prepared(now) /\ ScopeTyped(s, live) /\ key \in Keys(s) BY <1>2, <1>3
<1>12. Tracks(s, k)' <=> k \in DOMAIN next /\ next[k].resetsAt > now BY DEF Tracks
<1>13. /\ KeyCounts(s, k)' <=> /\ Tracks(s, k)' => Open(Limit(s), CallsOf(s, k)', next[k], now)
                               /\ ~Tracks(s, k)' => Shut(Limit(s), CallsOf(s, k)', now)
  BY DEF KeyCounts
<1> HIDE DEF live, C, D, next
<1>14. OneMore(s, live, key, now, next) BY <1>10, <1>11, ConsumeTyped
<1>15. /\ CallsUntil(D, now)
       /\ Tracks(s, k) => Open(Limit(s), D, live[k], now)
       /\ ~Tracks(s, k) => Shut(Limit(s), D, now)
  <2>1. Limit(s) \in Nat BY <1>3
  <2>2. /\ CallsUntil(D, now)
        /\ Shut(Limit(s), C, now) => Shut(Limit(s), D, now)
        /\ \A window : window.resetsAt \in Nat /\ Open(Limit(s), C, window, now)
                          => Open(Limit(s), D, window, now)
    BY <1>3, <1>4, <1>5, <2>1, WindowForgets
  <2> QED BY <1>2, <1>6, <2>2
<1>16. CASE k # key
  <2>1. CallsOf(s, k)' = D BY <1>8, <1>16
  <2>2. /\ Tracks(s, k)' <=> Tracks(s, k)
        /\ Tracks(s, k) => next[k] = live[k]
    BY <1>2, <1>12, <1>14, <1>16 DEF OneMore
  <2> QED BY <1>15, <1>13, <2>1, <2>2
<1>17. CASE k = key /\ Tracks(s, k)
  <2>1. CallsOf(s, k)' = D \cup {new} BY <1>8, <1>17
  <2>2. /\ k \in DOMAIN live /\ live[k].count < Limit(s)
        /\ next[k].count = live[k].count + 1 /\ next[k].resetsAt = live[k].resetsAt
    BY <1>2, <1>14, <1>17 DEF OneMore
  <2>3. Tracks(s, k)'
    <3>1. k \in DOMAIN next BY <1>14, <1>17 DEF OneMore
    <3>2. next[k].resetsAt > now BY <1>2, <2>2
    <3> QED BY <1>12, <3>1, <3>2
  <2>4. Open(Limit(s), D, live[k], now) /\ live[k].resetsAt \in Nat BY <1>2, <1>15, <1>17
  <2>5. Open(Limit(s), D \cup {new}, next[k], now)
    BY <1>3, <1>7, <1>9, <1>15, <2>2, <2>4, WindowCounts
  <2> QED BY <1>13, <2>1, <2>3, <2>5
<1>18. CASE k = key /\ ~Tracks(s, k)
  <2>1. CallsOf(s, k)' = D \cup {new} BY <1>8, <1>18
  <2>2. next[k].count = 1 /\ next[k].resetsAt = now + WindowLength /\ k \in DOMAIN next
    BY <1>2, <1>14, <1>18 DEF OneMore
  <2>3. Tracks(s, k)' BY <1>3, <1>12, <2>2
  <2>4. Shut(Limit(s), D, now) BY <1>15, <1>18
  <2>5. Open(Limit(s), D \cup {new}, next[k], now)
    BY <1>3, <1>7, <1>15, <2>2, <2>4, WindowBegins
  <2> QED BY <1>13, <2>1, <2>3, <2>5
<1> QED BY <1>16, <1>17, <1>18

-----------------------------------------------------------------------------
(* The ping route: the pings that wait *)

Waiting == {p \in PingIds : ping[p].stage = "waiting"}
PingUser == [p \in PingIds |-> ping[p].user]

\* The slots are the waiting pings', as a limiter counts them.
LEMMA WaitingHold ==
    /\ IsFiniteSet(Waiting) /\ IsFiniteSet(Waiting')
    /\ PingsHoldSlots <=> Counted(pingSlots, Waiting, PingUser)
    /\ PingsHoldSlots' <=> Counted(pingSlots', Waiting', PingUser')
<1>1. IsFiniteSet(PingIds) BY FS_Interval, WindowsBounds DEF PingIds
<1>2. Waiting \subseteq PingIds /\ Waiting' \subseteq PingIds BY DEF Waiting
<1>3. IsFiniteSet(Waiting) /\ IsFiniteSet(Waiting') BY <1>1, <1>2, FS_Subset
<1>4. /\ \A u : HeldBy(Waiting, PingUser, u)
                  = {p \in PingIds : ping[p].stage = "waiting" /\ ping[p].user = u}
      /\ \A o : HeldIn(Waiting, PingUser, o)
                  = {p \in PingIds : ping[p].stage = "waiting" /\ OrganizationOf[ping[p].user] = o}
  BY DEF HeldBy, HeldIn, Waiting, PingUser
<1>5. /\ \A u : HeldBy(Waiting', PingUser', u)
                  = {p \in PingIds : ping'[p].stage = "waiting" /\ ping'[p].user = u}
      /\ \A o : HeldIn(Waiting', PingUser', o)
                  = {p \in PingIds : ping'[p].stage = "waiting" /\ OrganizationOf[ping'[p].user] = o}
  BY DEF HeldBy, HeldIn, Waiting, PingUser
<1>6. PingsHoldSlots <=> Counted(pingSlots, Waiting, PingUser)
  BY <1>4 DEF PingsHoldSlots, Counted
<1>7. PingsHoldSlots' <=> Counted(pingSlots', Waiting', PingUser')
  BY <1>5 DEF PingsHoldSlots, Counted
<1> QED BY <1>3, <1>6, <1>7

\* What changes the pings that do not wait changes no slot.
LEMMA WaitingRest ==
    ASSUME PingsHoldSlots, pingSlots' = pingSlots,
           \A p \in PingIds : /\ ping'[p].stage = "waiting" <=> ping[p].stage = "waiting"
                              /\ ping[p].stage = "waiting" => ping'[p].user = ping[p].user
    PROVE  PingsHoldSlots'
BY DEF PingsHoldSlots

\* A ping that gets its slot waits, one that is settled has given it back.
LEMMA PingSlots ==
    ASSUME WindowsTypeOK, PingsHoldSlots, NEW p \in PingIds, PingSteps(p)
    PROVE  PingsHoldSlots' /\ ping' \in [PingIds -> PingRows] /\ pingSlots' \in SlotRows
<1>1. OrganizationOf \in [Users -> Organizations] BY WindowsBounds
<1>2. pingSlots \in SlotRows /\ ping \in [PingIds -> PingRows] /\ ping[p] \in PingRows
  BY DEF WindowsTypeOK, SlotRows
<1>3. /\ NoPing \in PingRows /\ NoPing.stage = "free"
      /\ ping[p].stage \in {"reading", "waiting", "unlimited"} => ping[p].user \in Users
      /\ \A u \in Users : [user |-> u, stage |-> "unlimited"] \in PingRows
  BY <1>2 DEF PingRows, NoPing
<1>4. CASE pingSlots' = pingSlots /\ ping[p].stage # "waiting" /\ \E row \in PingRows :
              row.stage # "waiting" /\ ping' = [ping EXCEPT ![p] = row]
  <2>1. ping' \in [PingIds -> PingRows] BY <1>2, <1>4
  <2>2. \A q \in PingIds : /\ ping'[q].stage = "waiting" <=> ping[q].stage = "waiting"
                           /\ ping[q].stage = "waiting" => ping'[q].user = ping[q].user
    BY <1>2, <1>4
  <2> QED BY <1>2, <1>4, <2>1, <2>2, WaitingRest
<1>5. CASE SendPing(p)
  <2>1. ping[p].stage = "reading" /\ ping[p].user \in Users BY <1>3, <1>5 DEF SendPing
  <2>2. CASE ping' = [ping EXCEPT ![p] = NoPing] /\ pingSlots' = pingSlots
    BY <1>3, <1>4, <2>1, <2>2
  <2>3. CASE /\ pingSlots' = Acquired(pingSlots, ping[p].user)
             /\ ping' = [ping EXCEPT ![p].stage = "waiting"]
    <3> DEFINE row == [ping[p] EXCEPT !.stage = "waiting"]
    <3>1. row.stage = "waiting" /\ row.user = ping[p].user /\ row \in PingRows
      <4>1. ping[p] \in [user : Users, stage : {"reading", "waiting", "unlimited"}]
        BY <1>2, <2>1 DEF PingRows, NoPing
      <4> QED BY <4>1 DEF PingRows
    <3>2. ping' = [ping EXCEPT ![p] = row] BY <2>3
    <3> HIDE DEF row
    <3>3. ping' \in [PingIds -> PingRows] BY <1>2, <3>1, <3>2
    <3>4. Waiting' = Waiting \cup {p} /\ p \notin Waiting
      BY <1>2, <2>1, <3>1, <3>2 DEF Waiting
    <3>5. PingUser'[p] = ping[p].user /\ \A q \in Waiting : PingUser'[q] = PingUser[q]
      BY <1>2, <3>1, <3>2 DEF PingUser, Waiting
    <3>6. Counted(Acquired(pingSlots, PingUser'[p]), Waiting \cup {p}, PingUser')
      BY <1>1, <1>2, <2>1, <3>4, <3>5, WaitingHold, SlotTaken
    <3>7. PingsHoldSlots' BY <2>3, <3>4, <3>5, <3>6, WaitingHold
    <3>8. pingSlots' \in SlotRows BY <1>1, <1>2, <2>1, <2>3, SlotsMove
    <3> QED BY <3>3, <3>7, <3>8
  <2> QED BY <1>5, <2>2, <2>3 DEF SendPing
<1>6. CASE PingSettles(p)
  <2>1. ping' = [ping EXCEPT ![p] = NoPing] BY <1>6 DEF PingSettles
  <2>2. CASE ping[p].stage # "waiting"
    <3>1. pingSlots' = pingSlots BY <1>6, <2>2 DEF PingSettles
    <3> QED BY <1>3, <1>4, <2>1, <2>2, <3>1
  <2>3. CASE ping[p].stage = "waiting"
    <3>1. pingSlots' = Released(pingSlots, ping[p].user) /\ ping[p].user \in Users
      BY <1>3, <1>6, <2>3 DEF PingSettles
    <3>2. ping' \in [PingIds -> PingRows] BY <1>2, <1>3, <2>1
    <3>3. Waiting' = Waiting \ {p} /\ p \in Waiting
      BY <1>2, <1>3, <2>1, <2>3 DEF Waiting
    <3>4. PingUser[p] = ping[p].user /\ \A q \in Waiting \ {p} : PingUser'[q] = PingUser[q]
      BY <1>2, <2>1 DEF PingUser, Waiting
    <3>5. Counted(Released(pingSlots, PingUser[p]), Waiting \ {p}, PingUser')
      BY <1>1, <1>2, <3>1, <3>3, <3>4, WaitingHold, SlotReturned
    <3>6. PingsHoldSlots' BY <3>1, <3>3, <3>4, <3>5, WaitingHold
    <3>7. pingSlots' \in SlotRows BY <1>1, <1>2, <3>1, SlotsMove
    <3> QED BY <3>2, <3>6, <3>7
  <2> QED BY <2>2, <2>3
<1>7. ASSUME NEW u \in Users, CliPing(p, u)
      PROVE  PingsHoldSlots' /\ ping' \in [PingIds -> PingRows] /\ pingSlots' \in SlotRows
  <2>1. pingSlots' = pingSlots /\ ping' = [ping EXCEPT ![p] = [user |-> u, stage |-> "unlimited"]]
    BY <1>7 DEF CliPing
  <2>2. ping[p].stage # "waiting" BY <1>3, <1>7 DEF CliPing, NextFree
  <2> QED BY <1>3, <1>4, <2>1, <2>2
<1> QED BY <1>5, <1>6, <1>7 DEF PingSteps

-----------------------------------------------------------------------------
(* The ping route: the limits hold *)

LimitsInv == WindowsTypeOK /\ CallsNumbered /\ KeysCount /\ PingsHoldSlots

\* A ping that asks the limiter is counted as it is let in.
LEMMA BeginSteps ==
    ASSUME LimitsInv, NEW p \in PingIds, NEW u \in Users, BeginPing(p, u)
    PROVE  LimitsInv'
<1>1. WindowsTypeOK /\ CallsNumbered /\ KeysCount /\ PingsHoldSlots BY DEF LimitsInv
<1>2. now' = now /\ pingSlots' = pingSlots /\ ping[p] = NoPing BY PingAsks
<1>3. \A s \in Scopes : ScopeTyped(s, windows[s]) /\ ScopeTyped(s, Pruned(windows[s], now))
  <2>1. \A s \in Scopes : ScopeTyped(s, windows[s])
    BY <1>1 DEF ScopeTyped, WindowsTypeOK, WindowRows
  <2> QED BY <2>1, PruneTyped
<1>4. CASE /\ Prepared(now) /\ calls' = Recorded(u)
           /\ ping' = [ping EXCEPT ![p] = [user |-> u, stage |-> "reading"]]
           /\ \A s \in Scopes : LET live == Pruned(windows[s], now) IN
                 /\ canAllowPrepared(s, live, Key(s, u))
                 /\ windows'[s] = consumePrepared(live, Key(s, u), now)
  <2>1. CallsNumbered' /\ calls' \subseteq CallRows /\ IsFiniteSet(calls')
    BY <1>1, <1>2, <1>4, NumbersStep
  <2>2. KeysCount' BY <1>1, <1>2, <1>4, AdmittedCounts DEF KeysCount
  <2>3. ASSUME NEW s \in Scopes PROVE ScopeTyped(s, windows'[s])
    <3> DEFINE live == Pruned(windows[s], now)
    <3>1. /\ ScopeTyped(s, live) /\ Key(s, u) \in Keys(s)
          /\ canAllowPrepared(s, live, Key(s, u))
          /\ windows'[s] = consumePrepared(live, Key(s, u), now)
      BY <1>3, <1>4, ScopeFacts
    <3> HIDE DEF live
    <3> QED BY <1>4, <3>1, ConsumeTyped
  <2>4. [user |-> u, stage |-> "reading"] \in PingRows BY DEF PingRows
  <2>5. ping \in [PingIds -> PingRows] BY <1>1 DEF WindowsTypeOK
  <2>6. ping' \in [PingIds -> PingRows] BY <1>4, <2>4, <2>5
  <2>7. WindowsTypeOK'
    <3>1. \A s \in Scopes : ScopeTyped(s, windows[s])' BY <2>3
    <3> QED BY <1>1, <1>2, <2>1, <2>6, <3>1
        DEF WindowsTypeOK, CallRows, ScopeTyped, WindowRows, Limit, Keys
  <2>8. \A q \in PingIds : /\ ping'[q].stage = "waiting" <=> ping[q].stage = "waiting"
                           /\ ping[q].stage = "waiting" => ping'[q].user = ping[q].user
    BY <1>2, <1>4, <2>5 DEF NoPing
  <2>9. PingsHoldSlots' BY <1>1, <1>2, <2>8, WaitingRest
  <2> QED BY <2>1, <2>2, <2>7, <2>9 DEF LimitsInv
<1>5. CASE /\ calls' = calls /\ ping' = ping
           /\ \A s \in Scopes : windows'[s] \in {windows[s], Pruned(windows[s], now)}
  <2>1. KeysCount' BY <1>1, <1>2, <1>5, RefusedCounts DEF KeysCount
  <2>2. CallsNumbered' BY <1>1, <1>2, <1>5 DEF CallsNumbered, SameTime
  <2>3. \A s \in Scopes : ScopeTyped(s, windows'[s]) BY <1>3, <1>5
  <2>4. WindowsTypeOK'
    BY <1>1, <1>2, <1>5, <2>3 DEF WindowsTypeOK, ScopeTyped, WindowRows, Limit, Keys
  <2>5. PingsHoldSlots' BY <1>1, <1>2, <1>5 DEF PingsHoldSlots
  <2> QED BY <2>1, <2>2, <2>4, <2>5 DEF LimitsInv
<1> QED BY <1>4, <1>5, PingAsks

\* No step of the route or of the clock breaks the counts.
LEMMA LimitsStep == LimitsInv /\ [WindowsNext]_windowsVars => LimitsInv'
<1> SUFFICES ASSUME LimitsInv, [WindowsNext]_windowsVars PROVE LimitsInv' OBVIOUS
<1>1. WindowsTypeOK /\ CallsNumbered /\ KeysCount /\ PingsHoldSlots BY DEF LimitsInv
<1>2. ASSUME windows' = windows, calls' = calls, now' = now
      PROVE  CallsNumbered' /\ KeysCount'
  <2>1. \A s, k : /\ CallsOf(s, k)' = CallsOf(s, k) /\ (Tracks(s, k)' <=> Tracks(s, k))
                  /\ Limit(s)' = Limit(s)
    BY <1>2 DEF CallsOf, Tracks
  <2>2. \A s, k : KeyCounts(s, k)' <=> KeyCounts(s, k) BY <1>2, <2>1 DEF KeyCounts
  <2>3. KeysCount' BY <1>1, <2>2 DEF KeysCount
  <2> QED BY <1>1, <1>2, <2>3 DEF CallsNumbered, SameTime
<1>3. CASE Tick
  <2>1. KeysCount' /\ CallsNumbered' BY <1>1, <1>3, TickCounts
  <2>2. now' \in 0..MaxTime BY <1>1, <1>3, ScopeFacts DEF Tick, WindowsTypeOK
  <2>3. WindowsTypeOK' BY <1>1, <1>3, <2>2 DEF WindowsTypeOK, Tick
  <2>4. PingsHoldSlots' BY <1>1, <1>3 DEF PingsHoldSlots, Tick
  <2> QED BY <2>1, <2>3, <2>4 DEF LimitsInv
<1>4. ASSUME NEW p \in PingIds, PingSteps(p) PROVE LimitsInv'
  <2>1. PingsHoldSlots' /\ ping' \in [PingIds -> PingRows] /\ pingSlots' \in SlotRows
    BY <1>1, <1>4, PingSlots
  <2>2. now' = now /\ windows' = windows /\ calls' = calls
    BY <1>4 DEF PingSteps, SendPing, PingSettles, CliPing
  <2>3. WindowsTypeOK' BY <1>1, <2>1, <2>2 DEF WindowsTypeOK, SlotRows
  <2> QED BY <1>2, <2>1, <2>2, <2>3 DEF LimitsInv
<1>5. ASSUME NEW p \in PingIds, NEW u \in Users, BeginPing(p, u) PROVE LimitsInv'
  BY <1>5, BeginSteps
<1>6. CASE UNCHANGED windowsVars
  <2>1. /\ now' = now /\ windows' = windows /\ calls' = calls /\ ping' = ping
        /\ pingSlots' = pingSlots
    BY <1>6 DEF windowsVars
  <2>2. WindowsTypeOK' /\ PingsHoldSlots' BY <1>1, <2>1 DEF WindowsTypeOK, PingsHoldSlots
  <2> QED BY <1>2, <2>1, <2>2 DEF LimitsInv
<1> QED BY <1>3, <1>4, <1>5, <1>6 DEF WindowsNext

\* At the start nothing is counted.
LEMMA LimitsInitially == WindowsInit => LimitsInv
<1> SUFFICES ASSUME WindowsInit PROVE LimitsInv OBVIOUS
<1>1. now = 0 /\ calls = {} /\ \A s \in Scopes : windows[s] = [k \in {} |-> 0]
  BY DEF WindowsInit
<1>2. \A s \in Scopes : DOMAIN windows[s] = {} BY <1>1
<1>3. IsFiniteSet({}) /\ Cardinality({}) = 0 BY FS_EmptySet
<1>4. WindowsTypeOK
  <2>1. now \in 0..MaxTime BY <1>1, ScopeFacts
  <2>2. ASSUME NEW s \in Scopes
        PROVE  /\ DOMAIN windows[s] \subseteq Keys(s)
               /\ windows[s] \in [DOMAIN windows[s] -> [count : 1..Limit(s), resetsAt : 0..MaxTime]]
               /\ IsFiniteSet(DOMAIN windows[s])
               /\ Cardinality(DOMAIN windows[s]) <= MaxTrackedKeys
    <3>1. windows[s] = [k \in {} |-> 0] BY <1>1
    <3> DEFINE rows == [count : 1..Limit(s), resetsAt : 0..MaxTime]
    <3> HIDE DEF rows
    <3>2. windows[s] \in [DOMAIN windows[s] -> rows] BY <3>1
    <3>3. 0 <= MaxTrackedKeys BY ScopeFacts
    <3> QED BY <1>2, <1>3, <3>2, <3>3 DEF rows
  <2>3. ping \in [PingIds -> PingRows] BY DEF WindowsInit, PingRows
  <2>4. pingSlots \in SlotRows BY DEF WindowsInit, NoSlots, SlotRows
  <2> QED BY <1>1, <1>3, <2>1, <2>2, <2>3, <2>4 DEF WindowsTypeOK, SlotRows
<1>5. CallsNumbered BY <1>1 DEF CallsNumbered
<1>6. KeysCount
  <2>1. \A s, k : CallsOf(s, k) = {} BY <1>1 DEF CallsOf
  <2>2. \A s \in Scopes : \A k : ~Tracks(s, k) BY <1>2 DEF Tracks
  <2>3. From({}, now - WindowLength + 1) = {} BY DEF From
  <2>4. \A s \in Scopes : Shut(Limit(s), {}, now) BY <1>3, <2>3, ScopeFacts DEF Shut
  <2> QED BY <2>1, <2>2, <2>4 DEF KeysCount, KeyCounts
<1>7. PingsHoldSlots
  <2>1. \A p \in PingIds : ping[p].stage # "waiting" BY DEF WindowsInit, NoPing
  <2>2. /\ \A u : {p \in PingIds : ping[p].stage = "waiting" /\ ping[p].user = u} = {}
        /\ \A o : {p \in PingIds : ping[p].stage = "waiting"
                                   /\ OrganizationOf[ping[p].user] = o} = {}
    BY <2>1
  <2>3. /\ \A u \in Users : pingSlots.user[u] = 0
        /\ \A o \in Organizations : pingSlots.organization[o] = 0
    BY DEF WindowsInit, NoSlots
  <2> QED BY <1>3, <2>2, <2>3 DEF PingsHoldSlots
<1> QED BY <1>4, <1>5, <1>6, <1>7 DEF LimitsInv

\* What is kept of every key's window is what the limits promise.
LEMMA LimitsImplied == LimitsInv => LimitsHold
<1> SUFFICES ASSUME LimitsInv PROVE LimitsHold OBVIOUS
<1>1. WindowsTypeOK /\ CallsNumbered /\ KeysCount /\ PingsHoldSlots BY DEF LimitsInv
<1>2. \A s, k, t : Calls(s, k, t) = From(CallsOf(s, k), t) BY DEF Calls, CallsOf, From
<1>3. ASSUME NEW s \in Scopes, NEW k \in DOMAIN windows[s], windows[s][k].resetsAt > now
      PROVE  windows[s][k].count = Cardinality(Calls(s, k, windows[s][k].resetsAt - WindowLength))
  <2>1. k \in Keys(s) /\ Tracks(s, k) BY <1>1, <1>3 DEF WindowsTypeOK, Tracks
  <2>2. Open(Limit(s), CallsOf(s, k), windows[s][k], now)
    BY <1>1, <2>1 DEF KeysCount, KeyCounts
  <2> QED BY <1>2, <2>2 DEF Open
<1>4. WindowsCount BY <1>3 DEF WindowsCount
<1>5. ASSUME NEW s \in Scopes, NEW k \in {Key(s, c.user) : c \in calls}
      PROVE  Cardinality(Calls(s, k, now - WindowLength + 1)) <= 2 * Limit(s) - 1
  <2>1. k \in Keys(s) BY <1>1, ScopeFacts DEF WindowsTypeOK
  <2>2. /\ now \in Nat /\ Limit(s) \in Nat \ {0} /\ CallsUntil(CallsOf(s, k), now)
        /\ Tracks(s, k) => windows[s][k].resetsAt \in Nat
    BY <1>1, ScopeFacts, KeyCalls DEF WindowsTypeOK, Tracks
  <2>3. KeyCounts(s, k) BY <1>1, <2>1 DEF KeysCount
  <2>4. Cardinality(From(CallsOf(s, k), now - WindowLength + 1)) <= 2 * Limit(s) - 1
    <3>1. CASE Tracks(s, k)
      <4>1. Open(Limit(s), CallsOf(s, k), windows[s][k], now) BY <2>3, <3>1 DEF KeyCounts
      <4> QED BY <2>2, <3>1, <4>1, BurstBounded
    <3>2. CASE ~Tracks(s, k)
      <4>1. Shut(Limit(s), CallsOf(s, k), now) BY <2>3, <3>2 DEF KeyCounts
      <4> QED BY <2>2, <4>1, BurstBounded
    <3> QED BY <3>1, <3>2
  <2> QED BY <1>2, <2>4
<1>6. BurstsAreBounded BY <1>5 DEF BurstsAreBounded
<1> QED BY <1>1, <1>4, <1>6 DEF LimitsHold

\* For any users, Organizations, limits and clock: each open window has counted
\* exactly the calls let in since it began, no window's length of time holds
\* two full windows of them, and every slot is a ping that waits.
THEOREM WindowsLimitsHold == WindowsSpec => []LimitsHold
<1>1. WindowsSpec => []LimitsInv BY LimitsInitially, LimitsStep, PTL DEF WindowsSpec
<1> QED BY <1>1, LimitsImplied, PTL

\* The limiters, the calls and the pings keep their types, and a limiter never
\* tracks more keys than it may.
THEOREM WindowsTypes == WindowsSpec => []WindowsTypeOK
<1>1. WindowsSpec => []LimitsInv BY LimitsInitially, LimitsStep, PTL DEF WindowsSpec
<1>2. LimitsInv => WindowsTypeOK BY DEF LimitsInv
<1> QED BY <1>1, <1>2, PTL
=============================================================================
