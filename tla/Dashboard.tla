--------------------------------- MODULE Dashboard ---------------------------------
(*****************************************************************************)
(* What a browser tab shows of an Organization: the refreshes that stream    *)
(* events, the fallback interval and the user's own changes start, the       *)
(* optimistic updates, and the live stream with its single-use token, its    *)
(* slot and its end after the token's minute; tabs are opened and closed.    *)
(*                                                                           *)
(* The Organization's data is one value, numbered by its changes.  An open   *)
(* tab is visible; its requests are answered in any order.                   *)
(*****************************************************************************)
EXTENDS Naturals, FiniteSets, Concurrency

CONSTANTS
    Tabs, UserOf,   \* the user of each tab
    LiveTokens,     \* live tokens at one time
    NoAnswer, NoToken,
    MaxChanges,     \* bound on the changes of the data
    MaxRefreshes,   \* bound on the refreshes of a tab that are under way
    MaxErrors       \* bound on the failures, and the tabs that are closed

\* Live tokens are finitely many; a tab is one user's, and a user of one
\* Organization, as the keys of the slots say.
ASSUME DashboardBounds ==
    /\ IsFiniteSet(LiveTokens) /\ NoToken \notin LiveTokens
    /\ UserOf \in [Tabs -> Users] /\ OrganizationOf \in [Users -> Organizations]
    /\ MaxChanges \in Nat /\ NoAnswer \notin 0..MaxChanges

VARIABLES
    data, changes,  \* the Server's value and the number of its changes
    page,           \* what each tab shows: the context's pages or the Sessions page
    shown,          \* the value each tab shows
    refreshes,      \* refreshes under way: who asked, and the answer
    edit,           \* the change of the user's that is under way in a tab
    stream,         \* DashboardLiveRefresh's connect(), or a tab that is closed
    token,          \* the token it holds
    events,         \* refresh events that wait in its stream
    lives,          \* what the Server knows of each token
    owner,          \* the tab each token was issued to
    slots,          \* liveStreams
    errors

tabVars == <<page, shown, refreshes, edit, stream, token, events>>
liveVars == <<lives, owner, slots>>
dashboardVars == <<data, changes, tabVars, liveVars, errors>>

Refresh == [by : {"event", "other", "none"}, answer : 0..MaxChanges \cup {NoAnswer}]
NoRefresh == [by |-> "none", answer |-> NoAnswer]
NoEdit == [kind |-> "none", value |-> 0, previous |-> 0, state |-> "none"]
Pages == {"context", "sessions"}
EditKinds == {"machine", "settings", "preferences", "notification", "decision", "removal", "agent"}
\* A Session that is decided, an Agent that is changed and what is removed stay
\* as they are until the Server has answered.
Optimistic == {"machine", "settings", "preferences", "notification"}

\* What the tabs, their streams and the slots hold.
DashboardTypeOK ==
    /\ {data, changes} \subseteq 0..MaxChanges
    /\ page \in [Tabs -> Pages]
    /\ shown \in [Tabs -> 0..MaxChanges]
    /\ refreshes \in [Tabs -> [1..MaxRefreshes -> Refresh]]
    /\ edit \in [Tabs -> [kind : EditKinds \cup {"none"}, value : 0..MaxChanges,
                          previous : 0..MaxChanges,
                          state : {"none", "sent", "saved", "failed"}]]
    /\ stream \in [Tabs -> {"closed", "authorizing", "connecting", "open", "waiting"}]
    /\ token \in [Tabs -> LiveTokens \cup {NoToken}]
    /\ \A b \in Tabs : token[b] # NoToken <=> stream[b] \in {"connecting", "open"}
    /\ events \in [Tabs -> Nat]
    /\ lives \in [LiveTokens -> {"free", "issued", "open", "ended", "past"}]
    /\ owner \in [LiveTokens -> Tabs]
    /\ slots \in [organization : [Organizations -> Nat], user : [Users -> Nat]]

DashboardInit ==
    /\ data = 0 /\ changes = 0
    /\ page = [b \in Tabs |-> "context"]
    /\ shown = [b \in Tabs |-> 0]
    /\ refreshes = [b \in Tabs |-> [i \in 1..MaxRefreshes |-> NoRefresh]]
    /\ edit = [b \in Tabs |-> NoEdit]
    /\ stream = [b \in Tabs |-> "closed"]
    /\ token = [b \in Tabs |-> NoToken]
    /\ events = [b \in Tabs |-> 0]
    /\ lives = [t \in LiveTokens |-> "free"]
    /\ owner \in [LiveTokens -> Tabs]
    /\ slots = NoSlots
    /\ errors = 0

IsOpen(b) == stream[b] # "closed"

-----------------------------------------------------------------------------
(* The Server's data *)

\* notifyOrganization: an event in each stream the Server still holds open,
\* which reaches the tab if it still reads that stream.
emitRefresh ==
    events' = [b \in Tabs |->
        IF stream[b] = "open" /\ token[b] # NoToken /\ lives[token[b]] = "open" /\ events[b] = 0
        THEN 1 ELSE events[b]]

\* Another user or a Machine changes the data; not everything is announced.
ServerChanges ==
    /\ changes < MaxChanges
    /\ changes' = changes + 1 /\ data' = changes + 1
    /\ emitRefresh \/ UNCHANGED events
    /\ UNCHANGED <<page, shown, refreshes, edit, stream, token, liveVars, errors>>

-----------------------------------------------------------------------------
(* Refreshes *)

Underway(b) == {i \in 1..MaxRefreshes : refreshes[b][i].by # "none"}
StartRefresh(b, by) ==
    /\ Cardinality(Underway(b)) < MaxRefreshes
    /\ \E i \in 1..MaxRefreshes :
          /\ i \notin Underway(b) /\ \A j \in 1..(i - 1) : j \in Underway(b)
          /\ refreshes' = [refreshes EXCEPT ![b][i] = [by |-> by, answer |-> NoAnswer]]

\* A variant with a defect: the interval is left to tabs without a stream.
RefreshWhenDisconnected(b) ==
    /\ IsOpen(b) /\ stream[b] # "open" /\ StartRefresh(b, "other")
    /\ UNCHANGED <<page, data, changes, shown, edit, stream, token, events, liveVars, errors>>

\* The fallback interval, or the window gets the focus; the Sessions page has
\* an interval of its own.
RefreshWhenVisible(b) ==
    /\ IsOpen(b) /\ StartRefresh(b, "other")
    /\ UNCHANGED <<page, data, changes, shown, edit, stream, token, events, liveVars, errors>>

\* The stream's loop awaits the refresh of an event before it reads on.  It is
\* the context's: the list of the Sessions page stays as it is.
RefreshOnEvent(b) ==
    /\ stream[b] = "open" /\ events[b] > 0
    /\ \A i \in Underway(b) : refreshes[b][i].by # "event"
    /\ events' = [events EXCEPT ![b] = @ - 1]
    /\ IF page[b] = "context" THEN StartRefresh(b, "event") ELSE UNCHANGED refreshes
    /\ UNCHANGED <<page, data, changes, shown, edit, stream, token, liveVars, errors>>

\* The route that was asked reads the tables.
Serve(b, i) ==
    /\ refreshes[b][i].by # "none" /\ refreshes[b][i].answer = NoAnswer
    /\ refreshes' = [refreshes EXCEPT ![b][i].answer = data]
    /\ UNCHANGED <<page, data, changes, shown, edit, stream, token, events, liveVars, errors>>

ServeContext(b, i) == page[b] = "context" /\ Serve(b, i)
ServeSessions(b, i) == page[b] = "sessions" /\ Serve(b, i)

\* Whichever answer comes last is what the tab shows.
Show(b, i) ==
    /\ refreshes[b][i].answer # NoAnswer
    /\ shown' = [shown EXCEPT ![b] = refreshes[b][i].answer]
    /\ refreshes' = [refreshes EXCEPT ![b][i] = NoRefresh]
    /\ UNCHANGED <<page, data, changes, edit, stream, token, events, liveVars, errors>>

ShowContext(b, i) == page[b] = "context" /\ Show(b, i)
ShowSessions(b, i) == page[b] = "sessions" /\ Show(b, i)

RefreshFails(b, i) ==
    /\ refreshes[b][i].by # "none"
    /\ errors < MaxErrors /\ errors' = errors + 1
    /\ refreshes' = [refreshes EXCEPT ![b][i] = NoRefresh]
    /\ UNCHANGED <<page, data, changes, shown, edit, stream, token, events, liveVars>>

-----------------------------------------------------------------------------
(* The user's changes *)

\* A change is sent; one that is optimistic is shown before it is saved.
Save(b, kind) ==
    /\ IsOpen(b) /\ edit[b] = NoEdit /\ changes < MaxChanges
    /\ changes' = changes + 1
    /\ edit' = [edit EXCEPT ![b] = [kind |-> kind, value |-> changes + 1,
                                    previous |-> IF kind \in Optimistic THEN shown[b] ELSE 0,
                                    state |-> "sent"]]
    /\ shown' = IF kind \in Optimistic THEN [shown EXCEPT ![b] = changes + 1] ELSE shown
    /\ UNCHANGED <<page, data, refreshes, stream, token, events, liveVars, errors>>

saveMachine(b) == page[b] = "context" /\ Save(b, "machine")
saveDetails(b) == page[b] = "context" /\ Save(b, "settings")
saveTimeZone(b) == page[b] = "context" /\ Save(b, "preferences")
setRead(b) == page[b] = "context" /\ Save(b, "notification")
removeMachine(b) == page[b] = "context" /\ Save(b, "removal")
changeAgent(b) == page[b] = "context" /\ Save(b, "agent")
decide(b) == page[b] = "sessions" /\ Save(b, "decision")

\* A tab that was closed meanwhile does not learn of the outcome.
Answered(b, state) ==
    edit' = [edit EXCEPT ![b] = IF IsOpen(b) THEN [@ EXCEPT !.state = state] ELSE NoEdit]

\* A decision and a user's preferences are not announced.
Announced(kind) == kind \notin {"decision", "preferences"}

\* The web's route hands a change to the Server and its answer to the tab.  A
\* statement after the change, or the answer, may be lost.
controlRequest(b, kind) ==
    /\ edit[b].state = "sent" /\ edit[b].kind = kind
    /\ data' = edit[b].value
    /\ \/ /\ Answered(b, "saved") /\ UNCHANGED errors
          /\ IF Announced(kind) THEN emitRefresh ELSE UNCHANGED events
       \/ /\ errors < MaxErrors /\ errors' = errors + 1 /\ Answered(b, "failed")
          /\ UNCHANGED events \/ (Announced(kind) /\ emitRefresh)
    /\ UNCHANGED <<page, changes, shown, refreshes, stream, token, liveVars>>

updateMachineDetails(b) == controlRequest(b, "machine")
revokeMachine(b) == controlRequest(b, "removal")
updateOrganizationSettings(b) == controlRequest(b, "settings")
upsertUserPreferences(b) == controlRequest(b, "preferences")
markNotificationRead(b) == controlRequest(b, "notification")
updateAgent(b) == controlRequest(b, "agent")
superviseSession(b) == controlRequest(b, "decision")
ServeSave(b) ==
    \/ updateMachineDetails(b) \/ revokeMachine(b) \/ updateOrganizationSettings(b)
    \/ upsertUserPreferences(b) \/ markNotificationRead(b) \/ updateAgent(b)
    \/ superviseSession(b)

\* The route finds nobody signed in, or one who may not, or it fails.
RouteRefuses(b) ==
    /\ edit[b].state = "sent"
    /\ errors < MaxErrors /\ errors' = errors + 1
    /\ Answered(b, "failed")
    /\ UNCHANGED <<page, data, changes, shown, refreshes, stream, token, events, liveVars>>

SaveSucceeds(b) ==
    /\ edit[b].state = "saved"
    /\ shown' = IF edit[b].kind \in {"machine", "decision"}
                THEN [shown EXCEPT ![b] = edit[b].value] ELSE shown
    /\ IF edit[b].kind = "decision" THEN UNCHANGED refreshes ELSE StartRefresh(b, "other")
    /\ edit' = [edit EXCEPT ![b] = NoEdit]
    /\ UNCHANGED <<page, data, changes, stream, token, events, liveVars, errors>>

\* What was shown before is shown again; only the notifications are read anew.
SaveRestores(b) ==
    /\ edit[b].state = "failed"
    /\ shown' = IF edit[b].kind \in Optimistic THEN [shown EXCEPT ![b] = edit[b].previous]
                ELSE shown
    /\ IF edit[b].kind = "notification" THEN StartRefresh(b, "other") ELSE UNCHANGED refreshes
    /\ edit' = [edit EXCEPT ![b] = NoEdit]
    /\ UNCHANGED <<page, data, changes, stream, token, events, liveVars, errors>>

-----------------------------------------------------------------------------
(* The tab *)

\* A page arrives with the context it was rendered from, and its effects run.
TabOpens(b) ==
    /\ ~IsOpen(b) /\ edit[b] = NoEdit
    /\ shown' = [shown EXCEPT ![b] = data]
    /\ stream' = [stream EXCEPT ![b] = "authorizing"]
    /\ \E p \in Pages : page' = [page EXCEPT ![b] = p]
    /\ UNCHANGED <<data, changes, refreshes, edit, token, events, liveVars, errors>>

\* The effect's cleanup aborts the stream and clears the timers; a change that
\* was sent is on its way all the same.
TabCloses(b) ==
    /\ IsOpen(b) /\ errors < MaxErrors /\ errors' = errors + 1
    /\ stream' = [stream EXCEPT ![b] = "closed"]
    /\ token' = [token EXCEPT ![b] = NoToken]
    /\ events' = [events EXCEPT ![b] = 0]
    /\ refreshes' = [refreshes EXCEPT ![b] = [i \in 1..MaxRefreshes |-> NoRefresh]]
    /\ edit' = [edit EXCEPT ![b] = IF @.state = "sent" THEN [@ EXCEPT !.previous = 0] ELSE NoEdit]
    /\ page' = [page EXCEPT ![b] = "context"] /\ shown' = [shown EXCEPT ![b] = 0]
    /\ UNCHANGED <<data, changes, liveVars>>

-----------------------------------------------------------------------------
(* The live stream, in the tab *)

\* The timer of the next attempt.
Wait(b) ==
    /\ stream' = [stream EXCEPT ![b] = "waiting"]
    /\ token' = [token EXCEPT ![b] = NoToken]
    /\ events' = [events EXCEPT ![b] = 0]

\* A variant with a defect: the next attempt asks for no new token.
RetryUnauthorized(b) ==
    /\ stream[b] = "waiting"
    /\ stream' = [stream EXCEPT ![b] = "connecting"]
    /\ UNCHANGED <<page, data, changes, shown, refreshes, edit, token, events, liveVars, errors>>

Retry(b) ==
    /\ stream[b] = "waiting"
    /\ stream' = [stream EXCEPT ![b] = "authorizing"]
    /\ UNCHANGED <<page, data, changes, shown, refreshes, edit, token, events, liveVars, errors>>

createControlLiveToken(b) ==
    /\ stream[b] = "authorizing"
    /\ \E t \in LiveTokens :
          /\ lives[t] = "free"
          /\ lives' = [lives EXCEPT ![t] = "issued"]
          /\ owner' = [owner EXCEPT ![t] = b]
          /\ token' = [token EXCEPT ![b] = t]
    /\ stream' = [stream EXCEPT ![b] = "connecting"]
    /\ UNCHANGED <<page, data, changes, shown, refreshes, edit, events, slots, errors>>

ConnectionFails(b) ==
    /\ stream[b] \in {"authorizing", "connecting", "open"}
    /\ errors < MaxErrors /\ errors' = errors + 1
    /\ Wait(b)
    /\ UNCHANGED <<page, data, changes, shown, refreshes, edit, liveVars>>

\* The Server has ended the stream and the tab reads its end.
StreamDone(b) ==
    /\ stream[b] = "open" /\ lives[token[b]] # "open"
    /\ events[b] = 0 /\ \A i \in Underway(b) : refreshes[b][i].by # "event"
    /\ Wait(b)
    /\ UNCHANGED <<page, data, changes, shown, refreshes, edit, liveVars, errors>>

-----------------------------------------------------------------------------
(* The live stream, on the Server *)

\* Its minute is not over, and ControlLiveTokenReplayGuard has not seen it.
verifyControlLiveToken(t) == lives[t] = "issued"

\* /v1/control/events: the token verifies, was not used before and there is a
\* slot.  A token that finds none is used up all the same.
OpenStream(b) ==
    LET t == token[b] u == UserOf[b] IN
    /\ stream[b] = "connecting"
    /\ IF verifyControlLiveToken(t) /\ MayAcquire(slots, u)
       THEN /\ lives' = [lives EXCEPT ![t] = "open"]
            /\ slots' = Acquired(slots, u)
            /\ stream' = [stream EXCEPT ![b] = "open"]
            /\ UNCHANGED <<token, events>>
       ELSE /\ lives' = [lives EXCEPT ![t] = "past"]
            /\ Wait(b)
            /\ UNCHANGED slots
    /\ UNCHANGED <<page, data, changes, shown, refreshes, edit, owner, errors>>

\* The request of a tab that has given up, or is closed, arrives all the same.
OpenAbandoned(t) ==
    /\ verifyControlLiveToken(t) /\ token[owner[t]] # t
    /\ IF MayAcquire(slots, UserOf[owner[t]])
       THEN /\ lives' = [lives EXCEPT ![t] = "open"]
            /\ slots' = Acquired(slots, UserOf[owner[t]])
       ELSE lives' = [lives EXCEPT ![t] = "past"] /\ UNCHANGED slots
    /\ UNCHANGED <<data, changes, tabVars, owner, errors>>

\* A variant with a defect: only the close event gives the slot back, and only
\* of a stream that has not ended yet.
cleanupKeeping(t) == slots' = slots

\* A variant with a defect: the flag `cleaned` is not asked.
cleanupTwice(t) == slots' = Released(slots, UserOf[owner[t]])

\* cleanup runs for the token's expiry and for the response's close event, and
\* does its work the first time only.
cleanup(t) == slots' = IF lives[t] = "open" THEN Released(slots, UserOf[owner[t]]) ELSE slots

\* The token's minute is over: the stream it has opened is ended.  A tab that
\* needs longer than that to connect has failed.
TokenExpiry(t) ==
    /\ lives[t] \in {"issued", "open"}
    /\ IF lives[t] = "issued" /\ token[owner[t]] = t
       THEN errors < MaxErrors /\ errors' = errors + 1 ELSE UNCHANGED errors
    /\ lives' = [lives EXCEPT ![t] = IF @ = "open" THEN "ended" ELSE "past"]
    /\ cleanup(t)
    /\ UNCHANGED <<data, changes, tabVars, owner>>

\* The close event, of a stream that was ended or that the tab has left.
ResponseCloses(t) ==
    /\ lives[t] = "ended" \/ (lives[t] = "open" /\ token[owner[t]] # t)
    /\ cleanup(t)
    /\ lives' = [lives EXCEPT ![t] = "past"]
    /\ UNCHANGED <<data, changes, tabVars, owner, errors>>

\* Nobody holds the token any more.
TokenForgotten(t) ==
    /\ lives[t] = "past" /\ \A b \in Tabs : token[b] # t
    /\ lives' = [lives EXCEPT ![t] = "free"]
    /\ UNCHANGED <<data, changes, tabVars, owner, slots, errors>>

DashboardNext ==
    \/ ServerChanges
    \/ \E b \in Tabs :
          \/ TabOpens(b) \/ TabCloses(b) \/ RefreshWhenVisible(b) \/ RefreshOnEvent(b)
          \/ \E i \in 1..MaxRefreshes :
                \/ ServeContext(b, i) \/ ServeSessions(b, i)
                \/ ShowContext(b, i) \/ ShowSessions(b, i) \/ RefreshFails(b, i)
          \/ saveMachine(b) \/ saveDetails(b) \/ saveTimeZone(b) \/ setRead(b)
          \/ removeMachine(b) \/ changeAgent(b) \/ decide(b)
          \/ ServeSave(b) \/ RouteRefuses(b) \/ SaveSucceeds(b) \/ SaveRestores(b)
          \/ Retry(b) \/ createControlLiveToken(b) \/ ConnectionFails(b) \/ StreamDone(b)
          \/ OpenStream(b)
    \/ \E t \in LiveTokens : OpenAbandoned(t) \/ TokenExpiry(t) \/ ResponseCloses(t) \/ TokenForgotten(t)

DashboardSpec == DashboardInit /\ [][DashboardNext]_dashboardVars

\* Timers fire, requests are answered or fail, and failures end.
DashboardFairness ==
    /\ \A b \in Tabs :
          /\ WF_dashboardVars(RefreshWhenVisible(b)) /\ WF_dashboardVars(RefreshOnEvent(b))
          /\ \A i \in 1..MaxRefreshes :
                WF_dashboardVars(Serve(b, i)) /\ WF_dashboardVars(Show(b, i))
          /\ WF_dashboardVars(ServeSave(b))
          /\ WF_dashboardVars(SaveSucceeds(b)) /\ WF_dashboardVars(SaveRestores(b))
          /\ WF_dashboardVars(Retry(b)) /\ WF_dashboardVars(createControlLiveToken(b))
          /\ WF_dashboardVars(OpenStream(b)) /\ WF_dashboardVars(StreamDone(b))
    /\ \A t \in LiveTokens :
          /\ WF_dashboardVars(TokenExpiry(t)) /\ WF_dashboardVars(ResponseCloses(t))
          /\ WF_dashboardVars(TokenForgotten(t))

-----------------------------------------------------------------------------
(* What the dashboard promises *)

\* Every slot that is taken is an open stream, of the user it is counted for:
\* whatever ends a stream, and however often, gives its slot back once.
SlotsAreStreams ==
    /\ \A u \in Users :
          slots.user[u] = Cardinality({t \in LiveTokens : lives[t] = "open" /\ UserOf[owner[t]] = u})
    /\ \A o \in Organizations :
          slots.organization[o] = Cardinality({t \in LiveTokens :
              lives[t] = "open" /\ OrganizationOf[UserOf[owner[t]]] = o})

\* Once the data stays as it is, every open tab comes to show it and goes on
\* showing it: answers in any order, missed events, restored values and
\* failed requests included.
EventuallyFresh == \A b \in Tabs : <>[](IsOpen(b) => shown[b] = data)

\* A tab is never left without its stream for good, although a stream it has
\* lost holds its slot until the Server notices.
StreamsReturn == \A b \in Tabs : []<>(stream[b] \in {"open", "closed"})

\* Whatever a tab has missed it makes up for.
TabsRecover == EventuallyFresh /\ StreamsReturn
=============================================================================
