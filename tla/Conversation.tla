---------------------------- MODULE Conversation ----------------------------
(***************************************************************************)
(* The dialogs of one user with the bot (internal/bot/handlers.go, edit.go *)
(* and draft.go): /add, /edit and /delete.  Where a dialog stands is kept  *)
(* in three places that nothing keeps together: users.state in PostgreSQL, *)
(* the draft in Redis, which expires after thirty minutes, and the buttons *)
(* left in the chat, whose handlers do not look at users.state.            *)
(*                                                                         *)
(* Every update runs in a goroutine of its own. The handlers on which the  *)
(* limit of routes rests are taken call by call: /add, which counts the    *)
(* routes, deletes the draft and writes the state, and the handler of the  *)
(* label, which reads the state and the draft, inserts the route, deletes  *)
(* the draft and writes the state. Up to as many of them as there are      *)
(* Handlers are under way at one time, and each may end at any of its      *)
(* calls: an error of the database, the deadline of ten seconds, the end   *)
(* of the process. The search for trains has an action for its start and   *)
(* one for its end. Every other handler is one action: what it writes over *)
(* a dialog begun while it ran is left out.                                *)
(*                                                                         *)
(* A handler that ends early leaves what it had written: the draft without *)
(* the state (Advance), the state without the message (Show). One that     *)
(* fails before it wrote anything, or refuses its input, changes nothing   *)
(* but the buttons that were tapped (TapRefused). The Del of clearDraft    *)
(* may fail, and its error is ignored.                                     *)
(*                                                                         *)
(* A field of the draft is the dialog in which the user gave it, or        *)
(* Missing.  An /add that cleared the draft begins a dialog; one whose Del *)
(* failed goes on with the draft there is, in the dialog before.  Of the   *)
(* trains offered the draft has only how many there are, and of the time   *)
(* only that it was given: the route gets any, since the list of routes is *)
(* ordered by them.                                                        *)
(***************************************************************************)
EXTENDS Naturals, FiniteSets, Sequences

CONSTANTS
    MaxRoutesPerUser,  \* maxRoutesPerUser
    Times,             \* departure times
    MaxCreated,        \* routes created in all (a bound)
    Dialogs,           \* names for dialogs, used in turn (a bound)
    Missing,           \* in place of a field the draft does not have
    Handlers,          \* /add and label handlers under way at one time
    MaxExtra,          \* overlaps and early ends that cost a route (a bound)
    MaxSearches,       \* searches for trains under way at one time (a bound)
    ChatMemory         \* messages with buttons the user may go back to at one time (a bound)

ASSUME LimitAssumption  == MaxRoutesPerUser \in Nat \ {0}
ASSUME HandlersAssumption == IsFiniteSet(Handlers)
ASSUME DialogsAssumption == Missing \notin Dialogs
ASSUME TimesAssumption  == Times \subseteq Nat \ {0}
ASSUME BoundsAssumption ==
    /\ MaxCreated \in Nat
    /\ MaxExtra \in Nat
    /\ MaxSearches \in Nat
    /\ ChatMemory \in Nat

VARIABLES
    state,      \* users.state, or "unknown" before /start
    draft,      \* the hash route_draft:<chat>
    routes,     \* the user's rows, as records of an id and a departure time
    created,    \* routes created so far
    dialog,     \* the dialog that began when an /add last cleared the draft
    searching,  \* handleAwaitingTime handlers that wait for the search
    chat,       \* messages with buttons that the user may go back to
    work,       \* of each /add or label handler: its next call, and the draft it has read
    permit,     \* ghost: an accepted /add that no label handler has taken up
    extra,      \* ghost: how often one more route can come than there is room for
    slips       \* ghost: what happened to a route the user did not mean

entering == <<routes, created, work, permit, extra>>
vars == <<state, draft, dialog, searching, chat, slips, entering>>

States ==
    {"unknown", "new", "awaiting_from", "awaiting_to", "awaiting_time",
     "awaiting_train_choice", "awaiting_days", "awaiting_alerts", "awaiting_label",
     "awaiting_delete", "awaiting_delete_confirm", "awaiting_edit_route",
     "awaiting_edit_field", "awaiting_edit_alerts", "ready"}

AllRoutes == [id : 1..MaxCreated, time : Times]

\* No field is older than the dialog under way.
Drafts ==
    [from : {Missing, dialog}, to : {Missing, dialog}, days : {Missing, dialog}, alerts : {Missing, dialog},
     time : BOOLEAN, options : 0..2, edit : 0..MaxCreated]

NoDraft == [from |-> Missing, to |-> Missing, days |-> Missing, alerts |-> Missing,
            time |-> FALSE, options |-> 0, edit |-> 0]

\* What the handler of the label takes from the draft, when it goes on.
Snapshots == [from : Dialogs, to : Dialogs, days : Dialogs, alerts : Dialogs]
NoSnapshot == [from |-> Missing, to |-> Missing, days |-> Missing, alerts |-> Missing]

\* What /add does next ("add clears", "add state"), or the handler of the label.
Works ==
    [at : {"idle", "add clears", "add state", "reads", "clears", "state"}, read : {NoSnapshot}]
        \cup [at : {"inserts"}, read : Snapshots]

\* n: how many buttons are numbered; or, on a confirmation, the number it carries.
\* about, same: the route a confirmation names, and whether the routes are still those
\* there were when it was sent (ghosts).
Message(kind, n) == [kind |-> kind, n |-> n, about |-> 0, same |-> FALSE]

Messages ==
    [kind : {"train", "delete", "confirm", "editroute", "editfield"}, n : Nat,
     about : 0..MaxCreated, same : BOOLEAN]

FieldsOK ==
    /\ state \in States
    /\ draft \in Drafts
    /\ routes \subseteq AllRoutes
    /\ created \in 0..MaxCreated
    /\ \A r \in routes : r.id <= created
    /\ dialog \in Dialogs
    /\ searching \in 0..MaxSearches
    /\ work \in [Handlers -> Works]
    /\ permit \in BOOLEAN
    /\ extra \in 0..MaxExtra
    /\ slips \subseteq {"deleted, list unchanged", "deleted, list changed"}

TypeOK == FieldsOK /\ chat \subseteq Messages

Init ==
    /\ state = "unknown"
    /\ draft = NoDraft
    /\ routes = {}
    /\ created = 0
    /\ dialog \in Dialogs
    /\ searching = 0
    /\ chat = {}
    /\ work = [h \in Handlers |-> [at |-> "idle", read |-> NoSnapshot]]
    /\ permit = FALSE
    /\ extra = 0
    /\ slips = {}

-----------------------------------------------------------------------------
(* Parts of handlers                                                       *)

Registered == state # "unknown"

\* mutant: the draft is left to expire
KeepDraft == UNCHANGED draft
ClearDraft == draft' = NoDraft

\* The draft after clearDraft, which ignores the error of its Del.
AfterDel == {NoDraft, draft}

\* UpdateUserState, after which the message is sent; it may fail, and so may the send.
\* Old messages stay in the chat: which of them the user goes back to is left open.
Remembered(messages) == {kept \in SUBSET messages : Cardinality(kept) <= ChatMemory}

Advance(next) == state' \in {next, state}

Show(messages, next, m) ==
    \/ state' = next /\ chat' \in Remembered(messages \cup {m})
    \/ UNCHANGED state /\ chat' = messages

\* A button of message m is tapped.  removeInlineButtons takes the buttons away, unless
\* it fails or the user was quicker; messages is the chat afterwards.
Tapped(m, messages) == m \in chat /\ messages \in {chat, chat \ {m}}

\* The messages once the routes have changed.
Outdated(messages) == {[m EXCEPT !.same = FALSE] : m \in messages}

\* GetRoutesByUserID orders by departure time and leaves ties open.
Lists(rs) ==
    {list \in [1..Cardinality(rs) -> rs] :
        \A i, j \in 1..Cardinality(rs) :
            i < j => list[i] # list[j] /\ list[i].time <= list[j].time}

NoTies(rs) == \A r, s \in rs : r.time = s.time => r = s

-----------------------------------------------------------------------------
(* /start and /add                                                         *)

Start ==
    /\ ~Registered
    /\ state' = "new"
    /\ UNCHANGED <<draft, dialog, searching, chat, slips, entering>>

\* mutant: off by one
RoomForOneMore == Cardinality(routes) <= MaxRoutesPerUser
HasRoom == Cardinality(routes) < MaxRoutesPerUser

At(h) == work[h].at
Goes(h, at) == work' = [work EXCEPT ![h] = [at |-> at, read |-> NoSnapshot]]
InStage(stages) == {h \in Handlers : At(h) \in stages}

\* From here on one more route can come than the limit has room for.
OneMoreComes == extra < MaxExtra /\ extra' = extra + 1

\* The routes that the test does not count are on their way already.
AddCounts(h) ==
    /\ Registered
    /\ At(h) = "idle"
    /\ HasRoom
    /\ Goes(h, "add clears")
    /\ IF InStage({"add clears", "add state", "inserts"}) # {}
       THEN OneMoreComes
       ELSE UNCHANGED extra
    /\ UNCHANGED <<state, draft, routes, created, dialog, searching, chat, permit, slips>>

AddClears(h) ==
    /\ At(h) = "add clears"
    /\ Goes(h, "add state")
    /\ \/ ClearDraft /\ dialog' \in Dialogs \ {dialog}
       \/ UNCHANGED <<draft, dialog>>
    /\ UNCHANGED <<state, routes, created, searching, chat, permit, extra, slips>>

AddSetsState(h) ==
    /\ At(h) = "add state"
    /\ Goes(h, "idle")
    /\ state' = "awaiting_from"
    /\ permit' = TRUE
    /\ UNCHANGED <<draft, routes, created, dialog, searching, chat, extra, slips>>

HandleAwaitingFrom ==
    /\ state = "awaiting_from"
    /\ draft' = [draft EXCEPT !.from = dialog]
    /\ Advance("awaiting_to")
    /\ UNCHANGED <<dialog, searching, chat, slips, entering>>

\* Without its first field the draft has expired: the reply says so, the state stays.
HandleAwaitingTo ==
    /\ state = "awaiting_to"
    /\ draft.from # Missing
    /\ draft' = [draft EXCEPT !.to = dialog]
    /\ Advance("awaiting_time")
    /\ UNCHANGED <<dialog, searching, chat, slips, entering>>

HasStations == draft.from # Missing /\ draft.to # Missing

\* A time is entered, at first or instead of one of the trains offered.
HandleAwaitingTime ==
    /\ state \in {"awaiting_time", "awaiting_train_choice"}
    /\ HasStations
    /\ searching < MaxSearches
    /\ searching' = searching + 1
    /\ UNCHANGED <<state, draft, dialog, chat, slips, entering>>

\* The search ends, whatever the dialog has become meanwhile: the time is taken (as
\* found, or as entered when there is no answer), one train or two are offered (options
\* are saved one by one), or nothing is found or the handler's ten seconds are over.
SearchEnds ==
    /\ searching > 0
    /\ searching' = searching - 1
    /\ \/ /\ draft' = [draft EXCEPT !.time = TRUE]
          /\ Advance("awaiting_days")
          /\ UNCHANGED chat
       \/ \E offered \in 1..2 : \E saved \in 1..offered :
             /\ draft' = [draft EXCEPT !.options = IF saved > @ THEN saved ELSE @]
             /\ \/ saved < offered /\ UNCHANGED <<state, chat>>
                \/ /\ saved = offered
                   /\ Show(chat, "awaiting_train_choice", Message("train", offered))
       \/ UNCHANGED <<draft, state, chat>>
    /\ UNCHANGED <<dialog, slips, entering>>

\* One of the trains offered, by its number (handleAwaitingTrainChoice).
TakeTrain(i) ==
    /\ HasStations
    /\ i <= draft.options
    /\ draft' = [draft EXCEPT !.time = TRUE]
    /\ Advance("awaiting_days")
    /\ UNCHANGED <<dialog, searching, slips, entering>>

TypeTrainNumber ==
    /\ state = "awaiting_train_choice"
    /\ \E i \in 1..2 : TakeTrain(i)
    /\ UNCHANGED chat

\* The button works in every state of the dialog.
HandleTrainCallback ==
    /\ \E m \in {Message("train", n) : n \in 1..2} :
          /\ Tapped(m, chat')
          /\ \E i \in 1..m.n : TakeTrain(i)

HandleAwaitingDays ==
    /\ state = "awaiting_days"
    /\ draft' = [draft EXCEPT !.days = dialog]
    /\ Advance("awaiting_alerts")
    /\ UNCHANGED <<dialog, searching, chat, slips, entering>>

HandleAwaitingAlerts ==
    /\ state = "awaiting_alerts"
    /\ draft' = [draft EXCEPT !.alerts = dialog]
    /\ Advance("awaiting_label")
    /\ UNCHANGED <<dialog, searching, chat, slips, entering>>

\* mutant: the stations are not looked at
DraftNearlyComplete == draft.time /\ draft.days # Missing /\ draft.alerts # Missing
DraftComplete == HasStations /\ draft.time /\ draft.days # Missing /\ draft.alerts # Missing

LabelArrives(h) ==
    /\ state = "awaiting_label"
    /\ At(h) = "idle"
    /\ Goes(h, "reads")
    /\ UNCHANGED <<state, draft, routes, created, dialog, searching, chat, permit, extra, slips>>

\* The draft may be one that another handler has read before and not yet deleted, or
\* one that an /add has accepted a dialog after.
LabelReads(h) ==
    /\ At(h) = "reads"
    /\ DraftComplete
    /\ work' = [work EXCEPT ![h] =
          [at |-> "inserts",
           read |-> [from |-> draft.from, to |-> draft.to,
                     days |-> draft.days, alerts |-> draft.alerts]]]
    /\ IF \/ InStage({"inserts", "clears", "add clears", "add state"}) # {}
          \/ state = "awaiting_from"
       THEN OneMoreComes
       ELSE UNCHANGED extra
    /\ permit' = (state = "awaiting_from")
    /\ UNCHANGED <<state, draft, routes, created, dialog, searching, chat, slips>>

\* The route is inserted whatever the number of routes is by now, with the time given.
LabelInserts(h) ==
    /\ At(h) = "inserts"
    /\ created < MaxCreated
    /\ created' = created + 1
    /\ \E t \in Times : routes' = routes \cup {[id |-> created + 1, time |-> t]}
    /\ chat' = Outdated(chat)
    /\ Goes(h, "clears")
    /\ UNCHANGED <<state, draft, dialog, searching, permit, extra, slips>>

\* A draft that is not deleted after the insert can be made a route again.
DraftStays ==
    /\ UNCHANGED draft
    /\ IF draft = NoDraft
       THEN UNCHANGED <<permit, extra>>
       ELSE permit' = TRUE /\ OneMoreComes

LabelClears(h) ==
    /\ At(h) = "clears"
    /\ Goes(h, "state")
    /\ \/ ClearDraft /\ UNCHANGED <<permit, extra>>
       \/ DraftStays
    /\ UNCHANGED <<state, routes, created, dialog, searching, chat, slips>>

LabelSetsState(h) ==
    /\ At(h) = "state"
    /\ Goes(h, "idle")
    /\ state' = "ready"
    /\ UNCHANGED <<draft, routes, created, dialog, searching, chat, permit, extra, slips>>

\* A call fails, the draft read is incomplete, or the process ends.  (An insert that
\* took place although its answer was lost: LabelInserts, then this.)
HandlerEnds(h) ==
    /\ At(h) # "idle"
    /\ Goes(h, "idle")
    /\ CASE At(h) = "clears" -> DraftStays
         [] At(h) = "inserts" -> permit' = TRUE /\ UNCHANGED <<draft, extra>>
         [] OTHER -> UNCHANGED <<draft, permit, extra>>
    /\ UNCHANGED <<state, routes, created, dialog, searching, chat, slips>>

-----------------------------------------------------------------------------
(* /delete                                                                 *)

\* The confirmation names a route and carries its position.
Confirm(messages, list, i) ==
    Show(messages, "awaiting_delete_confirm",
         [kind |-> "confirm", n |-> i, about |-> list[i].id, same |-> TRUE])

HandleDelete ==
    /\ Registered
    /\ \/ /\ Cardinality(routes) = 1
          /\ \E list \in Lists(routes) : Confirm(chat, list, 1)
       \/ /\ Cardinality(routes) > 1
          /\ Show(chat, "awaiting_delete", Message("delete", Cardinality(routes)))
    /\ UNCHANGED <<draft, dialog, searching, slips, entering>>

\* The list is read again for the number that was typed or tapped.
ChooseForDeletion(messages, i) ==
    /\ i <= Cardinality(routes)
    /\ \E list \in Lists(routes) : Confirm(messages, list, i)
    /\ UNCHANGED <<draft, dialog, searching, slips, entering>>

HandleAwaitingDelete ==
    /\ state = "awaiting_delete"
    /\ \E i \in 1..Cardinality(routes) : ChooseForDeletion(chat, i)

HandleDeleteCallback ==
    \E m \in {Message("delete", n) : n \in 2..MaxCreated} :
        \E messages \in {chat, chat \ {m}} :
            /\ Tapped(m, messages)
            /\ \E i \in 1..m.n : ChooseForDeletion(messages, i)

\* What a deletion of the route with this id does that confirmation m did not say.
DeletionSlip(m, id) ==
    IF id = m.about THEN {}
    ELSE IF m.same /\ NoTies(routes) THEN {"deleted, list unchanged"}
    ELSE {"deleted, list changed"}

\* mutant: the position is taken as counted from zero
NextPosition(i, count) == (i % count) + 1
Position(i, count) == i

\* And once more for the confirmation: what is deleted is the position.
HandleConfirmDelete ==
    \E m \in chat : \E messages \in {chat, chat \ {m}} :
        /\ m.kind = "confirm"
        /\ Tapped(m, messages)
        /\ chat' = Outdated(messages)
        /\ m.n <= Cardinality(routes)
        /\ \E list \in Lists(routes) :
              LET gone == list[Position(m.n, Cardinality(routes))]
              IN /\ routes' = routes \ {gone}
                 /\ slips' = slips \cup DeletionSlip(m, gone.id)
        /\ Advance("ready")
        /\ UNCHANGED <<draft, created, dialog, searching, work, permit, extra>>

HandleCancelDelete ==
    \E m \in chat :
        /\ m.kind = "confirm"
        /\ Tapped(m, chat')
        /\ Advance("ready")
        /\ UNCHANGED <<draft, dialog, searching, slips, entering>>

-----------------------------------------------------------------------------
(* /edit                                                                   *)

SendEditFieldMenu(messages, base, r) ==
    /\ draft' = [base EXCEPT !.edit = r.id]
    /\ Show(messages, "awaiting_edit_field", Message("editfield", 0))

HandleEdit ==
    /\ Registered
    /\ \/ \E r \in routes : \E base \in AfterDel :
             /\ routes = {r}
             /\ SendEditFieldMenu(chat, base, r)
       \/ /\ Cardinality(routes) > 1
          /\ draft' \in AfterDel
          /\ Show(chat, "awaiting_edit_route", Message("editroute", Cardinality(routes)))
    /\ UNCHANGED <<dialog, searching, slips, entering>>

\* The handler knows the first two buttons only.
HandleEditRouteCallback ==
    \E m \in {Message("editroute", n) : n \in 2..MaxCreated} :
        \E messages \in {chat, chat \ {m}} :
            /\ Tapped(m, messages)
            /\ \E i \in 1..2 : \E list \in Lists(routes) :
                  /\ i <= Cardinality(routes)
                  /\ SendEditFieldMenu(messages, draft, list[i])
            /\ UNCHANGED <<dialog, searching, slips, entering>>

EditedExists == \E r \in routes : r.id = draft.edit

\* The menu's button does not say which route it was shown for; the draft does.
HandleEditFieldCallback ==
    /\ Tapped(Message("editfield", 0), chat')
    /\ EditedExists
    /\ Advance("awaiting_edit_alerts")
    /\ UNCHANGED <<draft, dialog, searching, slips, entering>>

HandleEditCancelCallback ==
    /\ Tapped(Message("editfield", 0), chat')
    /\ draft' \in AfterDel
    /\ Advance("ready")
    /\ UNCHANGED <<dialog, searching, slips, entering>>

HandleAwaitingEditAlerts ==
    /\ state = "awaiting_edit_alerts"
    /\ EditedExists
    /\ draft' \in AfterDel
    /\ Advance("ready")
    /\ UNCHANGED <<dialog, searching, chat, slips, entering>>

-----------------------------------------------------------------------------

\* The buttons are taken away first, also by a handler that then refuses or fails.
TapRefused ==
    \E m \in chat :
        /\ chat' = chat \ {m}
        /\ UNCHANGED <<state, draft, dialog, searching, slips, entering>>

\* draftTTL has passed since the last field was written.
DraftExpires ==
    /\ draft # NoDraft
    /\ draft' = NoDraft
    /\ UNCHANGED <<state, dialog, searching, chat, slips, entering>>

AddStep ==
    \/ HandleAwaitingFrom \/ HandleAwaitingTo \/ HandleAwaitingTime
    \/ SearchEnds \/ TypeTrainNumber \/ HandleTrainCallback
    \/ HandleAwaitingDays \/ HandleAwaitingAlerts

HandlerStep(h) ==
    \/ AddCounts(h) \/ AddClears(h) \/ AddSetsState(h)
    \/ LabelArrives(h) \/ LabelReads(h) \/ LabelInserts(h)
    \/ LabelClears(h) \/ LabelSetsState(h)
    \/ HandlerEnds(h)

DeleteStep ==
    \/ HandleDelete \/ HandleAwaitingDelete \/ HandleDeleteCallback
    \/ HandleConfirmDelete \/ HandleCancelDelete

EditStep ==
    \/ HandleEdit \/ HandleEditRouteCallback \/ HandleEditFieldCallback
    \/ HandleEditCancelCallback \/ HandleAwaitingEditAlerts

Next ==
    \/ Start \/ AddStep \/ DeleteStep \/ EditStep \/ TapRefused \/ DraftExpires
    \/ \E h \in Handlers : HandlerStep(h)

Spec == Init /\ [][Next]_vars

-----------------------------------------------------------------------------
(* Properties                                                              *)

\* "Max 4 routes per user - Enforced to stay within Darwin API rate limits": but the
\* limit is tested when a dialog begins and not when its route is inserted.
\* (handleAdd against handleAwaitingLabel)
RouteLimit == Cardinality(routes) <= MaxRoutesPerUser

\* What the test of the limit does ensure: a route beyond it has its own cause in an
\* /add or a label that overlapped with another, or in a handler that had inserted a
\* route and did not delete the draft.  Nothing else that the user does, no old
\* button, late search, expired draft or cancelled edit, leads to a second route.
ExcessHasCause == Cardinality(routes) <= MaxRoutesPerUser + extra

\* The stations, days and reminders of a route were all given in one dialog: no expired
\* draft, no old button, no search that ends late and no /add that clears the draft
\* between two calls of the handler of the label puts a route together from two.
OneDialog ==
    [][\A h \in Handlers : At(h) = "inserts" /\ work'[h].at = "clears" =>
          /\ work[h].read.from = work[h].read.to
          /\ work[h].read.days = work[h].read.from
          /\ work[h].read.alerts = work[h].read.from]_vars

\* While the list of routes stays as it was, and has no two routes at one time, the
\* route deleted is the one the confirmation named, in spite of the two readings.
DeletesTheNamed == "deleted, list unchanged" \notin slips

\* As the confirmation has it ("delete this route?"), whatever happened meanwhile.
DeletesWhatItNames == {"deleted, list unchanged", "deleted, list changed"} \cap slips = {}

\* The routes that may be inserted without another test of the limit: those of the
\* handlers that have read a draft, and one for every accepted /add that is at work, or
\* has left a draft that no handler has taken up.
Adding == Cardinality(InStage({"add clears", "add state"}))
Places ==
    Cardinality(InStage({"inserts"}))
      + (IF Adding > 0 THEN Adding ELSE IF permit THEN 1 ELSE 0)

\* The dialogs implement the book of routes.
Book == INSTANCE RouteBook WITH book <- routes, places <- Places
ImplementsRouteBook == Book!Spec
=============================================================================
