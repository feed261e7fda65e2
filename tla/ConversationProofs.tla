------------------------- MODULE ConversationProofs -------------------------
(***************************************************************************)
(* Proofs about the dialogs (Conversation): for every limit and any number *)
(* of dialogs, searches, old buttons and handlers under way, the dialogs   *)
(* implement the book of routes (RouteBook), every route beyond the limit  *)
(* has a cause, a route is put together in one dialog, and what is deleted *)
(* is what was named.                                                      *)
(*                                                                         *)
(* The limit is tested where a dialog begins and a route is inserted where *)
(* it ends, so ExcessHasCause is not inductive.  What carries it from one  *)
(* to the other is the draft.  While it names a departure station, the     *)
(* place found by /add is still free, or a handler of the label has taken  *)
(* it and not yet deleted the draft (DraftIsTaken); while the dialog waits *)
(* for the station, the place is free (StateIsPermitted).  So a handler    *)
(* that reads a draft no other has read finds a place for it, and the      *)
(* routes and places together stay within the limit and the extras         *)
(* (Account), which is shown of the book alone.                            *)
(*                                                                         *)
(* A confirmation carries a position, and the list it was taken from is    *)
(* read again.  Without ties an ordered list of a set of routes is unique, *)
(* as the place of a row is the number of rows before it (PlaceInList,     *)
(* OneList): while the routes stay the same, so does the one deleted.      *)
(***************************************************************************)
EXTENDS Conversation, FiniteSetTheorems, TLAPS

\* A draft with a station comes from an /add that no route has come from yet, or some
\* handler has read it and is about to insert its route or to delete it.
DraftIsTaken == draft.from # Missing /\ ~permit => InStage({"inserts", "clears"}) # {}

\* A dialog that awaits its first station was permitted.
StateIsPermitted == state = "awaiting_from" => permit

\* Every route there is or may come has room, or a cause.
Account == Cardinality(routes) + Places <= MaxRoutesPerUser + extra

\* What the limit rests on.
LimitInv ==
    /\ IsFiniteSet(routes)
    /\ DraftIsTaken
    /\ StateIsPermitted
    /\ Account

USE LimitAssumption, HandlersAssumption, DialogsAssumption, TimesAssumption, BoundsAssumption

-----------------------------------------------------------------------------
(* Types                                                                    *)

\* The empty draft is one of every dialog.
LEMMA NoDraftType == NoDraft \in Drafts
BY DEF NoDraft, Drafts

\* A handler between two calls has read nothing, one about to insert has a snapshot.
LEMMA WorkType ==
    ASSUME FieldsOK, NEW h \in Handlers, NEW w \in Works, work' = [work EXCEPT ![h] = w]
    PROVE  work' \in [Handlers -> Works]
BY DEF FieldsOK

LEMMA GoesType ==
    ASSUME FieldsOK, NEW h \in Handlers,
           NEW at \in {"idle", "add clears", "add state", "reads", "clears", "state"},
           Goes(h, at)
    PROVE  work' \in [Handlers -> Works]
<1>1. [at |-> at, read |-> NoSnapshot] \in Works
    BY DEF Works
<1> QED BY <1>1, WorkType DEF Goes

\* The dialogs begin in the types.
LEMMA InitType == Init => FieldsOK
<1> SUFFICES ASSUME Init PROVE FieldsOK
    OBVIOUS
<1>1. draft \in Drafts
    BY NoDraftType DEF Init
<1>2. permit \in BOOLEAN
    BY DEF Init
<1>3. slips \subseteq {"deleted, list unchanged", "deleted, list changed"}
    BY DEF Init
<1>4. /\ created \in 0..MaxCreated
      /\ dialog \in Dialogs
      /\ searching \in 0..MaxSearches
      /\ extra \in 0..MaxExtra
    BY DEF Init
<1>5. routes \subseteq AllRoutes /\ \A r \in routes : r.id <= created
    BY DEF Init
<1>6. work \in [Handlers -> Works]
    BY DEF Init, Works
<1> QED BY <1>1, <1>2, <1>3, <1>4, <1>5, <1>6 DEF Init, FieldsOK, States

\* What a step that touches no route has to show.
LEMMA TypeKept ==
    ASSUME FieldsOK,
           state' \in States, draft' \in Drafts', dialog' \in Dialogs,
           searching' \in 0..MaxSearches, work' \in [Handlers -> Works],
           permit' \in BOOLEAN, extra' \in 0..MaxExtra,
           UNCHANGED <<routes, created, slips>>
    PROVE  FieldsOK'
<1>1. routes' \subseteq AllRoutes' /\ \A r \in routes' : r.id <= created'
    BY DEF FieldsOK, AllRoutes
<1>2. Works' = Works
    BY DEF Works, Snapshots, NoSnapshot
<1> QED BY <1>1, <1>2 DEF FieldsOK, States

\* Steps within a dialog write one field and go on, or stay.
LEMMA DialogKept ==
    ASSUME FieldsOK,
           draft' \in Drafts, state' \in States, searching' \in 0..MaxSearches,
           UNCHANGED <<dialog, slips, entering>>
    PROVE  FieldsOK'
<1>1. draft' \in Drafts'
    BY DEF Drafts
<1> QED BY <1>1, TypeKept DEF FieldsOK, entering

\* Every step of /add that is one action, and the search, leaves the types as they are,
\* names no station where none was, and does not begin a dialog.
LEMMA AddWrites ==
    ASSUME FieldsOK, AddStep
    PROVE  /\ UNCHANGED <<dialog, slips, entering>>
           /\ draft' \in Drafts /\ state' \in States /\ searching' \in 0..MaxSearches
           /\ draft'.from = draft.from \/ state = "awaiting_from"
           /\ state' = "awaiting_from" => state = "awaiting_from"
<1>t. /\ state \in States
      /\ draft \in Drafts
      /\ dialog \in Dialogs
      /\ searching \in 0..MaxSearches
    BY DEF FieldsOK
<1>0. ASSUME NEW next, next \in States, next # "awaiting_from", Advance(next)
      PROVE  state' \in States /\ (state' = "awaiting_from" => state = "awaiting_from")
    BY <1>0, <1>t DEF Advance
<1>2. CASE HandleAwaitingFrom
    BY <1>0, <1>2, <1>t DEF HandleAwaitingFrom, States, Drafts
<1>3. CASE HandleAwaitingTo
    BY <1>0, <1>3, <1>t DEF HandleAwaitingTo, States, Drafts
<1>4. CASE HandleAwaitingTime
    BY <1>4, <1>t DEF HandleAwaitingTime
<1>5. CASE SearchEnds
    <2>1. searching' \in 0..MaxSearches /\ UNCHANGED <<dialog, slips, entering>>
        BY <1>5, <1>t DEF SearchEnds
    <2>2. /\ draft' \in Drafts /\ draft'.from = draft.from
          /\ state' \in States /\ (state' = "awaiting_from" => state = "awaiting_from")
        <3>1. CASE draft' = [draft EXCEPT !.time = TRUE] /\ Advance("awaiting_days")
            BY <1>0, <1>t, <3>1 DEF States, Drafts
        <3>2. ASSUME NEW offered \in 1..2, NEW saved \in 1..offered,
                     draft' = [draft EXCEPT !.options = IF saved > @ THEN saved ELSE @]
              PROVE  draft' \in Drafts /\ draft'.from = draft.from
            BY <1>t, <3>2 DEF Drafts
        <3>3. ASSUME NEW m, Show(chat, "awaiting_train_choice", m)
              PROVE  state' \in States /\ (state' = "awaiting_from" => state = "awaiting_from")
            BY <1>t, <3>3 DEF Show, States
        <3>4. CASE \E offered \in 1..2 : \E saved \in 1..offered :
                       /\ draft' = [draft EXCEPT !.options = IF saved > @ THEN saved ELSE @]
                       /\ \/ saved < offered /\ UNCHANGED <<state, chat>>
                          \/ /\ saved = offered
                             /\ Show(chat, "awaiting_train_choice", Message("train", offered))
            BY <1>t, <3>2, <3>3, <3>4
        <3>5. CASE UNCHANGED <<draft, state, chat>>
            BY <1>t, <3>5
        <3> QED BY <1>5, <3>1, <3>4, <3>5 DEF SearchEnds
    <2> QED BY <2>1, <2>2
<1>6. ASSUME NEW i, TakeTrain(i)
      PROVE  /\ UNCHANGED <<dialog, searching, slips, entering>>
             /\ draft' \in Drafts /\ state' \in States /\ draft'.from = draft.from
             /\ state' = "awaiting_from" => state = "awaiting_from"
    BY <1>0, <1>6, <1>t DEF TakeTrain, States, Drafts
<1>7. CASE TypeTrainNumber
    BY <1>6, <1>7, <1>t DEF TypeTrainNumber
<1>8. CASE HandleTrainCallback
    BY <1>6, <1>8, <1>t DEF HandleTrainCallback
<1>9. CASE HandleAwaitingDays
    BY <1>0, <1>9, <1>t DEF HandleAwaitingDays, States, Drafts
<1>10. CASE HandleAwaitingAlerts
    BY <1>0, <1>10, <1>t DEF HandleAwaitingAlerts, States, Drafts
<1> QED
    BY <1>2, <1>3, <1>4, <1>5, <1>7, <1>8, <1>9, <1>10 DEF AddStep

LEMMA AddType == FieldsOK /\ AddStep => FieldsOK'
BY AddWrites, DialogKept

\* A handler of /add or of the label that inserts nothing.
LEMMA HandlerType ==
    ASSUME FieldsOK, NEW h \in Handlers, HandlerStep(h), ~LabelInserts(h)
    PROVE  FieldsOK'
<1>t. /\ state \in States
      /\ draft \in Drafts
      /\ dialog \in Dialogs
      /\ searching \in 0..MaxSearches
      /\ permit \in BOOLEAN
      /\ extra \in 0..MaxExtra
    BY DEF FieldsOK
<1>d. draft \in Drafts' \/ dialog' # dialog
    BY <1>t DEF Drafts
<1>n. NoDraft \in Drafts'
    BY DEF NoDraft, Drafts
<1>o. OneMoreComes => extra' \in 0..MaxExtra
    BY <1>t DEF OneMoreComes
<1>s. DraftStays => draft' = draft /\ permit' \in BOOLEAN /\ extra' \in 0..MaxExtra
    BY <1>o, <1>t DEF DraftStays
<1>1. CASE AddCounts(h)
    <2>1. work' \in [Handlers -> Works]
        BY <1>1, GoesType DEF AddCounts
    <2>2. extra' \in 0..MaxExtra
        BY <1>1, <1>o, <1>t DEF AddCounts
    <2> QED BY <1>1, <1>d, <1>t, <2>1, <2>2, TypeKept DEF AddCounts
<1>2. CASE AddClears(h)
    <2>1. work' \in [Handlers -> Works]
        BY <1>2, GoesType DEF AddClears
    <2>2. draft' \in Drafts' /\ dialog' \in Dialogs
        BY <1>2, <1>d, <1>n, <1>t DEF AddClears, ClearDraft
    <2> QED BY <1>2, <1>t, <2>1, <2>2, TypeKept DEF AddClears
<1>3. CASE AddSetsState(h)
    <2>1. work' \in [Handlers -> Works]
        BY <1>3, GoesType DEF AddSetsState
    <2>2. permit' \in BOOLEAN /\ state' \in States
        BY <1>3 DEF AddSetsState, States
    <2> QED BY <1>3, <1>d, <1>t, <2>1, <2>2, TypeKept DEF AddSetsState
<1>4. CASE LabelArrives(h)
    <2>1. work' \in [Handlers -> Works]
        BY <1>4, GoesType DEF LabelArrives
    <2> QED BY <1>4, <1>d, <1>t, <2>1, TypeKept DEF LabelArrives
<1>5. CASE LabelReads(h)
    <2> DEFINE w == [at |-> "inserts",
                     read |-> [from |-> draft.from, to |-> draft.to,
                               days |-> draft.days, alerts |-> draft.alerts]]
    <2>1. w \in Works
        BY <1>5, <1>t DEF LabelReads, DraftComplete, HasStations, Drafts, Works, Snapshots
    <2>2. work' = [work EXCEPT ![h] = w]
        BY <1>5 DEF LabelReads
    <2> HIDE DEF w
    <2>3. work' \in [Handlers -> Works]
        BY <2>1, <2>2, WorkType
    <2>4. permit' \in BOOLEAN
        BY <1>5 DEF LabelReads
    <2>5. extra' \in 0..MaxExtra
        BY <1>5, <1>o, <1>t DEF LabelReads
    <2> QED BY <1>5, <1>d, <1>t, <2>3, <2>4, <2>5, TypeKept DEF LabelReads
<1>6. CASE LabelClears(h)
    <2>1. work' \in [Handlers -> Works]
        BY <1>6, GoesType DEF LabelClears
    <2>2. draft' \in Drafts' /\ permit' \in BOOLEAN /\ extra' \in 0..MaxExtra
        BY <1>6, <1>d, <1>n, <1>s, <1>t DEF LabelClears, ClearDraft
    <2> QED BY <1>6, <1>t, <2>1, <2>2, TypeKept DEF LabelClears
<1>7. CASE LabelSetsState(h)
    <2>1. work' \in [Handlers -> Works]
        BY <1>7, GoesType DEF LabelSetsState
    <2>2. state' \in States
        BY <1>7 DEF LabelSetsState, States
    <2> QED BY <1>7, <1>d, <1>t, <2>1, <2>2, TypeKept DEF LabelSetsState
<1>8. CASE HandlerEnds(h)
    <2>1. work' \in [Handlers -> Works]
        BY <1>8, GoesType DEF HandlerEnds
    <2>2. draft' = draft /\ permit' \in BOOLEAN /\ extra' \in 0..MaxExtra
        BY <1>8, <1>s, <1>t DEF HandlerEnds
    <2> QED BY <1>8, <1>d, <1>t, <2>1, <2>2, TypeKept DEF HandlerEnds
<1> QED BY <1>1, <1>2, <1>3, <1>4, <1>5, <1>6, <1>7, <1>8 DEF HandlerStep

\* The row inserted is a new one.
LEMMA EnterIsNew ==
    ASSUME FieldsOK, NEW h \in Handlers, LabelInserts(h)
    PROVE  /\ \E route \in AllRoutes \ routes : routes' = routes \cup {route}
           /\ routes' \subseteq AllRoutes /\ \A r \in routes' : r.id <= created'
           /\ created' \in 0..MaxCreated
<1>1. PICK t \in Times : routes' = routes \cup {[id |-> created + 1, time |-> t]}
    BY DEF LabelInserts
<1> DEFINE new == [id |-> created + 1, time |-> t]
<1>2. created \in 0..MaxCreated /\ created < MaxCreated /\ created' = created + 1
    BY DEF LabelInserts, FieldsOK
<1>3. new \in AllRoutes /\ new.id = created + 1
    BY <1>2 DEF AllRoutes
<1>4. \A r \in routes : r \in AllRoutes /\ r.id <= created
    BY DEF FieldsOK
<1>5. new \notin routes
    BY <1>2, <1>3, <1>4
<1>6. \A r \in routes : r.id <= created + 1
    BY <1>2, <1>4 DEF AllRoutes
<1> QED BY <1>1, <1>2, <1>3, <1>4, <1>5, <1>6

LEMMA InsertType == ASSUME FieldsOK, NEW h \in Handlers, LabelInserts(h) PROVE FieldsOK'
<1>1. work' \in [Handlers -> Works] /\ Works' = Works
    BY GoesType DEF LabelInserts, Works, Snapshots, NoSnapshot
<1>2. UNCHANGED <<state, draft, dialog, searching, permit, extra, slips>>
    BY DEF LabelInserts
<1>3. draft' \in Drafts'
    BY <1>2 DEF FieldsOK, Drafts
<1>4. AllRoutes' = AllRoutes /\ States' = States
    BY DEF AllRoutes, States
<1> QED BY <1>1, <1>2, <1>3, <1>4, EnterIsNew DEF FieldsOK

\* What /delete writes: the state and the record of slips, and it may take a route away.
LEMMA DeleteWrites ==
    ASSUME DeleteStep
    PROVE  /\ UNCHANGED <<draft, created, dialog, searching, work, permit, extra>>
           /\ \/ UNCHANGED <<routes, slips>>
              \/ \E r : routes' = routes \ {r} /\ slips' \subseteq slips \cup
                    {"deleted, list unchanged", "deleted, list changed"}
           /\ state' \in {state, "awaiting_delete", "awaiting_delete_confirm", "ready"}
<1>1. CASE HandleDelete
    BY <1>1 DEF HandleDelete, Confirm, Show, entering
<1>2. ASSUME NEW messages, NEW i, ChooseForDeletion(messages, i)
      PROVE  /\ UNCHANGED <<draft, dialog, searching, slips, entering>>
             /\ state' \in {state, "awaiting_delete_confirm"}
    BY <1>2 DEF ChooseForDeletion, Confirm, Show
<1>3. CASE HandleAwaitingDelete
    BY <1>2, <1>3 DEF HandleAwaitingDelete, entering
<1>4. CASE HandleDeleteCallback
    BY <1>2, <1>4 DEF HandleDeleteCallback, entering
<1>5. CASE HandleConfirmDelete
    <2>1. PICK m \in chat :
              /\ \E list \in Lists(routes) :
                    LET gone == list[Position(m.n, Cardinality(routes))]
                    IN /\ routes' = routes \ {gone}
                       /\ slips' = slips \cup DeletionSlip(m, gone.id)
              /\ Advance("ready")
              /\ UNCHANGED <<draft, created, dialog, searching, work, permit, extra>>
        BY <1>5 DEF HandleConfirmDelete
    <2>2. PICK r : /\ routes' = routes \ {r}
                   /\ slips' = slips \cup DeletionSlip(m, r.id)
        BY <2>1
    <2>3. DeletionSlip(m, r.id)
              \subseteq {"deleted, list unchanged", "deleted, list changed"}
        BY DEF DeletionSlip
    <2> QED BY <2>1, <2>2, <2>3 DEF Advance
<1>6. CASE HandleCancelDelete
    BY <1>6 DEF HandleCancelDelete, Advance, entering
<1> QED
    BY <1>1, <1>3, <1>4, <1>5, <1>6 DEF DeleteStep

LEMMA DeleteType == FieldsOK /\ DeleteStep => FieldsOK'
<1> SUFFICES ASSUME FieldsOK, DeleteStep PROVE FieldsOK'
    OBVIOUS
<1>1. Works' = Works /\ AllRoutes' = AllRoutes /\ States' = States
    BY DEF Works, Snapshots, NoSnapshot, AllRoutes, States
<1>2. Drafts' = Drafts
    BY DeleteWrites DEF Drafts
<1>3. state' \in States
    BY DeleteWrites DEF FieldsOK, States
<1> QED BY <1>1, <1>2, <1>3, DeleteWrites DEF FieldsOK

\* What /edit writes: the draft and the state, never a route.
LEMMA EditWrites ==
    ASSUME FieldsOK, IsFiniteSet(routes), EditStep
    PROVE  /\ UNCHANGED <<dialog, searching, slips, entering>>
           /\ draft' \in Drafts
           /\ draft'.from \in {Missing, draft.from}
           /\ state' \in {state, "awaiting_edit_route", "awaiting_edit_field",
                          "awaiting_edit_alerts", "ready"}
<1>t. draft \in Drafts /\ NoDraft \in Drafts /\ NoDraft.from = Missing
    BY NoDraftType DEF FieldsOK, NoDraft
<1>1. ASSUME NEW messages, NEW base \in AfterDel, NEW r \in routes,
             SendEditFieldMenu(messages, base, r)
      PROVE  /\ draft' \in Drafts /\ draft'.from \in {Missing, draft.from}
             /\ state' \in {state, "awaiting_edit_field"}
    <2>1. r.id \in 0..MaxCreated
        <3>1. r \in AllRoutes
            BY DEF FieldsOK
        <3> QED BY <3>1 DEF AllRoutes
    <2>2. draft' = [base EXCEPT !.edit = r.id]
        BY <1>1 DEF SendEditFieldMenu
    <2>3. base \in Drafts /\ base.from \in {Missing, draft.from}
        BY <1>t DEF AfterDel
    <2>4. draft' \in Drafts /\ draft'.from = base.from
        BY <2>1, <2>2, <2>3 DEF Drafts
    <2>5. state' \in {state, "awaiting_edit_field"}
        BY <1>1 DEF SendEditFieldMenu, Show
    <2> QED BY <2>3, <2>4, <2>5
<1>0. ASSUME draft' \in AfterDel PROVE draft' \in Drafts /\ draft'.from \in {Missing, draft.from}
    BY <1>0, <1>t DEF AfterDel
<1>2. CASE HandleEdit
    <2>1. CASE \E r \in routes : \E base \in AfterDel :
                   routes = {r} /\ SendEditFieldMenu(chat, base, r)
        BY <1>1, <1>2, <2>1 DEF HandleEdit
    <2>2. CASE /\ draft' \in AfterDel
               /\ Show(chat, "awaiting_edit_route", Message("editroute", Cardinality(routes)))
        BY <1>0, <1>2, <2>2 DEF HandleEdit, Show
    <2> QED BY <1>2, <2>1, <2>2 DEF HandleEdit
<1>3. CASE HandleEditRouteCallback
    <2>1. PICK messages :
              /\ \E i \in 1..2 : \E list \in Lists(routes) :
                    i <= Cardinality(routes) /\ SendEditFieldMenu(messages, draft, list[i])
              /\ UNCHANGED <<dialog, searching, slips, entering>>
        BY <1>3 DEF HandleEditRouteCallback
    <2>2. Cardinality(routes) \in Nat
        BY FS_CardinalityType
    <2>3. \A i \in 1..2, list \in Lists(routes) :
              i <= Cardinality(routes) => list[i] \in routes
        BY <2>2 DEF Lists
    <2>4. \E r \in routes : SendEditFieldMenu(messages, draft, r)
        BY <2>1, <2>3
    <2>5. draft \in AfterDel
        BY DEF AfterDel
    <2> QED BY <1>1, <2>1, <2>4, <2>5
<1>4. CASE HandleEditFieldCallback
    BY <1>4, <1>t DEF HandleEditFieldCallback, Advance
<1>5. CASE HandleEditCancelCallback
    BY <1>0, <1>5 DEF HandleEditCancelCallback, Advance
<1>6. CASE HandleAwaitingEditAlerts
    BY <1>0, <1>6 DEF HandleAwaitingEditAlerts, Advance
<1> QED
    BY <1>2, <1>3, <1>4, <1>5, <1>6 DEF EditStep

LEMMA EditType == FieldsOK /\ IsFiniteSet(routes) /\ EditStep => FieldsOK'
<1> SUFFICES ASSUME FieldsOK, IsFiniteSet(routes), EditStep PROVE FieldsOK'
    OBVIOUS
<1>1. draft' \in Drafts /\ UNCHANGED <<dialog, searching, slips, entering>>
    BY EditWrites
<1>2. state' \in States
    BY EditWrites DEF FieldsOK, States
<1> QED BY <1>1, <1>2, DialogKept DEF FieldsOK

\* The remaining steps write the state, the draft or the chat only.
LEMMA OtherWrites ==
    ASSUME Start \/ TapRefused \/ DraftExpires \/ UNCHANGED vars
    PROVE  /\ UNCHANGED <<dialog, searching, slips, entering>>
           /\ draft' \in {NoDraft, draft}
           /\ state' \in {state, "new"}
BY DEF Start, TapRefused, DraftExpires, vars

\* Types are inductive.
LEMMA NextType == FieldsOK /\ IsFiniteSet(routes) /\ [Next]_vars => FieldsOK'
<1> SUFFICES ASSUME FieldsOK, IsFiniteSet(routes), [Next]_vars PROVE FieldsOK'
    OBVIOUS
<1>1. CASE Start \/ TapRefused \/ DraftExpires \/ UNCHANGED vars
    <2>1. draft' \in Drafts /\ state' \in States /\ searching' \in 0..MaxSearches
        BY <1>1, NoDraftType, OtherWrites DEF FieldsOK, States
    <2> QED BY <1>1, <2>1, DialogKept, OtherWrites
<1>2. CASE \E h \in Handlers : HandlerStep(h)
    BY <1>2, HandlerType, InsertType
<1> QED BY <1>1, <1>2, AddType, DeleteType, EditType DEF Next

-----------------------------------------------------------------------------
(* The handlers under way                                                   *)

\* The handlers that work w has in one of some stages.
Staged(w, stages) == {h \in Handlers : w[h].at \in stages}

Inserters == Staged(work, {"inserts"})
Adders == Staged(work, {"add clears", "add state"})

LEMMA StagesAre ==
    /\ Inserters = InStage({"inserts"})
    /\ Adders = InStage({"add clears", "add state"})
    /\ Inserters' = Staged(work', {"inserts"})
    /\ Adders' = Staged(work', {"add clears", "add state"})
BY DEF InStage, At, Staged, Inserters, Adders

LEMMA StagedFinite ==
    ASSUME NEW w, NEW stages
    PROVE  IsFiniteSet(Staged(w, stages)) /\ Cardinality(Staged(w, stages)) \in Nat
<1>1. Staged(w, stages) \subseteq Handlers
    BY DEF Staged
<1>2. IsFiniteSet(Staged(w, stages))
    BY <1>1, FS_Subset
<1> QED BY <1>2, FS_CardinalityType

\* A handler that goes on changes the count of a stage by itself only.
LEMMA CountMoves ==
    ASSUME work \in [Handlers -> Works], NEW h \in Handlers, NEW x,
           work' = [work EXCEPT ![h] = x], NEW stages
    PROVE  /\ Cardinality(Staged(work, stages)) \in Nat
           /\ Cardinality(Staged(work', stages)) = Cardinality(Staged(work, stages))
                + (IF x.at \in stages THEN 1 ELSE 0) - (IF At(h) \in stages THEN 1 ELSE 0)
           /\ At(h) \in stages => Cardinality(Staged(work, stages)) > 0
<1> DEFINE S == Staged(work, stages)
<1>1. IsFiniteSet(S) /\ Cardinality(S) \in Nat
    BY StagedFinite
<1>2. h \in S <=> At(h) \in stages
    BY DEF Staged, At
<1>3. Staged(work', stages) = IF x.at \in stages THEN S \cup {h} ELSE S \ {h}
    <2>1. \A g \in Handlers : work'[g] = IF g = h THEN x ELSE work[g]
        OBVIOUS
    <2> QED BY <2>1 DEF Staged
<1>4. Cardinality(S \cup {h}) = IF h \in S THEN Cardinality(S) ELSE Cardinality(S) + 1
    BY <1>1, FS_AddElement
<1>5. Cardinality(S \ {h}) = IF h \in S THEN Cardinality(S) - 1 ELSE Cardinality(S)
    BY <1>1, FS_RemoveElement
<1>6. h \in S => Cardinality(S) # 0
    BY <1>1, FS_EmptySet
<1> HIDE DEF S
<1>7. Cardinality(Staged(work', stages)) =
          IF x.at \in stages THEN Cardinality(S \cup {h}) ELSE Cardinality(S \ {h})
    BY <1>3
<1> QED BY <1>1, <1>2, <1>4, <1>5, <1>6, <1>7 DEF S

\* The two counts of which Places is made.
Inserting == Cardinality(Inserters)
Entering == Cardinality(Adders)

LEMMA CountsType == Inserting \in Nat /\ Entering \in Nat
BY StagedFinite DEF Inserting, Entering, Inserters, Adders

LEMMA CountsTypeNext == Inserting' \in Nat /\ Entering' \in Nat
BY StagedFinite, StagesAre DEF Inserting, Entering

\* And how they change when handler h goes on from one stage to another.
LEMMA PlacesMove ==
    ASSUME FieldsOK, NEW h \in Handlers, NEW x, work' = [work EXCEPT ![h] = x]
    PROVE  /\ Inserting' = Inserting + (IF x.at \in {"inserts"} THEN 1 ELSE 0)
                              - (IF At(h) \in {"inserts"} THEN 1 ELSE 0)
           /\ Entering' = Entering
                + (IF x.at \in {"add clears", "add state"} THEN 1 ELSE 0)
                - (IF At(h) \in {"add clears", "add state"} THEN 1 ELSE 0)
           /\ At(h) \in {"inserts"} => Inserting > 0
           /\ At(h) \in {"add clears", "add state"} => Entering > 0
<1>1. work \in [Handlers -> Works]
    BY DEF FieldsOK
<1>2. /\ Inserting' = Inserting + (IF x.at \in {"inserts"} THEN 1 ELSE 0)
                         - (IF At(h) \in {"inserts"} THEN 1 ELSE 0)
      /\ At(h) \in {"inserts"} => Inserting > 0
    BY <1>1, CountMoves DEF Inserting, Inserters
<1>3. /\ Entering' = Entering
           + (IF x.at \in {"add clears", "add state"} THEN 1 ELSE 0)
           - (IF At(h) \in {"add clears", "add state"} THEN 1 ELSE 0)
      /\ At(h) \in {"add clears", "add state"} => Entering > 0
    BY <1>1, CountMoves DEF Entering, Adders
<1> QED BY <1>2, <1>3

\* The same, case by case.
LEMMA Moves ==
    ASSUME FieldsOK, NEW h \in Handlers, NEW x, work' = [work EXCEPT ![h] = x]
    PROVE  /\ At(h) # "inserts" /\ x.at # "inserts" => Inserting' = Inserting
           /\ At(h) # "inserts" /\ x.at = "inserts" => Inserting' = Inserting + 1
           /\ At(h) = "inserts" /\ x.at # "inserts"
                 => Inserting' = Inserting - 1 /\ Inserting > 0
           /\ At(h) \notin {"add clears", "add state"} /\ x.at \notin {"add clears", "add state"}
                 => Entering' = Entering
           /\ At(h) \notin {"add clears", "add state"} /\ x.at \in {"add clears", "add state"}
                 => Entering' = Entering + 1
           /\ At(h) \in {"add clears", "add state"} /\ x.at \in {"add clears", "add state"}
                 => Entering' = Entering
           /\ At(h) \in {"add clears", "add state"} /\ x.at \notin {"add clears", "add state"}
                 => Entering' = Entering - 1 /\ Entering > 0
<1> DEFINE inserts(at) == at \in {"inserts"}
           adds(at) == at \in {"add clears", "add state"}
<1>1. Inserting \in Nat /\ Entering \in Nat
    BY CountsType
<1>2. /\ Inserting' = Inserting + (IF inserts(x.at) THEN 1 ELSE 0)
                         - (IF inserts(At(h)) THEN 1 ELSE 0)
      /\ Entering' = Entering + (IF adds(x.at) THEN 1 ELSE 0) - (IF adds(At(h)) THEN 1 ELSE 0)
      /\ inserts(At(h)) => Inserting > 0
      /\ adds(At(h)) => Entering > 0
    BY PlacesMove
<1> HIDE DEF inserts, adds
<1>3. /\ ~inserts(At(h)) /\ ~inserts(x.at) => Inserting' = Inserting
      /\ ~inserts(At(h)) /\ inserts(x.at) => Inserting' = Inserting + 1
      /\ inserts(At(h)) /\ ~inserts(x.at) => Inserting' = Inserting - 1 /\ Inserting > 0
      /\ ~adds(At(h)) /\ ~adds(x.at) => Entering' = Entering
      /\ ~adds(At(h)) /\ adds(x.at) => Entering' = Entering + 1
      /\ adds(At(h)) /\ adds(x.at) => Entering' = Entering
      /\ adds(At(h)) /\ ~adds(x.at) => Entering' = Entering - 1 /\ Entering > 0
    BY <1>1, <1>2
<1> QED BY <1>3 DEF inserts, adds

\* The places of the handlers of /add, or of one whose dialog goes on.
Gate(n, p) == IF n > 0 THEN n ELSE IF p THEN 1 ELSE 0

LEMMA PlacesAre == Places = Inserting + Gate(Entering, permit)
BY StagesAre DEF Places, Adding, Inserting, Entering, Gate

LEMMA PlacesNext == Places' = Inserting' + Gate(Entering', permit')
BY DEF InStage, At, Staged, Places, Adding, Inserters, Adders, Inserting, Entering, Gate

LEMMA PlacesType == Places \in Nat /\ Places' \in Nat
<1>1. \A n \in Nat : \A p : Gate(n, p) \in Nat
    BY DEF Gate
<1> QED BY <1>1, CountsType, CountsTypeNext, PlacesAre, PlacesNext

\* Where nobody is at work in any of three stages, there are none to count.
LEMMA NobodyCounts ==
    ASSUME InStage({"add clears", "add state", "inserts"}) = {}
    PROVE  Inserting = 0 /\ Entering = 0
<1>1. Inserters = {} /\ Adders = {}
    BY DEF InStage, At, Inserters, Adders, Staged
<1> QED BY <1>1, FS_EmptySet DEF Inserting, Entering

-----------------------------------------------------------------------------
(* Permissions                                                              *)

\* A step that leaves the permission and the handlers alone, names no station where none
\* was, and does not go back to the first one.
LEMMA WaitingKept ==
    ASSUME DraftIsTaken, StateIsPermitted, UNCHANGED <<permit, work>>,
           draft'.from \in {Missing, draft.from} \/ state = "awaiting_from",
           state' = "awaiting_from" => state = "awaiting_from"
    PROVE  DraftIsTaken' /\ StateIsPermitted'
BY DEF DraftIsTaken, StateIsPermitted, InStage, At

\* A draft some handler has read is not free, and one that a handler leaves behind is.
LEMMA HandlerWaiting ==
    ASSUME FieldsOK, DraftIsTaken, StateIsPermitted, NEW h \in Handlers, HandlerStep(h)
    PROVE  DraftIsTaken' /\ StateIsPermitted'
<1>t. draft \in Drafts /\ permit \in BOOLEAN /\ work \in [Handlers -> Works]
    BY DEF FieldsOK
<1>n. NoDraft.from = Missing
    BY DEF NoDraft
<1>0. ASSUME NEW at, Goes(h, at), At(h) \notin {"inserts", "clears"},
             draft'.from \in {Missing, draft.from}, permit' = permit
      PROVE  DraftIsTaken'
    <2>1. \A g \in Handlers : At(g) \in {"inserts", "clears"} => work'[g].at \in {"inserts", "clears"}
        BY <1>0, <1>t DEF Goes, At
    <2> QED BY <1>0, <2>1 DEF DraftIsTaken, InStage, At
<1>1. CASE AddCounts(h)
    BY <1>0, <1>1 DEF AddCounts, StateIsPermitted
<1>2. CASE AddClears(h)
    BY <1>0, <1>2, <1>n DEF AddClears, ClearDraft, StateIsPermitted
<1>3. CASE AddSetsState(h)
    BY <1>3 DEF AddSetsState, StateIsPermitted, DraftIsTaken
<1>4. CASE LabelArrives(h)
    BY <1>0, <1>4 DEF LabelArrives, StateIsPermitted
<1>5. CASE LabelReads(h)
    <2>1. work'[h].at = "inserts"
        BY <1>5, <1>t DEF LabelReads
    <2>2. h \in InStage({"inserts", "clears"})'
        BY <2>1 DEF InStage, At
    <2> QED BY <1>5, <2>2 DEF LabelReads, DraftIsTaken, StateIsPermitted
<1>6. CASE LabelInserts(h)
    <2>1. work'[h].at = "clears"
        BY <1>6, <1>t DEF LabelInserts, Goes
    <2>2. h \in InStage({"inserts", "clears"})'
        BY <2>1 DEF InStage, At
    <2> QED BY <1>6, <2>2 DEF LabelInserts, DraftIsTaken, StateIsPermitted
<1>s. DraftStays => /\ draft' = draft
                    /\ (draft = NoDraft /\ permit' = permit) \/ permit' = TRUE
    BY DEF DraftStays
<1>7. CASE LabelClears(h)
    <2>1. \/ draft' = NoDraft /\ permit' = permit
          \/ permit' = TRUE
        BY <1>7, <1>s DEF LabelClears, ClearDraft
    <2>2. state' = state
        BY <1>7 DEF LabelClears
    <2> QED BY <1>n, <2>1, <2>2 DEF DraftIsTaken, StateIsPermitted
<1>8. CASE LabelSetsState(h)
    BY <1>0, <1>8 DEF LabelSetsState, StateIsPermitted
<1>9. CASE HandlerEnds(h)
    <2>1. CASE At(h) \in {"inserts", "clears"}
        <3>1. \/ draft' = NoDraft /\ permit' = permit
              \/ permit' = TRUE
            BY <1>9, <1>s, <2>1 DEF HandlerEnds
        <3>2. state' = state
            BY <1>9 DEF HandlerEnds
        <3> QED BY <1>n, <3>1, <3>2 DEF DraftIsTaken, StateIsPermitted
    <2>2. CASE At(h) \notin {"inserts", "clears"}
        BY <1>0, <1>9, <2>2 DEF HandlerEnds, StateIsPermitted
    <2> QED BY <2>1, <2>2
<1> QED BY <1>1, <1>2, <1>3, <1>4, <1>5, <1>6, <1>7, <1>8, <1>9 DEF HandlerStep

LEMMA NextWaiting ==
    ASSUME FieldsOK, IsFiniteSet(routes), DraftIsTaken, StateIsPermitted, [Next]_vars
    PROVE  DraftIsTaken' /\ StateIsPermitted'
<1>n. NoDraft.from = Missing
    BY DEF NoDraft
<1>1. CASE AddStep
    BY <1>1, AddWrites, WaitingKept DEF entering
<1>2. CASE DeleteStep
    BY <1>2, DeleteWrites, WaitingKept
<1>3. CASE EditStep
    BY <1>3, EditWrites, WaitingKept DEF entering
<1>4. CASE Start \/ TapRefused \/ DraftExpires \/ UNCHANGED vars
    BY <1>4, <1>n, OtherWrites, WaitingKept DEF entering
<1>5. CASE \E h \in Handlers : HandlerStep(h)
    BY <1>5, HandlerWaiting
<1> QED BY <1>1, <1>2, <1>3, <1>4, <1>5 DEF Next

-----------------------------------------------------------------------------
(* The book of routes                                                       *)

\* The book counts with its own instance of Cardinality.
LEMMA SameCardinality == \A S : Book!Cardinality(S) = Cardinality(S)
BY DEF Book!Cardinality, Cardinality

\* A step that leaves the routes, the permission and the handlers alone.
LEMMA BookRests ==
    ASSUME UNCHANGED <<routes, work, permit, extra>>
    PROVE  UNCHANGED Book!vars
<1>1. Places' = Places
    BY PlacesAre, PlacesNext, StagesAre DEF Inserting, Entering, Inserters, Adders, Staged
<1> QED BY <1>1 DEF Book!vars

\* Wherever one more place comes than there was, something has been counted for it.
LEMMA BookOverlap ==
    ASSUME FieldsOK, routes' = routes, OneMoreComes, Places' \in {Places, Places + 1}
    PROVE  Book!Next
BY DEF OneMoreComes, Book!Next, Book!Overlap

\* A handler that stops on its way to a route loses its place.
LEMMA BookLose ==
    ASSUME UNCHANGED <<routes, extra>>, Places' \in {Places, Places - 1}
    PROVE  [Book!Next]_(Book!vars)
<1>1. CASE Places' = Places
    BY <1>1 DEF Book!vars
<1>2. CASE Places' = Places - 1 /\ Places' # Places
    <2>1. Places' \in Nat /\ Places \in Nat
        BY PlacesType
    <2>2. Places > 0
        BY <1>2, <2>1
    <2> QED BY <1>2, <2>2 DEF Book!Next, Book!Lose
<1> QED BY <1>1, <1>2

\* Every call of /add or of the label is a step of the book, or leaves it alone.
LEMMA HandlerBook ==
    ASSUME FieldsOK, DraftIsTaken, StateIsPermitted, NEW h \in Handlers, HandlerStep(h)
    PROVE  [Book!Next]_(Book!vars)
<1>t. draft \in Drafts /\ permit \in BOOLEAN
    BY DEF FieldsOK
<1>n. Inserting \in Nat /\ Entering \in Nat
    BY CountsType
<1>p. /\ Places = Inserting + Gate(Entering, permit)
      /\ Places' = Inserting' + Gate(Entering', permit')
    BY PlacesAre, PlacesNext
<1>1. CASE AddCounts(h)
    <2>0. PICK x : work' = [work EXCEPT ![h] = x] /\ x.at = "add clears" /\ At(h) = "idle"
        BY <1>1 DEF AddCounts, Goes
    <2>1. Inserting' = Inserting /\ Entering' = Entering + 1
        BY <2>0, Moves
    <2>2. routes' = routes /\ permit' = permit
        BY <1>1 DEF AddCounts
    <2>3. CASE InStage({"add clears", "add state", "inserts"}) # {}
        <3>1. OneMoreComes
            BY <1>1, <2>3 DEF AddCounts
        <3>2. Places' \in {Places, Places + 1}
            BY <1>n, <1>p, <2>1, <2>2 DEF Gate
        <3> QED BY <2>2, <3>1, <3>2, BookOverlap
    <2>4. CASE InStage({"add clears", "add state", "inserts"}) = {}
        <3>1. Inserting = 0 /\ Entering = 0 /\ extra' = extra
            BY <1>1, NobodyCounts, <2>4 DEF AddCounts
        <3>2. Places <= 1 /\ Places' = 1
            BY <1>p, <2>1, <3>1 DEF Gate
        <3>3. Book!Cardinality(routes) < MaxRoutesPerUser
            BY <1>1, SameCardinality DEF AddCounts, HasRoom
        <3> QED BY <2>2, <3>1, <3>2, <3>3 DEF Book!Next, Book!Permit
    <2> QED BY <2>3, <2>4
<1>2. CASE AddClears(h)
    <2>0. PICK x : work' = [work EXCEPT ![h] = x] /\ x.at = "add state" /\ At(h) = "add clears"
        BY <1>2 DEF AddClears, Goes
    <2>1. Inserting' = Inserting /\ Entering' = Entering
        BY <2>0, Moves
    <2>2. UNCHANGED <<routes, permit, extra>>
        BY <1>2 DEF AddClears
    <2> QED BY <1>p, <2>1, <2>2 DEF Book!vars
<1>3. CASE AddSetsState(h)
    <2>0. PICK x : work' = [work EXCEPT ![h] = x] /\ x.at = "idle" /\ At(h) = "add state"
        BY <1>3 DEF AddSetsState, Goes
    <2>1. Inserting' = Inserting /\ Entering' = Entering - 1 /\ Entering > 0
        BY <2>0, Moves
    <2>2. UNCHANGED <<routes, extra>> /\ permit' = TRUE
        BY <1>3 DEF AddSetsState
    <2>3. Places' \in {Places, Places - 1}
        BY <1>n, <1>p, <2>1, <2>2 DEF Gate
    <2> QED BY <2>2, <2>3, BookLose
<1>4. CASE LabelArrives(h)
    <2>0. PICK x : work' = [work EXCEPT ![h] = x] /\ x.at = "reads" /\ At(h) = "idle"
        BY <1>4 DEF LabelArrives, Goes
    <2>1. Inserting' = Inserting /\ Entering' = Entering
        BY <2>0, Moves
    <2>2. UNCHANGED <<routes, permit, extra>>
        BY <1>4 DEF LabelArrives
    <2> QED BY <1>p, <2>1, <2>2 DEF Book!vars
<1>5. CASE LabelReads(h)
    <2> DEFINE x == [at |-> "inserts",
                     read |-> [from |-> draft.from, to |-> draft.to,
                               days |-> draft.days, alerts |-> draft.alerts]]
    <2>1. work' = [work EXCEPT ![h] = x] /\ x.at = "inserts" /\ At(h) = "reads"
        BY <1>5 DEF LabelReads
    <2> HIDE DEF x
    <2>2. Inserting' = Inserting + 1 /\ Entering' = Entering
        BY Moves, <2>1
    <2>3. routes' = routes /\ permit' = (state = "awaiting_from")
        BY <1>5 DEF LabelReads
    <2>4. CASE \/ InStage({"inserts", "clears", "add clears", "add state"}) # {}
               \/ state = "awaiting_from"
        <3>1. OneMoreComes
            BY <1>5, <2>4 DEF LabelReads
        <3>2. permit' => permit
            BY <2>3 DEF StateIsPermitted
        <3>3. Gate(Entering', permit') \in {Gate(Entering, permit), Gate(Entering, permit) - 1}
            BY <1>n, <2>2, <3>2 DEF Gate
        <3>4. Places' \in {Places, Places + 1}
            BY <1>n, <1>p, <2>2, <3>3 DEF Gate
        <3> QED BY <2>3, <3>1, <3>4, BookOverlap
    <2>5. CASE /\ InStage({"inserts", "clears", "add clears", "add state"}) = {}
               /\ state # "awaiting_from"
        <3>1. extra' = extra /\ ~permit'
            BY <1>5, <2>3, <2>5 DEF LabelReads
        <3>2. /\ InStage({"add clears", "add state", "inserts"}) = {}
              /\ InStage({"inserts", "clears"}) = {}
            BY <2>5 DEF InStage
        <3>3. permit
            BY <1>5, <3>2 DEF LabelReads, DraftComplete, HasStations, DraftIsTaken
        <3>4. Inserting = 0 /\ Entering = 0
            BY <3>2, NobodyCounts
        <3>5. Places' = Places
            BY <1>n, <1>p, <2>2, <3>1, <3>3, <3>4 DEF Gate
        <3> QED BY <2>3, <3>1, <3>5 DEF Book!vars
    <2> QED BY <2>4, <2>5
<1>6. CASE LabelInserts(h)
    <2>0. PICK x : work' = [work EXCEPT ![h] = x] /\ x.at = "clears" /\ At(h) = "inserts"
        BY <1>6 DEF LabelInserts, Goes
    <2>1. Inserting' = Inserting - 1 /\ Entering' = Entering /\ Inserting > 0
        BY <2>0, Moves
    <2>2. UNCHANGED <<permit, extra>>
        BY <1>6 DEF LabelInserts
    <2>3. Places > 0 /\ Places' = Places - 1
        BY <1>n, <1>p, <2>1, <2>2 DEF Gate
    <2> QED BY <1>6, <2>2, <2>3, EnterIsNew DEF Book!Next, Book!Enter
<1>s. ASSUME DraftStays, routes' = routes, Inserting' = Inserting, Entering' = Entering
      PROVE  [Book!Next]_(Book!vars)
    <2>1. CASE UNCHANGED <<permit, extra>>
        BY <1>p, <1>s, <2>1 DEF Book!vars
    <2>2. CASE permit' = TRUE /\ OneMoreComes
        <3>1. Places' \in {Places, Places + 1}
            BY <1>n, <1>p, <1>s, <2>2 DEF Gate
        <3> QED BY <1>s, <2>2, <3>1, BookOverlap
    <2> QED BY <1>s, <2>1, <2>2 DEF DraftStays
<1>7. CASE LabelClears(h)
    <2>0. PICK x : work' = [work EXCEPT ![h] = x] /\ x.at = "state" /\ At(h) = "clears"
        BY <1>7 DEF LabelClears, Goes
    <2>1. Inserting' = Inserting /\ Entering' = Entering
        BY <2>0, Moves
    <2>2. routes' = routes
        BY <1>7 DEF LabelClears
    <2>3. CASE UNCHANGED <<permit, extra>>
        BY <1>p, <2>1, <2>2, <2>3 DEF Book!vars
    <2>4. CASE DraftStays
        BY <1>s, <2>1, <2>2, <2>4
    <2> QED BY <1>7, <2>3, <2>4 DEF LabelClears
<1>8. CASE LabelSetsState(h)
    <2>0. PICK x : work' = [work EXCEPT ![h] = x] /\ x.at = "idle" /\ At(h) = "state"
        BY <1>8 DEF LabelSetsState, Goes
    <2>1. Inserting' = Inserting /\ Entering' = Entering
        BY <2>0, Moves
    <2>2. UNCHANGED <<routes, permit, extra>>
        BY <1>8 DEF LabelSetsState
    <2> QED BY <1>p, <2>1, <2>2 DEF Book!vars
<1>9. CASE HandlerEnds(h)
    <2>0. PICK x : work' = [work EXCEPT ![h] = x] /\ x.at = "idle" /\ routes' = routes
        BY <1>9 DEF HandlerEnds, Goes
    <2>1. CASE At(h) = "clears"
        <3>1. Inserting' = Inserting /\ Entering' = Entering
            BY <2>0, <2>1, Moves
        <3>2. DraftStays
            BY <1>9, <2>1 DEF HandlerEnds
        <3> QED BY <1>s, <2>0, <3>1, <3>2
    <2>2. CASE At(h) = "inserts"
        <3>1. Inserting' = Inserting - 1 /\ Entering' = Entering
            BY <2>0, <2>2, Moves
        <3>2. permit' = TRUE /\ extra' = extra
            BY <1>9, <2>2 DEF HandlerEnds
        <3>3. Places' \in {Places, Places - 1}
            BY <1>n, <1>p, <3>1, <3>2 DEF Gate
        <3> QED BY <2>0, <3>2, <3>3, BookLose
    <2>3. CASE At(h) \notin {"clears", "inserts"}
        <3>0. Inserting' = Inserting
            BY <2>0, <2>3, Moves
        <3>1. Entering' = Entering \/ (Entering' = Entering - 1 /\ Entering > 0)
            <4>1. CASE At(h) \in {"add clears", "add state"}
                BY <2>0, <4>1, Moves
            <4>2. CASE At(h) \notin {"add clears", "add state"}
                BY <2>0, <4>2, Moves
            <4> QED BY <4>1, <4>2
        <3>2. permit' = permit /\ extra' = extra
            BY <1>9, <2>3 DEF HandlerEnds
        <3>3. Places' \in {Places, Places - 1}
            BY <1>n, <1>p, <3>0, <3>1, <3>2 DEF Gate
        <3> QED BY <2>0, <3>2, <3>3, BookLose
    <2> QED BY <2>1, <2>2, <2>3
<1> QED BY <1>1, <1>2, <1>3, <1>4, <1>5, <1>6, <1>7, <1>8, <1>9 DEF HandlerStep

\* Every step is one of the book, or leaves it alone.
LEMMA BookStep ==
    ASSUME FieldsOK, IsFiniteSet(routes), DraftIsTaken, StateIsPermitted, [Next]_vars
    PROVE  [Book!Next]_(Book!vars)
<1>1. CASE AddStep
    BY <1>1, AddWrites, BookRests DEF entering
<1>2. CASE DeleteStep
    <2>0. UNCHANGED <<work, permit, extra>>
        BY <1>2, DeleteWrites
    <2>1. CASE routes' = routes
        BY <2>0, <2>1, BookRests
    <2>2. ASSUME NEW r, routes' = routes \ {r} PROVE [Book!Next]_(Book!vars)
        <3>1. Places' = Places
            BY <2>0, PlacesAre, PlacesNext, StagesAre DEF Inserting, Entering, Inserters, Adders, Staged
        <3>2. CASE r \in routes
            BY <2>0, <2>2, <3>1, <3>2 DEF Book!Next, Book!Remove
        <3>3. CASE r \notin routes
            <4>1. routes' = routes
                BY <2>2, <3>3
            <4> QED BY <2>0, <4>1, BookRests
        <3> QED BY <3>2, <3>3
    <2> QED BY <1>2, <2>1, <2>2, DeleteWrites
<1>3. CASE EditStep
    BY <1>3, EditWrites, BookRests DEF entering
<1>4. CASE Start \/ TapRefused \/ DraftExpires \/ UNCHANGED vars
    BY <1>4, OtherWrites, BookRests DEF entering
<1>5. CASE \E h \in Handlers : HandlerStep(h)
    BY <1>5, HandlerBook
<1> QED BY <1>1, <1>2, <1>3, <1>4, <1>5 DEF Next

\* The book of routes keeps the account: this is all that the limit rests on.
LEMMA BookKeepsAccount ==
    ASSUME FieldsOK, IsFiniteSet(routes), Account, [Book!Next]_(Book!vars)
    PROVE  IsFiniteSet(routes') /\ Account'
<1>n. /\ Cardinality(routes) \in Nat
      /\ Places \in Nat /\ Places' \in Nat /\ extra \in Nat
    <2>0. extra \in 0..MaxExtra
        BY DEF FieldsOK
    <2>1. extra \in Nat
        BY <2>0
    <2>2. Cardinality(routes) \in Nat
        BY FS_CardinalityType
    <2> QED BY <2>1, <2>2, PlacesType
<1>1. CASE Book!Permit
    <2>1. routes' = routes /\ extra' = extra /\ Places' = 1
        BY <1>1 DEF Book!Permit
    <2>2. Cardinality(routes) < MaxRoutesPerUser
        BY <1>1, SameCardinality DEF Book!Permit
    <2> QED BY <1>n, <2>1, <2>2 DEF Account
<1>2. CASE Book!Overlap
    <2>1. routes' = routes /\ extra' = extra + 1 /\ Places' \in {Places, Places + 1}
        BY <1>2 DEF Book!Overlap
    <2> QED BY <1>n, <2>1 DEF Account
<1>3. CASE Book!Enter
    <2>1. Places' = Places - 1 /\ extra' = extra
        BY <1>3 DEF Book!Enter
    <2>2. PICK route \in AllRoutes \ routes : routes' = routes \cup {route}
        BY <1>3 DEF Book!Enter
    <2>3. IsFiniteSet(routes') /\ Cardinality(routes') = Cardinality(routes) + 1
        BY <2>2, FS_AddElement
    <2> QED BY <1>n, <2>1, <2>3 DEF Account
<1>4. CASE Book!Lose
    <2>1. routes' = routes /\ extra' = extra /\ Places' = Places - 1
        BY <1>4 DEF Book!Lose
    <2> QED BY <1>n, <2>1 DEF Account
<1>5. CASE Book!Remove
    <2>1. Places' = Places /\ extra' = extra
        BY <1>5 DEF Book!Remove
    <2>2. PICK route \in routes : routes' = routes \ {route}
        BY <1>5 DEF Book!Remove
    <2>3. IsFiniteSet(routes') /\ Cardinality(routes') = Cardinality(routes) - 1
        BY <2>2, FS_RemoveElement
    <2> QED BY <1>n, <2>1, <2>3 DEF Account
<1>6. CASE UNCHANGED Book!vars
    BY <1>6 DEF Book!vars, Account
<1> QED BY <1>1, <1>2, <1>3, <1>4, <1>5, <1>6 DEF Book!Next

-----------------------------------------------------------------------------
(* The limit                                                                *)

\* It holds at the start.
LEMMA InitLimit == Init => LimitInv
<1> SUFFICES ASSUME Init PROVE LimitInv
    OBVIOUS
<1>1. IsFiniteSet(routes) /\ Cardinality(routes) = 0
    BY FS_EmptySet DEF Init
<1>2. draft.from = Missing /\ state # "awaiting_from" /\ ~permit /\ extra = 0
    BY DEF Init, NoDraft
<1>3. Places = 0
    <2>1. InStage({"add clears", "add state", "inserts"}) = {}
        BY DEF Init, InStage, At
    <2>2. Inserting = 0 /\ Entering = 0
        BY <2>1, NobodyCounts
    <2> QED BY <1>2, <2>2, PlacesAre DEF Gate
<1> QED BY <1>1, <1>2, <1>3 DEF LimitInv, DraftIsTaken, StateIsPermitted, Account

\* Types and limit are inductive.
LEMMA NextInv == FieldsOK /\ LimitInv /\ [Next]_vars => FieldsOK' /\ LimitInv'
<1> SUFFICES ASSUME FieldsOK, LimitInv, [Next]_vars PROVE FieldsOK' /\ LimitInv'
    OBVIOUS
<1>1. FieldsOK'
    BY NextType DEF LimitInv
<1>2. DraftIsTaken' /\ StateIsPermitted'
    BY NextWaiting DEF LimitInv
<1>3. [Book!Next]_(Book!vars)
    BY BookStep DEF LimitInv
<1>4. IsFiniteSet(routes') /\ Account'
    BY <1>3, BookKeepsAccount DEF LimitInv
<1> QED BY <1>1, <1>2, <1>4 DEF LimitInv

-----------------------------------------------------------------------------
(* The list of routes                                                       *)

\* A list has every row of the set it lists.
LEMMA ListIsComplete ==
    ASSUME NEW S, IsFiniteSet(S), NEW list \in Lists(S), NEW r \in S
    PROVE  \E i \in 1..Cardinality(S) : list[i] = r
<1> DEFINE N == Cardinality(S)
<1>1. N \in Nat
    BY FS_CardinalityType
<1>2. IsFiniteSet(1..N) /\ Cardinality(1..N) = N
    BY <1>1, FS_Interval
<1>3. list \in Injection(1..N, S)
    <2>1. list \in [1..N -> S]
        BY DEF Lists
    <2>2. \A i, j \in 1..N : i < j => list[i] # list[j]
        BY DEF Lists
    <2>3. \A i, j \in 1..N : i < j \/ j < i \/ i = j
        BY <1>1
    <2>4. \A i, j \in 1..N : list[i] = list[j] => i = j
        BY <2>2, <2>3
    <2> QED BY <2>1, <2>4 DEF Injection, IsInjective
<1>4. list \in Surjection(1..N, S)
    BY <1>2, <1>3, FS_Injection
<1> QED BY <1>4 DEF Surjection

\* Without ties the place of a row is how many rows are before it.
Before(S, r) == {s \in S : s.time < r.time}

LEMMA PlaceInList ==
    ASSUME NEW S, IsFiniteSet(S), \A r \in S : r.time \in Nat, NoTies(S),
           NEW list \in Lists(S), NEW i \in 1..Cardinality(S)
    PROVE  Cardinality(Before(S, list[i])) = i - 1
<1> DEFINE N == Cardinality(S)
           f == [j \in 1..(i - 1) |-> list[j]]
<1>1. N \in Nat
    BY FS_CardinalityType
<1>2. i \in Nat /\ i >= 1 /\ i <= N /\ \A j \in 1..(i - 1) : j \in 1..N /\ j < i
    BY <1>1
<1>3. \A j \in 1..N : list[j] \in S
    BY DEF Lists
<1>4. \A j, k \in 1..N : j < k => list[j].time < list[k].time
    <2>1. \A j, k \in 1..N : j < k => list[j] # list[k] /\ list[j].time <= list[k].time
        BY DEF Lists
    <2>2. \A j, k \in 1..N : list[j] # list[k] => list[j].time # list[k].time
        BY <1>3 DEF NoTies
    <2>3. \A j \in 1..N : list[j].time \in Nat
        BY <1>3
    <2> QED BY <2>1, <2>2, <2>3
<1>5. f \in Injection(1..(i - 1), Before(S, list[i]))
    <2>1. \A j \in 1..(i - 1) : list[j] \in Before(S, list[i])
        BY <1>2, <1>3, <1>4 DEF Before
    <2>2. \A j, k \in 1..(i - 1) : j < k => list[j] # list[k]
        BY <1>2 DEF Lists
    <2>3. \A j, k \in 1..(i - 1) : j < k \/ k < j \/ j = k
        BY <1>2
    <2>4. \A j, k \in 1..(i - 1) : list[j] = list[k] => j = k
        BY <2>2, <2>3
    <2> QED BY <2>1, <2>4 DEF Injection, IsInjective
<1>6. f \in Surjection(1..(i - 1), Before(S, list[i]))
    <2>1. ASSUME NEW r \in Before(S, list[i]) PROVE \E j \in 1..(i - 1) : f[j] = r
        <3>1. r \in S /\ r.time < list[i].time
            BY DEF Before
        <3>2. PICK j \in 1..N : list[j] = r
            BY <3>1, ListIsComplete
        <3>3. list[j].time \in Nat /\ list[i].time \in Nat
            BY <1>2, <1>3
        <3>4. ~(i < j) /\ i # j
            BY <1>4, <3>1, <3>2, <3>3
        <3>5. j \in 1..(i - 1)
            BY <1>2, <3>4
        <3> QED BY <3>2, <3>5
    <2> QED BY <1>5, <2>1 DEF Injection, Surjection
<1>7. IsFiniteSet(1..(i - 1)) /\ Cardinality(1..(i - 1)) = i - 1
    BY <1>2, FS_Interval
<1>8. ExistsBijection(1..(i - 1), Before(S, list[i]))
    BY <1>5, <1>6 DEF ExistsBijection, Bijection
<1> QED BY <1>7, <1>8, FS_Bijection

\* Two readings of the same routes list them in the same order, when no two have one time.
LEMMA OneList ==
    ASSUME NEW S, IsFiniteSet(S), \A r \in S : r.time \in Nat, NoTies(S),
           NEW list \in Lists(S), NEW again \in Lists(S), NEW i \in 1..Cardinality(S)
    PROVE  again[i] = list[i]
<1>1. list[i] \in S
    BY DEF Lists
<1>2. PICK j \in 1..Cardinality(S) : again[j] = list[i]
    BY <1>1, ListIsComplete
<1>3. Cardinality(Before(S, list[i])) = i - 1
    BY PlaceInList
<1>4. Cardinality(Before(S, again[j])) = j - 1
    BY PlaceInList
<1>5. i = j
    <2>1. Cardinality(S) \in Nat
        BY FS_CardinalityType
    <2> QED BY <1>2, <1>3, <1>4, <2>1
<1> QED BY <1>2, <1>5

-----------------------------------------------------------------------------
(* Confirmations                                                            *)

\* A confirmation names the route at its position in a list of the routes, as long as
\* these are the same.
Honest(m) ==
    /\ m \in Messages
    /\ m.kind = "confirm" /\ m.same =>
          /\ m.n \in 1..Cardinality(routes)
          /\ \E list \in Lists(routes) : m.about = list[m.n].id

\* Every message that can still be tapped is honest.
ChatInv == \A m \in chat : Honest(m)

\* The messages without a route.
LEMMA MenuIsHonest ==
    ASSUME NEW kind \in {"train", "delete", "editroute", "editfield"}, NEW n \in Nat
    PROVE  Honest(Message(kind, n))
<1>1. 0 \in 0..MaxCreated
    OBVIOUS
<1> QED BY <1>1 DEF Honest, Message, Messages

\* What Show adds to the chat.
LEMMA Shown ==
    ASSUME NEW messages, \A k \in messages : k \in chat, NEW next, NEW m,
           Show(messages, next, m)
    PROVE  \A k \in chat' : k \in chat \/ k = m
BY DEF Show, Remembered

\* The confirmation that /delete sends.
LEMMA ConfirmIsHonest ==
    ASSUME FieldsOK, IsFiniteSet(routes), NEW list \in Lists(routes),
           NEW i \in 1..Cardinality(routes)
    PROVE  Honest([kind |-> "confirm", n |-> i, about |-> list[i].id, same |-> TRUE])
<1>1. list[i] \in routes
    BY DEF Lists
<1>2. routes \in SUBSET AllRoutes
    BY DEF FieldsOK
<1>3. list[i].id \in 0..MaxCreated
    <2>1. list[i] \in AllRoutes
        BY <1>1, <1>2
    <2> QED BY <2>1 DEF AllRoutes
<1>4. i \in Nat
    BY FS_CardinalityType
<1> QED BY <1>3, <1>4 DEF Honest, Messages

\* Messages from before the routes changed promise nothing.
LEMMA OutdatedAreHonest ==
    ASSUME ChatInv, chat' \subseteq Outdated(chat)
    PROVE  ChatInv'
<1> SUFFICES ASSUME NEW k \in chat' PROVE Honest(k)'
    BY DEF ChatInv
<1>1. PICK m \in chat : k = [m EXCEPT !.same = FALSE]
    BY DEF Outdated
<1>2. m \in Messages
    BY DEF ChatInv, Honest
<1>3. k \in Messages /\ k.same = FALSE
    BY <1>1, <1>2 DEF Messages
<1> QED BY <1>3 DEF Honest, Messages

\* Steps that leave the routes alone send no message that is not honest.
LEMMA ChatKept ==
    ASSUME ChatInv, routes' = routes, \A k \in chat' : k \in chat \/ Honest(k)
    PROVE  ChatInv'
<1> SUFFICES ASSUME NEW k \in chat' PROVE Honest(k)'
    BY DEF ChatInv
<1>1. Honest(k)
    BY DEF ChatInv
<1> QED BY <1>1 DEF Honest, Messages, Lists

\* No step sends a message that is not honest, or leaves one that no longer is.
LEMMA ChatStep ==
    ASSUME FieldsOK, LimitInv, ChatInv, [Next]_vars
    PROVE  ChatInv'
<1>1. IsFiniteSet(routes) /\ Cardinality(routes) \in Nat
    BY FS_CardinalityType DEF LimitInv
<1>3. ASSUME NEW messages, \A k \in messages : k \in chat, NEW next,
             NEW kind \in {"train", "delete", "editroute", "editfield"}, NEW n \in Nat,
             Show(messages, next, Message(kind, n))
      PROVE  \A k \in chat' : k \in chat \/ Honest(k)
    BY <1>3, MenuIsHonest, Shown
<1>4. ASSUME NEW messages, \A k \in messages : k \in chat,
             NEW list \in Lists(routes), NEW i \in 1..Cardinality(routes),
             Confirm(messages, list, i)
      PROVE  \A k \in chat' : k \in chat \/ Honest(k)
    BY <1>1, <1>4, ConfirmIsHonest, Shown DEF Confirm
<1>5. ASSUME NEW m, NEW messages, Tapped(m, messages) PROVE \A k \in messages : k \in chat
    BY <1>5 DEF Tapped
<1>6. CASE AddStep
    <2>0. routes' = routes
        BY <1>6, AddWrites DEF entering
    <2>1. CASE UNCHANGED chat
        BY <2>0, <2>1, ChatKept
    <2>2. CASE \E offered \in 1..2 :
                  Show(chat, "awaiting_train_choice", Message("train", offered))
        <3>1. PICK offered \in 1..2 :
                  Show(chat, "awaiting_train_choice", Message("train", offered))
            BY <2>2
        <3>2. offered \in Nat /\ \A k \in chat : k \in chat
            OBVIOUS
        <3>3. \A k \in chat' : k \in chat \/ k = Message("train", offered)
            BY <3>1, <3>2, Shown
        <3>4. Honest(Message("train", offered))
            BY <3>2, MenuIsHonest
        <3>5. \A k \in chat' : k \in chat \/ Honest(k)
            BY <3>3, <3>4
        <3> QED BY <2>0, <3>5, ChatKept
    <2>3. CASE HandleTrainCallback
        <3>1. \A k \in chat' : k \in chat
            BY <1>5, <2>3 DEF HandleTrainCallback
        <3> QED BY <2>0, <3>1, ChatKept
    <2> QED
        BY <1>6, <2>1, <2>2, <2>3
           DEF AddStep, HandleAwaitingFrom, HandleAwaitingTo, HandleAwaitingTime,
               SearchEnds, TypeTrainNumber, HandleAwaitingDays, HandleAwaitingAlerts
<1>7. CASE \E h \in Handlers : HandlerStep(h)
    <2>1. PICK h \in Handlers : HandlerStep(h)
        BY <1>7
    <2>2. CASE LabelInserts(h)
        BY <2>2, OutdatedAreHonest DEF LabelInserts
    <2>3. CASE ~LabelInserts(h)
        <3>1. UNCHANGED <<routes, chat>>
            BY <2>1, <2>3 DEF HandlerStep, AddCounts, AddClears, AddSetsState, LabelArrives,
                   LabelReads, LabelClears, LabelSetsState, HandlerEnds
        <3> QED BY <3>1, ChatKept
    <2> QED BY <2>2, <2>3
<1>10. ASSUME NEW messages, \A k \in messages : k \in chat, NEW i \in Nat, i >= 1,
              ChooseForDeletion(messages, i)
       PROVE  ChatInv'
    <2>1. i \in 1..Cardinality(routes)
        BY <1>1, <1>10 DEF ChooseForDeletion
    <2>2. \A k \in chat' : k \in chat \/ Honest(k)
        BY <1>4, <1>10, <2>1 DEF ChooseForDeletion
    <2>3. routes' = routes
        BY <1>10 DEF ChooseForDeletion, entering
    <2> QED BY <2>2, <2>3, ChatKept
<1>9. CASE HandleDelete
    <2>0. routes' = routes
        BY <1>9 DEF HandleDelete, entering
    <2>1. CASE Cardinality(routes) = 1 /\ \E list \in Lists(routes) : Confirm(chat, list, 1)
        <3>1. \A k \in chat' : k \in chat \/ Honest(k)
            BY <1>1, <1>4, <2>1
        <3> QED BY <2>0, <3>1, ChatKept
    <2>2. CASE Show(chat, "awaiting_delete", Message("delete", Cardinality(routes)))
        <3>1. \A k \in chat' : k \in chat \/ Honest(k)
            BY <1>1, <1>3, <2>2
        <3> QED BY <2>0, <3>1, ChatKept
    <2> QED BY <1>9, <2>1, <2>2 DEF HandleDelete
<1>11. CASE HandleAwaitingDelete
    <2>1. PICK i \in 1..Cardinality(routes) : ChooseForDeletion(chat, i)
        BY <1>11 DEF HandleAwaitingDelete
    <2>2. i \in Nat /\ i >= 1
        BY <1>1
    <2> QED BY <1>10, <2>1, <2>2
<1>12. CASE HandleDeleteCallback
    <2>1. PICK m \in {Message("delete", n) : n \in 2..MaxCreated} :
              \E messages \in {chat, chat \ {m}} :
                  /\ Tapped(m, messages)
                  /\ \E i \in 1..m.n : ChooseForDeletion(messages, i)
        BY <1>12 DEF HandleDeleteCallback
    <2>2. m.n \in Nat
        BY DEF Message
    <2>3. PICK messages, i : /\ i \in 1..m.n
                             /\ Tapped(m, messages)
                             /\ ChooseForDeletion(messages, i)
        BY <2>1
    <2>4. i \in Nat /\ i >= 1
        BY <2>2, <2>3
    <2> QED BY <1>5, <1>10, <2>3, <2>4
<1>13. CASE HandleConfirmDelete
    <2>1. PICK m, messages : Tapped(m, messages) /\ chat' = Outdated(messages)
        BY <1>13 DEF HandleConfirmDelete
    <2>2. chat' \subseteq Outdated(chat)
        BY <1>5, <2>1 DEF Outdated
    <2> QED BY <2>2, OutdatedAreHonest
<1>14. CASE HandleCancelDelete
    <2>1. PICK m : Tapped(m, chat')
        BY <1>14 DEF HandleCancelDelete
    <2>2. routes' = routes
        BY <1>14 DEF HandleCancelDelete, entering
    <2> QED BY <1>5, <2>1, <2>2, ChatKept
<1>15. ASSUME NEW messages, \A k \in messages : k \in chat, NEW base, NEW r,
              SendEditFieldMenu(messages, base, r)
       PROVE  \A k \in chat' : k \in chat \/ Honest(k)
    BY <1>3, <1>15 DEF SendEditFieldMenu
<1>16. CASE EditStep
    <2>0. routes' = routes
        BY <1>1, <1>16, EditWrites DEF entering
    <2>1. CASE HandleEdit
        <3>1. CASE \E r, base : SendEditFieldMenu(chat, base, r)
            BY <1>15, <2>0, <3>1, ChatKept
        <3>2. CASE Show(chat, "awaiting_edit_route", Message("editroute", Cardinality(routes)))
            <4>1. \A k \in chat' : k \in chat \/ Honest(k)
                BY <1>1, <1>3, <3>2
            <4> QED BY <2>0, <4>1, ChatKept
        <3> QED BY <2>1, <3>1, <3>2 DEF HandleEdit
    <2>2. CASE HandleEditRouteCallback
        <3>1. PICK m, messages : /\ Tapped(m, messages)
                                 /\ \E r : SendEditFieldMenu(messages, draft, r)
            BY <2>2 DEF HandleEditRouteCallback
        <3>2. \A k \in chat' : k \in chat \/ Honest(k)
            BY <1>5, <1>15, <3>1
        <3> QED BY <2>0, <3>2, ChatKept
    <2>3. CASE HandleEditFieldCallback \/ HandleEditCancelCallback
        <3>1. PICK m : Tapped(m, chat')
            BY <2>3 DEF HandleEditFieldCallback, HandleEditCancelCallback
        <3> QED BY <1>5, <2>0, <3>1, ChatKept
    <2>4. CASE HandleAwaitingEditAlerts
        BY <2>0, <2>4, ChatKept DEF HandleAwaitingEditAlerts
    <2> QED BY <1>16, <2>1, <2>2, <2>3, <2>4 DEF EditStep
<1>19. CASE Start \/ TapRefused \/ DraftExpires \/ UNCHANGED vars
    <2>1. routes' = routes
        BY <1>19, OtherWrites DEF entering
    <2>2. \A k \in chat' : k \in chat
        BY <1>19 DEF Start, TapRefused, DraftExpires, vars
    <2> QED BY <2>1, <2>2, ChatKept
<1> QED
    BY <1>6, <1>7, <1>9, <1>11, <1>12, <1>13, <1>14, <1>16, <1>19 DEF Next, DeleteStep

\* Where the list is read the same again, the position is the route named.
LEMMA SameListSameRoute ==
    ASSUME FieldsOK, LimitInv, NEW m, Honest(m), m.kind = "confirm",
           m.n <= Cardinality(routes), NEW list \in Lists(routes)
    PROVE  "deleted, list unchanged"
               \notin DeletionSlip(m, list[Position(m.n, Cardinality(routes))].id)
<1>1. CASE m.same /\ NoTies(routes)
    <2>1. IsFiniteSet(routes) /\ \A r \in routes : r.time \in Nat
        BY DEF LimitInv, FieldsOK, AllRoutes
    <2>2. PICK seen \in Lists(routes) : m.about = seen[m.n].id
        BY <1>1 DEF Honest
    <2>3. m.n \in 1..Cardinality(routes)
        BY <1>1 DEF Honest
    <2>4. list[m.n] = seen[m.n]
        BY <1>1, <2>1, <2>3, OneList
    <2> QED BY <2>2, <2>4 DEF DeletionSlip, Position
<1>2. CASE ~(m.same /\ NoTies(routes))
    BY <1>2 DEF DeletionSlip
<1> QED BY <1>1, <1>2

\* Only the confirmation deletes.
LEMMA NamedStep ==
    ASSUME FieldsOK, LimitInv, ChatInv, DeletesTheNamed, [Next]_vars
    PROVE  DeletesTheNamed'
<1>1. CASE HandleConfirmDelete
    <2>1. PICK m \in chat :
              /\ m.kind = "confirm" /\ m.n <= Cardinality(routes)
              /\ \E list \in Lists(routes) :
                    slips' = slips \cup
                        DeletionSlip(m, list[Position(m.n, Cardinality(routes))].id)
        BY <1>1 DEF HandleConfirmDelete
    <2>2. Honest(m)
        BY DEF ChatInv
    <2> QED BY <2>1, <2>2, SameListSameRoute DEF DeletesTheNamed
<1>2. CASE DeleteStep /\ ~HandleConfirmDelete
    BY <1>2 DEF DeleteStep, HandleDelete, HandleAwaitingDelete, HandleDeleteCallback,
           ChooseForDeletion, HandleCancelDelete, DeletesTheNamed
<1>3. CASE EditStep
    <2>1. IsFiniteSet(routes)
        BY DEF LimitInv
    <2> QED BY <1>3, <2>1, EditWrites DEF DeletesTheNamed
<1>4. CASE AddStep
    BY <1>4, AddWrites DEF DeletesTheNamed
<1>5. CASE Start \/ TapRefused \/ DraftExpires \/ UNCHANGED vars
    BY <1>5, OtherWrites DEF DeletesTheNamed
<1>6. CASE \E h \in Handlers : HandlerStep(h)
    BY <1>6 DEF HandlerStep, AddCounts, AddClears, AddSetsState, LabelArrives, LabelReads,
           LabelInserts, LabelClears, LabelSetsState, HandlerEnds, DeletesTheNamed
<1> QED BY <1>1, <1>2, <1>3, <1>4, <1>5, <1>6 DEF Next

-----------------------------------------------------------------------------
(* Drafts read                                                              *)

\* What a handler of the label has read was given in one dialog.
SnapshotsOfOneDialog ==
    \A h \in Handlers : At(h) = "inserts" =>
        /\ work[h].read.from = work[h].read.to
        /\ work[h].read.days = work[h].read.from
        /\ work[h].read.alerts = work[h].read.from

\* A handler that reads a complete draft reads one of the dialog under way.
LEMMA SnapshotStep ==
    ASSUME FieldsOK, LimitInv, SnapshotsOfOneDialog, [Next]_vars
    PROVE  SnapshotsOfOneDialog'
<1>1. CASE UNCHANGED work
    BY <1>1 DEF SnapshotsOfOneDialog, At
<1>2. ASSUME NEW h \in Handlers, HandlerStep(h) PROVE SnapshotsOfOneDialog'
    <2>t. work \in [Handlers -> Works] /\ draft \in Drafts
        BY DEF FieldsOK
    <2>1. CASE LabelReads(h)
        <3> DEFINE x == [from |-> draft.from, to |-> draft.to,
                         days |-> draft.days, alerts |-> draft.alerts]
        <3>1. work' = [work EXCEPT ![h] = [at |-> "inserts", read |-> x]]
            BY <2>1 DEF LabelReads
        <3>2. x.from = x.to /\ x.days = x.from /\ x.alerts = x.from
            BY <2>1, <2>t DEF LabelReads, DraftComplete, HasStations, Drafts
        <3> HIDE DEF x
        <3>3. \A g \in Handlers :
                  work'[g] = IF g = h THEN [at |-> "inserts", read |-> x] ELSE work[g]
            BY <2>t, <3>1
        <3> QED BY <3>2, <3>3 DEF SnapshotsOfOneDialog, At
    <2>2. CASE ~LabelReads(h)
        <3>1. \E at \in {"idle", "add clears", "add state", "reads", "clears", "state"} : Goes(h, at)
            BY <1>2, <2>2 DEF HandlerStep, AddCounts, AddClears, AddSetsState, LabelArrives,
                   LabelInserts, LabelClears, LabelSetsState, HandlerEnds
        <3>2. PICK at : at # "inserts" /\ Goes(h, at)
            BY <3>1
        <3>3. \A g \in Handlers :
                  work'[g] = IF g = h THEN [at |-> at, read |-> NoSnapshot] ELSE work[g]
            BY <2>t, <3>2 DEF Goes
        <3> QED BY <3>2, <3>3 DEF SnapshotsOfOneDialog, At
    <2> QED BY <2>1, <2>2
<1>3. IsFiniteSet(routes)
    BY DEF LimitInv
<1>4. AddStep \/ EditStep \/ DeleteStep \/ Start \/ TapRefused \/ DraftExpires \/ UNCHANGED vars
          => UNCHANGED work
    BY <1>3, AddWrites, EditWrites, DeleteWrites, OtherWrites DEF entering
<1> QED BY <1>1, <1>2, <1>4 DEF Next

-----------------------------------------------------------------------------
(* Theorems                                                                 *)

\* The invariant of the dialogs.
DialogInv ==
    FieldsOK /\ LimitInv /\ ChatInv /\ DeletesTheNamed /\ SnapshotsOfOneDialog

LEMMA Inductive == Spec => []DialogInv
<1>1. Init => DialogInv
    <2> SUFFICES ASSUME Init PROVE DialogInv
        OBVIOUS
    <2>1. ChatInv /\ DeletesTheNamed
        BY DEF Init, ChatInv, DeletesTheNamed
    <2>2. SnapshotsOfOneDialog
        BY DEF Init, SnapshotsOfOneDialog, At
    <2> QED BY <2>1, <2>2, InitType, InitLimit DEF DialogInv
<1>2. DialogInv /\ [Next]_vars => DialogInv'
    BY NextInv, ChatStep, NamedStep, SnapshotStep DEF DialogInv
<1> QED BY <1>1, <1>2, PTL DEF Spec

\* Every dialog keeps the types; in particular no field of a draft is older than the
\* last /add that cleared the draft.
THEOREM TypeCorrect == Spec => []TypeOK
<1>1. DialogInv => TypeOK
    BY DEF DialogInv, TypeOK, ChatInv, Honest
<1> QED BY <1>1, Inductive, PTL

\* Every route beyond the limit has a cause of its own among the overlaps of /add and of
\* handlers of the label, and the handlers that ended between the insert and the end of
\* the draft, for every limit and any number of handlers under way (handleAdd tests the
\* limit, handleAwaitingLabel does not).
THEOREM LimitHolds == Spec => []ExcessHasCause
<1>1. DialogInv => ExcessHasCause
    <2> SUFFICES ASSUME DialogInv PROVE ExcessHasCause
        OBVIOUS
    <2>1. IsFiniteSet(routes) /\ Account /\ extra \in 0..MaxExtra
        BY DEF DialogInv, LimitInv, FieldsOK
    <2>2. Cardinality(routes) \in Nat /\ Places \in Nat /\ extra \in Nat
        BY <2>1, FS_CardinalityType, PlacesType
    <2> QED BY <2>1, <2>2 DEF Account, ExcessHasCause
<1> QED BY <1>1, Inductive, PTL

\* And so where none of these happens, a user never has more routes than the limit.
THEOREM LimitWithoutOverlap == Spec => [](extra = 0 => RouteLimit)
<1>1. ExcessHasCause => (extra = 0 => RouteLimit)
    BY DEF ExcessHasCause, RouteLimit
<1> QED BY <1>1, LimitHolds, PTL

\* The stations, days and reminders of a route come from one dialog, whatever becomes of
\* the draft between the calls of the handler (handleAwaitingLabel).
THEOREM RoutesOfOneDialog == Spec => OneDialog
<1>1. DialogInv /\ [Next]_vars =>
        [\A h \in Handlers : At(h) = "inserts" /\ work'[h].at = "clears" =>
            /\ work[h].read.from = work[h].read.to
            /\ work[h].read.days = work[h].read.from
            /\ work[h].read.alerts = work[h].read.from]_vars
    BY DEF DialogInv, SnapshotsOfOneDialog
<1> QED BY <1>1, Inductive, PTL DEF Spec, OneDialog

\* While the routes stay as they were and no two have one time, what is deleted is the
\* route the confirmation named, although the confirmation carries only a position and
\* the list is read again (handleConfirmDelete), for any number of old confirmations.
THEOREM NamedIsDeleted == Spec => []DeletesTheNamed
<1>1. DialogInv => DeletesTheNamed
    BY DEF DialogInv
<1> QED BY <1>1, Inductive, PTL

\* The dialogs of /add, /edit and /delete implement the book of routes: a route is entered
\* only in a place, which /add gives while there is room and an overlap or an early end
\* otherwise, one at a time, and only a deletion takes one away.
THEOREM DialogsImplementBook == Spec => ImplementsRouteBook
<1>1. Init => Book!Init
    <2> SUFFICES ASSUME Init PROVE Book!Init
        OBVIOUS
    <2>1. InStage({"add clears", "add state", "inserts"}) = {}
        BY DEF Init, InStage, At
    <2>2. Inserting = 0 /\ Entering = 0
        BY <2>1, NobodyCounts
    <2>3. Gate(0, permit) = 0
        BY DEF Init, Gate
    <2>4. Places = 0
        BY <2>2, <2>3, PlacesAre
    <2> QED BY <2>4 DEF Init, Book!Init
<1>2. DialogInv /\ [Next]_vars => [Book!Next]_(Book!vars)
    BY BookStep DEF DialogInv, LimitInv
<1> QED BY <1>1, <1>2, Inductive, PTL DEF Spec, ImplementsRouteBook, Book!Spec
=============================================================================
