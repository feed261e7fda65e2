----------------------------- MODULE RouteBook ------------------------------
(***************************************************************************)
(* What the bot's dialogs promise about a user's routes, without states,   *)
(* drafts or keyboards: a route is entered only in a place, which /add     *)
(* gives while there is room, one at a time, and which the entry uses up.  *)
(* More places come only where handlers overlap or end early, and each     *)
(* time one at most.  Conversation implements this.                        *)
(***************************************************************************)
EXTENDS Naturals, FiniteSets

CONSTANTS
    AllRoutes,         \* every route there could be
    MaxRoutesPerUser

VARIABLES
    book,       \* the user's routes
    places,     \* routes that may be entered without another look at the limit
    extra       \* how often a place has come without room for it

vars == <<book, places, extra>>

Init ==
    /\ book = {}
    /\ places = 0
    /\ extra = 0

Permit ==
    /\ Cardinality(book) < MaxRoutesPerUser
    /\ places <= 1
    /\ places' = 1
    /\ UNCHANGED <<book, extra>>

Overlap ==
    /\ extra' = extra + 1
    /\ places' \in {places, places + 1}
    /\ UNCHANGED book

Enter ==
    /\ places > 0
    /\ places' = places - 1
    /\ \E route \in AllRoutes \ book : book' = book \cup {route}
    /\ UNCHANGED extra

Lose ==
    /\ places > 0
    /\ places' = places - 1
    /\ UNCHANGED <<book, extra>>

Remove ==
    /\ \E route \in book : book' = book \ {route}
    /\ UNCHANGED <<places, extra>>

Next == Permit \/ Overlap \/ Enter \/ Lose \/ Remove

Spec == Init /\ [][Next]_vars
=============================================================================
