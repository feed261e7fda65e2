----------------------------- MODULE MCTracker ------------------------------
(* Instances of Tracker for TLC.                                            *)
EXTENDS Tracker

CONSTANTS r1, h1, exact, soon, late, p1, p2

\* One route at 08:00.  One train at its time, one later and close enough to be selected
\* without asking, one that is not.
OneRoute == {r1}
MCDep == [r \in Routes |-> 480]
AllTrains == {exact, soon, late}
TwoTrains == {exact, late}
OneTrain == {exact}
MCSched == [s \in Trains |-> CASE s = exact -> 480 [] s = soon -> 490 [] OTHER -> 500]

TwoOffsets == {30, 60}
OneOffset == {30}
ActiveRows == [r \in Routes |-> [status |-> "active", offsets |-> Offsets]]
NewRows == [r \in Routes |-> [status |-> "new", offsets |-> {}]]

\* Before the live range; in the choice range and the first reminder's window; past the
\* grace period and in the second's; departed.
WholeDay == {200, 430, 460, 490}
LastHours == {430, 460, 490}
InWindow == {460}
=============================================================================
