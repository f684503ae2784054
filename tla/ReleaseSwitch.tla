---------------------------- MODULE ReleaseSwitch ----------------------------
(***************************************************************************)
(* What OperatorDeploy promises of a command that switches releases: seen  *)
(* through the journal, the add-in manifests and the release trees behind  *)
(* them change in one step, to a whole selection of one release, or not at *)
(* all.  A manifest of an affected Revit year that the selection does not  *)
(* have goes away in the same step; other years keep what they had.  Once  *)
(* somebody else has changed a file nothing more is promised here.         *)
(***************************************************************************)
CONSTANTS Releases, Addins, Absent, Year, Selections

VARIABLES
  live,       \* live[a]: the release that add-in manifest a points at
  held,       \* held[r]: the add-in components of the tree of r
  disturbed   \* somebody else has changed a file, or a file was unreadable

Init ==
  /\ live = [a \in Addins |-> Absent]
  /\ held = [r \in Releases |-> {}]
  /\ disturbed = FALSE

SameYear(a, sel) == \E b \in sel : Year[b] = Year[a]

(* An installation selects components of r, a rollback all that it has. *)
SwitchTo(r) ==
  /\ ~disturbed /\ ~disturbed'
  /\ \E sel \in {s \cap Addins : s \in Selections[r]} \cup {held[r]} :
       /\ live' = [a \in Addins |-> IF a \in sel THEN r
                                    ELSE IF SameYear(a, sel) THEN Absent ELSE live[a]]
       /\ held' = [held EXCEPT ![r] = @ \cup sel]

Disturb == disturbed'

Next == Disturb \/ \E r \in Releases : SwitchTo(r)

Spec == Init /\ [][Next]_<<live, held, disturbed>>
=============================================================================
