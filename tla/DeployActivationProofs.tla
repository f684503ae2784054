----------------------- MODULE DeployActivationProofs -----------------------
(***************************************************************************)
(* Theorems about the activation transaction of DeployActivation.  The     *)
(* inductive invariant comes in three layers: Shape types every variable   *)
(* and ties the journal and the compare-and-swap to the place the process  *)
(* is at, whoever interferes; Transaction relates files, trees and journal *)
(* while nobody interferes; Origins and Rejection say, whoever interferes, *)
(* where the contents of a release come from and what is left of it while  *)
(* a rejected admission is taken back.                                     *)
(***************************************************************************)
EXTENDS DeployActivation, TLAPS

-----------------------------------------------------------------------------
(* Shape. *)

States == InstalledState \cup {Absent}
Manifest == Releases \cup {Absent}
ControlContents == Manifest \cup Foreign

DiskOk ==
  /\ file \in [Paths -> Contents]
  /\ tree \in [Releases -> Slot]
  /\ staging \in Slot /\ displaced \in Slot /\ failed \in Slot
  /\ sideFiles \subseteq Paths \X Contents
ProcOk ==
  /\ pc \in Pcs /\ phase \in {"start", "run", "unwind"}
  /\ op \in [kind : {"install", "repair", "rollback", "status"},
             release : Releases \cup {Absent}, sel : SUBSET Controls]
  /\ todo \subseteq Paths /\ disabled \subseteq Paths
  /\ seen \in Slot /\ previousExact \in BOOLEAN /\ clean \in BOOLEAN
EnvOk ==
  /\ revit \in BOOLEAN /\ unreadable \in BOOLEAN
  /\ commands \in 0..MaxCommands /\ faults \in 0..MaxFaults
  /\ thirdParty \in 0..MaxThirdParty

(* state.json holds a state, a control a manifest of a release or of       *)
(* somebody else; no add-in manifest of somebody else is in a journal.     *)
FileOk ==
  /\ file[StatePath] \in States
  /\ \A c \in Controls : file[c] \in ControlContents

Images(j, dom) ==
  /\ j \in Journals(dom) /\ StatePath \in dom
  /\ j.before[StatePath] \in States /\ j.after[StatePath] \in States
  /\ \A c \in dom \cap Controls : j.before[c] \in ControlContents /\ j.after[c] \in Manifest
  /\ \A a \in dom \cap Addins : j.before[a] \in Manifest
JournalOk(j) == \E dom \in SUBSET Paths : Images(j, dom)

QuietPcs == {"idle", "recover", "plan", "begin"}
SwapPcs == {"displace", "place", "assert",
            "rootcheck", "rootclear", "rootrestore", "rootstaging"}
ControlLoops == {"activate", "disable", "reinstate"}
StateLoops == {"commit", "disablestate", "reinstatestate"}
LoopPcs == ControlLoops \cup StateLoops \cup {"restore"}

(* Where the process is says what there is of a journal and of a command.  *)
PcOk ==
  /\ pc \notin QuietPcs => journal # NoJournal
  /\ pc \in {"plan", "begin"} => journal = NoJournal
  /\ pc \in SwapPcs => journal.swap # NoSwap
  /\ pc \in Forward => op.release \in Releases
  /\ pc \in {"plan"} \cup Forward => phase = "run"
  /\ pc = "idle" => phase = "start"
  /\ phase = "run" => op.kind # "status" /\ pc \in {"plan", "retire"} \cup Forward
  /\ op.kind \in {"install", "repair"} =>
       op.release \in Releases /\ op.sel \in Selections[op.release]
  /\ pc \in {"displace", "place", "assert"} => journal.swap.release = op.release
  /\ pc \in ControlLoops => todo \subseteq JournaledControls
  /\ pc \in StateLoops => todo \subseteq {StatePath}
  /\ pc = "restore" => todo \subseteq Journaled

(* A compare-and-swap belongs to a loop over controls.  What it displaced  *)
(* is what it expected or what somebody else wrote.                        *)
CasOk ==
  /\ cas \in CasRecords \cup {NoCas}
  /\ cas # NoCas =>
       /\ pc \in LoopPcs /\ cas.path \in todo
       /\ cas.path \in Addins => cas.expect \notin Foreign /\ cas.new \notin Foreign
       /\ cas.path = StatePath =>
            cas.expect \in States /\ cas.new \in States /\ cas.side \in States
       /\ cas.path \in Controls =>
            /\ cas.expect \in ControlContents /\ cas.new \in ControlContents
            /\ cas.side \in ControlContents
       /\ cas.step = "swap" => file[cas.path] \in Foreign \cup {cas.expect, Absent}
       /\ cas.step # "swap" => cas.side \in Foreign \cup {cas.expect}
       /\ cas.step = "putback" => cas.side # cas.expect

Shape ==
  /\ DiskOk /\ ProcOk /\ EnvOk /\ FileOk
  /\ journal # NoJournal => JournalOk(journal)
  /\ PcOk /\ CasOk

-----------------------------------------------------------------------------
(* What the helpers of the control flow do to the shape. *)

(* The process returns or dies. *)
LEMMA ExitShape ==
  ASSUME Shape, Exit, journal' \in {journal, NoJournal}
  PROVE  ProcOk' /\ PcOk' /\ CasOk'
BY DEF Shape, ProcOk, PcOk, CasOk, Exit, Pcs, NoOp, Slot, QuietPcs, SwapPcs, ControlLoops,
       StateLoops, LoopPcs, Forward, Recovering, Rejecting

(* A failed call is caught, or ends the command, or skips one control. *)
LEMMA ThrowShape ==
  ASSUME Shape, NEW p, Throw(p), journal' = journal
  PROVE  ProcOk' /\ PcOk' /\ CasOk'
<1>1. CASE Exit
  BY <1>1, ExitShape
<1>2. CASE pc' = "recover"
  BY <1>2 DEF Shape, Throw, ProcOk, PcOk, CasOk, Exit, Pcs, QuietPcs, SwapPcs, ControlLoops,
       StateLoops, LoopPcs, Forward, Recovering, Rejecting, Journaled, JournaledControls
<1>3. CASE pc \in Rejecting
  BY <1>3 DEF Shape, Throw, ProcOk, PcOk, CasOk, Exit, Pcs, QuietPcs, SwapPcs, ControlLoops,
       StateLoops, LoopPcs, Forward, Recovering, Rejecting, Journaled, JournaledControls
<1> QED BY <1>1, <1>2, <1>3 DEF Throw

(* No journal is pending: the command is planned, or it is over. *)
LEMMA AfterRecoveryShape ==
  ASSUME Shape, AfterRecovery, journal' = NoJournal
  PROVE  ProcOk' /\ PcOk' /\ CasOk'
<1>1. CASE Exit
  BY <1>1, ExitShape
<1>2. CASE pc' = "plan"
  BY <1>2 DEF Shape, AfterRecovery, ProcOk, PcOk, CasOk, Exit, Pcs, QuietPcs, SwapPcs, ControlLoops,
       StateLoops, LoopPcs, Forward, Recovering, Rejecting, Slot
<1> QED BY <1>1, <1>2 DEF AfterRecovery

(* What a compare-and-swap may exchange at a path. *)
MayExchange(p, expect, new) ==
  /\ p \in Addins => expect \notin Foreign /\ new \notin Foreign
  /\ p = StatePath => expect \in States /\ new \in States
  /\ p \in Controls => expect \in ControlContents /\ new \in ControlContents

LEMMA PathsSplit ==
  ASSUME NEW p \in Paths
  PROVE  /\ p = StatePath \/ p \in Controls
         /\ ~(p = StatePath /\ p \in Controls)
         /\ p \in Addins => p \in Controls
BY ConstantsAssumption DEF ConstantsAssumption, Paths, Controls

LEMMA MayExchangeTypes ==
  ASSUME NEW p \in Paths, NEW e, NEW n, MayExchange(p, e, n)
  PROVE  e \in Contents /\ n \in Contents
BY PathsSplit DEF MayExchange, States, ControlContents, Manifest, Contents

(* A compare-and-swap starts on a path of the loop. *)
LEMMA CasStartShape ==
  ASSUME Shape, NEW p \in todo, NEW e, NEW n, pc \in LoopPcs, CasStart(p, e, n),
         MayExchange(p, e, n), UNCHANGED <<file, journal>>
  PROVE  ProcOk' /\ PcOk' /\ CasOk'
<1>1. CASE file[p] # e
  BY <1>1, ThrowShape DEF CasStart
<1>2. CASE file[p] = e
  <2>1. p \in Paths /\ e \in Contents /\ n \in Contents
    BY MayExchangeTypes DEF Shape, ProcOk
  <2>2. cas' = [path |-> p, expect |-> e, new |-> n, step |-> "swap", side |-> Absent]
    BY <1>2 DEF CasStart
  <2>3. UNCHANGED <<pc, phase, op, todo, seen, disabled, previousExact, clean>>
    BY <1>2 DEF CasStart
  <2>4. ProcOk' /\ PcOk'
    BY <2>3 DEF Shape, ProcOk, PcOk, Journaled, JournaledControls
  <2>5. cas' \in CasRecords
    BY <2>1, <2>2 DEF CasRecords, Contents
  <2>6. CasOk'
    BY <1>2, <2>2, <2>3, <2>5 DEF CasOk, MayExchange, States, ControlContents, Manifest
  <2> QED BY <2>4, <2>6
<1> QED BY <1>1, <1>2

(* The journal at the paths of a loop. *)
LEMMA JournaledImages ==
  ASSUME Shape, journal # NoJournal
  PROVE  /\ Images(journal, Journaled) /\ Journaled \subseteq Paths
         /\ DOMAIN journal.after = Journaled
BY DEF Shape, JournalOk, Images, Journals, Journaled

LEMMA ImagesExchange ==
  ASSUME Shape, journal # NoJournal, NEW p \in Journaled
  PROVE  /\ MayExchange(p, journal.before[p], journal.after[p])
         /\ MayExchange(p, journal.after[p], journal.before[p])
         /\ MayExchange(p, journal.before[p], Absent)
         /\ MayExchange(p, journal.after[p], Absent)
         /\ MayExchange(p, Absent, journal.before[p])
<1>1. p \in Paths /\ Images(journal, Journaled)
  BY JournaledImages
<1>2. Foreign \cap Manifest = {}
  BY MarkersAssumption DEF MarkersAssumption, Manifest
<1> QED BY <1>1, <1>2, PathsSplit DEF MayExchange, Images, ControlContents, Manifest, States

LEMMA LoopsJournaled ==
  ASSUME Shape, pc \in LoopPcs
  PROVE  journal # NoJournal /\ todo \subseteq Journaled
<1>1. journal # NoJournal
  BY DEF Shape, PcOk, LoopPcs, ControlLoops, StateLoops, QuietPcs
<1>2. StatePath \in Journaled
  BY <1>1, JournaledImages DEF Images
<1> QED BY <1>1, <1>2 DEF Shape, PcOk, LoopPcs, JournaledControls

-----------------------------------------------------------------------------
(* Every step keeps the shape. *)

LEMMA ExecuteShape ==
  ASSUME Shape, NEW o \in Commands, Execute(o)
  PROVE  Shape'
<1>1. /\ o.kind \in {"install", "repair", "rollback", "status"}
      /\ o.release \in Releases \cup {Absent} /\ o.sel \in SUBSET Controls
      /\ o \in [kind : {"install", "repair", "rollback", "status"},
                release : Releases \cup {Absent}, sel : SUBSET Controls]
      /\ o.kind \in {"install", "repair"} => o.release \in Releases
  BY DEF Commands
<1>2. commands' \in 0..MaxCommands
  BY ConstantsAssumption DEF ConstantsAssumption, Execute, Shape, EnvOk
<1>3. DiskOk' /\ EnvOk' /\ FileOk'
  BY <1>2 DEF Execute, Shape, DiskOk, EnvOk, FileOk, disk
<1>4. ProcOk' /\ PcOk'
  BY <1>1 DEF Execute, Shape, ProcOk, PcOk, disk, Pcs, QuietPcs, SwapPcs, ControlLoops,
       StateLoops, Forward, Recovering, Rejecting, Journaled, JournaledControls
<1>5. CasOk' /\ journal' = journal
  BY DEF Execute, Shape, CasOk, disk, PcOk, LoopPcs, ControlLoops, StateLoops
<1> QED BY <1>3, <1>4, <1>5 DEF Shape

LEMMA PlanInstallShape ==
  ASSUME Shape, PlanInstall
  PROVE  Shape'
<1>1. UNCHANGED <<file, tree, journal, quarantine, sideFiles, env>>
  BY DEF PlanInstall
<1>2. DiskOk' /\ EnvOk' /\ FileOk'
  BY <1>1 DEF PlanInstall, Shape, DiskOk, EnvOk, FileOk, ProcOk, Slot, Trees, Exact, env
<1>3. CASE Exit
  BY <1>1, <1>2, <1>3, ExitShape DEF Shape
<1>4. CASE Goto("begin", {})
  <2>1. ProcOk' /\ PcOk'
    BY <1>1, <1>4 DEF PlanInstall, Goto, Shape, ProcOk, PcOk, Pcs, QuietPcs, SwapPcs,
         ControlLoops, StateLoops, Forward, Recovering, Rejecting, Journaled, JournaledControls
  <2>2. CasOk'
    BY <1>4 DEF PlanInstall, Goto, Shape, CasOk, LoopPcs, ControlLoops, StateLoops
  <2> QED BY <1>1, <1>2, <2>1, <2>2 DEF Shape
<1> QED BY <1>3, <1>4 DEF PlanInstall

LEMMA PlanRollbackShape ==
  ASSUME Shape, PlanRollback
  PROVE  Shape'
<1>1. UNCHANGED <<disk, env>>
  BY DEF PlanRollback
<1>2. DiskOk' /\ EnvOk' /\ FileOk' /\ journal' = journal
  BY <1>1 DEF Shape, DiskOk, EnvOk, FileOk, disk, env
<1>3. CASE Exit
  BY <1>2, <1>3, ExitShape DEF Shape
<1>4. CASE ~Exit
  <2>1. PICK r \in RollbackTargets :
           /\ tree[r] # NoTree
           /\ op' = [op EXCEPT !.release = r, !.sel = tree[r].parts]
    BY <1>4 DEF PlanRollback
  <2>2. r \in Releases
    BY <2>1 DEF RollbackTargets
  <2>3. tree[r].parts \in SUBSET Controls
    BY <2>1, <2>2 DEF Shape, DiskOk, Slot, Trees
  <2>4. /\ pc' = "begin" /\ pc = "plan" /\ op.kind = "rollback"
        /\ UNCHANGED <<phase, todo, cas, seen, disabled, previousExact, clean>>
    BY <1>4 DEF PlanRollback
  <2>5. ProcOk'
    BY <2>1, <2>2, <2>3, <2>4 DEF Shape, ProcOk, Pcs, Forward
  <2>6. op'.kind = "rollback" /\ op'.release \in Releases
    BY <2>1, <2>2, <2>4 DEF Shape, ProcOk
  <2>7. PcOk'
    BY <1>2, <2>4, <2>6 DEF Shape, PcOk, QuietPcs, SwapPcs, ControlLoops, StateLoops,
         Forward, Recovering, Rejecting
  <2>8. CasOk'
    BY <2>4 DEF Shape, CasOk, LoopPcs, ControlLoops, StateLoops
  <2> QED BY <1>2, <2>5, <2>7, <2>8 DEF Shape
<1> QED BY <1>3, <1>4

(* The journal of a plan: images of the selection, of the manifests it     *)
(* outdates and of state.json.                                             *)
LEMMA JournalOfImages ==
  ASSUME Shape, NEW r \in Releases, NEW sel \in SUBSET Controls, PlanActivation(sel),
         NEW swap \in Swaps \cup {NoSwap}
  PROVE  /\ Images(JournalOf(r, sel, swap), sel \cup Obsolete(sel) \cup {StatePath})
         /\ sel \cup Obsolete(sel) \cup {StatePath} \in SUBSET Paths
         /\ JournalOf(r, sel, swap) # NoJournal
<1> DEFINE dom == sel \cup Obsolete(sel) \cup {StatePath}
           j == JournalOf(r, sel, swap)
<1>1. dom \in SUBSET Paths /\ StatePath \in dom /\ StatePath \notin Controls
      /\ Addins \subseteq Controls
  BY ConstantsAssumption DEF ConstantsAssumption, Obsolete, Paths, Controls
<1>2. \A p \in dom : file[p] \in Contents
  BY <1>1 DEF Shape, DiskOk
<1>3. j \in Journals(dom)
  BY <1>1, <1>2 DEF JournalOf, Journals, Contents
<1>4. /\ j.before[StatePath] \in States /\ j.after[StatePath] \in States
      /\ \A c \in dom \cap Controls : j.before[c] \in ControlContents /\ j.after[c] \in Manifest
  BY <1>1 DEF JournalOf, Shape, FileOk, Manifest
<1>5. \A a \in Addins : Owned[a] \in Manifest
  BY DEF Owned, Shape, FileOk, States, InstalledState, Manifest
<1>6. \A a \in dom \cap Addins : j.before[a] \in Manifest
  <2>1. ASSUME NEW a \in dom \cap Addins
        PROVE  file[a] \in Manifest
    BY <1>1, <1>5 DEF PlanActivation, Obsolete, Manifest
  <2> QED BY <1>1, <2>1 DEF JournalOf
<1>7. j # NoJournal
  BY <1>1, <1>3, MarkersAssumption DEF MarkersAssumption
<1> QED BY <1>1, <1>3, <1>4, <1>6, <1>7 DEF Images

LEMMA BeginShape ==
  ASSUME Shape, BeginActivationJournal
  PROVE  Shape'
<1> DEFINE r == op.release
           after == Exact(op.sel \cup Preserved(r))
           swap == [release |-> r, before |-> tree[r], after |-> after]
           new == IF Refreshes(r) THEN NoSwap ELSE swap
<1>1. pc = "begin" /\ r \in Releases /\ op.sel \in SUBSET Controls
  BY DEF BeginActivationJournal, Shape, PcOk, ProcOk, Forward
<1>2. UNCHANGED <<file, tree, displaced, failed, quarantine, sideFiles, env>>
  BY DEF BeginActivationJournal
<1>3. after \in Trees /\ tree[r] \in Slot
  BY <1>1 DEF Exact, Preserved, Shape, DiskOk, Slot, Trees
<1>4. new \in Swaps \cup {NoSwap} /\ (~Refreshes(r) => new # NoSwap /\ new.release = r)
  BY <1>1, <1>3, MarkersAssumption DEF MarkersAssumption, Swaps
<1>5. staging' \in Slot
  BY <1>3 DEF BeginActivationJournal, Shape, DiskOk, Slot
<1>6. DiskOk' /\ EnvOk' /\ FileOk'
  BY <1>2, <1>5 DEF Shape, DiskOk, EnvOk, FileOk, env
<1>7. CASE UNCHANGED <<journal, staging>> /\ Throw(StatePath)
  BY <1>6, <1>7, ThrowShape DEF Shape
<1>8. CASE /\ PlanActivation(op.sel) /\ journal' = JournalOf(r, op.sel, new)
           /\ IF Refreshes(r) THEN Goto("activate", op.sel \cup Obsolete(op.sel))
                              ELSE Goto("displace", {})
  <2> DEFINE dom == op.sel \cup Obsolete(op.sel) \cup {StatePath}
  <2>1. Images(journal', dom) /\ dom \in SUBSET Paths /\ journal' # NoJournal
    BY <1>1, <1>4, <1>8, JournalOfImages
  <2>2. JournalOk(journal')
    BY <2>1 DEF JournalOk
  <2>3. DOMAIN journal'.before = dom /\ journal'.swap = new
    BY <1>8 DEF JournalOf
  <2>4. op.sel \cup Obsolete(op.sel) \subseteq dom \ {StatePath}
    BY <1>1, PathsSplit, ConstantsAssumption DEF ConstantsAssumption, Obsolete, Controls
  <2>5. UNCHANGED <<phase, op, cas, seen, disabled, previousExact, clean>>
    BY <1>8 DEF Goto
  <2>6. CasOk'
    BY <1>1, <1>2, <2>5 DEF Shape, CasOk, LoopPcs, ControlLoops, StateLoops
  <2>7. CASE Refreshes(r)
    <3>1. pc' = "activate" /\ todo' = op.sel \cup Obsolete(op.sel)
      BY <1>8, <2>7 DEF Goto
    <3>2. ProcOk' /\ PcOk'
      BY <1>1, <2>1, <2>3, <2>4, <2>5, <3>1 DEF Shape, ProcOk, PcOk, Pcs, QuietPcs, SwapPcs,
         ControlLoops, StateLoops, Forward, Journaled, JournaledControls
    <3> QED BY <1>6, <2>2, <2>6, <3>2 DEF Shape
  <2>8. CASE ~Refreshes(r)
    <3>1. pc' = "displace" /\ todo' = {}
      BY <1>8, <2>8 DEF Goto
    <3>2. ProcOk' /\ PcOk'
      BY <1>1, <1>4, <2>1, <2>3, <2>5, <2>8, <3>1 DEF Shape, ProcOk, PcOk, Pcs, QuietPcs, SwapPcs,
         ControlLoops, StateLoops, Forward, Journaled, JournaledControls
    <3> QED BY <1>6, <2>2, <2>6, <3>2 DEF Shape
  <2> QED BY <2>7, <2>8
<1> QED BY <1>7, <1>8 DEF BeginActivationJournal

(* A step that moves trees or nothing at all and goes on with a list of    *)
(* paths.                                                                  *)
LEMMA MovesShape ==
  ASSUME Shape, UNCHANGED <<file, journal, sideFiles, env>>,
         tree' \in [Releases -> Slot], staging' \in Slot, displaced' \in Slot, failed' \in Slot
  PROVE  DiskOk' /\ EnvOk' /\ FileOk' /\ (journal' # NoJournal => JournalOk(journal'))
BY DEF Shape, DiskOk, EnvOk, FileOk, env

LEMMA GotoShape ==
  ASSUME Shape, NEW next \in Pcs, NEW left \in SUBSET Paths, Goto(next, left),
         UNCHANGED <<file, journal>>, journal # NoJournal, cas = NoCas,
         next \notin QuietPcs,
         next \in SwapPcs => journal.swap # NoSwap,
         next \in Forward => op.release \in Releases,
         next \in Forward <=> pc \in Forward,
         next \in {"place", "assert"} => journal.swap.release = op.release,
         next # "displace",
         phase = "run" => next \in {"retire"} \cup Forward,
         next \in ControlLoops => left \subseteq JournaledControls,
         next \in StateLoops => left \subseteq {StatePath},
         next = "restore" => left \subseteq Journaled
  PROVE  ProcOk' /\ PcOk' /\ CasOk'
<1>1. pc' = next /\ todo' = left
      /\ UNCHANGED <<phase, op, cas, seen, disabled, previousExact, clean>>
  BY DEF Goto
<1>2. ProcOk'
  BY <1>1 DEF Shape, ProcOk
<1>3. PcOk'
  BY <1>1 DEF Shape, PcOk, QuietPcs, Forward, Journaled, JournaledControls
<1>4. CasOk'
  BY <1>1 DEF Shape, CasOk
<1> QED BY <1>2, <1>3, <1>4

LEMMA NoCasOutsideLoops ==
  ASSUME Shape, pc \notin LoopPcs
  PROVE  cas = NoCas
BY DEF Shape, CasOk

LEMMA DisplaceShape ==
  ASSUME Shape, DisplaceRoot
  PROVE  Shape'
<1>1. op.release \in Releases /\ tree[op.release] \in Slot /\ NoTree \in Slot /\ pc = "displace"
  BY DEF DisplaceRoot, Shape, PcOk, DiskOk, Forward, Slot
<1>2. DiskOk' /\ EnvOk' /\ FileOk' /\ (journal' # NoJournal => JournalOk(journal'))
  BY <1>1, MovesShape DEF DisplaceRoot, Shape, DiskOk
<1>3. ProcOk' /\ PcOk' /\ CasOk'
  BY <1>1, GotoShape, NoCasOutsideLoops
     DEF DisplaceRoot, Shape, PcOk, Pcs, QuietPcs, SwapPcs, Forward, ControlLoops, StateLoops, LoopPcs
<1> QED BY <1>2, <1>3 DEF Shape

LEMMA PlaceShape ==
  ASSUME Shape, PlaceRoot
  PROVE  Shape'
<1>1. op.release \in Releases /\ NoTree \in Slot /\ pc = "place" /\ staging \in Slot
  BY DEF PlaceRoot, Shape, PcOk, DiskOk, Forward, Slot
<1>2. DiskOk' /\ EnvOk' /\ FileOk' /\ (journal' # NoJournal => JournalOk(journal'))
  BY <1>1, MovesShape DEF PlaceRoot, Shape, DiskOk
<1>3. ProcOk' /\ PcOk' /\ CasOk'
  BY <1>1, GotoShape, NoCasOutsideLoops
     DEF PlaceRoot, Shape, PcOk, Pcs, QuietPcs, SwapPcs, Forward, ControlLoops, StateLoops, LoopPcs
<1> QED BY <1>2, <1>3 DEF Shape

(* A step that leaves the disk alone. *)
LEMMA DiskShape ==
  ASSUME Shape, UNCHANGED <<disk, env>>
  PROVE  /\ DiskOk' /\ EnvOk' /\ FileOk' /\ journal' = journal
         /\ journal' # NoJournal => JournalOk(journal')
BY DEF Shape, DiskOk, EnvOk, FileOk, env, disk

LEMMA AssertShape ==
  ASSUME Shape, AssertReleaseRootMatches
  PROVE  Shape'
<1>1. DiskOk' /\ EnvOk' /\ FileOk' /\ journal' = journal /\ file' = file
      /\ (journal' # NoJournal => JournalOk(journal'))
  BY DiskShape DEF AssertReleaseRootMatches, disk
<1>2. CASE Throw(StatePath)
  BY <1>1, <1>2, ThrowShape DEF Shape
<1>3. CASE Goto("activate", JournaledControls)
  <2>1. journal # NoJournal /\ pc = "assert" /\ op.release \in Releases
    BY DEF AssertReleaseRootMatches, Shape, PcOk, QuietPcs, Forward
  <2>2. JournaledControls \in SUBSET Paths
    BY <2>1, JournaledImages DEF JournaledControls
  <2>3. ProcOk' /\ PcOk' /\ CasOk'
    BY <1>1, <1>3, <2>1, <2>2, GotoShape, NoCasOutsideLoops
       DEF Pcs, QuietPcs, SwapPcs, Forward, ControlLoops, StateLoops, LoopPcs
  <2> QED BY <1>1, <2>3 DEF Shape
<1> QED BY <1>2, <1>3 DEF AssertReleaseRootMatches

LEMMA ValidateShape ==
  ASSUME Shape, ValidateActivatedRelease
  PROVE  Shape'
<1>1. DiskOk' /\ EnvOk' /\ FileOk' /\ journal' = journal /\ file' = file
      /\ (journal' # NoJournal => JournalOk(journal'))
  BY DiskShape DEF ValidateActivatedRelease, disk
<1>2. CASE Throw(StatePath)
  BY <1>1, <1>2, ThrowShape DEF Shape
<1>3. CASE Goto("mark", {})
  <2>1. journal # NoJournal /\ pc = "validate" /\ op.release \in Releases
    BY DEF ValidateActivatedRelease, Shape, PcOk, QuietPcs, Forward
  <2>2. ProcOk' /\ PcOk' /\ CasOk'
    BY <1>1, <1>3, <2>1, GotoShape, NoCasOutsideLoops
       DEF Pcs, QuietPcs, SwapPcs, Forward, ControlLoops, StateLoops, LoopPcs
  <2> QED BY <1>1, <2>2 DEF Shape
<1> QED BY <1>2, <1>3 DEF ValidateActivatedRelease

(* The state that a command commits. *)
LEMMA NewStateType ==
  ASSUME Shape, pc = "mark"
  PROVE  NewState \in InstalledState
<1>1. op.release \in Releases /\ journal # NoJournal
  BY DEF Shape, PcOk, Forward, QuietPcs
<1>2. Images(journal, Journaled) /\ Journaled \subseteq Paths
  BY <1>1, JournaledImages
<1>3. \A a \in Addins : Owned[a] \in Releases \cup {Absent}
  BY DEF Owned, Shape, FileOk, States, InstalledState
<1>4. NewOwned \in [Addins -> Releases \cup {Absent}]
  BY <1>2, <1>3 DEF NewOwned, Images, Manifest, Controls
<1>5. commands \in Nat
  BY ConstantsAssumption DEF ConstantsAssumption, Shape, EnvOk
<1> DEFINE old == IF file[StatePath] = Absent THEN [r \in Releases |-> 0]
                  ELSE file[StatePath].successful
<1>6. old \in [Releases -> Nat]
  BY DEF Shape, FileOk, States, InstalledState
<1>7. (IF op.kind = "rollback" THEN old ELSE [old EXCEPT ![op.release] = commands])
        \in [Releases -> Nat]
  BY <1>5, <1>6
<1> QED BY <1>1, <1>4, <1>5, <1>7 DEF NewState, InstalledState

LEMMA MarkShape ==
  ASSUME Shape, MarkCommit
  PROVE  Shape'
<1>1. pc = "mark" /\ journal # NoJournal /\ op.release \in Releases
      /\ Images(journal, Journaled) /\ Journaled \subseteq Paths /\ NewState \in InstalledState
  BY JournaledImages, NewStateType DEF MarkCommit, Shape, PcOk, QuietPcs, Forward
<1>2. StatePath \in Journaled /\ StatePath \notin Controls
  BY <1>1, ConstantsAssumption DEF ConstantsAssumption, Images
<1>3. journal' = [journal EXCEPT !.commit = TRUE, !.after[StatePath] = NewState]
  BY DEF MarkCommit
<1>4. /\ journal'.before = journal.before /\ DOMAIN journal'.before = Journaled
      /\ journal'.after = [journal.after EXCEPT ![StatePath] = NewState]
      /\ journal' \in Journals(Journaled)
  BY <1>1, <1>2, <1>3 DEF Images, Journals, Contents, Journaled
<1>5. Images(journal', Journaled)
  BY <1>1, <1>2, <1>4 DEF Images, States, Journals
<1>6. journal' # NoJournal
  BY <1>1, <1>4, MarkersAssumption DEF MarkersAssumption
<1>7. JournalOk(journal')
  BY <1>1, <1>5 DEF JournalOk
<1>8. DiskOk' /\ EnvOk' /\ FileOk'
  BY DEF MarkCommit, roots, Shape, DiskOk, EnvOk, FileOk, env
<1>9. pc' = "commit" /\ todo' = {StatePath}
      /\ UNCHANGED <<phase, op, cas, seen, disabled, previousExact, clean>>
  BY DEF MarkCommit, Goto
<1>10. ProcOk' /\ PcOk'
  BY <1>1, <1>6, <1>9 DEF Shape, ProcOk, PcOk, Pcs, QuietPcs, SwapPcs, Forward, ControlLoops,
       StateLoops, Paths
<1>11. CasOk'
  BY <1>1, <1>9 DEF Shape, CasOk, LoopPcs, ControlLoops, StateLoops
<1> QED BY <1>6, <1>7, <1>8, <1>10, <1>11 DEF Shape

LEMMA RetireShape ==
  ASSUME Shape, Retire
  PROVE  Shape'
<1>1. DiskOk' /\ EnvOk' /\ FileOk' /\ journal' = NoJournal
  BY DEF Retire, roots, Shape, DiskOk, EnvOk, FileOk, env
<1> QED BY <1>1, AfterRecoveryShape DEF Retire, Shape

(* The loops of the forward path. *)
LEMMA ActivateShape ==
  ASSUME Shape, NEW p \in Paths, ActivateControl(p)
  PROVE  Shape'
<1>1. p \in todo /\ pc \in LoopPcs /\ CasStart(p, journal.before[p], journal.after[p])
  BY DEF ActivateControl, LoopPcs, ControlLoops
<1>2. MayExchange(p, journal.before[p], journal.after[p])
  BY <1>1, LoopsJournaled, ImagesExchange
<1>3. DiskOk' /\ EnvOk' /\ FileOk' /\ journal' = journal /\ file' = file
      /\ (journal' # NoJournal => JournalOk(journal'))
  BY DiskShape DEF ActivateControl, disk
<1> QED BY <1>1, <1>2, <1>3, CasStartShape DEF Shape

LEMMA CommitShape ==
  ASSUME Shape, CommitState
  PROVE  Shape'
<1>1. StatePath \in todo /\ pc \in LoopPcs
      /\ CasStart(StatePath, journal.before[StatePath], journal.after[StatePath])
  BY DEF CommitState, LoopPcs, StateLoops
<1>2. MayExchange(StatePath, journal.before[StatePath], journal.after[StatePath])
  BY <1>1, LoopsJournaled, ImagesExchange
<1>3. DiskOk' /\ EnvOk' /\ FileOk' /\ journal' = journal /\ file' = file
      /\ (journal' # NoJournal => JournalOk(journal'))
  BY DiskShape DEF CommitState, disk
<1> QED BY <1>1, <1>2, <1>3, CasStartShape DEF Shape

(* Quarantine ends the command.                                            *)
LEMMA QuarantineShape ==
  ASSUME Shape, NEW why, Quarantine(why), UNCHANGED <<file, roots, sideFiles>>, EnvOk'
  PROVE  Shape'
<1>1. DiskOk' /\ FileOk' /\ journal' = NoJournal
  BY DEF Quarantine, roots, Shape, DiskOk, FileOk
<1>2. ProcOk' /\ PcOk' /\ CasOk'
  BY <1>1, ExitShape DEF Quarantine
<1> QED BY <1>1, <1>2 DEF Shape

LEMMA RejectShape ==
  ASSUME Shape, RejectAdmission, journal # NoJournal, pc = "recover",
         UNCHANGED <<file, journal>>
  PROVE  ProcOk' /\ PcOk' /\ CasOk'
<1>1. JournaledControls \in SUBSET Paths /\ cas = NoCas
  BY JournaledImages, NoCasOutsideLoops DEF JournaledControls, LoopPcs, ControlLoops, StateLoops
<1>2. PreviousRootStillExact \in BOOLEAN
  BY DEF PreviousRootStillExact
<1>3. ProcOk'
  BY <1>1, <1>2 DEF RejectAdmission, Shape, ProcOk, Pcs, Rejecting
<1>4. PcOk'
  BY <1>1 DEF RejectAdmission, Shape, PcOk, QuietPcs, SwapPcs, Forward, ControlLoops, StateLoops,
       Journaled, JournaledControls
<1>5. CasOk'
  BY <1>1 DEF RejectAdmission, Shape, CasOk
<1> QED BY <1>3, <1>4, <1>5

LEMMA RecoverBeginShape ==
  ASSUME Shape, RecoverBegin
  PROVE  Shape'
<1>1. pc = "recover" /\ cas = NoCas
  BY NoCasOutsideLoops DEF RecoverBegin, LoopPcs, ControlLoops, StateLoops
<1>2. UNCHANGED <<file, tree, displaced, failed, journal, quarantine, sideFiles, env>>
      /\ staging' \in Slot
  BY DEF RecoverBegin, Shape, DiskOk, Slot
<1>3. DiskOk' /\ EnvOk' /\ FileOk' /\ (journal' # NoJournal => JournalOk(journal'))
  BY <1>2, MovesShape DEF Shape, DiskOk
<1>4. CASE Exit
  BY <1>2, <1>3, <1>4, ExitShape DEF Shape
<1>5. CASE journal = NoJournal /\ AfterRecovery
  BY <1>2, <1>3, <1>5, AfterRecoveryShape DEF Shape
<1>6. CASE journal # NoJournal /\ RejectAdmission
  BY <1>1, <1>2, <1>3, <1>6, RejectShape DEF Shape
<1>7. CASE journal # NoJournal /\ (Goto("retire", {}) \/ Goto("foreigncheck", {}))
  <2>1. ProcOk' /\ PcOk' /\ CasOk'
    BY <1>1, <1>2, <1>7, GotoShape DEF Pcs, Forward, Recovering, QuietPcs, SwapPcs, ControlLoops,
         StateLoops, Shape, PcOk
  <2> QED BY <1>3, <2>1 DEF Shape
<1>8. CASE /\ journal # NoJournal /\ journal.swap # NoSwap /\ pc' = "rootcheck"
           /\ UNCHANGED <<phase, op, todo, cas, seen, disabled, previousExact, clean>>
  <2>1. ProcOk' /\ PcOk' /\ CasOk'
    BY <1>1, <1>2, <1>8 DEF Shape, ProcOk, PcOk, CasOk, Pcs, Forward, Recovering, QuietPcs, SwapPcs,
         ControlLoops, StateLoops
  <2> QED BY <1>3, <2>1 DEF Shape
<1> QED BY <1>4, <1>5, <1>6, <1>7, <1>8 DEF RecoverBegin

LEMMA RecoverReadFaultShape ==
  ASSUME Shape, RecoverReadFault
  PROVE  Shape'
<1>1. EnvOk'
  BY ConstantsAssumption DEF ConstantsAssumption, RecoverReadFault, Shape, EnvOk
<1>2. UNCHANGED <<file, roots, sideFiles>>
  BY DEF RecoverReadFault
<1>3. CASE Quarantine("invalid")
  BY <1>1, <1>2, <1>3, QuarantineShape
<1>4. CASE RejectAdmission /\ UNCHANGED <<journal, quarantine>>
  <2>1. ProcOk' /\ PcOk' /\ CasOk'
    BY <1>2, <1>4, RejectShape DEF RecoverReadFault
  <2>2. DiskOk' /\ FileOk'
    BY <1>2 DEF Shape, DiskOk, FileOk, roots
  <2> QED BY <1>1, <1>4, <2>1, <2>2 DEF Shape
<1> QED BY <1>3, <1>4 DEF RecoverReadFault

(* The moves of RecoverReleaseRootSwap. *)
LEMMA RootPcs ==
  ASSUME Shape, pc \in Recovering
  PROVE  /\ journal # NoJournal /\ phase # "run"
         /\ pc # "restore" => cas = NoCas
         /\ pc \in SwapPcs => journal.swap \in Swaps
<1>1. journal # NoJournal
  BY DEF Shape, PcOk, Recovering, QuietPcs
<1>2. journal.swap \in Swaps \cup {NoSwap}
  BY <1>1, JournaledImages DEF Images, Journals
<1> QED BY <1>1, <1>2, NoCasOutsideLoops DEF Shape, PcOk, Recovering, Forward, LoopPcs, ControlLoops, StateLoops

LEMMA RootCheckShape ==
  ASSUME Shape, RecoverRootCheck
  PROVE  Shape'
<1>1. EnvOk' /\ UNCHANGED <<file, roots, sideFiles>>
  BY DEF RecoverRootCheck, Shape, EnvOk, env
<1>2. CASE Quarantine("roots")
  BY <1>1, <1>2, QuarantineShape
<1>3. CASE ~Quarantine("roots")
  <2>1. /\ seen' = displaced /\ pc' = "rootclear" /\ pc = "rootcheck"
        /\ UNCHANGED <<phase, op, todo, cas, disabled, previousExact, clean, journal, quarantine>>
    BY <1>3 DEF RecoverRootCheck
  <2>2. DiskOk' /\ FileOk'
    BY <1>1 DEF Shape, DiskOk, FileOk, roots
  <2>3. ProcOk' /\ PcOk'
    BY <2>1 DEF Shape, DiskOk, ProcOk, PcOk, Pcs, Forward, Recovering, QuietPcs, SwapPcs,
         ControlLoops, StateLoops
  <2>4. CasOk'
    BY <2>1, NoCasOutsideLoops DEF Shape, CasOk, LoopPcs, ControlLoops, StateLoops
  <2> QED BY <1>1, <2>1, <2>2, <2>3, <2>4 DEF Shape
<1> QED BY <1>2, <1>3

(* A recovery step that goes on to another recovery step or to the end.    *)
LEMMA RecoveryGotoShape ==
  ASSUME Shape, pc \in Recovering, cas = NoCas, DiskOk', EnvOk',
         UNCHANGED <<file, journal>>,
         NEW next \in {"rootrestore", "rootstaging", "foreigncheck", "restore", "retire"},
         NEW left \in SUBSET Journaled, Goto(next, left),
         next \in SwapPcs => journal.swap # NoSwap
  PROVE  Shape'
<1>1. journal # NoJournal /\ phase # "run" /\ Journaled \subseteq Paths
  BY RootPcs, JournaledImages
<1>2. ProcOk' /\ PcOk' /\ CasOk'
  BY <1>1, GotoShape DEF Pcs, Forward, Recovering, QuietPcs, SwapPcs, ControlLoops, StateLoops
<1>3. FileOk'
  BY DEF Shape, FileOk
<1> QED BY <1>2, <1>3 DEF Shape

LEMMA RootClearShape ==
  ASSUME Shape, RecoverRootClear
  PROVE  Shape'
<1>1. pc = "rootclear" /\ pc \in Recovering /\ pc \in SwapPcs /\ EnvOk'
      /\ UNCHANGED <<file, staging, displaced, sideFiles>>
  BY DEF RecoverRootClear, Recovering, SwapPcs, Shape, EnvOk, env
<1>2. journal.swap \in Swaps /\ cas = NoCas /\ journal.swap # NoSwap
  BY <1>1, RootPcs, MarkersAssumption DEF MarkersAssumption
<1>3. CASE Quarantine("roots") /\ UNCHANGED <<tree, failed>>
  BY <1>1, <1>3, QuarantineShape DEF roots
<1>4. CASE Goto("rootrestore", {}) /\ UNCHANGED journal
  <2>1. tree' \in [Releases -> Slot] /\ failed' \in Slot
    BY <1>2, <1>4 DEF RecoverRootClear, Shape, DiskOk, Swaps, Slot, Quarantine, Exit, Goto
  <2>2. DiskOk'
    BY <1>1, <2>1 DEF Shape, DiskOk
  <2> QED BY <1>1, <1>2, <1>4, <2>2, RecoveryGotoShape
<1> QED BY <1>3, <1>4 DEF RecoverRootClear

LEMMA RootRestoreShape ==
  ASSUME Shape, RecoverRootRestore
  PROVE  Shape'
<1>1. pc = "rootrestore" /\ pc \in Recovering /\ pc \in SwapPcs /\ EnvOk'
      /\ UNCHANGED <<file, staging, failed, sideFiles>>
  BY DEF RecoverRootRestore, Recovering, SwapPcs, Shape, EnvOk, env
<1>2. journal.swap \in Swaps /\ cas = NoCas /\ journal.swap # NoSwap
  BY <1>1, RootPcs, MarkersAssumption DEF MarkersAssumption
<1>3. CASE Quarantine("roots") /\ UNCHANGED <<tree, displaced>>
  BY <1>1, <1>3, QuarantineShape DEF roots
<1>4. CASE ~(Quarantine("roots") /\ UNCHANGED <<tree, displaced>>)
  <2>1. tree' \in [Releases -> Slot] /\ displaced' \in Slot /\ journal' = journal
    BY <1>2, <1>4 DEF RecoverRootRestore, Shape, DiskOk, Swaps, Slot
  <2>2. DiskOk' /\ FileOk'
    BY <1>1, <2>1 DEF Shape, DiskOk, FileOk
  <2>3. CASE Goto("rootstaging", {})
    BY <1>1, <1>2, <2>1, <2>2, <2>3, RecoveryGotoShape
  <2>4. CASE Throw(StatePath)
    BY <1>1, <2>1, <2>2, <2>4, ThrowShape DEF Shape
  <2> QED BY <1>4, <2>3, <2>4 DEF RecoverRootRestore
<1> QED BY <1>3, <1>4

LEMMA RootStagingShape ==
  ASSUME Shape, RecoverRootStaging
  PROVE  Shape'
<1>1. pc = "rootstaging" /\ pc \in Recovering /\ pc \in SwapPcs /\ EnvOk'
      /\ UNCHANGED <<file, tree, displaced, sideFiles>>
  BY DEF RecoverRootStaging, Recovering, SwapPcs, Shape, EnvOk, env
<1>2. cas = NoCas
  BY <1>1, RootPcs
<1>3. CASE Quarantine("roots") /\ UNCHANGED <<staging, failed>>
  BY <1>1, <1>3, QuarantineShape DEF roots
<1>4. CASE Goto("foreigncheck", {}) /\ UNCHANGED journal
  <2>1. DiskOk'
    BY <1>1, <1>4 DEF RecoverRootStaging, Shape, DiskOk, Slot, Quarantine, Exit, Goto
  <2> QED BY <1>1, <1>2, <1>4, <2>1, RecoveryGotoShape DEF SwapPcs
<1> QED BY <1>3, <1>4 DEF RecoverRootStaging

LEMMA ForeignCheckShape ==
  ASSUME Shape, RecoverForeignCheck
  PROVE  Shape'
<1>1. pc = "foreigncheck" /\ pc \in Recovering /\ EnvOk' /\ DiskOk'
      /\ UNCHANGED <<file, roots, sideFiles>>
  BY DEF RecoverForeignCheck, Recovering, Shape, EnvOk, env, DiskOk, roots
<1>2. CASE Quarantine("foreign")
  BY <1>1, <1>2, QuarantineShape
<1>3. CASE Goto("restore", Journaled) /\ UNCHANGED journal
  BY <1>1, <1>3, RootPcs, RecoveryGotoShape DEF SwapPcs
<1> QED BY <1>2, <1>3 DEF RecoverForeignCheck

(* The loops of recovery and of the rejection. *)
LEMMA LoopGotoShape ==
  ASSUME Shape, UNCHANGED <<disk, env>>, pc \in LoopPcs, cas = NoCas, NEW p,
         Goto(pc, todo \ {p})
  PROVE  Shape'
<1>1. DiskOk' /\ EnvOk' /\ FileOk' /\ journal' = journal /\ file' = file
      /\ (journal' # NoJournal => JournalOk(journal'))
  BY DiskShape DEF disk
<1>2. pc' = pc /\ todo' = todo \ {p}
      /\ UNCHANGED <<phase, op, cas, seen, disabled, previousExact, clean>>
  BY DEF Goto
<1>3. ProcOk' /\ PcOk' /\ CasOk'
  BY <1>1, <1>2 DEF Shape, ProcOk, PcOk, CasOk, Journaled, JournaledControls
<1> QED BY <1>1, <1>3 DEF Shape

LEMMA RestoreShape ==
  ASSUME Shape, NEW p \in Paths, RestoreControl(p)
  PROVE  Shape'
<1>1. pc \in LoopPcs /\ p \in todo /\ cas = NoCas /\ UNCHANGED <<disk, env>>
  BY DEF RestoreControl, LoopPcs
<1>2. CASE Goto("restore", todo \ {p})
  BY <1>1, <1>2, LoopGotoShape DEF RestoreControl
<1>3. CASE CasStart(p, journal.after[p], journal.before[p])
  <2>1. MayExchange(p, journal.after[p], journal.before[p])
    BY <1>1, LoopsJournaled, ImagesExchange
  <2> QED BY <1>1, <1>3, <2>1, DiskShape, CasStartShape DEF Shape, disk
<1> QED BY <1>2, <1>3 DEF RestoreControl

LEMMA DisableShape ==
  ASSUME Shape, NEW p \in Paths, DisableControl(p)
  PROVE  Shape'
<1>1. pc \in LoopPcs /\ p \in todo /\ cas = NoCas /\ UNCHANGED <<disk, env>>
  BY DEF DisableControl, LoopPcs, ControlLoops, StateLoops
<1>2. CASE Goto(pc, todo \ {p})
  BY <1>1, <1>2, LoopGotoShape
<1>3. CASE CasStart(p, journal.after[p], Absent) \/ CasStart(p, journal.before[p], Absent)
  <2>1. MayExchange(p, journal.after[p], Absent) /\ MayExchange(p, journal.before[p], Absent)
    BY <1>1, LoopsJournaled, ImagesExchange
  <2>2. UNCHANGED <<file, journal>>
    BY <1>1 DEF disk
  <2>3. ProcOk' /\ PcOk' /\ CasOk'
    BY <1>1, <1>3, <2>1, <2>2, CasStartShape
  <2> QED BY <1>1, <2>3, DiskShape DEF Shape
<1> QED BY <1>2, <1>3 DEF DisableControl

LEMMA ReinstateShape ==
  ASSUME Shape, NEW p \in Paths, ReinstateControl(p)
  PROVE  Shape'
<1>1. pc \in LoopPcs /\ p \in todo /\ cas = NoCas /\ UNCHANGED <<disk, env>>
  BY DEF ReinstateControl, LoopPcs, ControlLoops, StateLoops
<1>2. CASE Goto(pc, todo \ {p})
  BY <1>1, <1>2, LoopGotoShape
<1>3. CASE \/ CasStart(p, Absent, journal.before[p])
           \/ CasStart(p, journal.after[p], journal.before[p])
  <2>1. /\ MayExchange(p, Absent, journal.before[p])
        /\ MayExchange(p, journal.after[p], journal.before[p])
    BY <1>1, LoopsJournaled, ImagesExchange
  <2>2. UNCHANGED <<file, journal>>
    BY <1>1 DEF disk
  <2>3. ProcOk' /\ PcOk' /\ CasOk'
    BY <1>1, <1>3, <2>1, <2>2, CasStartShape
  <2> QED BY <1>1, <2>3, DiskShape DEF Shape
<1> QED BY <1>2, <1>3 DEF ReinstateControl

LEMMA QuarantineRejectedShape ==
  ASSUME Shape, QuarantineRejected
  PROVE  Shape'
BY QuarantineShape DEF QuarantineRejected, Shape, EnvOk, env

LEMMA LoopEndShape ==
  ASSUME Shape, LoopEnd
  PROVE  Shape'
<1>1. cas = NoCas /\ todo = {} /\ pc \in LoopPcs
  BY DEF LoopEnd, LoopPcs, ControlLoops, StateLoops
<1>2. journal # NoJournal /\ Journaled \subseteq Paths
  BY <1>1, LoopsJournaled, JournaledImages
<1>3. DiskOk' /\ EnvOk' /\ FileOk' /\ journal' = journal /\ file' = file
      /\ (journal' # NoJournal => JournalOk(journal'))
  BY DiskShape DEF LoopEnd, disk
<1>4. JournaledControls \in SUBSET Paths /\ {StatePath} \in SUBSET Paths
  BY <1>2 DEF JournaledControls, Paths
<1>5. PICK next \in {"validate", "retire", "reinstate", "disablestate", "reinstatestate", "quarantine"},
           left \in {{}, JournaledControls, {StatePath}} :
        /\ Goto(next, left)
        /\ next = "validate" => pc = "activate"
        /\ next = "retire" => pc \in {"commit", "restore"}
        /\ next \in Rejecting \cup {"quarantine"} => pc \in Rejecting
        /\ next = "reinstate" => left \subseteq JournaledControls
        /\ next \in {"disablestate", "reinstatestate"} => left \subseteq {StatePath}
  BY DEF LoopEnd, Rejecting
<1>6. pc' = next /\ todo' = left
      /\ UNCHANGED <<phase, op, cas, seen, disabled, previousExact, clean>>
  BY <1>5 DEF Goto
<1>7. ProcOk'
  BY <1>4, <1>6 DEF Shape, ProcOk, Pcs, Forward, Rejecting
<1>8. PcOk'
  BY <1>2, <1>3, <1>5, <1>6 DEF Shape, PcOk, QuietPcs, SwapPcs, Forward, ControlLoops, StateLoops,
       Rejecting, Journaled, JournaledControls
<1>9. CasOk'
  BY <1>1, <1>6 DEF Shape, CasOk
<1> QED BY <1>3, <1>7, <1>8, <1>9 DEF Shape

(* The compare-and-swap itself. *)
LEMMA CasFields ==
  ASSUME Shape, cas # NoCas
  PROVE  /\ cas \in CasRecords /\ pc \in LoopPcs
         /\ cas.path \in Paths /\ cas.path \in todo
         /\ cas.expect \in Contents /\ cas.new \in Contents /\ cas.side \in Contents
BY DEF Shape, CasOk, CasRecords

LEMMA SideFileType ==
  ASSUME Shape
  PROVE  InSideFile \subseteq Paths \X Contents
BY CasFields DEF InSideFile

LEMMA PutShape ==
  ASSUME Shape, NEW p \in Paths, NEW v \in Contents, file' = [file EXCEPT ![p] = v],
         p = StatePath => v \in States, p \in Controls => v \in ControlContents,
         UNCHANGED roots, UNCHANGED env, sideFiles' \subseteq Paths \X Contents
  PROVE  DiskOk' /\ EnvOk' /\ FileOk'
<1>1. \A q \in Paths : file'[q] = IF q = p THEN v ELSE file[q]
  BY DEF Shape, DiskOk
<1>2. StatePath \in Paths /\ Controls \subseteq Paths
  BY DEF Paths
<1>3. FileOk'
  BY <1>1, <1>2, PathsSplit DEF Shape, FileOk
<1>4. DiskOk' /\ EnvOk'
  BY DEF Shape, DiskOk, EnvOk, roots, env
<1> QED BY <1>3, <1>4

LEMMA CasReturnShape ==
  ASSUME Shape, cas # NoCas, CasReturn, UNCHANGED journal
  PROVE  ProcOk' /\ PcOk' /\ CasOk'
<1>1. cas.path \in Paths
  BY CasFields
<1>2. ProcOk'
  BY <1>1 DEF CasReturn, Shape, ProcOk
<1>3. PcOk'
  BY DEF CasReturn, Shape, PcOk, Journaled, JournaledControls
<1>4. CasOk'
  BY DEF CasReturn, CasOk
<1> QED BY <1>2, <1>3, <1>4

LEMMA CasSwapShape ==
  ASSUME Shape, CasSwap
  PROVE  Shape'
<1>1. cas # NoCas /\ cas.step = "swap"
      /\ UNCHANGED <<roots, journal, quarantine, sideFiles, env>>
  BY DEF CasSwap
<1>2. cas \in CasRecords /\ cas.path \in Paths /\ cas.path \in todo /\ pc \in LoopPcs
      /\ cas.expect \in Contents /\ cas.new \in Contents
  BY <1>1, CasFields
<1>3. MayExchange(cas.path, cas.expect, cas.new)
  BY <1>1 DEF Shape, CasOk, MayExchange
<1>4. journal' # NoJournal => JournalOk(journal')
  BY <1>1 DEF Shape
<1>5. CASE file' = [file EXCEPT ![cas.path] = cas.new]
  <2>1. DiskOk' /\ EnvOk' /\ FileOk'
    BY <1>1, <1>2, <1>3, <1>5, PutShape DEF MayExchange, Shape, DiskOk
  <2>2. CASE CasReturn
    BY <1>1, <1>4, <2>1, <2>2, CasReturnShape DEF Shape
  <2>3. CASE /\ cas' = [cas EXCEPT !.step = "verify", !.side = file[cas.path]]
             /\ UNCHANGED <<pc, phase, op, todo, seen, disabled, previousExact, clean>>
             /\ file[cas.path] # Absent
    <3>1. ProcOk' /\ PcOk'
      BY <1>1, <2>3 DEF Shape, ProcOk, PcOk, Journaled, JournaledControls
    <3>2. cas' \in CasRecords /\ cas'.path = cas.path /\ cas'.expect = cas.expect
          /\ cas'.new = cas.new /\ cas'.step = "verify" /\ cas'.side = file[cas.path]
      BY <1>2, <2>3 DEF CasRecords, Shape, DiskOk
    <3>3. cas'.side \in Foreign \cup {cas'.expect}
      BY <1>1, <2>3, <3>2 DEF Shape, CasOk
    <3>4. /\ cas'.path = StatePath => cas'.side \in States
          /\ cas'.path \in Controls => cas'.side \in ControlContents
      BY <3>2 DEF Shape, FileOk
    <3>5. CasOk'
      BY <1>2, <1>3, <2>3, <3>2, <3>3, <3>4 DEF CasOk, MayExchange
    <3> QED BY <1>4, <2>1, <3>1, <3>5 DEF Shape
  <2>4. CASE Throw(cas.path)
    BY <1>1, <1>4, <2>1, <2>4, ThrowShape DEF Shape
  <2> QED BY <1>5, <2>2, <2>3, <2>4 DEF CasSwap
<1>6. CASE Throw(cas.path) /\ UNCHANGED file
  <2>1. DiskOk' /\ EnvOk' /\ FileOk'
    BY <1>1, <1>6 DEF Shape, DiskOk, EnvOk, FileOk, roots, env
  <2> QED BY <1>1, <1>4, <1>6, <2>1, ThrowShape DEF Shape
<1> QED BY <1>5, <1>6 DEF CasSwap

LEMMA CasVerifyShape ==
  ASSUME Shape, CasVerify
  PROVE  Shape'
<1>1. cas # NoCas /\ cas.step = "verify"
      /\ UNCHANGED <<file, roots, journal, quarantine, env>>
  BY DEF CasVerify
<1>2. cas \in CasRecords /\ cas.side \in Contents
  BY <1>1, CasFields
<1>3. sideFiles' \subseteq Paths \X Contents
  BY <1>1, SideFileType DEF CasVerify, Shape, DiskOk
<1>4. DiskOk' /\ EnvOk' /\ FileOk' /\ (journal' # NoJournal => JournalOk(journal'))
  BY <1>1, <1>3 DEF Shape, DiskOk, EnvOk, FileOk, roots, env
<1>5. CASE CasReturn
  BY <1>1, <1>4, <1>5, CasReturnShape DEF Shape
<1>6. CASE /\ cas.side # cas.expect /\ cas' = [cas EXCEPT !.step = "putback"]
           /\ UNCHANGED <<pc, phase, op, todo, seen, disabled, previousExact, clean>>
  <2>1. ProcOk' /\ PcOk'
    BY <1>1, <1>6 DEF Shape, ProcOk, PcOk, Journaled, JournaledControls
  <2>2. cas' \in CasRecords /\ cas'.path = cas.path /\ cas'.expect = cas.expect
        /\ cas'.new = cas.new /\ cas'.step = "putback" /\ cas'.side = cas.side
    BY <1>2, <1>6 DEF CasRecords
  <2>3. CasOk'
    BY <1>1, <1>6, <2>2 DEF Shape, CasOk
  <2> QED BY <1>4, <2>1, <2>3 DEF Shape
<1>7. CASE Throw(cas.path)
  BY <1>1, <1>4, <1>7, ThrowShape DEF Shape
<1> QED BY <1>5, <1>6, <1>7 DEF CasVerify

LEMMA CasPutBackShape ==
  ASSUME Shape, CasPutBack
  PROVE  Shape'
<1>1. cas # NoCas /\ cas.step = "putback" /\ Throw(cas.path)
      /\ UNCHANGED <<roots, journal, quarantine, env>>
  BY DEF CasPutBack
<1>2. cas.path \in Paths /\ cas.side \in Contents
  BY <1>1, CasFields
<1>3. sideFiles' \subseteq Paths \X Contents
  BY <1>1, SideFileType DEF CasPutBack, Shape, DiskOk
<1>4. /\ cas.path = StatePath => cas.side \in States
      /\ cas.path \in Controls => cas.side \in ControlContents
  BY <1>1 DEF Shape, CasOk
<1>5. CASE file' = [file EXCEPT ![cas.path] = cas.side]
  <2>1. DiskOk' /\ EnvOk' /\ FileOk'
    BY <1>1, <1>2, <1>3, <1>4, <1>5, PutShape
  <2> QED BY <1>1, <2>1, ThrowShape DEF Shape
<1>6. CASE UNCHANGED file
  <2>1. DiskOk' /\ EnvOk' /\ FileOk'
    BY <1>1, <1>3, <1>6 DEF Shape, DiskOk, EnvOk, FileOk, roots, env
  <2> QED BY <1>1, <2>1, ThrowShape DEF Shape
<1> QED BY <1>5, <1>6 DEF CasPutBack

(* Faults and the rest of the workstation. *)
LEMMA CrashShape ==
  ASSUME Shape, Crash
  PROVE  Shape'
<1>1. Exit /\ journal' = journal /\ UNCHANGED <<file, roots>>
  BY DEF Crash
<1>2. DiskOk' /\ FileOk'
  BY <1>1, SideFileType DEF Crash, Shape, DiskOk, FileOk, roots
<1>3. EnvOk'
  BY ConstantsAssumption DEF ConstantsAssumption, Crash, Shape, EnvOk
<1> QED BY <1>1, <1>2, <1>3, ExitShape DEF Shape

LEMMA IOFaultShape ==
  ASSUME Shape, IOFault
  PROVE  Shape'
<1>1. Throw(IF cas = NoCas THEN StatePath ELSE cas.path) /\ UNCHANGED disk
  BY DEF IOFault
<1>2. DiskOk' /\ FileOk' /\ journal' = journal
  BY <1>1 DEF Shape, DiskOk, FileOk, disk
<1>3. EnvOk'
  BY ConstantsAssumption DEF ConstantsAssumption, IOFault, Shape, EnvOk
<1> QED BY <1>1, <1>2, <1>3, ThrowShape DEF Shape

LEMMA SideFileFaultShape ==
  ASSUME Shape, SideFileFault
  PROVE  Shape'
<1>1. Throw(cas.path) /\ UNCHANGED <<file, roots, journal>>
  BY DEF SideFileFault
<1>2. sideFiles' \subseteq Paths \X Contents
  BY SideFileType DEF SideFileFault, Shape, DiskOk
<1>3. DiskOk' /\ FileOk'
  BY <1>1, <1>2 DEF Shape, DiskOk, FileOk, roots
<1>4. EnvOk'
  BY ConstantsAssumption DEF ConstantsAssumption, SideFileFault, Shape, EnvOk
<1> QED BY <1>1, <1>3, <1>4, ThrowShape DEF Shape

LEMMA EditControlShape ==
  ASSUME Shape, NEW c \in Controls, NEW v \in Foreign \cup {Absent}, EditControl(c, v)
  PROVE  Shape'
<1>1. file' = [file EXCEPT ![c] = v] /\ UNCHANGED <<roots, journal, sideFiles, proc>>
  BY DEF EditControl
<1>2. c \in Paths /\ c # StatePath /\ v \in Contents /\ v \in ControlContents
  BY ConstantsAssumption DEF ConstantsAssumption, Paths, Contents, ControlContents, Manifest
<1>3. \A q \in Paths : file'[q] = IF q = c THEN v ELSE file[q]
  BY <1>1, <1>2 DEF Shape, DiskOk
<1>4. DiskOk' /\ FileOk'
  BY <1>1, <1>2, <1>3 DEF Shape, DiskOk, FileOk, roots, Paths
<1>5. EnvOk'
  BY ConstantsAssumption DEF ConstantsAssumption, EditControl, Shape, EnvOk
<1>6. ProcOk' /\ PcOk'
  BY <1>1 DEF Shape, ProcOk, PcOk, proc, Journaled, JournaledControls
<1>7. CasOk'
  <2>1. cas' = cas /\ pc' = pc /\ todo' = todo
    BY <1>1 DEF proc
  <2>2. cas # NoCas => cas.path \in Paths
    BY CasFields
  <2> QED BY <1>3, <2>1, <2>2 DEF Shape, CasOk
<1> QED BY <1>1, <1>4, <1>5, <1>6, <1>7 DEF Shape

LEMMA AlteredTrees ==
  ASSUME NEW t \in Slot, t # NoTree, NEW u \in Altered(t)
  PROVE  u \in Slot
<1>1. t \in Trees
  BY DEF Slot
<1>2. PICK c \in t.parts : u = [t EXCEPT !.bad = @ \cup {c}]
  BY DEF Altered
<1>3. u \in Trees
  BY <1>1, <1>2 DEF Trees
<1> QED BY <1>3 DEF Slot

LEMMA AlterTreeShape ==
  ASSUME Shape, AlterTree
  PROVE  Shape'
<1>1. UNCHANGED <<file, journal, sideFiles, proc>>
  BY DEF AlterTree
<1>2. tree' \in [Releases -> Slot]
  <2>1. CASE UNCHANGED tree
    BY <2>1 DEF Shape, DiskOk
  <2>2. CASE ~UNCHANGED tree
    <3>1. PICK r \in Releases : /\ tree[r] # NoTree
                                /\ \E t \in Altered(tree[r]) : tree' = [tree EXCEPT ![r] = t]
      BY <2>2 DEF AlterTree
    <3>2. PICK t \in Altered(tree[r]) : tree' = [tree EXCEPT ![r] = t]
      BY <3>1
    <3>3. t \in Slot
      BY <3>1, AlteredTrees DEF Shape, DiskOk
    <3> QED BY <3>2, <3>3 DEF Shape, DiskOk
  <2> QED BY <2>1, <2>2
<1>3. staging' \in Slot /\ displaced' \in Slot /\ failed' \in Slot
  BY AlteredTrees DEF AlterTree, Shape, DiskOk
<1>4. DiskOk' /\ FileOk'
  BY <1>1, <1>2, <1>3 DEF Shape, DiskOk, FileOk
<1>5. EnvOk'
  BY ConstantsAssumption DEF ConstantsAssumption, AlterTree, Shape, EnvOk
<1>6. ProcOk' /\ PcOk' /\ CasOk'
  BY <1>1 DEF Shape, ProcOk, PcOk, CasOk, proc, Journaled, JournaledControls
<1> QED BY <1>1, <1>4, <1>5, <1>6 DEF Shape

LEMMA QuietShape ==
  ASSUME Shape, UNCHANGED <<disk, proc>>, EnvOk'
  PROVE  Shape'
<1>1. DiskOk' /\ FileOk' /\ journal' = journal /\ file' = file
  BY DEF Shape, DiskOk, FileOk, disk
<1>2. ProcOk' /\ PcOk' /\ CasOk'
  BY <1>1 DEF Shape, ProcOk, PcOk, CasOk, proc, Journaled, JournaledControls
<1> QED BY <1>1, <1>2 DEF Shape

LEMMA InitShape ==
  Init => Shape
<1> SUFFICES ASSUME Init PROVE Shape
  OBVIOUS
<1>1. StatePath \in Paths /\ Controls \subseteq Paths
  BY DEF Paths
<1>2. DiskOk /\ FileOk
  BY <1>1 DEF Init, DiskOk, FileOk, Contents, Slot, States, ControlContents, Manifest
<1>3. ProcOk /\ PcOk /\ CasOk
  BY DEF Init, ProcOk, PcOk, CasOk, Pcs, NoOp, Slot, QuietPcs, SwapPcs, Forward, ControlLoops,
       StateLoops
<1>4. EnvOk
  <2>1. revit \in BOOLEAN /\ unreadable \in BOOLEAN
    BY Zenon DEF Init
  <2>2. commands = 0 /\ faults = 0 /\ thirdParty = 0
    BY DEF Init
  <2> QED BY <2>1, <2>2, ConstantsAssumption DEF ConstantsAssumption, EnvOk
<1> QED BY <1>2, <1>3, <1>4 DEF Init, Shape

LEMMA NextShape ==
  ASSUME Shape, [Next]_vars
  PROVE  Shape'
<1>1. ASSUME NEW o \in Commands, Execute(o) PROVE Shape'
  BY <1>1, ExecuteShape
<1>2. CASE ProcessStep
  <2>1. CASE \/ PlanInstall \/ PlanRollback \/ BeginActivationJournal
             \/ DisplaceRoot \/ PlaceRoot \/ AssertReleaseRootMatches
             \/ ValidateActivatedRelease \/ MarkCommit \/ CommitState \/ Retire
    BY <2>1, PlanInstallShape, PlanRollbackShape, BeginShape, DisplaceShape, PlaceShape,
       AssertShape, ValidateShape, MarkShape, CommitShape, RetireShape
  <2>2. CASE \/ RecoverBegin \/ RecoverRootCheck \/ RecoverRootClear \/ RecoverRootRestore
             \/ RecoverRootStaging \/ RecoverForeignCheck \/ QuarantineRejected
    BY <2>2, RecoverBeginShape, RootCheckShape, RootClearShape, RootRestoreShape,
       RootStagingShape, ForeignCheckShape, QuarantineRejectedShape
  <2>3. ASSUME NEW p \in Paths, \/ ActivateControl(p) \/ RestoreControl(p)
                                \/ DisableControl(p) \/ ReinstateControl(p)
        PROVE  Shape'
    BY <2>3, ActivateShape, RestoreShape, DisableShape, ReinstateShape
  <2>4. CASE LoopEnd \/ CasSwap \/ CasVerify \/ CasPutBack
    BY <2>4, LoopEndShape, CasSwapShape, CasVerifyShape, CasPutBackShape
  <2> QED BY <1>2, <2>1, <2>2, <2>3, <2>4 DEF ProcessStep
<1>3. CASE Crash \/ IOFault \/ SideFileFault \/ RecoverReadFault
  BY <1>3, CrashShape, IOFaultShape, SideFileFaultShape, RecoverReadFaultShape
<1>4. ASSUME NEW c \in Controls, NEW v \in Foreign \cup {Absent}, EditControl(c, v) PROVE Shape'
  BY <1>4, EditControlShape
<1>5. CASE AlterTree
  BY <1>5, AlterTreeShape
<1>6. CASE RevitStartsOrExits
  BY <1>6, QuietShape DEF RevitStartsOrExits, Shape, EnvOk
<1>7. CASE UNCHANGED vars
  BY <1>7, QuietShape DEF vars, env, Shape, EnvOk
<1> QED BY <1>1, <1>2, <1>3, <1>4, <1>5, <1>6, <1>7 DEF Next

THEOREM ShapeHolds == Spec => []Shape
<1>1. Shape /\ [Next]_vars => Shape'
  BY NextShape
<1> QED BY InitShape, <1>1, PTL DEF Spec

LEMMA ShapeTypes ==
  Shape => TypeOK
<1>1. CasOk => cas \in CasRecords \cup {NoCas}
  BY DEF CasOk
<1>2. ASSUME JournalOk(journal)
      PROVE  \E dom \in SUBSET Paths : journal \in Journals(dom)
  BY <1>2 DEF JournalOk, Images
<1> QED BY <1>1, <1>2 DEF Shape, DiskOk, ProcOk, EnvOk, TypeOK

(* Every variable keeps its type: whatever is interrupted, edited or       *)
(* recovered, what OperatorDeploy reads back is a file, a tree, a journal  *)
(* or a state of the kind it wrote.                                        *)
THEOREM DeployTypeCorrect == Spec => []TypeOK
BY ShapeHolds, ShapeTypes, PTL

-----------------------------------------------------------------------------
(* What becomes of a manifest that somebody else wrote. *)

LEMMA SurvivesOutsideCas ==
  ASSUME UNCHANGED <<file, sideFiles>>, cas = NoCas \/ cas.step = "swap" \/ UNCHANGED cas,
         NEW a, NEW v, Survives(a, v)
  PROVE  Survives(a, v)'
BY DEF Survives, InSideFile

(* Outside a compare-and-swap the process touches neither a control nor a  *)
(* side file.                                                              *)
LEMMA SurvivesProcess ==
  ASSUME Shape, ProcessStep, ~CasSwap, ~CasVerify, ~CasPutBack, NEW a, NEW v, Survives(a, v)
  PROVE  Survives(a, v)'
<1>1. UNCHANGED <<file, sideFiles, env>>
  <2>1. CASE \/ PlanInstall \/ PlanRollback \/ BeginActivationJournal
             \/ DisplaceRoot \/ PlaceRoot \/ AssertReleaseRootMatches
             \/ ValidateActivatedRelease \/ MarkCommit \/ CommitState \/ Retire
    BY <2>1 DEF PlanInstall, PlanRollback, BeginActivationJournal, DisplaceRoot, PlaceRoot,
         AssertReleaseRootMatches, ValidateActivatedRelease, MarkCommit, CommitState, Retire, disk
  <2>2. CASE \/ RecoverBegin \/ RecoverRootCheck \/ RecoverRootClear \/ RecoverRootRestore
             \/ RecoverRootStaging \/ RecoverForeignCheck \/ QuarantineRejected \/ LoopEnd
    BY <2>2 DEF RecoverBegin, RecoverRootCheck, RecoverRootClear, RecoverRootRestore,
         RecoverRootStaging, RecoverForeignCheck, QuarantineRejected, LoopEnd, disk
  <2>3. ASSUME NEW p \in Paths, \/ ActivateControl(p) \/ RestoreControl(p)
                                \/ DisableControl(p) \/ ReinstateControl(p)
        PROVE  UNCHANGED <<file, sideFiles, env>>
    BY <2>3 DEF ActivateControl, RestoreControl, DisableControl, ReinstateControl, disk
  <2> QED BY <2>1, <2>2, <2>3 DEF ProcessStep
<1>2. cas = NoCas
  <2>1. CASE pc \notin LoopPcs
    BY <2>1, NoCasOutsideLoops
  <2>2. CASE pc \in LoopPcs
    <3>1. ASSUME NEW p \in Paths, \/ ActivateControl(p) \/ RestoreControl(p)
                                  \/ DisableControl(p) \/ ReinstateControl(p)
          PROVE  cas = NoCas
      BY <3>1 DEF ActivateControl, RestoreControl, DisableControl, ReinstateControl
    <3>2. CASE CommitState \/ LoopEnd
      BY <3>2 DEF CommitState, LoopEnd
    <3>3. ~(\/ PlanInstall \/ PlanRollback \/ BeginActivationJournal
            \/ DisplaceRoot \/ PlaceRoot \/ AssertReleaseRootMatches
            \/ ValidateActivatedRelease \/ MarkCommit \/ Retire)
      BY <2>2 DEF PlanInstall, PlanRollback, BeginActivationJournal, DisplaceRoot, PlaceRoot,
         AssertReleaseRootMatches, ValidateActivatedRelease, MarkCommit, Retire,
         LoopPcs, ControlLoops, StateLoops
    <3>4. ~(\/ RecoverBegin \/ RecoverRootCheck \/ RecoverRootClear \/ RecoverRootRestore
            \/ RecoverRootStaging \/ RecoverForeignCheck \/ QuarantineRejected)
      BY <2>2 DEF RecoverBegin, RecoverRootCheck, RecoverRootClear, RecoverRootRestore,
         RecoverRootStaging, RecoverForeignCheck, QuarantineRejected,
         LoopPcs, ControlLoops, StateLoops
    <3> QED BY <3>1, <3>2, <3>3, <3>4 DEF ProcessStep
  <2> QED BY <2>1, <2>2
<1> QED BY <1>1, <1>2, SurvivesOutsideCas

(* The swap moves what it finds into the side file. *)
LEMMA SurvivesCasSwap ==
  ASSUME Shape, CasSwap, NEW a \in Addins, NEW v \in Foreign, Survives(a, v)
  PROVE  Survives(a, v)'
<1>1. cas # NoCas /\ cas.step = "swap" /\ UNCHANGED sideFiles
      /\ cas \in CasRecords /\ cas.path \in Paths /\ a \in Paths
  BY CasFields DEF CasSwap, Paths, Controls
<1>2. CASE UNCHANGED file
  BY <1>1, <1>2, SurvivesOutsideCas
<1>3. CASE file' = [file EXCEPT ![cas.path] = cas.new] /\ a # cas.path
  BY <1>1, <1>3 DEF Survives, InSideFile, Shape, DiskOk
<1>4. CASE file' = [file EXCEPT ![cas.path] = cas.new] /\ a = cas.path /\ file[a] # v
  BY <1>1, <1>4 DEF Survives, InSideFile
<1>5. CASE ~UNCHANGED file /\ a = cas.path /\ file[a] = v
  <2>1. file[cas.path] # Absent
    BY <1>5, MarkersAssumption DEF MarkersAssumption
  <2>2. cas' = [cas EXCEPT !.step = "verify", !.side = file[cas.path]]
    BY <1>5, <2>1 DEF CasSwap
  <2>3. cas' \in CasRecords /\ cas'.step = "verify" /\ cas'.side = v /\ cas'.path = a
    BY <1>1, <1>5, <2>2 DEF CasRecords, Shape, DiskOk
  <2>4. cas' # NoCas
    BY <2>3, MarkersAssumption DEF MarkersAssumption
  <2> QED BY <2>3, <2>4 DEF Survives, InSideFile
<1> QED BY <1>2, <1>3, <1>4, <1>5 DEF CasSwap

(* What was displaced is dropped only when it is what was expected, and    *)
(* that is never foreign.                                                  *)
LEMMA SurvivesCasVerify ==
  ASSUME Shape, CasVerify, NEW a \in Addins, NEW v \in Foreign, Survives(a, v)
  PROVE  Survives(a, v)'
<1>1. cas # NoCas /\ cas.step = "verify" /\ UNCHANGED file /\ sideFiles \subseteq sideFiles'
      /\ cas \in CasRecords
  BY CasFields DEF CasVerify
<1>2. CASE file[a] = v \/ <<a, v>> \in sideFiles
  BY <1>1, <1>2 DEF Survives
<1>3. CASE cas.path = a /\ cas.side = v
  <2>1. cas.side # cas.expect
    BY <1>1, <1>3 DEF Shape, CasOk
  <2>2. CASE cas' = [cas EXCEPT !.step = "putback"]
    <3>1. cas' \in CasRecords /\ cas'.step = "putback" /\ cas'.side = v /\ cas'.path = a
      BY <1>1, <1>3, <2>2 DEF CasRecords
    <3>2. cas' # NoCas
      BY <3>1, MarkersAssumption DEF MarkersAssumption
    <3> QED BY <3>1, <3>2 DEF Survives, InSideFile
  <2>3. CASE sideFiles' = sideFiles \cup InSideFile
    BY <1>1, <1>3, <2>3 DEF Survives, InSideFile
  <2> QED BY <2>1, <2>2, <2>3 DEF CasVerify
<1> QED BY <1>1, <1>2, <1>3 DEF Survives, InSideFile

(* The put-back returns what the side file holds, or leaves it there; what *)
(* it writes over is a second edit.                                        *)
LEMMA SurvivesCasPutBack ==
  ASSUME Shape, CasPutBack, NEW a \in Addins, NEW v \in Foreign, Survives(a, v)
  PROVE  Survives(a, v)' \/ ReplacedByPutBack(a, v)
<1>1. cas # NoCas /\ cas.step = "putback" /\ sideFiles \subseteq sideFiles'
      /\ cas.path \in Paths /\ a \in Paths
  BY CasFields DEF CasPutBack, Paths, Controls
<1>2. CASE UNCHANGED file /\ sideFiles' = sideFiles \cup InSideFile
  BY <1>1, <1>2 DEF Survives
<1>3. CASE /\ file' = [file EXCEPT ![cas.path] = cas.side]
           /\ (cas.new = Absent) = (file[cas.path] = Absent)
  <2>1. file'[cas.path] = cas.side /\ \A q \in Paths : q # cas.path => file'[q] = file[q]
    BY <1>1, <1>3 DEF Shape, DiskOk
  <2>2. CASE cas.path # a \/ cas.side = v \/ <<a, v>> \in sideFiles
    BY <1>1, <2>1, <2>2 DEF Survives, InSideFile
  <2>3. CASE cas.path = a /\ cas.side # v /\ file[a] = v
    <3>1. cas.side \in Foreign
      BY <1>1 DEF Shape, CasOk
    <3>2. cas.new # Absent
      BY <1>3, <2>3, MarkersAssumption DEF MarkersAssumption
    <3> QED BY <1>1, <2>1, <2>3, <3>1, <3>2 DEF ReplacedByPutBack
  <2> QED BY <1>1, <2>2, <2>3 DEF Survives, InSideFile
<1> QED BY <1>2, <1>3 DEF CasPutBack

(* A crash keeps the side file; a failed call drops it only while it is    *)
(* read back.                                                              *)
LEMMA SurvivesFaults ==
  ASSUME Shape, Crash \/ IOFault \/ SideFileFault \/ RecoverReadFault,
         NEW a \in Addins, NEW v \in Foreign, Survives(a, v)
  PROVE  Survives(a, v)' \/ LostReadingBack(a, v)
<1>1. CASE Crash
  BY <1>1 DEF Crash, Survives
<1>2. CASE IOFault
  BY <1>2, SurvivesOutsideCas DEF IOFault, disk
<1>3. CASE RecoverReadFault
  BY <1>3, SurvivesOutsideCas, NoCasOutsideLoops
     DEF RecoverReadFault, LoopPcs, ControlLoops, StateLoops
<1>4. CASE SideFileFault
  <2>1. CASE file[a] = v \/ <<a, v>> \in sideFiles \/ cas.step = "putback"
    BY <1>4, <2>1 DEF SideFileFault, Survives
  <2>2. CASE cas.path = a /\ cas.side = v /\ cas.step = "verify"
    <3>1. cas' = NoCas
      BY <1>4 DEF SideFileFault, Throw, Exit
    <3> QED BY <1>4, <2>2, <3>1 DEF SideFileFault, LostReadingBack
  <2> QED BY <1>4, <2>1, <2>2 DEF SideFileFault, Survives, InSideFile
<1> QED BY <1>1, <1>2, <1>3, <1>4

LEMMA SurvivesOthers ==
  ASSUME Shape, NEW a \in Addins, NEW v \in Foreign, Survives(a, v),
         \/ \E o \in Commands : Execute(o)
         \/ AlterTree \/ RevitStartsOrExits
         \/ \E c \in Controls, w \in Foreign \cup {Absent} : EditControl(c, w)
         \/ UNCHANGED vars
  PROVE  Survives(a, v)' \/ OverwrittenByOthers(a, v)
<1>1. CASE \E o \in Commands : Execute(o)
  BY <1>1, SurvivesOutsideCas DEF Execute, disk
<1>2. CASE AlterTree
  BY <1>2, SurvivesOutsideCas DEF AlterTree, proc
<1>3. CASE RevitStartsOrExits \/ UNCHANGED vars
  BY <1>3, SurvivesOutsideCas DEF RevitStartsOrExits, vars, disk, proc
<1>4. ASSUME NEW c \in Controls, NEW w \in Foreign \cup {Absent}, EditControl(c, w)
      PROVE  Survives(a, v)' \/ OverwrittenByOthers(a, v)
  <2>1. UNCHANGED <<sideFiles, cas>> /\ thirdParty' = thirdParty + 1
    BY <1>4 DEF EditControl, proc
  <2>2. CASE file[a] = v
    BY <2>1, <2>2 DEF Survives, OverwrittenByOthers
  <2>3. CASE <<a, v>> \in sideFiles \cup InSideFile
    BY <2>1, <2>3 DEF Survives, InSideFile
  <2> QED BY <2>2, <2>3 DEF Survives
<1> QED BY <1>1, <1>2, <1>3, <1>4

(* No content that somebody else gave to a manifest is destroyed, for any  *)
(* number of edits: each stays live or in a side file of its own path,     *)
(* wherever the writers race and wherever OperatorDeploy dies, until its   *)
(* authors replace it, a put-back of an earlier edit replaces it, or an    *)
(* I/O error ends the reading back of its side file.                       *)
THEOREM ForeignPreservedHolds == Spec => ForeignPreserved
<1>1. ASSUME Shape, [Next]_vars, NEW a \in Addins, NEW v \in Foreign, Survives(a, v)
      PROVE  \/ Survives(a, v)' \/ OverwrittenByOthers(a, v)
             \/ ReplacedByPutBack(a, v) \/ LostReadingBack(a, v)
  <2>1. CASE ProcessStep
    BY <1>1, <2>1, SurvivesProcess, SurvivesCasSwap, SurvivesCasVerify, SurvivesCasPutBack
  <2>2. CASE Crash \/ IOFault \/ SideFileFault \/ RecoverReadFault
    BY <1>1, <2>2, SurvivesFaults
  <2>3. CASE ~ProcessStep /\ ~(Crash \/ IOFault \/ SideFileFault \/ RecoverReadFault)
    BY <1>1, <2>3, SurvivesOthers DEF Next
  <2> QED BY <2>1, <2>2, <2>3
<1>2. Shape /\ [Next]_vars => [KeepsForeign]_vars
  BY <1>1 DEF KeepsForeign
<1> QED BY <1>2, ShapeHolds, PTL DEF Spec, ForeignPreserved

-----------------------------------------------------------------------------
(* While nobody interferes: what recovery can rely on wherever the process *)
(* died (Recoverable), and what the running process relies on (OnCourse).  *)

StampOf(s) == IF s = Absent THEN 0 ELSE s.stamp
OwnedOf(s) == IF s = Absent THEN [a \in Addins |-> Absent] ELSE s.owned

(* Files f and trees t are the work of one activation. *)
Stands(f, t) ==
  \A a \in Addins :
    LET o == OwnedOf(f[StatePath])[a]
    IN  /\ f[a] = o
        /\ o # Absent => t[o] # NoTree /\ a \in t[o].parts \ t[o].bad

(* The files and trees before the transaction, and after it. *)
Image(img) == [p \in Paths |-> IF p \in DOMAIN img THEN img[p] ELSE file[p]]
Swapped(t) == [r \in Releases |-> IF journal.swap # NoSwap /\ r = journal.swap.release
                                  THEN t ELSE tree[r]]
BeforeTree == Swapped(journal.swap.before)
AfterTree == Swapped(journal.swap.after)

Intact(t) == t # NoTree => t.bad = {}
TreesIntact ==
  /\ \A r \in Releases : Intact(tree[r])
  /\ Intact(staging) /\ Intact(displaced) /\ Intact(failed)

(* The two trees of a swap are at one of five places: ready, displaced,    *)
(* placed, undone, and undone half-way.                                    *)
Slots(t, s, d, f) ==
  tree[journal.swap.release] = t /\ staging = s /\ displaced = d /\ failed = f
Ready == Slots(journal.swap.before, journal.swap.after, NoTree, NoTree)
SetAside == Slots(NoTree, journal.swap.after, journal.swap.before, NoTree)
Placed == Slots(journal.swap.after, NoTree, journal.swap.before, NoTree)
Undone == Slots(journal.swap.before, NoTree, NoTree, journal.swap.after)
HalfUndone == Slots(NoTree, NoTree, journal.swap.before, journal.swap.after)
SwapOk ==
  journal.swap # NoSwap =>
    LET s == journal.swap
    IN  /\ s.after.bad = {} /\ Intact(s.before)
        /\ s.before # NoTree => s.before.parts \subseteq s.after.parts
        /\ Ready \/ SetAside \/ Placed \/ Undone \/ HalfUndone

ImagesOk ==
  /\ Stands(Image(journal.before), BeforeTree)
  /\ journal.commit => Stands(Image(journal.after), AfterTree)
  /\ \A a \in Addins \cap Journaled :
       journal.after[a] # Absent => /\ AfterTree[journal.after[a]] # NoTree
                                    /\ a \in AfterTree[journal.after[a]].parts
  /\ journal.swap = NoSwap /\ journal.admission # Absent => tree[journal.admission] # NoTree
  /\ \A p \in Journaled : MatchesBefore(p) \/ MatchesAfter(p)

(* state.json is written last, and says when.                              *)
StateOk ==
  /\ StampOf(file[StatePath]) <= commands
  /\ journal # NoJournal =>
       /\ StampOf(journal.after[StatePath]) <= commands
       /\ journal.commit =>
            /\ StampOf(journal.before[StatePath]) < StampOf(journal.after[StatePath])
            /\ MatchesAfter(StatePath) => Committed
       /\ ~journal.commit => journal.after[StatePath] = journal.before[StatePath]

Recoverable ==
  /\ TreesIntact /\ quarantine = NoJournal /\ StateOk
  /\ journal = NoJournal => Stands(file, tree)
  /\ journal # NoJournal => SwapOk /\ ImagesOk

InPlace(t) == journal.swap # NoSwap => tree[journal.swap.release] = t
SlotsOnCourse ==
  journal.swap # NoSwap =>
    /\ pc = "displace" => Ready
    /\ pc = "place" => SetAside
    /\ pc \in {"assert", "activate", "validate", "mark", "commit"} => Placed
    /\ pc \in {"rootclear", "rootrestore"} => seen = displaced
    /\ pc = "rootrestore" => tree[journal.swap.release] \in {NoTree, journal.swap.before}
    /\ pc \in {"rootstaging", "foreigncheck", "restore"} =>
         tree[journal.swap.release] = journal.swap.before
    /\ pc \in {"foreigncheck", "restore"} => staging = NoTree

Exchanged(p) == cas # NoCas /\ cas.path = p /\ cas.step = "verify"
LoopOnCourse ==
  /\ journal.commit /\ MatchesAfter(StatePath) => pc \in {"idle", "recover", "commit", "retire"}
  /\ pc \in Recovering => MatchesBefore(StatePath)
  /\ pc \in Forward => (journal.commit <=> pc = "commit")
  /\ pc \in {"displace", "place", "assert"} => \A p \in Journaled : MatchesBefore(p)
  /\ pc = "activate" =>
       \A p \in JournaledControls :
         IF p \in todo /\ ~Exchanged(p) THEN MatchesBefore(p) ELSE MatchesAfter(p)
  /\ pc \in {"validate", "mark", "commit"} => \A p \in JournaledControls : MatchesAfter(p)
  /\ pc = "commit" =>
       IF StatePath \in todo /\ ~Exchanged(StatePath) THEN MatchesBefore(StatePath)
       ELSE MatchesAfter(StatePath)
  /\ pc = "restore" => \A p \in Journaled \ todo : MatchesBefore(p)
  /\ pc = "retire" => \/ Committed
                      \/ (\A p \in Journaled : MatchesBefore(p)) /\ InPlace(journal.swap.before)

(* What the command that switches forward knows of its journal. *)
Outdated(sel) ==
  {a \in Addins \ sel : /\ OwnedOf(journal.before[StatePath])[a] # Absent
                        /\ \E t \in sel \cap Addins : Year[t] = Year[a]}
OpJournal ==
  pc \in Forward \ {"begin"} =>
    /\ JournaledControls = op.sel \cup Outdated(op.sel)
    /\ \A c \in JournaledControls : journal.after[c] = IF c \in op.sel THEN op.release ELSE Absent
    /\ journal.swap # NoSwap =>
         /\ journal.swap.release = op.release /\ op.kind # "rollback"
         /\ journal.swap.after.parts =
              op.sel \cup (IF journal.swap.before = NoTree THEN {} ELSE journal.swap.before.parts)
    /\ journal.swap = NoSwap => tree[op.release] # NoTree /\ op.sel \subseteq tree[op.release].parts
    /\ op.kind = "rollback" => op.sel = tree[op.release].parts

BeginOnCourse ==
  pc = "begin" =>
    IF op.kind = "rollback" THEN tree[op.release] # NoTree /\ op.sel = tree[op.release].parts
    ELSE displaced = NoTree /\ failed = NoTree

CasOnCourse ==
  cas # NoCas =>
    /\ pc \in {"activate", "commit"} =>
         cas.expect = journal.before[cas.path] /\ cas.new = journal.after[cas.path]
    /\ pc = "restore" =>
         cas.expect = journal.after[cas.path] /\ cas.new = journal.before[cas.path]
    /\ cas.step = "swap" => file[cas.path] = cas.expect
    /\ cas.step # "swap" =>
         cas.step = "verify" /\ file[cas.path] = cas.new /\ cas.side = cas.expect

(* Whatever a command may still write is newer than what there is.         *)
Fresh ==
  op.kind # "status" /\ (phase = "start" \/ pc \in (Forward \cup {"plan"}) \ {"commit"}) =>
    /\ StampOf(file[StatePath]) < commands
    /\ journal # NoJournal => StampOf(journal.after[StatePath]) < commands

OnCourse ==
  /\ pc \notin Rejecting \cup {"quarantine"}
  /\ BeginOnCourse /\ CasOnCourse /\ Fresh
  /\ journal # NoJournal => SlotsOnCourse /\ LoopOnCourse /\ OpJournal

Transaction == Undisturbed => Recoverable /\ OnCourse

-----------------------------------------------------------------------------
(* Steps of the process that leave the disk alone. *)

LEMMA JournalFacts ==
  ASSUME Shape, journal # NoJournal
  PROVE  /\ Journaled \subseteq Paths /\ StatePath \in Journaled
         /\ JournaledControls \subseteq Controls /\ StatePath \notin JournaledControls
         /\ journal.before \in [Journaled -> Contents] /\ journal.after \in [Journaled -> Contents]
         /\ journal.commit \in BOOLEAN /\ journal.swap \in Swaps \cup {NoSwap}
         /\ journal.admission \in Releases \cup {Absent}
         /\ journal.before[StatePath] \in States /\ journal.after[StatePath] \in States
         /\ \A c \in JournaledControls : journal.after[c] \in Manifest
<1>1. Images(journal, Journaled) /\ Journaled \subseteq Paths
  BY JournaledImages
<1>2. JournaledControls = Journaled \cap Controls /\ StatePath \notin JournaledControls
  BY <1>1, ConstantsAssumption DEF ConstantsAssumption, JournaledControls, Paths
<1> QED BY <1>1, <1>2 DEF Images, Journals

LEMMA StampType ==
  ASSUME NEW s \in States
  PROVE  StampOf(s) \in Nat
BY DEF States, InstalledState, StampOf

LEMMA SameDisk ==
  ASSUME Shape, Recoverable, UNCHANGED <<file, roots, journal, quarantine>>,
         commands' \in Nat, commands <= commands'
  PROVE  Recoverable'
<1>1. /\ file' = file /\ tree' = tree /\ staging' = staging /\ displaced' = displaced
      /\ failed' = failed /\ journal' = journal /\ quarantine' = quarantine
  BY DEF roots
<1>2. TreesIntact' /\ quarantine' = NoJournal
  BY <1>1 DEF Recoverable, TreesIntact
<1>3. commands \in Nat /\ StampOf(file[StatePath]) \in Nat
      /\ (journal # NoJournal => StampOf(journal.after[StatePath]) \in Nat)
  BY ConstantsAssumption, StampType, JournalFacts DEF ConstantsAssumption, Shape, EnvOk, FileOk
<1>4. Committed' <=> Committed
  BY <1>1 DEF Committed, Journaled, MatchesAfter
<1>5. StateOk'
  BY <1>1, <1>3, <1>4 DEF Recoverable, StateOk, MatchesAfter
<1>6. journal = NoJournal => Stands(file, tree)'
  BY <1>1 DEF Recoverable
<1>7. ASSUME journal # NoJournal
      PROVE  SwapOk' /\ ImagesOk'
  <2>1. BeforeTree' = BeforeTree /\ AfterTree' = AfterTree
        /\ Image(journal.before)' = Image(journal.before)
        /\ Image(journal.after)' = Image(journal.after)
    BY <1>1 DEF BeforeTree, AfterTree, Swapped, Image
  <2>2. SwapOk'
    BY <1>1, <1>7 DEF Recoverable, SwapOk, Ready, SetAside, Placed, Undone, HalfUndone, Slots
  <2>3. ImagesOk'
    BY <1>1, <1>7, <2>1 DEF Recoverable, ImagesOk, Journaled, MatchesBefore, MatchesAfter
  <2> QED BY <2>2, <2>3
<1> QED BY <1>1, <1>2, <1>5, <1>6, <1>7 DEF Recoverable

(* The process is over, or about to recover what it did.                   *)
LEMMA RestOnCourse ==
  ASSUME pc' \in {"idle", "recover"}, cas' = NoCas,
         op'.kind = "status" \/ phase' # "start"
  PROVE  OnCourse'
BY DEF OnCourse, BeginOnCourse, CasOnCourse, Fresh, SlotsOnCourse, LoopOnCourse, OpJournal,
       Forward, Recovering, Rejecting

LEMMA ExitOnCourse ==
  ASSUME Exit
  PROVE  OnCourse'
BY RestOnCourse DEF Exit, NoOp

LEMMA ThrowOnCourse ==
  ASSUME NEW p, Throw(p), pc \notin Rejecting
  PROVE  OnCourse'
BY RestOnCourse, ExitOnCourse DEF Throw

LEMMA CommandsNat ==
  ASSUME Shape
  PROVE  commands \in Nat /\ commands <= commands
BY ConstantsAssumption DEF ConstantsAssumption, Shape, EnvOk

(* Crashes and failed calls. *)
LEMMA FaultTransaction ==
  ASSUME Shape, Recoverable, OnCourse, Crash \/ IOFault \/ SideFileFault
  PROVE  Recoverable' /\ OnCourse'
<1>1. UNCHANGED <<file, roots, journal, quarantine, commands>>
  BY DEF Crash, IOFault, SideFileFault, disk, roots
<1>2. OnCourse'
  BY ExitOnCourse, ThrowOnCourse DEF Crash, IOFault, SideFileFault, OnCourse
<1> QED BY <1>1, <1>2, SameDisk, CommandsNat

(* A step of the process that leaves the disk alone and goes on.           *)
LEMMA SameCommands ==
  ASSUME Shape, Recoverable, UNCHANGED <<disk, env>>
  PROVE  Recoverable'
BY SameDisk, CommandsNat DEF disk, env, roots

LEMMA ExecuteTransaction ==
  ASSUME Shape, Recoverable, OnCourse, NEW o \in Commands, Execute(o)
  PROVE  Recoverable' /\ OnCourse'
<1>1. UNCHANGED <<file, roots, journal, quarantine>> /\ pc' = "recover" /\ op' = o
      /\ UNCHANGED <<phase, cas>> /\ phase = "start" /\ cas = NoCas
  BY NoCasOutsideLoops DEF Execute, disk, roots, Shape, PcOk, LoopPcs, ControlLoops, StateLoops
<1>2. commands' \in Nat /\ commands <= commands'
      /\ (o.kind # "status" => commands < commands')
  BY CommandsNat DEF Execute
<1>3. Recoverable'
  BY <1>1, <1>2, SameDisk
<1>4. Fresh'
  <2>1. commands \in Nat /\ StampOf(file[StatePath]) \in Nat
        /\ (journal # NoJournal => StampOf(journal.after[StatePath]) \in Nat)
    BY CommandsNat, StampType, JournalFacts DEF Shape, FileOk
  <2> QED BY <1>1, <1>2, <2>1 DEF Recoverable, StateOk, Fresh
<1>5. OnCourse'
  BY <1>1, <1>4 DEF OnCourse, BeginOnCourse, CasOnCourse, SlotsOnCourse, LoopOnCourse, OpJournal,
       Forward, Recovering, Rejecting
<1> QED BY <1>3, <1>5

LEMMA AssertTransaction ==
  ASSUME Shape, Recoverable, OnCourse, AssertReleaseRootMatches
  PROVE  Recoverable' /\ OnCourse'
<1>1. UNCHANGED <<disk, env>> /\ pc = "assert"
  BY DEF AssertReleaseRootMatches
<1>2. Recoverable'
  BY <1>1, SameCommands
<1>3. CASE Throw(StatePath)
  BY <1>1, <1>2, <1>3, ThrowOnCourse DEF Rejecting
<1>4. CASE Goto("activate", JournaledControls)
  <2>1. journal # NoJournal /\ cas = NoCas
    BY <1>1, NoCasOutsideLoops DEF Shape, PcOk, QuietPcs, LoopPcs, ControlLoops, StateLoops
  <2>2. pc' = "activate" /\ todo' = JournaledControls /\ UNCHANGED <<phase, op, cas, seen>>
    BY <1>4 DEF Goto
  <2>3. BeginOnCourse' /\ CasOnCourse' /\ Fresh'
    BY <1>1, <2>1, <2>2 DEF OnCourse, BeginOnCourse, CasOnCourse, Fresh, Forward, disk, env
  <2>4. SlotsOnCourse'
    BY <1>1, <2>1, <2>2 DEF OnCourse, SlotsOnCourse, Placed, Slots, disk
  <2>5. LoopOnCourse'
    BY <1>1, <2>1, <2>2 DEF OnCourse, LoopOnCourse, Exchanged, JournaledControls, Journaled, MatchesBefore,
         MatchesAfter, Committed, Forward, Recovering, disk
  <2>6. OpJournal'
    BY <1>1, <2>1, <2>2 DEF OnCourse, OpJournal, Outdated, JournaledControls, Journaled, Forward, disk
  <2> QED BY <1>2, <2>2, <2>3, <2>4, <2>5, <2>6 DEF OnCourse, Rejecting
<1> QED BY <1>3, <1>4 DEF AssertReleaseRootMatches

LEMMA ValidateTransaction ==
  ASSUME Shape, Recoverable, OnCourse, ValidateActivatedRelease
  PROVE  Recoverable' /\ OnCourse'
<1>1. UNCHANGED <<disk, env>> /\ pc = "validate"
  BY DEF ValidateActivatedRelease
<1>2. Recoverable'
  BY <1>1, SameCommands
<1>3. CASE Throw(StatePath)
  BY <1>1, <1>2, <1>3, ThrowOnCourse DEF Rejecting
<1>4. CASE Goto("mark", {})
  <2>1. journal # NoJournal /\ cas = NoCas
    BY <1>1, NoCasOutsideLoops DEF Shape, PcOk, QuietPcs, LoopPcs, ControlLoops, StateLoops
  <2>2. pc' = "mark" /\ todo' = {} /\ UNCHANGED <<phase, op, cas, seen>>
    BY <1>4 DEF Goto
  <2>3. BeginOnCourse' /\ CasOnCourse' /\ Fresh'
    BY <1>1, <2>1, <2>2 DEF OnCourse, BeginOnCourse, CasOnCourse, Fresh, Forward, disk, env
  <2>4. SlotsOnCourse'
    BY <1>1, <2>1, <2>2 DEF OnCourse, SlotsOnCourse, Placed, Slots, disk
  <2>5. LoopOnCourse'
    BY <1>1, <2>1, <2>2 DEF OnCourse, LoopOnCourse, JournaledControls, Journaled, MatchesBefore,
         MatchesAfter, Committed, Forward, Recovering, disk
  <2>6. OpJournal'
    BY <1>1, <2>1, <2>2 DEF OnCourse, OpJournal, Outdated, JournaledControls, Journaled, Forward, disk
  <2> QED BY <1>2, <2>2, <2>3, <2>4, <2>5, <2>6 DEF OnCourse, Rejecting
<1> QED BY <1>3, <1>4 DEF ValidateActivatedRelease

LEMMA PlanInstallTransaction ==
  ASSUME Shape, Recoverable, OnCourse, PlanInstall
  PROVE  Recoverable' /\ OnCourse'
<1>1. pc = "plan" /\ journal = NoJournal /\ cas = NoCas
      /\ UNCHANGED <<file, tree, journal, quarantine, env>>
  BY NoCasOutsideLoops DEF PlanInstall, Shape, PcOk, LoopPcs, ControlLoops, StateLoops
<1>2. Recoverable'
  <2>1. TreesIntact'
    BY <1>1 DEF PlanInstall, Recoverable, TreesIntact, Intact, Exact
  <2>2. StateOk'
    BY <1>1 DEF Recoverable, StateOk, env
  <2> QED BY <1>1, <2>1, <2>2 DEF Recoverable
<1>3. CASE Exit
  BY <1>2, <1>3, ExitOnCourse
<1>4. CASE Goto("begin", {}) /\ displaced' = NoTree /\ failed' = NoTree /\ op.kind # "rollback"
  <2>1. pc' = "begin" /\ UNCHANGED <<phase, op, cas>>
    BY <1>4 DEF Goto
  <2>2. BeginOnCourse' /\ CasOnCourse' /\ Fresh'
    BY <1>1, <1>4, <2>1 DEF OnCourse, BeginOnCourse, CasOnCourse, Fresh, Forward, env
  <2> QED BY <1>1, <1>2, <2>1, <2>2 DEF OnCourse, Rejecting
<1> QED BY <1>3, <1>4 DEF PlanInstall

LEMMA PlanRollbackTransaction ==
  ASSUME Shape, Recoverable, OnCourse, PlanRollback
  PROVE  Recoverable' /\ OnCourse'
<1>1. pc = "plan" /\ journal = NoJournal /\ cas = NoCas /\ UNCHANGED <<disk, env>>
  BY NoCasOutsideLoops DEF PlanRollback, Shape, PcOk, LoopPcs, ControlLoops, StateLoops
<1>2. Recoverable'
  BY <1>1, SameCommands
<1>3. CASE Exit
  BY <1>2, <1>3, ExitOnCourse
<1>4. CASE ~Exit
  <2>1. PICK r \in RollbackTargets :
           tree[r] # NoTree /\ op' = [op EXCEPT !.release = r, !.sel = tree[r].parts]
    BY <1>4 DEF PlanRollback
  <2>2. pc' = "begin" /\ op.kind = "rollback" /\ UNCHANGED <<phase, cas>>
    BY <1>4 DEF PlanRollback
  <2>3. op'.kind = "rollback" /\ op'.release = r /\ op'.sel = tree[r].parts
    BY <2>1, <2>2 DEF Shape, ProcOk
  <2>4. BeginOnCourse' /\ CasOnCourse' /\ Fresh'
    BY <1>1, <2>1, <2>2, <2>3 DEF OnCourse, BeginOnCourse, CasOnCourse, Fresh, Forward, disk, env
  <2> QED BY <1>1, <1>2, <2>2, <2>4 DEF OnCourse, Rejecting, disk
<1> QED BY <1>3, <1>4

-----------------------------------------------------------------------------
(* The forward path. *)

LEMMA OwnedIs == Owned = OwnedOf(file[StatePath])
BY DEF Owned, OwnedOf

(* The journal of a plan, in an undisturbed state: before it everything    *)
(* stands, and what it will activate is in the tree it will place.         *)
LEMMA BeginTransaction ==
  ASSUME Shape, Recoverable, OnCourse, BeginActivationJournal
  PROVE  Recoverable' /\ OnCourse'
<1> DEFINE r == op.release
           after == Exact(op.sel \cup Preserved(r))
           swap == [release |-> r, before |-> tree[r], after |-> after]
           new == IF Refreshes(r) THEN NoSwap ELSE swap
           dom == op.sel \cup Obsolete(op.sel) \cup {StatePath}
<1>1. pc = "begin" /\ journal = NoJournal /\ r \in Releases /\ op.sel \in SUBSET Controls /\ cas = NoCas
      /\ phase = "run"
  BY NoCasOutsideLoops DEF BeginActivationJournal, Shape, PcOk, ProcOk, Forward, LoopPcs,
       ControlLoops, StateLoops
<1>2. UNCHANGED <<file, tree, displaced, failed, quarantine, sideFiles, env>>
  BY DEF BeginActivationJournal
<1>3. after \in Trees /\ tree[r] \in Slot /\ after.bad = {} /\ after.parts = op.sel \cup Preserved(r)
  BY <1>1 DEF Exact, Preserved, Shape, DiskOk, Slot, Trees
<1>4. new \in Swaps \cup {NoSwap} /\ swap # NoSwap
  BY <1>1, <1>3, MarkersAssumption DEF MarkersAssumption, Swaps
<1>5. TreesIntact'
  BY <1>2, <1>3 DEF BeginActivationJournal, Recoverable, TreesIntact, Intact
<1>6. CASE UNCHANGED <<journal, staging>> /\ Throw(StatePath)
  BY <1>1, <1>2, <1>6, SameDisk, CommandsNat, ThrowOnCourse DEF roots, env, Rejecting
<1>7. CASE /\ PlanActivation(op.sel) /\ journal' = JournalOf(r, op.sel, new)
           /\ staging' = IF Refreshes(r) THEN NoTree ELSE after
           /\ IF Refreshes(r) THEN Goto("activate", op.sel \cup Obsolete(op.sel))
                              ELSE Goto("displace", {})
  <2>1. dom \in SUBSET Paths /\ StatePath \notin op.sel \cup Obsolete(op.sel)
        /\ Obsolete(op.sel) \subseteq Addins /\ Addins \subseteq Paths
    BY <1>1, ConstantsAssumption DEF ConstantsAssumption, Obsolete, Paths, Controls
  <2>2. journal' # NoJournal
    BY <1>1, <1>4, <1>7, JournalOfImages
  <2>3. /\ journal'.before = [p \in dom |-> file[p]]
        /\ journal'.after = [p \in dom |-> IF p = StatePath THEN file[p]
                                           ELSE IF p \in op.sel THEN r ELSE Absent]
        /\ journal'.commit = FALSE /\ journal'.swap = new
        /\ journal'.admission = IF r \in Admitted THEN r ELSE Absent
    BY <1>7 DEF JournalOf
  <2>4. Journaled' = dom /\ JournaledControls' = op.sel \cup Obsolete(op.sel)
    BY <2>1, <2>3 DEF Journaled, JournaledControls
  <2>5. \A p \in Journaled' : MatchesBefore(p)'
    BY <1>2, <2>3, <2>4 DEF MatchesBefore
  <2>6. Stands(file, tree)
    BY <1>1 DEF Recoverable
  <2>7. Image(journal.before)' = file
    <3>1. \A p \in Paths : Image(journal.before)'[p] = file[p]
      BY <1>2, <2>3 DEF Image
    <3> QED BY <3>1 DEF Image, Shape, DiskOk
  <2>8. BeforeTree' = tree
    <3>1. \A q \in Releases : BeforeTree'[q] = tree[q]
      BY <1>2, <2>3 DEF BeforeTree, Swapped
    <3> QED BY <3>1 DEF BeforeTree, Swapped, Shape, DiskOk
  <2>9. AfterTree'[r] # NoTree /\ op.sel \subseteq AfterTree'[r].parts
    <3>1. CASE Refreshes(r)
      <4>1. AfterTree'[r] = tree[r]
        BY <1>1, <1>2, <2>3, <3>1 DEF AfterTree, Swapped
      <4>2. tree[r] # NoTree /\ op.sel \subseteq tree[r].parts
        BY <1>1, <3>1 DEF OnCourse, BeginOnCourse, Refreshes, Verifies
      <4> QED BY <4>1, <4>2
    <3>2. CASE ~Refreshes(r)
      <4>1. AfterTree'[r] = after
        BY <1>1, <1>4, <2>3, <3>2 DEF AfterTree, Swapped
      <4> QED BY <1>3, <4>1, MarkersAssumption DEF MarkersAssumption
    <3> QED BY <3>1, <3>2
  <2>10. ImagesOk'
    <3>1. Stands(Image(journal.before), BeforeTree)'
      BY <2>6, <2>7, <2>8 DEF Stands
    <3>2. \A a \in Addins \cap Journaled' : journal'.after[a] # Absent =>
             AfterTree'[journal'.after[a]] # NoTree /\ a \in AfterTree'[journal'.after[a]].parts
      <4>1. ASSUME NEW a \in Addins \cap Journaled', journal'.after[a] # Absent
            PROVE  a \in op.sel /\ journal'.after[a] = r
        <5>1. a \in dom /\ a # StatePath
          BY <2>4, ConstantsAssumption DEF ConstantsAssumption, Controls
        <5> QED BY <2>3, <4>1, <5>1
      <4> QED BY <2>9, <4>1
    <3>3. journal'.swap = NoSwap /\ journal'.admission # Absent => tree'[journal'.admission] # NoTree
      <4>1. Refreshes(r) => tree[r] # NoTree
        BY <1>1 DEF OnCourse, BeginOnCourse, Refreshes, Verifies
      <4> QED BY <1>2, <1>4, <2>3, <4>1
    <3> QED BY <2>3, <2>5, <3>1, <3>2, <3>3 DEF ImagesOk
  <2>11. SwapOk'
    <3>1. CASE ~Refreshes(r)
      <4>1. displaced = NoTree /\ failed = NoTree
        BY <1>1, <3>1 DEF OnCourse, BeginOnCourse, Refreshes
      <4>2. Ready'
        BY <1>2, <1>7, <2>3, <3>1, <4>1 DEF Ready, Slots
      <4>3. Intact(tree[r])
        BY <1>1 DEF Recoverable, TreesIntact
      <4>4. tree[r] # NoTree => tree[r].parts \subseteq after.parts
        BY <1>3 DEF Preserved
      <4>5. /\ journal'.swap.before = tree[r] /\ journal'.swap.after = after
        BY <2>3, <3>1
      <4> QED BY <1>3, <4>2, <4>3, <4>4, <4>5 DEF SwapOk, Intact
    <3>2. CASE Refreshes(r)
      BY <2>3, <3>2 DEF SwapOk
    <3> QED BY <3>1, <3>2
  <2>12. StateOk'
    BY <1>2, <2>1, <2>3 DEF Recoverable, StateOk, env
  <2>13. Recoverable'
    BY <1>2, <1>5, <2>2, <2>10, <2>11, <2>12 DEF Recoverable
  <2>14. UNCHANGED <<phase, op, cas, seen>> /\ pc' \in {"activate", "displace"}
         /\ (pc' = "activate" => Refreshes(r) /\ todo' = op.sel \cup Obsolete(op.sel))
         /\ (pc' = "displace" => ~Refreshes(r))
    BY <1>7 DEF Goto
  <2>15. BeginOnCourse' /\ CasOnCourse'
    BY <1>1, <2>14 DEF BeginOnCourse, CasOnCourse
  <2>16. Fresh'
    BY <1>1, <1>2, <2>1, <2>3, <2>14 DEF OnCourse, Fresh, Forward, env
  <2>17. SlotsOnCourse'
    <3>1. CASE ~Refreshes(r)
      <4>1. displaced = NoTree /\ failed = NoTree
        BY <1>1, <3>1 DEF OnCourse, BeginOnCourse, Refreshes
      <4>2. Ready'
        BY <1>2, <1>7, <2>3, <3>1, <4>1 DEF Ready, Slots
      <4> QED BY <2>14, <3>1, <4>2 DEF SlotsOnCourse
    <3>2. CASE Refreshes(r)
      BY <2>3, <3>2 DEF SlotsOnCourse
    <3> QED BY <3>1, <3>2
  <2>18. LoopOnCourse'
    BY <1>1, <2>3, <2>4, <2>5, <2>14 DEF LoopOnCourse, Exchanged, Forward, Recovering, JournaledControls
  <2>19. OpJournal'
    <3>1. Outdated(op.sel)' = Obsolete(op.sel)
      <4>1. OwnedOf(journal'.before[StatePath]) = Owned
        <5>1. journal'.before[StatePath] = file[StatePath]
          BY <2>3
        <5> QED BY <5>1, OwnedIs
      <4> QED BY <2>14, <4>1 DEF Outdated, Obsolete
    <3>2. op' = op /\ JournaledControls' = op.sel \cup Outdated(op.sel)'
      BY <2>4, <2>14, <3>1
    <3>3. \A c \in JournaledControls' : journal'.after[c] = IF c \in op.sel THEN r ELSE Absent
      BY <2>1, <2>3, <2>4
    <3>4. journal'.swap # NoSwap =>
            /\ journal'.swap.release = r /\ op.kind # "rollback"
            /\ journal'.swap.after.parts =
                op.sel \cup (IF journal'.swap.before = NoTree THEN {} ELSE journal'.swap.before.parts)
      BY <1>3, <2>3 DEF Refreshes, Preserved
    <3>5. journal'.swap = NoSwap => tree'[r] # NoTree /\ op.sel \subseteq tree'[r].parts
      <4>1. Refreshes(r) => tree[r] # NoTree /\ op.sel \subseteq tree[r].parts
        BY <1>1 DEF OnCourse, BeginOnCourse, Refreshes, Verifies
      <4> QED BY <1>2, <1>4, <2>3, <4>1
    <3>6. op.kind = "rollback" => op.sel = tree'[r].parts
      BY <1>1, <1>2 DEF OnCourse, BeginOnCourse
    <3> QED BY <3>2, <3>3, <3>4, <3>5, <3>6 DEF OpJournal, Outdated
  <2> QED BY <2>13, <2>14, <2>15, <2>16, <2>17, <2>18, <2>19 DEF OnCourse, Rejecting
<1> QED BY <1>6, <1>7 DEF BeginActivationJournal

(* A directory move of the transaction: both images stand as before.       *)
LEMMA MovesRecoverable ==
  ASSUME Shape, Recoverable, journal # NoJournal, journal.swap # NoSwap,
         ~(journal.commit /\ MatchesAfter(StatePath)),
         UNCHANGED <<file, journal, quarantine, env>>,
         tree' \in [Releases -> Slot],
         \A r \in Releases : r # journal.swap.release => tree'[r] = tree[r],
         Intact(tree'[journal.swap.release]), Intact(staging'), Intact(displaced'), Intact(failed'),
         \/ Slots(journal.swap.before, journal.swap.after, NoTree, NoTree)'
         \/ Slots(NoTree, journal.swap.after, journal.swap.before, NoTree)'
         \/ Slots(journal.swap.after, NoTree, journal.swap.before, NoTree)'
         \/ Slots(journal.swap.before, NoTree, NoTree, journal.swap.after)'
         \/ Slots(NoTree, NoTree, journal.swap.before, journal.swap.after)'
  PROVE  Recoverable'
<1>1. TreesIntact'
  BY DEF Recoverable, TreesIntact, Intact
<1>2. SwapOk'
  BY DEF Recoverable, SwapOk, Intact, Ready, SetAside, Placed, Undone, HalfUndone
<1>3. StateOk'
  BY DEF Recoverable, StateOk, MatchesAfter, env
<1>4. BeforeTree' = BeforeTree /\ AfterTree' = AfterTree
  BY DEF BeforeTree, AfterTree, Swapped
<1>5. Image(journal.before)' = Image(journal.before) /\ Image(journal.after)' = Image(journal.after)
  BY DEF Image
<1>6. ImagesOk'
  BY <1>4, <1>5 DEF Recoverable, ImagesOk, Journaled, MatchesBefore, MatchesAfter
<1> QED BY <1>1, <1>2, <1>3, <1>6 DEF Recoverable

LEMMA SwapFacts ==
  ASSUME Shape, journal # NoJournal, journal.swap # NoSwap
  PROVE  journal.swap.release \in Releases /\ journal.swap.before \in Slot
         /\ journal.swap.after \in Trees /\ journal.swap.after # NoTree
BY JournalFacts, MarkersAssumption DEF MarkersAssumption, Swaps

LEMMA DisplaceTransaction ==
  ASSUME Shape, Recoverable, OnCourse, DisplaceRoot
  PROVE  Recoverable' /\ OnCourse'
<1> DEFINE s == journal.swap
<1>1. pc = "displace" /\ journal # NoJournal /\ s # NoSwap /\ s.release = op.release /\ cas = NoCas
  BY NoCasOutsideLoops DEF DisplaceRoot, Shape, PcOk, QuietPcs, SwapPcs, LoopPcs, ControlLoops, StateLoops
<1>2. UNCHANGED <<file, staging, failed, journal, quarantine, sideFiles, env>>
      /\ displaced' = tree[s.release] /\ tree' = [tree EXCEPT ![s.release] = NoTree]
  BY <1>1 DEF DisplaceRoot
<1>3. s.release \in Releases /\ s.before \in Slot /\ s.after \in Trees
  BY <1>1, SwapFacts
<1>4. Ready /\ ~journal.commit
  BY <1>1 DEF OnCourse, SlotsOnCourse, LoopOnCourse, Forward
<1>5. /\ tree' \in [Releases -> Slot] /\ tree'[s.release] = NoTree
      /\ \A r \in Releases : r # s.release => tree'[r] = tree[r]
  BY <1>2, <1>3 DEF Shape, DiskOk, Slot
<1>6. SetAside'
  BY <1>2, <1>4, <1>5 DEF SetAside, Ready, Slots
<1>7. Intact(tree'[s.release]) /\ Intact(staging') /\ Intact(displaced') /\ Intact(failed')
  BY <1>2, <1>3, <1>5 DEF Recoverable, TreesIntact, Intact
<1>8. Recoverable'
  BY <1>1, <1>2, <1>4, <1>5, <1>6, <1>7, MovesRecoverable DEF SetAside
<1>9. pc' = "place" /\ UNCHANGED <<phase, op, cas, seen>>
  BY DEF DisplaceRoot, Goto
<1>10. BeginOnCourse' /\ CasOnCourse' /\ Fresh'
  BY <1>1, <1>2, <1>9 DEF OnCourse, BeginOnCourse, CasOnCourse, Fresh, Forward, env
<1>11. SlotsOnCourse'
  BY <1>6, <1>9 DEF SlotsOnCourse
<1>12. LoopOnCourse'
  BY <1>1, <1>2, <1>9 DEF OnCourse, LoopOnCourse, Journaled, MatchesBefore, MatchesAfter, Forward, Recovering
<1>13. OpJournal'
  BY <1>1, <1>2, <1>9 DEF OnCourse, OpJournal, Outdated, Journaled, JournaledControls, Forward
<1> QED BY <1>8, <1>9, <1>10, <1>11, <1>12, <1>13 DEF OnCourse, Rejecting

LEMMA PlaceTransaction ==
  ASSUME Shape, Recoverable, OnCourse, PlaceRoot
  PROVE  Recoverable' /\ OnCourse'
<1> DEFINE s == journal.swap
<1>1. pc = "place" /\ journal # NoJournal /\ s # NoSwap /\ s.release = op.release /\ cas = NoCas
  BY NoCasOutsideLoops DEF PlaceRoot, Shape, PcOk, QuietPcs, SwapPcs, LoopPcs, ControlLoops, StateLoops
<1>2. UNCHANGED <<file, displaced, failed, journal, quarantine, sideFiles, env>>
      /\ staging' = NoTree /\ tree' = [tree EXCEPT ![s.release] = staging]
  BY <1>1 DEF PlaceRoot
<1>3. s.release \in Releases /\ s.before \in Slot /\ s.after \in Trees
  BY <1>1, SwapFacts
<1>4. SetAside /\ ~journal.commit
  BY <1>1 DEF OnCourse, SlotsOnCourse, LoopOnCourse, Forward
<1>5. /\ tree' \in [Releases -> Slot] /\ tree'[s.release] = staging
      /\ \A r \in Releases : r # s.release => tree'[r] = tree[r]
  BY <1>2, <1>3 DEF Shape, DiskOk, Slot
<1>6. Placed'
  BY <1>2, <1>4, <1>5 DEF SetAside, Placed, Slots
<1>7. Intact(tree'[s.release]) /\ Intact(staging') /\ Intact(displaced') /\ Intact(failed')
  BY <1>2, <1>3, <1>5 DEF Recoverable, TreesIntact, Intact
<1>8. Recoverable'
  BY <1>1, <1>2, <1>4, <1>5, <1>6, <1>7, MovesRecoverable DEF Placed
<1>9. pc' = "assert" /\ UNCHANGED <<phase, op, cas, seen>>
  BY DEF PlaceRoot, Goto
<1>10. BeginOnCourse' /\ CasOnCourse' /\ Fresh'
  BY <1>1, <1>2, <1>9 DEF OnCourse, BeginOnCourse, CasOnCourse, Fresh, Forward, env
<1>11. SlotsOnCourse'
  BY <1>6, <1>9 DEF SlotsOnCourse
<1>12. LoopOnCourse'
  BY <1>1, <1>2, <1>9 DEF OnCourse, LoopOnCourse, Journaled, MatchesBefore, MatchesAfter, Forward, Recovering
<1>13. OpJournal'
  BY <1>1, <1>2, <1>9 DEF OnCourse, OpJournal, Outdated, Journaled, JournaledControls, Forward
<1> QED BY <1>8, <1>9, <1>10, <1>11, <1>12, <1>13 DEF OnCourse, Rejecting

LEMMA ActivateTransaction ==
  ASSUME Shape, Recoverable, OnCourse, NEW p \in Paths, ActivateControl(p)
  PROVE  Recoverable' /\ OnCourse'
<1>1. pc = "activate" /\ cas = NoCas /\ p \in todo /\ UNCHANGED <<disk, env>>
      /\ CasStart(p, journal.before[p], journal.after[p])
  BY DEF ActivateControl
<1>2. Recoverable'
  BY <1>1, SameCommands
<1>3. CASE Throw(p)
  BY <1>1, <1>2, <1>3, ThrowOnCourse DEF Rejecting
<1>4. CASE ~Throw(p)
  <2>1. /\ file[p] = journal.before[p]
        /\ cas' = [path |-> p, expect |-> journal.before[p], new |-> journal.after[p],
                   step |-> "swap", side |-> Absent]
        /\ UNCHANGED <<pc, phase, op, todo, seen>>
    BY <1>1, <1>4 DEF CasStart
  <2>2. BeginOnCourse' /\ Fresh'
    BY <1>1, <2>1 DEF OnCourse, BeginOnCourse, Fresh, disk, env
  <2>3. CasOnCourse'
    BY <1>1, <2>1 DEF CasOnCourse, disk
  <2>4. (SlotsOnCourse' /\ OpJournal') \/ journal' = NoJournal
    BY <1>1, <2>1 DEF OnCourse, SlotsOnCourse, OpJournal, Outdated, Placed, Slots, disk, Journaled,
       JournaledControls
  <2>5. LoopOnCourse' \/ journal' = NoJournal
    BY <1>1, <2>1 DEF OnCourse, LoopOnCourse, Exchanged, Journaled, JournaledControls, MatchesBefore,
       MatchesAfter, disk, Forward, Recovering
  <2> QED BY <1>1, <1>2, <2>1, <2>2, <2>3, <2>4, <2>5 DEF OnCourse, Rejecting
<1> QED BY <1>3, <1>4

LEMMA CommitTransaction ==
  ASSUME Shape, Recoverable, OnCourse, CommitState
  PROVE  Recoverable' /\ OnCourse'
<1>1. pc = "commit" /\ cas = NoCas /\ StatePath \in todo /\ UNCHANGED <<disk, env>>
      /\ CasStart(StatePath, journal.before[StatePath], journal.after[StatePath])
  BY DEF CommitState
<1>2. Recoverable'
  BY <1>1, SameCommands
<1>3. CASE Throw(StatePath)
  BY <1>1, <1>2, <1>3, ThrowOnCourse DEF Rejecting
<1>4. CASE ~Throw(StatePath)
  <2>1. /\ file[StatePath] = journal.before[StatePath]
        /\ cas' = [path |-> StatePath, expect |-> journal.before[StatePath],
                   new |-> journal.after[StatePath], step |-> "swap", side |-> Absent]
        /\ UNCHANGED <<pc, phase, op, todo, seen>>
    BY <1>1, <1>4 DEF CasStart
  <2>2. BeginOnCourse' /\ Fresh'
    BY <1>1, <2>1 DEF OnCourse, BeginOnCourse, Fresh, disk, env
  <2>3. CasOnCourse'
    BY <1>1, <2>1 DEF CasOnCourse, disk
  <2>4. (SlotsOnCourse' /\ OpJournal') \/ journal' = NoJournal
    BY <1>1, <2>1 DEF OnCourse, SlotsOnCourse, OpJournal, Outdated, Placed, Slots, disk, Journaled,
       JournaledControls
  <2>5. LoopOnCourse' \/ journal' = NoJournal
    BY <1>1, <2>1 DEF OnCourse, LoopOnCourse, Exchanged, Journaled, JournaledControls, MatchesBefore,
       MatchesAfter, disk, Forward, Recovering
  <2> QED BY <1>1, <1>2, <2>1, <2>2, <2>3, <2>4, <2>5 DEF OnCourse, Rejecting
<1> QED BY <1>3, <1>4

(* At the commit mark every control is activated, so that the files and    *)
(* trees stand again as soon as state.json says so.                        *)
LEMMA MarkStands ==
  ASSUME Shape, Recoverable, OnCourse, MarkCommit
  PROVE  Stands(Image(journal.after), AfterTree)'
<1>1. pc = "mark" /\ journal # NoJournal /\ ~journal.commit
      /\ UNCHANGED <<file, roots>>
  BY DEF MarkCommit, Shape, PcOk, QuietPcs, OnCourse, LoopOnCourse, Forward
<1>2. /\ StatePath \in Journaled /\ Addins \subseteq Paths /\ StatePath \notin Addins
      /\ Journaled \subseteq Paths
  BY <1>1, JournalFacts, ConstantsAssumption DEF ConstantsAssumption, Controls, Paths
<1>3. /\ journal'.after = [journal.after EXCEPT ![StatePath] = NewState]
      /\ journal'.swap = journal.swap /\ journal'.before = journal.before
  BY <1>1, JournaledImages DEF MarkCommit, Images, Journals
<1>4. AfterTree' = AfterTree
  BY <1>1, <1>3 DEF AfterTree, Swapped, roots
<1>5. /\ \A p \in Paths : Image(journal.after)'[p] =
           IF p = StatePath THEN NewState ELSE Image(journal.after)[p]
      /\ \A p \in Journaled : Image(journal.after)[p] = journal.after[p]
      /\ \A p \in Paths \ Journaled : Image(journal.after)[p] = file[p] /\ Image(journal.before)[p] = file[p]
  BY <1>1, <1>2, <1>3, JournalFacts DEF Image, Journaled
<1>6. OwnedOf(NewState) = NewOwned
  <2>1. NewState # Absent /\ NewState.owned = NewOwned
    BY <1>1, NewStateType, MarkersAssumption DEF MarkersAssumption, NewState
  <2> QED BY <2>1 DEF OwnedOf
<1>7. Owned = OwnedOf(Image(journal.before)[StatePath])
  <2>1. file[StatePath] = journal.before[StatePath]
    BY <1>1, <1>2 DEF Recoverable, StateOk, ImagesOk, MatchesBefore, MatchesAfter
  <2>2. Image(journal.before)[StatePath] = journal.before[StatePath]
    BY <1>2 DEF Image, Journaled
  <2> QED BY <2>1, <2>2, OwnedIs
<1>8. ASSUME NEW a \in Addins
      PROVE  /\ Image(journal.after)'[a] = NewOwned[a]
             /\ NewOwned[a] # Absent =>
                  AfterTree[NewOwned[a]] # NoTree
                  /\ a \in AfterTree[NewOwned[a]].parts \ AfterTree[NewOwned[a]].bad
  <2>1. NewOwned[a] = IF a \in Journaled THEN journal.after[a] ELSE Owned[a]
    BY DEF NewOwned
  <2>2. \A r \in Releases : Intact(AfterTree[r])
    BY <1>1 DEF AfterTree, Swapped, Recoverable, TreesIntact, SwapOk, Intact
  <2>3. NewOwned[a] \in Releases \cup {Absent}
    BY <1>1, NewStateType DEF InstalledState, NewState
  <2>4. CASE a \in Journaled
    <3>1. Image(journal.after)'[a] = NewOwned[a]
      BY <1>2, <1>5, <2>1, <2>4
    <3>2. NewOwned[a] # Absent =>
            AfterTree[NewOwned[a]] # NoTree /\ a \in AfterTree[NewOwned[a]].parts
      BY <1>1, <2>1, <2>4 DEF Recoverable, ImagesOk
    <3> QED BY <2>2, <2>3, <3>1, <3>2 DEF Intact
  <2>5. CASE a \notin Journaled
    <3>1. /\ Image(journal.before)[a] = Owned[a]
          /\ Owned[a] # Absent =>
               BeforeTree[Owned[a]] # NoTree /\ a \in BeforeTree[Owned[a]].parts
      BY <1>1, <1>7 DEF Recoverable, ImagesOk, Stands
    <3>2. Image(journal.after)'[a] = NewOwned[a]
      BY <1>2, <1>5, <2>1, <2>5, <3>1
    <3>3. NewOwned[a] # Absent => a \in AfterTree[NewOwned[a]].parts /\ AfterTree[NewOwned[a]] # NoTree
      <4> SUFFICES ASSUME NewOwned[a] # Absent
                   PROVE  a \in AfterTree[NewOwned[a]].parts /\ AfterTree[NewOwned[a]] # NoTree
        OBVIOUS
      <4>1. NewOwned[a] = Owned[a] /\ Owned[a] \in Releases
        BY <2>1, <2>3, <2>5
      <4>2. CASE journal.swap # NoSwap /\ Owned[a] = journal.swap.release
        <5>1. BeforeTree[Owned[a]] = journal.swap.before /\ AfterTree[Owned[a]] = journal.swap.after
          BY <4>1, <4>2 DEF BeforeTree, AfterTree, Swapped
        <5>2. journal.swap.after # NoTree
          BY <1>1, <4>2, SwapFacts
        <5> QED BY <1>1, <3>1, <4>1, <4>2, <5>1, <5>2 DEF Recoverable, SwapOk
      <4>3. CASE ~(journal.swap # NoSwap /\ Owned[a] = journal.swap.release)
        <5>1. BeforeTree[Owned[a]] = tree[Owned[a]] /\ AfterTree[Owned[a]] = tree[Owned[a]]
          BY <4>1, <4>3 DEF BeforeTree, AfterTree, Swapped
        <5> QED BY <3>1, <4>1, <5>1
      <4> QED BY <4>2, <4>3
    <3> QED BY <2>2, <2>3, <3>2, <3>3 DEF Intact
  <2> QED BY <2>4, <2>5
<1>9. OwnedOf(Image(journal.after)'[StatePath]) = NewOwned
  BY <1>2, <1>5, <1>6
<1>10. Stands(Image(journal.after)', AfterTree')
  BY <1>4, <1>8, <1>9 DEF Stands
<1> QED BY <1>10 DEF Stands

LEMMA MarkTransaction ==
  ASSUME Shape, Recoverable, OnCourse, MarkCommit
  PROVE  Recoverable' /\ OnCourse'
<1>1. pc = "mark" /\ journal # NoJournal /\ ~journal.commit /\ cas = NoCas
      /\ UNCHANGED <<file, roots, quarantine, sideFiles, env>>
      /\ phase = "run" /\ op.kind # "status"
  BY NoCasOutsideLoops DEF MarkCommit, Shape, PcOk, QuietPcs, OnCourse, LoopOnCourse, Forward, LoopPcs,
     ControlLoops, StateLoops
<1>2. Journaled \subseteq Paths /\ StatePath \in Journaled /\ StatePath \notin Addins
      /\ StatePath \notin JournaledControls
  BY <1>1, JournalFacts, ConstantsAssumption DEF ConstantsAssumption, Controls
<1>3. /\ journal'.after = [journal.after EXCEPT ![StatePath] = NewState]
      /\ journal'.swap = journal.swap /\ journal'.before = journal.before
      /\ journal'.commit = TRUE /\ journal'.admission = journal.admission
  BY <1>1, JournaledImages DEF MarkCommit, Images, Journals
<1>4. /\ journal'.after[StatePath] = NewState
      /\ \A p \in JournaledControls : journal'.after[p] = journal.after[p]
      /\ Journaled' = Journaled /\ JournaledControls' = JournaledControls
  BY <1>1, <1>2, <1>3, JournalFacts DEF Journaled, JournaledControls
<1>5. /\ StampOf(NewState) = commands /\ NewState \in States /\ NewState # Absent
      /\ commands \in Nat /\ StampOf(file[StatePath]) < commands
      /\ StampOf(file[StatePath]) \in Nat
  <2>1. NewState \in InstalledState /\ NewState # Absent /\ NewState.stamp = commands
    BY <1>1, NewStateType, MarkersAssumption DEF MarkersAssumption, NewState
  <2>2. StampOf(file[StatePath]) < commands
    BY <1>1 DEF OnCourse, Fresh, Forward
  <2> QED BY <2>1, <2>2, CommandsNat, StampType DEF StampOf, States, Shape, FileOk
<1>6. file[StatePath] = journal.before[StatePath]
  BY <1>1, <1>2 DEF Recoverable, StateOk, ImagesOk, MatchesBefore, MatchesAfter
<1>7. ~MatchesAfter(StatePath)'
  BY <1>1, <1>4, <1>5 DEF MatchesAfter
<1>8. StateOk'
  BY <1>1, <1>3, <1>4, <1>5, <1>6, <1>7 DEF StateOk, env
<1>9. /\ BeforeTree' = BeforeTree /\ AfterTree' = AfterTree
      /\ Image(journal.before)' = Image(journal.before)
  BY <1>1, <1>3 DEF BeforeTree, AfterTree, Swapped, Image, roots
<1>10. \A p \in JournaledControls : MatchesAfter(p) /\ MatchesAfter(p)'
  BY <1>1, <1>4 DEF OnCourse, LoopOnCourse, MatchesAfter
<1>11. MatchesBefore(StatePath)'
  BY <1>1, <1>3, <1>6 DEF MatchesBefore
<1>12. ImagesOk'
  <2>1. \A a \in Addins \cap Journaled : a \in JournaledControls /\ journal'.after[a] = journal.after[a]
    BY <1>2, <1>4 DEF JournaledControls
  <2>2. \A p \in Journaled : p = StatePath \/ p \in JournaledControls
    BY DEF JournaledControls
  <2>3. Stands(Image(journal.before), BeforeTree)'
    BY <1>1, <1>9 DEF Recoverable, ImagesOk, Stands
  <2>4. \A p \in Journaled' : MatchesBefore(p)' \/ MatchesAfter(p)'
    BY <1>4, <1>10, <1>11, <2>2
  <2> QED BY <1>1, <1>3, <1>4, <1>9, <2>1, <2>3, <2>4, MarkStands DEF Recoverable, ImagesOk, roots
<1>13. SwapOk' /\ TreesIntact'
  BY <1>1, <1>3 DEF Recoverable, SwapOk, Intact, Ready, SetAside, Placed, Undone, HalfUndone, Slots,
     TreesIntact, roots
<1>14. journal' # NoJournal
  BY MarkShape, <1>1 DEF Shape, PcOk, MarkCommit, Goto, QuietPcs
<1>15. Recoverable'
  BY <1>1, <1>8, <1>12, <1>13, <1>14 DEF Recoverable
<1>16. pc' = "commit" /\ todo' = {StatePath} /\ UNCHANGED <<phase, op, cas, seen>>
  BY DEF MarkCommit, Goto
<1>17. BeginOnCourse' /\ CasOnCourse' /\ Fresh'
  BY <1>1, <1>16 DEF BeginOnCourse, CasOnCourse, Fresh
<1>18. SlotsOnCourse'
  BY <1>1, <1>3, <1>16 DEF OnCourse, SlotsOnCourse, Placed, Slots, roots
<1>19. LoopOnCourse'
  BY <1>1, <1>3, <1>4, <1>7, <1>10, <1>11, <1>16 DEF LoopOnCourse, Exchanged, Forward, Recovering
<1>20. OpJournal'
  <2>1. Outdated(op.sel)' = Outdated(op.sel)
    BY <1>3, <1>16 DEF Outdated
  <2> QED BY <1>1, <1>3, <1>4, <1>16, <2>1 DEF OnCourse, OpJournal, Forward, roots
<1> QED BY <1>15, <1>16, <1>17, <1>18, <1>19, <1>20 DEF OnCourse, Rejecting

(* The images of a journal that is retired are the files. *)
LEMMA SettledStands ==
  ASSUME Shape, Recoverable, journal # NoJournal,
         \/ Committed
         \/ (\A p \in Journaled : MatchesBefore(p)) /\ InPlace(journal.swap.before)
  PROVE  Stands(file, tree)
<1>1. Journaled \subseteq Paths /\ DOMAIN journal.after = Journaled
  BY JournalFacts
<1>2. CASE Committed
  <2>1. Image(journal.after) = file
    <3>1. \A p \in Paths : Image(journal.after)[p] = file[p]
      BY <1>1, <1>2 DEF Image, Committed, MatchesAfter
    <3> QED BY <3>1 DEF Image, Shape, DiskOk
  <2>2. AfterTree = tree
    <3>1. \A r \in Releases : AfterTree[r] = tree[r]
      BY <1>2 DEF AfterTree, Swapped, Committed
    <3> QED BY <3>1 DEF AfterTree, Swapped, Shape, DiskOk
  <2> QED BY <1>2, <2>1, <2>2 DEF Recoverable, ImagesOk, Committed
<1>3. CASE (\A p \in Journaled : MatchesBefore(p)) /\ InPlace(journal.swap.before)
  <2>1. Image(journal.before) = file
    <3>1. \A p \in Paths : Image(journal.before)[p] = file[p]
      BY <1>1, <1>3 DEF Image, MatchesBefore, Journaled
    <3> QED BY <3>1 DEF Image, Shape, DiskOk
  <2>2. BeforeTree = tree
    <3>1. \A r \in Releases : BeforeTree[r] = tree[r]
      BY <1>3 DEF BeforeTree, Swapped, InPlace
    <3> QED BY <3>1 DEF BeforeTree, Swapped, Shape, DiskOk
  <2> QED BY <2>1, <2>2 DEF Recoverable, ImagesOk
<1> QED BY <1>2, <1>3

LEMMA AfterRecoveryOnCourse ==
  ASSUME Shape, OnCourse, AfterRecovery, journal' = NoJournal, UNCHANGED <<file, env>>
  PROVE  OnCourse'
<1>1. CASE Exit
  BY <1>1, ExitOnCourse
<1>2. CASE ~Exit
  <2>1. pc' = "plan" /\ phase' = "run" /\ cas' = NoCas /\ op' = op /\ phase = "start" /\ op.kind # "status"
    BY <1>2 DEF AfterRecovery
  <2>2. Fresh'
    BY <2>1 DEF OnCourse, Fresh, env
  <2> QED BY <2>1, <2>2 DEF OnCourse, BeginOnCourse, CasOnCourse, Rejecting
<1> QED BY <1>1, <1>2

LEMMA RetireTransaction ==
  ASSUME Shape, Recoverable, OnCourse, Retire
  PROVE  Recoverable' /\ OnCourse'
<1>1. pc = "retire" /\ journal # NoJournal /\ journal' = NoJournal /\ AfterRecovery
      /\ UNCHANGED <<file, roots, quarantine, env>>
  BY DEF Retire, Shape, PcOk, QuietPcs
<1>2. Stands(file, tree)
  BY <1>1, SettledStands DEF OnCourse, LoopOnCourse
<1>3. Recoverable'
  BY <1>1, <1>2 DEF Recoverable, TreesIntact, Intact, StateOk, roots, env
<1> QED BY <1>1, <1>3, AfterRecoveryOnCourse

-----------------------------------------------------------------------------
(* Recovery: the candidates verify, the roots are recognized, no control   *)
(* has a third image, and what comes back is what was there before.        *)

LEMMA CandidatesDoVerify ==
  ASSUME Shape, Recoverable, journal # NoJournal
  PROVE  CandidatesVerify
<1>1. CASE journal.swap # NoSwap
  BY <1>1 DEF CandidatesVerify, Recoverable, SwapOk, Ready, SetAside, Placed, Undone, HalfUndone, Slots
<1>2. CASE journal.swap = NoSwap
  BY <1>2, JournalFacts DEF CandidatesVerify, Recoverable, ImagesOk, TreesIntact, Intact
<1> QED BY <1>1, <1>2

(* A control that recovery may still restore: not committed means the      *)
(* state is the one before.                                                *)
LEMMA UncommittedState ==
  ASSUME Shape, Recoverable, journal # NoJournal, ~Committed
  PROVE  MatchesBefore(StatePath) /\ ~(journal.commit /\ MatchesAfter(StatePath))
BY JournalFacts DEF Recoverable, StateOk, ImagesOk, MatchesBefore, MatchesAfter

(* A step of the recovery to another one. *)
LEMMA RecoveryOnCourse ==
  ASSUME Shape, OnCourse, journal # NoJournal, UNCHANGED <<file, journal, env>>,
         UNCHANGED <<phase, op>>, cas' = NoCas,
         pc \in Recovering \cup {"recover"}, pc' \in Recovering,
         MatchesBefore(StatePath), ~(journal.commit /\ MatchesAfter(StatePath)),
         pc' # "restore",
         SlotsOnCourse'
  PROVE  OnCourse'
<1>1. BeginOnCourse' /\ CasOnCourse' /\ Fresh'
  BY DEF OnCourse, BeginOnCourse, CasOnCourse, Fresh, Forward, Recovering, env
<1>2. LoopOnCourse' /\ OpJournal'
  BY DEF LoopOnCourse, OpJournal, MatchesAfter, MatchesBefore, Forward, Recovering
<1> QED BY <1>1, <1>2 DEF OnCourse, Recovering, Rejecting

LEMMA RecoverBeginTransaction ==
  ASSUME Shape, Recoverable, OnCourse, RecoverBegin
  PROVE  Recoverable' /\ OnCourse'
<1>1. pc = "recover" /\ cas = NoCas /\ quarantine = NoJournal
      /\ UNCHANGED <<file, tree, displaced, failed, journal, quarantine, sideFiles, env>>
  BY NoCasOutsideLoops DEF RecoverBegin, LoopPcs, ControlLoops, StateLoops, Recoverable
<1>2. CASE UNCHANGED staging
  <2>1. Recoverable'
    BY <1>1, <1>2, SameCommands DEF disk
  <2>2. CASE Exit
    BY <2>1, <2>2, ExitOnCourse
  <2>3. CASE journal = NoJournal /\ AfterRecovery
    BY <1>1, <2>1, <2>3, AfterRecoveryOnCourse
  <2>4. CASE journal # NoJournal /\ CandidatesVerify /\ ~Exit
    <3>1. CASE Committed /\ Goto("retire", {})
      <4>1. pc' = "retire" /\ UNCHANGED <<phase, op, cas>>
        BY <3>1 DEF Goto
      <4>2. Committed'
        BY <1>1, <3>1 DEF Committed, Journaled, MatchesAfter
      <4>3. BeginOnCourse' /\ CasOnCourse' /\ Fresh'
        BY <1>1, <4>1 DEF OnCourse, BeginOnCourse, CasOnCourse, Fresh, Forward, env
      <4>4. SlotsOnCourse' /\ LoopOnCourse' /\ OpJournal'
        BY <4>1, <4>2 DEF SlotsOnCourse, LoopOnCourse, OpJournal, Forward, Recovering
      <4> QED BY <2>1, <4>1, <4>3, <4>4 DEF OnCourse, Rejecting
    <3>2. CASE ~Committed
      <4>1. pc' \in {"rootcheck", "foreigncheck"} /\ UNCHANGED <<phase, op, cas>>
            /\ (pc' = "foreigncheck" => journal.swap = NoSwap)
        BY <1>1, <2>4, <3>2 DEF RecoverBegin, Goto
      <4>2. SlotsOnCourse'
        BY <1>1, <4>1 DEF SlotsOnCourse
      <4>3. OnCourse'
        BY <1>1, <2>4, <3>2, <4>1, <4>2, UncommittedState, RecoveryOnCourse DEF Recovering
      <4> QED BY <2>1, <4>3
    <3> QED BY <1>1, <2>4, <3>1, <3>2 DEF RecoverBegin
  <2> QED BY <1>1, <2>2, <2>3, <2>4, CandidatesDoVerify DEF RecoverBegin
<1>3. CASE ~UNCHANGED staging
  <2>1. journal = NoJournal /\ staging' = NoTree /\ AfterRecovery
    BY <1>1, <1>3 DEF RecoverBegin
  <2>2. Recoverable'
    BY <1>1, <2>1 DEF Recoverable, TreesIntact, Intact, StateOk, env
  <2> QED BY <1>1, <2>1, <2>2, AfterRecoveryOnCourse
<1> QED BY <1>2, <1>3

(* What holds of every step of RecoverReleaseRootSwap. *)
LEMMA RootStep ==
  ASSUME Shape, Recoverable, OnCourse, pc \in {"rootcheck", "rootclear", "rootrestore", "rootstaging"}
  PROVE  /\ journal # NoJournal /\ journal.swap # NoSwap /\ cas = NoCas
         /\ MatchesBefore(StatePath) /\ ~(journal.commit /\ MatchesAfter(StatePath))
         /\ Ready \/ SetAside \/ Placed \/ Undone \/ HalfUndone
         /\ journal.swap.release \in Releases
<1>1. journal # NoJournal /\ journal.swap # NoSwap /\ cas = NoCas
  BY RootPcs DEF Recovering, Shape, PcOk, SwapPcs
<1>2. MatchesBefore(StatePath) /\ ~(journal.commit /\ MatchesAfter(StatePath))
  BY <1>1 DEF OnCourse, LoopOnCourse, Recovering
<1> QED BY <1>1, <1>2, SwapFacts DEF Recoverable, SwapOk

LEMMA RootCheckTransaction ==
  ASSUME Shape, Recoverable, OnCourse, RecoverRootCheck
  PROVE  Recoverable' /\ OnCourse'
<1>1. pc = "rootcheck" /\ UNCHANGED <<file, roots, sideFiles, env>>
  BY DEF RecoverRootCheck
<1>2. SlotsRecognized
  BY <1>1, RootStep DEF SlotsRecognized, Ready, SetAside, Placed, Undone, HalfUndone, Slots
<1>3. /\ seen' = displaced /\ pc' = "rootclear"
      /\ UNCHANGED <<phase, op, todo, cas, journal, quarantine>>
  BY <1>2 DEF RecoverRootCheck
<1>4. Recoverable'
  BY <1>1, <1>3, SameDisk, CommandsNat DEF env
<1>5. SlotsOnCourse'
  BY <1>1, <1>3 DEF SlotsOnCourse, roots
<1>6. OnCourse'
  BY <1>1, <1>3, <1>5, RootStep, RecoveryOnCourse DEF Recovering
<1> QED BY <1>4, <1>6

LEMMA RootClearTransaction ==
  ASSUME Shape, Recoverable, OnCourse, RecoverRootClear
  PROVE  Recoverable' /\ OnCourse'
<1> DEFINE s == journal.swap
<1>1. pc = "rootclear" /\ UNCHANGED <<file, staging, displaced, sideFiles, env>>
  BY DEF RecoverRootClear
<1>2. /\ journal # NoJournal /\ s # NoSwap /\ cas = NoCas /\ s.release \in Releases
      /\ MatchesBefore(StatePath) /\ ~(journal.commit /\ MatchesAfter(StatePath))
      /\ Ready \/ SetAside \/ Placed \/ Undone \/ HalfUndone
  BY <1>1, RootStep
<1>3. seen = displaced
  BY <1>1, <1>2 DEF OnCourse, SlotsOnCourse
<1>4. CASE tree[s.release] \in {NoTree, s.before}
  <2>1. Goto("rootrestore", {}) /\ UNCHANGED <<tree, failed, journal, quarantine>>
    BY <1>4 DEF RecoverRootClear
  <2>2. Recoverable'
    BY <1>1, <2>1, SameDisk, CommandsNat DEF roots, env
  <2>3. pc' = "rootrestore" /\ UNCHANGED <<phase, op, cas, seen>>
    BY <2>1 DEF Goto
  <2>4. SlotsOnCourse'
    BY <1>1, <1>3, <1>4, <2>1, <2>3 DEF SlotsOnCourse
  <2> QED BY <1>1, <1>2, <2>1, <2>2, <2>3, <2>4, RecoveryOnCourse DEF Recovering
<1>5. CASE tree[s.release] \notin {NoTree, s.before}
  <2>1. Placed
    BY <1>2, <1>5 DEF Ready, SetAside, Placed, Undone, HalfUndone, Slots
  <2>2. /\ failed' = tree[s.release] /\ tree' = [tree EXCEPT ![s.release] = NoTree]
        /\ Goto("rootrestore", {}) /\ UNCHANGED <<journal, quarantine>>
    BY <1>5, <2>1 DEF RecoverRootClear, Placed, Slots
  <2>3. /\ tree' \in [Releases -> Slot] /\ tree'[s.release] = NoTree
        /\ \A r \in Releases : r # s.release => tree'[r] = tree[r]
    BY <1>2, <2>2 DEF Shape, DiskOk, Slot
  <2>4. HalfUndone'
    BY <1>1, <2>1, <2>2, <2>3 DEF Placed, HalfUndone, Slots
  <2>5. Intact(tree'[s.release]) /\ Intact(staging') /\ Intact(displaced') /\ Intact(failed')
    BY <1>1, <1>2, <2>2, <2>3 DEF Recoverable, TreesIntact, Intact
  <2>6. Recoverable'
    BY <1>1, <1>2, <2>2, <2>3, <2>4, <2>5, MovesRecoverable DEF HalfUndone
  <2>7. pc' = "rootrestore" /\ UNCHANGED <<phase, op, cas, seen>>
    BY <2>2 DEF Goto
  <2>8. SlotsOnCourse'
    BY <1>1, <1>3, <2>2, <2>3, <2>7 DEF SlotsOnCourse
  <2> QED BY <1>1, <1>2, <2>2, <2>6, <2>7, <2>8, RecoveryOnCourse DEF Recovering
<1> QED BY <1>4, <1>5

LEMMA RootRestoreTransaction ==
  ASSUME Shape, Recoverable, OnCourse, RecoverRootRestore
  PROVE  Recoverable' /\ OnCourse'
<1> DEFINE s == journal.swap
<1>1. pc = "rootrestore" /\ UNCHANGED <<file, staging, failed, sideFiles, env>>
  BY DEF RecoverRootRestore
<1>2. /\ journal # NoJournal /\ s # NoSwap /\ cas = NoCas /\ s.release \in Releases
      /\ MatchesBefore(StatePath) /\ ~(journal.commit /\ MatchesAfter(StatePath))
      /\ Ready \/ SetAside \/ Placed \/ Undone \/ HalfUndone
  BY <1>1, RootStep
<1>3. seen = displaced /\ tree[s.release] \in {NoTree, s.before}
  BY <1>1, <1>2 DEF OnCourse, SlotsOnCourse
<1>4. CASE tree[s.release] = s.before
  <2>1. Goto("rootstaging", {}) /\ UNCHANGED <<tree, displaced, journal, quarantine>>
    BY <1>4 DEF RecoverRootRestore
  <2>2. Recoverable'
    BY <1>1, <2>1, SameDisk, CommandsNat DEF roots, env
  <2>3. pc' = "rootstaging" /\ UNCHANGED <<phase, op, cas, seen>>
    BY <2>1 DEF Goto
  <2>4. SlotsOnCourse'
    BY <1>4, <2>1, <2>3 DEF SlotsOnCourse
  <2> QED BY <1>1, <1>2, <2>1, <2>2, <2>3, <2>4, RecoveryOnCourse DEF Recovering
<1>5. CASE tree[s.release] # s.before
  <2>1. tree[s.release] = NoTree /\ s.before # NoTree
    BY <1>3, <1>5
  <2>2. SetAside \/ HalfUndone
    BY <1>2, <2>1, SwapFacts DEF Ready, SetAside, Placed, Undone, HalfUndone, Slots
  <2>3. displaced = s.before
    BY <2>2 DEF SetAside, HalfUndone, Slots
  <2>4. /\ tree' = [tree EXCEPT ![s.release] = displaced] /\ displaced' = NoTree
        /\ Goto("rootstaging", {}) /\ UNCHANGED <<journal, quarantine>>
    BY <1>3, <1>5, <2>1, <2>3 DEF RecoverRootRestore
  <2>5. /\ tree' \in [Releases -> Slot] /\ tree'[s.release] = s.before
        /\ \A r \in Releases : r # s.release => tree'[r] = tree[r]
    BY <1>2, <2>3, <2>4, SwapFacts DEF Shape, DiskOk
  <2>6. Ready' \/ Undone'
    BY <1>1, <2>2, <2>4, <2>5 DEF SetAside, HalfUndone, Ready, Undone, Slots
  <2>7. Intact(tree'[s.release]) /\ Intact(staging') /\ Intact(displaced') /\ Intact(failed')
    BY <1>1, <2>3, <2>4, <2>5 DEF Recoverable, TreesIntact, Intact
  <2>8. Recoverable'
    BY <1>1, <1>2, <2>4, <2>5, <2>6, <2>7, MovesRecoverable DEF Ready, Undone
  <2>9. pc' = "rootstaging" /\ UNCHANGED <<phase, op, cas, seen>>
    BY <2>4 DEF Goto
  <2>10. SlotsOnCourse'
    BY <2>4, <2>5, <2>9 DEF SlotsOnCourse
  <2> QED BY <1>1, <1>2, <2>4, <2>8, <2>9, <2>10, RecoveryOnCourse DEF Recovering
<1> QED BY <1>4, <1>5

LEMMA RootStagingTransaction ==
  ASSUME Shape, Recoverable, OnCourse, RecoverRootStaging
  PROVE  Recoverable' /\ OnCourse'
<1> DEFINE s == journal.swap
<1>1. pc = "rootstaging" /\ UNCHANGED <<file, tree, displaced, sideFiles, env>>
  BY DEF RecoverRootStaging
<1>2. /\ journal # NoJournal /\ s # NoSwap /\ cas = NoCas /\ s.release \in Releases
      /\ MatchesBefore(StatePath) /\ ~(journal.commit /\ MatchesAfter(StatePath))
      /\ Ready \/ SetAside \/ Placed \/ Undone \/ HalfUndone
      /\ s.after # NoTree
  BY <1>1, RootStep, SwapFacts
<1>3. tree[s.release] = s.before
  BY <1>1, <1>2 DEF OnCourse, SlotsOnCourse
<1>4. CASE staging = NoTree
  <2>1. Goto("foreigncheck", {}) /\ UNCHANGED <<staging, failed, journal, quarantine>>
    BY <1>4 DEF RecoverRootStaging
  <2>2. Recoverable'
    BY <1>1, <2>1, SameDisk, CommandsNat DEF roots, env
  <2>3. pc' = "foreigncheck" /\ UNCHANGED <<phase, op, cas, seen>>
    BY <2>1 DEF Goto
  <2>4. SlotsOnCourse'
    BY <1>1, <1>3, <1>4, <2>1, <2>3 DEF SlotsOnCourse
  <2> QED BY <1>1, <1>2, <2>1, <2>2, <2>3, <2>4, RecoveryOnCourse DEF Recovering
<1>5. CASE staging # NoTree
  <2>1. /\ staging = s.after /\ failed = NoTree
        /\ displaced = NoTree \/ (displaced = s.before /\ s.before = NoTree)
    BY <1>2, <1>3, <1>5 DEF Ready, SetAside, Placed, Undone, HalfUndone, Slots
  <2>2. /\ failed' = staging /\ staging' = NoTree
        /\ Goto("foreigncheck", {}) /\ UNCHANGED <<journal, quarantine>>
    BY <1>5, <2>1 DEF RecoverRootStaging
  <2>3. Undone'
    BY <1>1, <1>3, <2>1, <2>2 DEF Undone, Slots
  <2>4. Intact(tree'[s.release]) /\ Intact(staging') /\ Intact(displaced') /\ Intact(failed')
    BY <1>1, <1>2, <2>2 DEF Recoverable, TreesIntact, Intact
  <2>5. Recoverable'
    BY <1>1, <1>2, <2>2, <2>3, <2>4, MovesRecoverable DEF Undone, Shape, DiskOk
  <2>6. pc' = "foreigncheck" /\ UNCHANGED <<phase, op, cas, seen>>
    BY <2>2 DEF Goto
  <2>7. SlotsOnCourse'
    BY <1>1, <1>3, <2>2, <2>6 DEF SlotsOnCourse
  <2> QED BY <1>1, <1>2, <2>2, <2>5, <2>6, <2>7, RecoveryOnCourse DEF Recovering
<1> QED BY <1>4, <1>5

LEMMA ForeignCheckTransaction ==
  ASSUME Shape, Recoverable, OnCourse, RecoverForeignCheck
  PROVE  Recoverable' /\ OnCourse'
<1>1. pc = "foreigncheck" /\ journal # NoJournal /\ cas = NoCas
      /\ UNCHANGED <<file, roots, sideFiles, env>>
  BY RootPcs DEF RecoverForeignCheck, Recovering
<1>2. ~ThirdPartyImage
  BY <1>1 DEF ThirdPartyImage, Recoverable, ImagesOk
<1>3. Goto("restore", Journaled) /\ UNCHANGED <<journal, quarantine>>
  BY <1>2 DEF RecoverForeignCheck
<1>4. Recoverable'
  BY <1>1, <1>3, SameDisk, CommandsNat DEF env
<1>5. pc' = "restore" /\ todo' = Journaled /\ UNCHANGED <<phase, op, cas, seen>>
  BY <1>3 DEF Goto
<1>6. BeginOnCourse' /\ CasOnCourse' /\ Fresh'
  BY <1>1, <1>3, <1>5 DEF OnCourse, BeginOnCourse, CasOnCourse, Fresh, Forward, env
<1>7. SlotsOnCourse'
  BY <1>1, <1>3, <1>5 DEF OnCourse, SlotsOnCourse, roots
<1>8. LoopOnCourse' /\ OpJournal'
  BY <1>1, <1>3, <1>5 DEF OnCourse, LoopOnCourse, OpJournal, MatchesBefore, MatchesAfter, Journaled,
     Forward, Recovering
<1> QED BY <1>4, <1>5, <1>6, <1>7, <1>8 DEF OnCourse, Rejecting

LEMMA RestoreTransaction ==
  ASSUME Shape, Recoverable, OnCourse, NEW p \in Paths, RestoreControl(p)
  PROVE  Recoverable' /\ OnCourse'
<1>1. pc = "restore" /\ cas = NoCas /\ p \in todo /\ UNCHANGED <<disk, env>> /\ journal # NoJournal
  BY DEF RestoreControl, Shape, PcOk, QuietPcs
<1>2. Recoverable'
  BY <1>1, SameCommands
<1>3. p \in Journaled
  BY <1>1 DEF Shape, PcOk
<1>4. CASE MatchesBefore(p)
  <2>1. Goto("restore", todo \ {p})
    BY <1>4 DEF RestoreControl
  <2>2. pc' = pc /\ todo' = todo \ {p} /\ UNCHANGED <<phase, op, cas, seen>>
    BY <1>1, <2>1 DEF Goto
  <2>3. BeginOnCourse' /\ CasOnCourse' /\ Fresh' /\ SlotsOnCourse'
    BY <1>1, <2>2 DEF OnCourse, BeginOnCourse, CasOnCourse, Fresh, SlotsOnCourse, Forward, disk, env
  <2>4. LoopOnCourse' /\ OpJournal'
    BY <1>1, <1>4, <2>2 DEF OnCourse, LoopOnCourse, OpJournal, MatchesBefore, MatchesAfter, Journaled,
       Forward, Recovering, disk
  <2> QED BY <1>1, <1>2, <2>2, <2>3, <2>4 DEF OnCourse, Rejecting
<1>5. CASE ~MatchesBefore(p)
  <2>1. /\ file[p] = journal.after[p]
        /\ cas' = [path |-> p, expect |-> journal.after[p], new |-> journal.before[p],
                   step |-> "swap", side |-> Absent]
        /\ UNCHANGED <<pc, phase, op, todo, seen>>
    BY <1>1, <1>3, <1>5 DEF RestoreControl, CasStart, Recoverable, ImagesOk, MatchesAfter
  <2>2. BeginOnCourse' /\ Fresh' /\ SlotsOnCourse'
    BY <1>1, <2>1 DEF OnCourse, BeginOnCourse, Fresh, SlotsOnCourse, Forward, disk, env
  <2>3. CasOnCourse'
    BY <1>1, <2>1 DEF CasOnCourse, disk
  <2>4. LoopOnCourse' /\ OpJournal'
    BY <1>1, <2>1 DEF OnCourse, LoopOnCourse, OpJournal, MatchesBefore, MatchesAfter, Journaled,
       Forward, Recovering, disk
  <2> QED BY <1>1, <1>2, <2>1, <2>2, <2>3, <2>4 DEF OnCourse, Rejecting
<1> QED BY <1>4, <1>5

LEMMA LoopEndTransaction ==
  ASSUME Shape, Recoverable, OnCourse, LoopEnd
  PROVE  Recoverable' /\ OnCourse'
<1>1. cas = NoCas /\ todo = {} /\ pc \in {"activate", "commit", "restore"} /\ journal # NoJournal
      /\ UNCHANGED <<disk, env>>
  BY DEF LoopEnd, OnCourse, Rejecting, Shape, PcOk, QuietPcs
<1>2. Recoverable'
  BY <1>1, SameCommands
<1>3. /\ pc = "activate" => pc' = "validate"
      /\ pc \in {"commit", "restore"} => pc' = "retire"
      /\ todo' = {} /\ UNCHANGED <<phase, op, cas, seen>>
  BY <1>1 DEF LoopEnd, Goto
<1>4. BeginOnCourse' /\ CasOnCourse' /\ Fresh'
  BY <1>1, <1>3 DEF OnCourse, BeginOnCourse, CasOnCourse, Fresh, Forward, disk, env
<1>5. SlotsOnCourse'
  BY <1>1, <1>3 DEF OnCourse, SlotsOnCourse, Placed, Slots, disk
<1>6. OpJournal'
  BY <1>1, <1>3 DEF OnCourse, OpJournal, Outdated, JournaledControls, Journaled, Forward, disk
<1>7. LoopOnCourse'
  <2>1. CASE pc = "activate"
    BY <1>1, <1>3, <2>1 DEF OnCourse, LoopOnCourse, JournaledControls, Journaled, MatchesBefore,
       MatchesAfter, Forward, Recovering, disk
  <2>2. CASE pc = "commit"
    <3>1. Committed
      <4>1. journal.commit /\ MatchesAfter(StatePath)
        BY <1>1, <2>2 DEF OnCourse, LoopOnCourse, Forward
      <4> QED BY <1>1, <4>1 DEF Recoverable, StateOk
    <3>2. Committed'
      BY <1>1, <3>1 DEF Committed, Journaled, MatchesAfter, disk
    <3> QED BY <1>3, <2>2, <3>2 DEF LoopOnCourse, Forward, Recovering
  <2>3. CASE pc = "restore"
    <3>1. \A p \in Journaled : MatchesBefore(p)
      BY <1>1, <2>3 DEF OnCourse, LoopOnCourse
    <3>2. InPlace(journal.swap.before)
      BY <1>1, <2>3 DEF OnCourse, SlotsOnCourse, InPlace
    <3>3. (\A p \in Journaled : MatchesBefore(p))' /\ InPlace(journal.swap.before)'
      BY <1>1, <3>1, <3>2 DEF Journaled, MatchesBefore, InPlace, disk
    <3> QED BY <1>3, <2>3, <3>3 DEF LoopOnCourse, Forward, Recovering
  <2> QED BY <1>1, <2>1, <2>2, <2>3
<1> QED BY <1>1, <1>2, <1>3, <1>4, <1>5, <1>6, <1>7 DEF OnCourse, Rejecting

(* Where a compare-and-swap is, and the path it is at. *)
LEMMA CasPlace ==
  ASSUME Shape, OnCourse, cas # NoCas
  PROVE  /\ pc \in {"activate", "commit", "restore"} /\ journal # NoJournal
         /\ cas.path \in Journaled /\ cas.path \in todo /\ cas.path \in Paths
         /\ pc = "activate" => cas.path \in JournaledControls
         /\ pc = "commit" => cas.path = StatePath
<1>1. pc \in LoopPcs /\ cas.path \in todo
  BY CasFields
<1>2. journal # NoJournal /\ cas.path \in Journaled
  BY <1>1, LoopsJournaled
<1>3. pc \in {"activate", "commit", "restore"}
  BY <1>1 DEF OnCourse, Rejecting, LoopPcs, ControlLoops, StateLoops
<1> QED BY <1>1, <1>2, <1>3, CasFields DEF Shape, PcOk, ControlLoops, StateLoops

(* One image for the other, at a path of the journal. *)
LEMMA ExchangeRecoverable ==
  ASSUME Shape, Recoverable, journal # NoJournal, NEW p \in Journaled,
         NEW v \in {journal.before[p], journal.after[p]},
         file' = [file EXCEPT ![p] = v], UNCHANGED <<roots, journal, quarantine, env>>,
         journal.commit /\ file'[StatePath] = journal.after[StatePath] => Committed'
  PROVE  Recoverable'
<1>1. Journaled \subseteq Paths /\ StatePath \in Journaled /\ DOMAIN journal.after = Journaled
      /\ \A q \in Paths : file'[q] = IF q = p THEN v ELSE file[q]
  BY JournalFacts DEF Shape, DiskOk
<1>2. Image(journal.before)' = Image(journal.before) /\ Image(journal.after)' = Image(journal.after)
  BY <1>1 DEF Image, Journaled
<1>3. BeforeTree' = BeforeTree /\ AfterTree' = AfterTree
  BY DEF BeforeTree, AfterTree, Swapped, roots
<1>4. \A q \in Journaled : file'[q] \in {journal.before[q], journal.after[q]}
  BY <1>1 DEF Recoverable, ImagesOk, MatchesBefore, MatchesAfter
<1>5. ImagesOk'
  BY <1>2, <1>3, <1>4 DEF Recoverable, ImagesOk, MatchesBefore, MatchesAfter, Journaled, roots
<1>6. SwapOk' /\ TreesIntact'
  BY DEF Recoverable, SwapOk, Intact, Ready, SetAside, Placed, Undone, HalfUndone, Slots,
     TreesIntact, roots
<1>7. StateOk'
  <2>1. /\ StampOf(journal.before[StatePath]) \in Nat /\ StampOf(journal.after[StatePath]) \in Nat
        /\ commands \in Nat
    BY JournalFacts, StampType, CommandsNat
  <2>2. StampOf(journal.before[StatePath]) <= commands /\ StampOf(journal.after[StatePath]) <= commands
    BY <2>1, JournalFacts DEF Recoverable, StateOk
  <2>3. StampOf(file'[StatePath]) <= commands
    BY <1>1, <1>4, <2>2
  <2> QED BY <2>3 DEF Recoverable, StateOk, MatchesAfter, env
<1> QED BY <1>5, <1>6, <1>7 DEF Recoverable

LEMMA CasSwapTransaction ==
  ASSUME Shape, Recoverable, OnCourse, CasSwap
  PROVE  Recoverable' /\ OnCourse'
<1>0. PICK p : p = cas.path
  OBVIOUS
<1>1. cas # NoCas /\ cas.step = "swap" /\ UNCHANGED <<roots, journal, quarantine, sideFiles, env>>
  BY DEF CasSwap
<1>2. /\ pc \in {"activate", "commit", "restore"} /\ journal # NoJournal
      /\ p \in Journaled /\ p \in todo /\ p \in Paths
      /\ pc = "activate" => p \in JournaledControls
      /\ pc = "commit" => p = StatePath
  BY <1>0, <1>1, CasPlace
<1>3. /\ file[p] = cas.expect
      /\ pc \in {"activate", "commit"} => cas.expect = journal.before[p] /\ cas.new = journal.after[p]
      /\ pc = "restore" => cas.expect = journal.after[p] /\ cas.new = journal.before[p]
  BY <1>0, <1>1 DEF OnCourse, CasOnCourse
<1>4. file' = [file EXCEPT ![p] = cas.new]
  BY <1>0, <1>3 DEF CasSwap
<1>5. /\ Journaled \subseteq Paths /\ StatePath \in Journaled /\ StatePath \notin JournaledControls
      /\ \A q \in Paths : file'[q] = IF q = p THEN cas.new ELSE file[q]
      /\ JournaledControls \subseteq Journaled
  BY <1>0, <1>2, <1>4, JournalFacts DEF Shape, DiskOk, JournaledControls
<1>6. pc' = pc /\ UNCHANGED <<phase, op, seen>>
      /\ \/ cas' = NoCas /\ todo' = todo \ {p}
         \/ /\ cas' = [cas EXCEPT !.step = "verify", !.side = file[p]] /\ todo' = todo
            /\ cas \in CasRecords /\ cas' # NoCas
  <2>1. cas \in CasRecords /\ file[p] \in Contents
    BY <1>0, <1>1, <1>2, CasFields DEF Shape, DiskOk
  <2>2. [cas EXCEPT !.step = "verify", !.side = file[p]] \in CasRecords
    BY <2>1 DEF CasRecords
  <2> QED BY <1>0, <1>1, <1>3, <2>1, <2>2, MarkersAssumption DEF MarkersAssumption, CasSwap, CasReturn
<1>7. /\ cas' # NoCas => /\ cas'.path = p /\ cas'.step = "verify" /\ cas'.side = cas.expect
                         /\ cas'.expect = cas.expect /\ cas'.new = cas.new
      /\ p \in todo' => Exchanged(p)'
  <2>1. CASE cas' = NoCas
    BY <1>0, <1>1, <1>6, <2>1 DEF Exchanged
  <2>2. CASE cas' # NoCas
    <3>1. /\ cas'.path = p /\ cas'.step = "verify" /\ cas'.side = cas.expect
          /\ cas'.expect = cas.expect /\ cas'.new = cas.new
      BY <1>0, <1>3, <1>6, <2>2 DEF CasRecords
    <3> QED BY <1>0, <1>1, <1>6, <2>2, <3>1 DEF Exchanged
  <2> QED BY <2>1, <2>2
<1>14. /\ pc \in {"activate", "commit"} => MatchesAfter(p)'
       /\ pc = "restore" => MatchesBefore(p)'
  BY <1>0, <1>1, <1>2, <1>3, <1>5 DEF MatchesBefore, MatchesAfter
<1>8. CasOnCourse'
  BY <1>0, <1>1, <1>3, <1>5, <1>2, <1>6, <1>7 DEF CasOnCourse
<1>9. SlotsOnCourse' /\ BeginOnCourse'
  BY <1>0, <1>1, <1>2, <1>6 DEF OnCourse, SlotsOnCourse, BeginOnCourse, Placed, Slots, roots
<1>10. OpJournal'
  BY <1>0, <1>1, <1>2, <1>6 DEF OnCourse, OpJournal, Outdated, JournaledControls, Journaled, roots
<1>11. CASE pc = "activate"
  <2>1. p # StatePath /\ ~journal.commit
    BY <1>0, <1>2, <1>5, <1>11 DEF OnCourse, LoopOnCourse, Forward
  <2>2. Recoverable'
    BY <1>0, <1>1, <1>2, <1>3, <1>4, <1>11, <2>1, ExchangeRecoverable
  <2>3. Fresh'
    BY <1>0, <1>1, <1>2, <1>5, <1>6, <1>11, <2>1 DEF OnCourse, Fresh, env
  <2>4. ASSUME NEW q \in JournaledControls
        PROVE  IF q \in todo' /\ ~Exchanged(q)' THEN MatchesBefore(q)' ELSE MatchesAfter(q)'
    <3>1. CASE q = p
      BY <1>0, <1>7, <1>11, <1>14, <3>1
    <3>2. CASE q # p
      <4>1. IF q \in todo /\ ~Exchanged(q) THEN MatchesBefore(q) ELSE MatchesAfter(q)
        BY <1>0, <1>2, <1>11 DEF OnCourse, LoopOnCourse
      <4>2. q \in Paths /\ file'[q] = file[q] /\ q # cas.path
        BY <1>0, <1>5, <3>2
      <4>3. (MatchesBefore(q)' <=> MatchesBefore(q)) /\ (MatchesAfter(q)' <=> MatchesAfter(q))
        BY <1>1, <4>2 DEF MatchesBefore, MatchesAfter
      <4>4. (q \in todo' <=> q \in todo) /\ ~Exchanged(q)' /\ ~Exchanged(q)
        BY <1>1, <1>0, <1>6, <1>7, <4>2 DEF Exchanged
      <4> QED BY <4>1, <4>3, <4>4
    <3> QED BY <3>1, <3>2
  <2>5. LoopOnCourse'
    <3>1. JournaledControls' = JournaledControls
      BY <1>0, <1>1 DEF JournaledControls, Journaled
    <3> QED BY <1>0, <1>1, <1>6, <1>11, <2>1, <2>4, <3>1 DEF LoopOnCourse, Forward, Recovering
  <2> QED BY <1>0, <1>6, <1>8, <1>9, <1>10, <1>11, <2>2, <2>3, <2>5 DEF OnCourse, Rejecting
<1>12. CASE pc = "commit"
  <2>1. p = StatePath /\ journal.commit /\ cas.new = journal.after[StatePath]
    BY <1>0, <1>2, <1>3, <1>12 DEF OnCourse, LoopOnCourse, Forward
  <2>2. \A q \in Journaled : MatchesAfter(q)'
    BY <1>0, <1>1, <1>2, <1>5, <1>12, <2>1 DEF OnCourse, LoopOnCourse, MatchesAfter, JournaledControls
  <2>3. Committed'
    BY <1>0, <1>1, <1>2, <1>12, <2>1, <2>2 DEF OnCourse, SlotsOnCourse, Placed, Slots, Committed, Journaled, roots
  <2>4. Recoverable'
    BY <1>0, <1>1, <1>2, <1>4, <2>1, <2>3, ExchangeRecoverable
  <2>5. Fresh'
    BY <1>0, <1>6, <1>12 DEF Fresh, Shape, PcOk, Forward
  <2>6. LoopOnCourse'
    <3>1. JournaledControls' = JournaledControls /\ Journaled' = Journaled
      BY <1>0, <1>1 DEF JournaledControls, Journaled
    <3>2. StatePath \in todo' => Exchanged(StatePath)'
      BY <1>0, <1>7, <2>1
    <3>3. \A q \in JournaledControls' : MatchesAfter(q)'
      BY <1>0, <1>5, <2>2, <3>1
    <3> QED BY <1>0, <1>1, <1>5, <1>6, <1>12, <2>1, <2>2, <3>2, <3>3 DEF LoopOnCourse, Forward, Recovering
  <2> QED BY <1>0, <1>6, <1>8, <1>9, <1>10, <1>12, <2>4, <2>5, <2>6 DEF OnCourse, Rejecting
<1>13. CASE pc = "restore"
  <2>1. MatchesBefore(StatePath) /\ ~(journal.commit /\ MatchesAfter(StatePath)) /\ cas.new = journal.before[p]
    BY <1>0, <1>2, <1>3, <1>13 DEF OnCourse, LoopOnCourse, Recovering
  <2>2. file'[StatePath] = file[StatePath]
    BY <1>0, <1>5, <2>1 DEF MatchesBefore
  <2>3. Recoverable'
    BY <1>0, <1>1, <1>2, <1>4, <2>1, <2>2, ExchangeRecoverable DEF MatchesAfter
  <2>4. Fresh'
    BY <1>0, <1>1, <1>6, <2>2 DEF OnCourse, Fresh, env
  <2>5. MatchesBefore(p)' /\ MatchesBefore(StatePath)' /\ ~(journal.commit /\ MatchesAfter(StatePath))'
    BY <1>0, <1>1, <1>13, <1>14, <2>1, <2>2 DEF MatchesBefore, MatchesAfter
  <2>6. \A q \in Journaled \ todo' : MatchesBefore(q)'
    <3>1. \A q \in Journaled : q \notin todo => MatchesBefore(q)
      BY <1>0, <1>2, <1>13 DEF OnCourse, LoopOnCourse
    <3>2. ASSUME NEW q \in Journaled, q \notin todo'
          PROVE  MatchesBefore(q)'
      <4>1. CASE q = p
        BY <2>5, <4>1
      <4>2. CASE q # p
        <5>1. q \in Paths /\ file'[q] = file[q] /\ q \notin todo
          BY <1>0, <1>5, <1>6, <3>2, <4>2
        <5> QED BY <1>1, <3>1, <3>2, <5>1 DEF MatchesBefore
      <4> QED BY <4>1, <4>2
    <3> QED BY <3>2
  <2>7. LoopOnCourse'
    <3>1. Journaled' = Journaled
      BY <1>0, <1>1 DEF Journaled
    <3> QED BY <1>0, <1>6, <1>13, <2>5, <2>6, <3>1 DEF LoopOnCourse, Forward, Recovering
  <2> QED BY <1>0, <1>6, <1>8, <1>9, <1>10, <1>13, <2>3, <2>4, <2>7 DEF OnCourse, Rejecting
<1> QED BY <1>0, <1>2, <1>11, <1>12, <1>13

LEMMA CasVerifyTransaction ==
  ASSUME Shape, Recoverable, OnCourse, CasVerify
  PROVE  Recoverable' /\ OnCourse'
<1> DEFINE p == cas.path
<1>1. cas # NoCas /\ cas.step = "verify" /\ UNCHANGED <<file, roots, journal, quarantine, env>>
  BY DEF CasVerify
<1>2. /\ pc \in {"activate", "commit", "restore"} /\ journal # NoJournal
      /\ p \in Journaled /\ p \in todo /\ p \in Paths
      /\ pc = "commit" => p = StatePath
  BY <1>1, CasPlace
<1>3. /\ file[p] = cas.new /\ cas.side = cas.expect
      /\ pc \in {"activate", "commit"} => cas.new = journal.after[p]
      /\ pc = "restore" => cas.new = journal.before[p]
  BY <1>1, <1>2 DEF OnCourse, CasOnCourse
<1>4. pc' = pc /\ todo' = todo \ {p} /\ cas' = NoCas /\ UNCHANGED <<phase, op, seen>>
  BY <1>3 DEF CasVerify, CasReturn
<1>5. Recoverable'
  BY <1>1, SameDisk, CommandsNat DEF env
<1>6. BeginOnCourse' /\ CasOnCourse' /\ Fresh' /\ SlotsOnCourse' /\ OpJournal'
  BY <1>1, <1>2, <1>4 DEF OnCourse, BeginOnCourse, CasOnCourse, Fresh, SlotsOnCourse, OpJournal, Outdated,
     Placed, Slots, JournaledControls, Journaled, roots, env
<1>7. Journaled' = Journaled /\ JournaledControls' = JournaledControls
      /\ \A q : (MatchesBefore(q)' <=> MatchesBefore(q)) /\ (MatchesAfter(q)' <=> MatchesAfter(q))
  BY <1>1 DEF Journaled, JournaledControls, MatchesBefore, MatchesAfter
<1>8. Exchanged(p) /\ \A q : ~Exchanged(q)' /\ (q # p => ~Exchanged(q))
  BY <1>1, <1>4 DEF Exchanged
<1>9. LoopOnCourse'
  <2>1. CASE pc = "activate"
    <3>1. MatchesAfter(p)
      BY <1>3, <2>1 DEF MatchesAfter
    <3> QED BY <1>1, <1>2, <1>4, <1>7, <1>8, <2>1, <3>1 DEF OnCourse, LoopOnCourse, Forward, Recovering
  <2>2. CASE pc = "commit"
    <3>1. MatchesAfter(StatePath)
      BY <1>2, <1>3, <2>2 DEF MatchesAfter
    <3> QED BY <1>1, <1>2, <1>4, <1>7, <1>8, <2>2, <3>1 DEF OnCourse, LoopOnCourse, Forward, Recovering
  <2>3. CASE pc = "restore"
    <3>1. MatchesBefore(p)
      BY <1>3, <2>3 DEF MatchesBefore
    <3> QED BY <1>1, <1>2, <1>4, <1>7, <2>3, <3>1 DEF OnCourse, LoopOnCourse, Forward, Recovering
  <2> QED BY <1>2, <2>1, <2>2, <2>3
<1> QED BY <1>2, <1>4, <1>5, <1>6, <1>9 DEF OnCourse, Rejecting

-----------------------------------------------------------------------------
(* The transaction holds. *)

LEMMA ProcessTransaction ==
  ASSUME Shape, Recoverable, OnCourse, ProcessStep
  PROVE  Recoverable' /\ OnCourse'
<1>1. CASE \/ PlanInstall \/ PlanRollback \/ BeginActivationJournal
           \/ DisplaceRoot \/ PlaceRoot \/ AssertReleaseRootMatches
           \/ ValidateActivatedRelease \/ MarkCommit \/ CommitState \/ Retire
  BY <1>1, PlanInstallTransaction, PlanRollbackTransaction, BeginTransaction, DisplaceTransaction,
     PlaceTransaction, AssertTransaction, ValidateTransaction, MarkTransaction, CommitTransaction,
     RetireTransaction
<1>2. CASE \/ RecoverBegin \/ RecoverRootCheck \/ RecoverRootClear \/ RecoverRootRestore
           \/ RecoverRootStaging \/ RecoverForeignCheck
  BY <1>2, RecoverBeginTransaction, RootCheckTransaction, RootClearTransaction,
     RootRestoreTransaction, RootStagingTransaction, ForeignCheckTransaction
<1>3. ASSUME NEW p \in Paths, ActivateControl(p) \/ RestoreControl(p)
      PROVE  Recoverable' /\ OnCourse'
  BY <1>3, ActivateTransaction, RestoreTransaction
<1>4. CASE LoopEnd \/ CasSwap \/ CasVerify
  BY <1>4, LoopEndTransaction, CasSwapTransaction, CasVerifyTransaction
<1>5. ~QuarantineRejected /\ \A p \in Paths : ~DisableControl(p) /\ ~ReinstateControl(p)
  BY DEF OnCourse, Rejecting, QuarantineRejected, DisableControl, ReinstateControl
<1>6. ~CasPutBack
  BY DEF OnCourse, CasOnCourse, CasPutBack
<1> QED BY <1>1, <1>2, <1>3, <1>4, <1>5, <1>6 DEF ProcessStep

LEMMA InitTransaction ==
  Init => Recoverable /\ OnCourse
<1> SUFFICES ASSUME Init PROVE Recoverable /\ OnCourse
  OBVIOUS
<1>1. StatePath \in Paths /\ Addins \subseteq Paths
  BY DEF Paths, Controls
<1>2. Stands(file, tree)
  BY <1>1 DEF Init, Stands, OwnedOf
<1>3. TreesIntact /\ StateOk
  BY <1>1 DEF Init, TreesIntact, Intact, StateOk, StampOf
<1>4. OnCourse
  BY DEF Init, OnCourse, BeginOnCourse, CasOnCourse, Fresh, NoOp, Rejecting
<1> QED BY <1>2, <1>3, <1>4 DEF Init, Recoverable

(* Nobody has interfered yet: it was no third party's step. *)
LEMMA UndisturbedSteps ==
  ASSUME Shape, [Next]_vars, Undisturbed'
  PROVE  /\ Undisturbed
         /\ \/ \E o \in Commands : Execute(o)
            \/ ProcessStep
            \/ Crash \/ IOFault \/ SideFileFault
            \/ RevitStartsOrExits
            \/ UNCHANGED vars
<1>1. thirdParty \in Nat
  BY ConstantsAssumption DEF ConstantsAssumption, Shape, EnvOk
<1>2. ~RecoverReadFault
  BY DEF RecoverReadFault, Undisturbed
<1>3. ~AlterTree
  BY <1>1 DEF AlterTree, Undisturbed
<1>4. \A c \in Controls, v \in Foreign \cup {Absent} : ~EditControl(c, v)
  BY <1>1 DEF EditControl, Undisturbed
<1>5. \/ \E o \in Commands : Execute(o)
      \/ ProcessStep
      \/ Crash \/ IOFault \/ SideFileFault
      \/ RevitStartsOrExits
      \/ UNCHANGED vars
  BY <1>2, <1>3, <1>4 DEF Next
<1>6. UNCHANGED <<thirdParty, unreadable>>
  <2>1. CASE ProcessStep
    <3>1. CASE \/ PlanInstall \/ PlanRollback \/ BeginActivationJournal
               \/ DisplaceRoot \/ PlaceRoot \/ AssertReleaseRootMatches
               \/ ValidateActivatedRelease \/ MarkCommit \/ CommitState \/ Retire
      BY <3>1 DEF PlanInstall, PlanRollback, BeginActivationJournal, DisplaceRoot, PlaceRoot,
         AssertReleaseRootMatches, ValidateActivatedRelease, MarkCommit, CommitState, Retire, env
    <3>2. CASE \/ RecoverBegin \/ RecoverRootCheck \/ RecoverRootClear \/ RecoverRootRestore
               \/ RecoverRootStaging \/ RecoverForeignCheck \/ QuarantineRejected
               \/ LoopEnd \/ CasSwap \/ CasVerify \/ CasPutBack
      BY <3>2 DEF RecoverBegin, RecoverRootCheck, RecoverRootClear, RecoverRootRestore,
         RecoverRootStaging, RecoverForeignCheck, QuarantineRejected, LoopEnd, CasSwap, CasVerify,
         CasPutBack, env
    <3>3. ASSUME NEW p \in Paths, \/ ActivateControl(p) \/ RestoreControl(p)
                                  \/ DisableControl(p) \/ ReinstateControl(p)
          PROVE  UNCHANGED <<thirdParty, unreadable>>
      BY <3>3 DEF ActivateControl, RestoreControl, DisableControl, ReinstateControl, env
    <3> QED BY <2>1, <3>1, <3>2, <3>3 DEF ProcessStep
  <2>2. CASE ~ProcessStep
    BY <1>5, <2>2 DEF Execute, Crash, IOFault, SideFileFault, RevitStartsOrExits, vars, env
  <2> QED BY <2>1, <2>2
<1> QED BY <1>5, <1>6 DEF Undisturbed

LEMMA NextTransaction ==
  ASSUME Shape, Transaction, [Next]_vars
  PROVE  Transaction'
<1> SUFFICES ASSUME Undisturbed'
             PROVE  Recoverable' /\ OnCourse'
  BY DEF Transaction
<1>1. Recoverable /\ OnCourse
  BY UndisturbedSteps DEF Transaction
<1>2. ASSUME NEW o \in Commands, Execute(o) PROVE Recoverable' /\ OnCourse'
  BY <1>1, <1>2, ExecuteTransaction
<1>3. CASE ProcessStep
  BY <1>1, <1>3, ProcessTransaction
<1>4. CASE Crash \/ IOFault \/ SideFileFault
  BY <1>1, <1>4, FaultTransaction
<1>5. CASE RevitStartsOrExits \/ UNCHANGED vars
  <2>1. UNCHANGED <<disk, proc, commands>>
    BY <1>5 DEF RevitStartsOrExits, vars, env
  <2>2. Recoverable'
    BY <1>1, <2>1, SameDisk, CommandsNat DEF disk, roots
  <2>3. BeginOnCourse' /\ CasOnCourse' /\ Fresh'
    BY <1>1, <2>1 DEF OnCourse, BeginOnCourse, CasOnCourse, Fresh, disk, proc
  <2>4. (SlotsOnCourse' /\ OpJournal') \/ journal' = NoJournal
    BY <1>1, <2>1 DEF OnCourse, SlotsOnCourse, OpJournal, Outdated, Ready, SetAside, Placed, Slots, disk, proc,
       Journaled, JournaledControls
  <2>5. LoopOnCourse' \/ journal' = NoJournal
    BY <1>1, <2>1 DEF OnCourse, LoopOnCourse, Exchanged, Journaled, JournaledControls, MatchesBefore,
       MatchesAfter, Committed, InPlace, disk, proc, Forward, Recovering
  <2> QED BY <1>1, <2>1, <2>2, <2>3, <2>4, <2>5 DEF OnCourse, Rejecting, disk, proc
<1> QED BY <1>2, <1>3, <1>4, <1>5, UndisturbedSteps

THEOREM TransactionHolds == Spec => []Transaction
<1>1. Init => Transaction
  BY InitTransaction DEF Transaction
<1>2. Shape /\ Transaction /\ [Next]_vars => Transaction'
  BY NextTransaction
<1> QED BY <1>1, <1>2, ShapeHolds, PTL DEF Spec

(* Crashes and failed calls at any point, recovery included, never make    *)
(* recovery take its own half-done work for a foreign change.              *)
THEOREM NoFalseQuarantineHolds == Spec => []NoFalseQuarantine
<1>1. Transaction => NoFalseQuarantine
  BY DEF Transaction, Recoverable, NoFalseQuarantine
<1> QED BY <1>1, TransactionHolds, PTL

(* Whatever was interrupted, once no journal is pending the manifests, the *)
(* state and the trees belong to one activation.                           *)
THEOREM CoherentHolds == Spec => []Coherent
<1>1. ASSUME Transaction, Undisturbed, journal = NoJournal, NEW a \in Addins
      PROVE  /\ file[a] = Owned[a]
             /\ Owned[a] # Absent => /\ tree[Owned[a]] # NoTree
                                     /\ a \in tree[Owned[a]].parts \ tree[Owned[a]].bad
  BY <1>1, OwnedIs DEF Transaction, Recoverable, Stands
<1>2. Transaction => Coherent
  BY <1>1 DEF Coherent
<1> QED BY <1>2, TransactionHolds, PTL

(* Of the undisturbed steps only a compare-and-swap changes a file.        *)
LEMMA OnlySwapWrites ==
  ASSUME Shape, Recoverable, OnCourse, [Next]_vars, Undisturbed', ~CasSwap
  PROVE  UNCHANGED file
<1>1. CASE \/ PlanInstall \/ PlanRollback \/ BeginActivationJournal
           \/ DisplaceRoot \/ PlaceRoot \/ AssertReleaseRootMatches
           \/ ValidateActivatedRelease \/ MarkCommit \/ CommitState \/ Retire
  BY <1>1 DEF PlanInstall, PlanRollback, BeginActivationJournal, DisplaceRoot, PlaceRoot,
     AssertReleaseRootMatches, ValidateActivatedRelease, MarkCommit, CommitState, Retire, disk
<1>2. CASE \/ RecoverBegin \/ RecoverRootCheck \/ RecoverRootClear \/ RecoverRootRestore
           \/ RecoverRootStaging \/ RecoverForeignCheck \/ QuarantineRejected
           \/ LoopEnd \/ CasVerify
  BY <1>2 DEF RecoverBegin, RecoverRootCheck, RecoverRootClear, RecoverRootRestore,
     RecoverRootStaging, RecoverForeignCheck, QuarantineRejected, LoopEnd, CasVerify, disk
<1>3. ASSUME NEW p \in Paths, \/ ActivateControl(p) \/ RestoreControl(p)
                              \/ DisableControl(p) \/ ReinstateControl(p)
      PROVE  UNCHANGED file
  BY <1>3 DEF ActivateControl, RestoreControl, DisableControl, ReinstateControl, disk
<1>4. ~CasPutBack
  BY DEF OnCourse, CasOnCourse, CasPutBack
<1>5. CASE ~ProcessStep
  BY <1>5, UndisturbedSteps DEF Execute, Crash, IOFault, SideFileFault, RevitStartsOrExits, vars, disk
<1> QED BY <1>1, <1>2, <1>3, <1>4, <1>5 DEF ProcessStep

(* It changes a path of the journal, and state.json for the commit only.   *)
LEMMA SwapWrites ==
  ASSUME Shape, Recoverable, OnCourse, CasSwap
  PROVE  /\ journal # NoJournal /\ UNCHANGED <<roots, journal>>
         /\ \A p \in Paths \ Journaled : file'[p] = file[p]
         /\ \/ file'[StatePath] = file[StatePath]
            \/ /\ pc = "commit" /\ journal.commit /\ MatchesBefore(StatePath)
               /\ \A p \in JournaledControls : MatchesAfter(p)
               /\ file' = [file EXCEPT ![StatePath] = journal.after[StatePath]]
<1> DEFINE p == cas.path
<1>1. cas # NoCas /\ cas.step = "swap" /\ UNCHANGED <<roots, journal>>
  BY DEF CasSwap
<1>2. /\ pc \in {"activate", "commit", "restore"} /\ journal # NoJournal
      /\ p \in Journaled /\ p \in todo /\ p \in Paths
      /\ pc = "activate" => p \in JournaledControls
      /\ pc = "commit" => p = StatePath
  BY <1>1, CasPlace
<1>3. /\ file[p] = cas.expect
      /\ pc \in {"activate", "commit"} => cas.expect = journal.before[p] /\ cas.new = journal.after[p]
      /\ pc = "restore" => cas.expect = journal.after[p] /\ cas.new = journal.before[p]
  BY <1>1 DEF OnCourse, CasOnCourse
<1>4. file' = [file EXCEPT ![p] = cas.new]
  BY <1>3 DEF CasSwap
<1>5. \A q \in Paths : file'[q] = IF q = p THEN cas.new ELSE file[q]
  BY <1>4 DEF Shape, DiskOk
<1>6. StatePath \in Paths /\ StatePath \notin JournaledControls
  BY <1>2, JournalFacts
<1>7. CASE pc = "commit"
  BY <1>1, <1>2, <1>3, <1>4, <1>5, <1>7 DEF OnCourse, LoopOnCourse, Forward, MatchesBefore
<1>8. CASE pc = "activate"
  BY <1>1, <1>2, <1>5, <1>6, <1>8
<1>9. CASE pc = "restore"
  BY <1>1, <1>2, <1>3, <1>5, <1>6, <1>9 DEF OnCourse, LoopOnCourse, Recovering, MatchesBefore
<1> QED BY <1>2, <1>7, <1>8, <1>9

(* A committed state is never rolled back: the stamp of state.json grows.  *)
THEOREM CommitStandsHolds == Spec => CommitStands
<1>1. Stamp = StampOf(file[StatePath])
  BY DEF Stamp, StampOf
<1>2. ASSUME Shape, Transaction, [Next]_vars, Undisturbed'
      PROVE  StampOf(file'[StatePath]) >= StampOf(file[StatePath])
  <2>1. Recoverable /\ OnCourse
    BY <1>2, UndisturbedSteps DEF Transaction
  <2>2. StampOf(file[StatePath]) \in Nat
    BY <1>2, StampType DEF Shape, FileOk
  <2>3. CASE UNCHANGED file
    BY <2>2, <2>3
  <2>4. CASE CasSwap
    <3>1. CASE file'[StatePath] = file[StatePath]
      BY <2>2, <3>1
    <3>2. CASE file'[StatePath] # file[StatePath]
      <4>1. journal # NoJournal /\ journal.commit /\ MatchesBefore(StatePath)
            /\ file' = [file EXCEPT ![StatePath] = journal.after[StatePath]]
        BY <1>2, <2>1, <2>4, <3>2, SwapWrites
      <4>2. file'[StatePath] = journal.after[StatePath]
        BY <1>2, <4>1 DEF Shape, DiskOk, Paths
      <4>3. StampOf(journal.before[StatePath]) < StampOf(journal.after[StatePath])
            /\ StampOf(journal.after[StatePath]) \in Nat
        BY <1>2, <2>1, <4>1, JournalFacts, StampType DEF Recoverable, StateOk
      <4> QED BY <2>2, <4>1, <4>2, <4>3 DEF MatchesBefore
    <3> QED BY <3>1, <3>2
  <2> QED BY <1>2, <2>1, <2>3, <2>4, OnlySwapWrites
<1>3. Shape /\ Transaction /\ [Next]_vars => [Undisturbed' => Stamp' >= Stamp]_vars
  BY <1>2 DEF Stamp, StampOf
<1> QED BY <1>3, ShapeHolds, TransactionHolds, PTL DEF Spec, CommitStands

-----------------------------------------------------------------------------
(* The switch takes effect at once: what an observer sees are the files    *)
(* and trees Shown, the before images until state.json is written.         *)

LiveIn(f) == [a \in Addins |-> f[a]]
HeldIn(t) == [r \in Releases |-> IF t[r] = NoTree THEN {} ELSE t[r].parts \cap Addins]
ShownFile == IF journal # NoJournal /\ ~Written THEN Image(journal.before) ELSE file
ShownTree == IF journal # NoJournal /\ ~Written THEN BeforeTree ELSE tree

LEMMA SeenIsShown ==
  Live = LiveIn(ShownFile) /\ Held = HeldIn(ShownTree)
<1>1. \A a \in Addins : a \in Paths
  BY DEF Paths, Controls
<1>2. ASSUME NEW a \in Addins
      PROVE  Live[a] = ShownFile[a]
  BY <1>1, <1>2 DEF Live, ShownFile, Image, Journaled
<1>3. ASSUME NEW r \in Releases
      PROVE  Held[r] = HeldIn(ShownTree)[r]
  <2>1. CASE journal # NoJournal /\ ~Written
    <3>1. ShownTree[r] = IF journal.swap # NoSwap /\ journal.swap.release = r
                         THEN journal.swap.before ELSE tree[r]
      BY <2>1 DEF ShownTree, BeforeTree, Swapped
    <3> QED BY <2>1, <3>1 DEF Held, HeldIn
  <2>2. CASE ~(journal # NoJournal /\ ~Written)
    BY <2>2 DEF Held, HeldIn, ShownTree
  <2> QED BY <2>1, <2>2
<1>4. Live = LiveIn(ShownFile)
  BY <1>2 DEF Live, LiveIn
<1>5. Held = HeldIn(ShownTree)
  BY <1>3 DEF Held, HeldIn
<1> QED BY <1>4, <1>5

(* Recovery moves directories of the swap and nothing else. *)
LEMMA RecoveryMoves ==
  ASSUME Shape, Recoverable, OnCourse,
         \/ RecoverRootCheck \/ RecoverRootClear \/ RecoverRootRestore
         \/ RecoverRootStaging \/ RecoverForeignCheck
  PROVE  UNCHANGED <<file, journal, BeforeTree>>
<1> DEFINE s == journal.swap
<1>1. CASE RecoverRootCheck
  <2>1. SlotsRecognized
    BY <1>1, RootStep DEF RecoverRootCheck, SlotsRecognized, Ready, SetAside, Placed, Undone, HalfUndone, Slots
  <2> QED BY <1>1, <2>1 DEF RecoverRootCheck, roots, BeforeTree, Swapped
<1>2. CASE RecoverRootClear
  <2>1. s # NoSwap /\ s.release \in Releases
        /\ (tree[s.release] \notin {NoTree, s.before} => failed = NoTree)
    BY <1>2, RootStep DEF RecoverRootClear, Ready, SetAside, Placed, Undone, HalfUndone, Slots
  <2>2. UNCHANGED <<file, journal>>
        /\ (tree' = tree \/ tree' = [tree EXCEPT ![s.release] = NoTree])
    BY <1>2, <2>1 DEF RecoverRootClear
  <2> QED BY <2>1, <2>2 DEF BeforeTree, Swapped, Shape, DiskOk
<1>3. CASE RecoverRootRestore
  <2>1. /\ journal # NoJournal /\ s # NoSwap /\ s.release \in Releases
        /\ Ready \/ SetAside \/ Placed \/ Undone \/ HalfUndone
        /\ seen = displaced /\ tree[s.release] \in {NoTree, s.before}
    BY <1>3, RootStep DEF RecoverRootRestore, OnCourse, SlotsOnCourse
  <2>2. s.before # NoTree /\ tree[s.release] # s.before =>
          seen = s.before /\ tree[s.release] = NoTree
    BY <2>1, SwapFacts DEF Ready, SetAside, Placed, Undone, HalfUndone, Slots
  <2>3. UNCHANGED <<file, journal>>
        /\ (tree' = tree \/ tree' = [tree EXCEPT ![s.release] = displaced])
    BY <1>3, <2>2 DEF RecoverRootRestore
  <2> QED BY <2>1, <2>3 DEF BeforeTree, Swapped, Shape, DiskOk
<1>4. CASE RecoverRootStaging
  <2>1. /\ journal # NoJournal /\ s # NoSwap
        /\ Ready \/ SetAside \/ Placed \/ Undone \/ HalfUndone
        /\ tree[s.release] = s.before /\ s.after # NoTree
    BY <1>4, RootStep, SwapFacts DEF RecoverRootStaging, OnCourse, SlotsOnCourse
  <2>2. staging # NoTree => failed = NoTree
    BY <2>1 DEF Ready, SetAside, Placed, Undone, HalfUndone, Slots
  <2>3. UNCHANGED <<file, tree, journal>>
    BY <1>4, <2>2 DEF RecoverRootStaging
  <2> QED BY <2>3 DEF BeforeTree, Swapped
<1>5. CASE RecoverForeignCheck
  <2>1. journal # NoJournal
    BY <1>5, RootPcs DEF RecoverForeignCheck, Recovering
  <2>2. ~ThirdPartyImage
    BY <2>1 DEF ThirdPartyImage, Recoverable, ImagesOk
  <2> QED BY <1>5, <2>2 DEF RecoverForeignCheck, roots, BeforeTree, Swapped
<1> QED BY <1>1, <1>2, <1>3, <1>4, <1>5

(* Where nothing has been committed the observer goes on to see the before *)
(* images.                                                                 *)
LEMMA ShownStays ==
  ASSUME Shape, journal # NoJournal, ~Written, ~Written', journal' # NoJournal,
         journal'.before = journal.before,
         \A p \in Paths \ Journaled : file'[p] = file[p], BeforeTree' = BeforeTree
  PROVE  ShownFile' = ShownFile /\ ShownTree' = ShownTree
<1>1. Image(journal.before)' = Image(journal.before)
  <2>1. \A p \in Paths : (IF p \in DOMAIN journal'.before THEN journal'.before[p] ELSE file'[p])
                         = (IF p \in DOMAIN journal.before THEN journal.before[p] ELSE file[p])
    BY DEF Journaled
  <2> QED BY <2>1 DEF Image
<1> QED BY <1>1 DEF ShownFile, ShownTree

LEMMA NotWritten ==
  ASSUME OnCourse, journal # NoJournal, pc \notin {"idle", "recover", "commit", "retire"}
  PROVE  ~Written
BY DEF OnCourse, LoopOnCourse, Written

(* A journal begins with what there is ...                                 *)
LEMMA BeginShown ==
  ASSUME Shape, Recoverable, OnCourse, BeginActivationJournal
  PROVE  ShownFile' = ShownFile /\ ShownTree' = ShownTree
<1> DEFINE r == op.release
           swap == [release |-> r, before |-> tree[r], after |-> Exact(op.sel \cup Preserved(r))]
           new == IF Refreshes(r) THEN NoSwap ELSE swap
<1>1. pc = "begin" /\ journal = NoJournal /\ UNCHANGED <<file, tree>>
  BY DEF BeginActivationJournal, Shape, PcOk
<1>2. CASE UNCHANGED journal
  BY <1>1, <1>2 DEF ShownFile, ShownTree
<1>3. CASE journal' = JournalOf(r, op.sel, new)
  <2>1. /\ journal'.before = [p \in op.sel \cup Obsolete(op.sel) \cup {StatePath} |-> file[p]]
        /\ journal'.commit = FALSE /\ journal'.swap = new
    BY <1>3 DEF JournalOf
  <2>2. ~Written'
    BY <2>1 DEF Written
  <2>3. Image(journal.before)' = file
    <3>1. \A p \in Paths : Image(journal.before)'[p] = file[p]
      BY <1>1, <2>1 DEF Image
    <3> QED BY <3>1 DEF Image, Shape, DiskOk
  <2>4. BeforeTree' = tree
    <3>1. \A q \in Releases : BeforeTree'[q] = tree[q]
      BY <1>1, <2>1 DEF BeforeTree, Swapped
    <3> QED BY <3>1 DEF BeforeTree, Swapped, Shape, DiskOk
  <2> QED BY <1>1, <2>2, <2>3, <2>4 DEF ShownFile, ShownTree
<1> QED BY <1>2, <1>3 DEF BeginActivationJournal

(* ... and is retired when the images it shows are the files.              *)
LEMMA RetireShown ==
  ASSUME Shape, Recoverable, OnCourse, Retire
  PROVE  ShownFile' = ShownFile /\ ShownTree' = ShownTree
<1>1. pc = "retire" /\ journal # NoJournal /\ journal' = NoJournal /\ UNCHANGED <<file, tree>>
  BY DEF Retire, roots, Shape, PcOk, QuietPcs
<1>2. Journaled \subseteq Paths /\ StatePath \in Journaled
  BY <1>1, JournalFacts
<1>3. CASE Committed
  BY <1>1, <1>2, <1>3 DEF Committed, Written, ShownFile, ShownTree
<1>4. CASE (\A p \in Journaled : MatchesBefore(p)) /\ InPlace(journal.swap.before)
  <2>1. Image(journal.before) = file
    <3>1. \A p \in Paths : Image(journal.before)[p] = file[p]
      BY <1>2, <1>4 DEF Image, MatchesBefore, Journaled
    <3> QED BY <3>1 DEF Image, Shape, DiskOk
  <2>2. BeforeTree = tree
    <3>1. \A r \in Releases : BeforeTree[r] = tree[r]
      BY <1>4 DEF BeforeTree, Swapped, InPlace
    <3> QED BY <3>1 DEF BeforeTree, Swapped, Shape, DiskOk
  <2> QED BY <1>1, <2>1, <2>2 DEF ShownFile, ShownTree
<1> QED BY <1>1, <1>3, <1>4 DEF OnCourse, LoopOnCourse

(* No other step than the write of state.json changes what is shown.       *)
LEMMA OthersShown ==
  ASSUME Shape, Shape', Recoverable, OnCourse, OnCourse', [Next]_vars, Undisturbed',
         ~(CasSwap /\ pc = "commit")
  PROVE  ShownFile' = ShownFile /\ ShownTree' = ShownTree
<1>1. CASE UNCHANGED <<file, tree, journal>>
  <2>1. UNCHANGED <<Image(journal.before), BeforeTree, Written>>
    BY <1>1 DEF Image, BeforeTree, Swapped, Written, MatchesAfter
  <2> QED BY <1>1, <2>1 DEF ShownFile, ShownTree
<1>2. CASE BeginActivationJournal \/ Retire
  BY <1>2, BeginShown, RetireShown
<1>3. CASE DisplaceRoot \/ PlaceRoot
  <2>1. pc \in {"displace", "place"} /\ journal # NoJournal /\ journal.swap # NoSwap
        /\ journal.swap.release = op.release /\ pc' \in {"place", "assert"}
        /\ UNCHANGED <<file, journal>>
    BY <1>3 DEF DisplaceRoot, PlaceRoot, Goto, Shape, PcOk, QuietPcs, SwapPcs
  <2>2. BeforeTree' = BeforeTree
    BY <1>3, <2>1 DEF DisplaceRoot, PlaceRoot, BeforeTree, Swapped, Shape, DiskOk
  <2>3. ~Written /\ ~Written'
    BY <2>1 DEF OnCourse, LoopOnCourse, Written
  <2> QED BY <2>1, <2>2, <2>3, ShownStays
<1>4. CASE \/ RecoverRootCheck \/ RecoverRootClear \/ RecoverRootRestore
           \/ RecoverRootStaging \/ RecoverForeignCheck
  <2>1. UNCHANGED <<file, journal, BeforeTree>>
    BY <1>4, RecoveryMoves
  <2>2. pc \in Recovering /\ journal # NoJournal
    BY <1>4, RootPcs DEF RecoverRootCheck, RecoverRootClear, RecoverRootRestore,
       RecoverRootStaging, RecoverForeignCheck, Recovering
  <2>3. ~Written
    BY <2>2, NotWritten DEF Recovering
  <2>4. ~Written'
    BY <2>1, <2>3 DEF Written, MatchesAfter
  <2> QED BY <2>1, <2>2, <2>3, <2>4, ShownStays
<1>5. CASE MarkCommit
  <2>1. pc = "mark" /\ pc' = "commit" /\ todo' = {StatePath} /\ journal # NoJournal
        /\ UNCHANGED <<file, tree, cas>> /\ cas = NoCas /\ ~journal.commit
    BY <1>5, NoCasOutsideLoops DEF MarkCommit, Goto, roots, Shape, PcOk, QuietPcs, LoopPcs,
       ControlLoops, StateLoops, OnCourse, LoopOnCourse, Forward
  <2>2. journal'.before = journal.before /\ journal'.swap = journal.swap
        /\ journal'.after = [journal.after EXCEPT ![StatePath] = NewState]
    BY <1>5, <2>1, JournaledImages DEF MarkCommit, Images, Journals
  <2>3. BeforeTree' = BeforeTree /\ ~Written
    BY <2>1, <2>2 DEF BeforeTree, Swapped, Written
  <2>4. journal' # NoJournal
    BY <2>1 DEF Shape, PcOk, QuietPcs
  <2>5. ~Written'
    <3>1. journal'.after[StatePath] = NewState /\ StatePath \in Paths
      BY <2>1, <2>2, JournalFacts
    <3>2. NewState # Absent /\ NewState.stamp = commands
      BY <1>5, <2>1, NewStateType, MarkersAssumption DEF MarkersAssumption, NewState
    <3>3. StampOf(file[StatePath]) < commands /\ commands \in Nat
      BY <2>1, CommandsNat DEF OnCourse, Fresh, Forward, Shape, PcOk
    <3>4. StampOf(file[StatePath]) # StampOf(NewState)
      BY <3>2, <3>3, StampType DEF StampOf, Shape, FileOk
    <3> QED BY <2>1, <3>1, <3>4 DEF Written, MatchesAfter
  <2> QED BY <2>1, <2>2, <2>3, <2>4, <2>5, ShownStays
<1>6. CASE CasSwap
  <2>1. /\ journal # NoJournal /\ UNCHANGED <<roots, journal>>
        /\ \A p \in Paths \ Journaled : file'[p] = file[p]
    BY <1>6, SwapWrites
  <2>2. pc \in {"activate", "restore"} /\ pc' = pc
    <3>1. cas # NoCas /\ cas.step = "swap"
      BY <1>6 DEF CasSwap
    <3>2. file[cas.path] = cas.expect
      BY <3>1 DEF OnCourse, CasOnCourse
    <3> QED BY <1>6, <3>1, <3>2, CasPlace DEF CasSwap, CasReturn
  <2>3. ~Written /\ ~Written'
    BY <2>1, <2>2 DEF OnCourse, LoopOnCourse, Written
  <2>4. BeforeTree' = BeforeTree
    BY <2>1 DEF BeforeTree, Swapped, roots
  <2> QED BY <2>1, <2>3, <2>4, ShownStays
<1>7. CASE \/ PlanInstall \/ PlanRollback \/ AssertReleaseRootMatches
           \/ ValidateActivatedRelease \/ CommitState
           \/ RecoverBegin \/ LoopEnd \/ CasVerify
  BY <1>1, <1>7 DEF PlanInstall, PlanRollback, AssertReleaseRootMatches, ValidateActivatedRelease,
     CommitState, RecoverBegin, LoopEnd, CasVerify, disk, roots
<1>8. ASSUME NEW p \in Paths, ActivateControl(p) \/ RestoreControl(p)
      PROVE  ShownFile' = ShownFile /\ ShownTree' = ShownTree
  BY <1>1, <1>8 DEF ActivateControl, RestoreControl, disk, roots
<1>9. ~QuarantineRejected /\ ~CasPutBack
      /\ \A p \in Paths : ~DisableControl(p) /\ ~ReinstateControl(p)
  BY DEF OnCourse, CasOnCourse, Rejecting, QuarantineRejected, DisableControl, ReinstateControl, CasPutBack
<1>10. CASE ~ProcessStep
  BY <1>1, <1>10, UndisturbedSteps DEF Execute, Crash, IOFault, SideFileFault, RevitStartsOrExits, vars, disk, roots
<1> QED BY <1>2, <1>3, <1>4, <1>5, <1>6, <1>7, <1>8, <1>9, <1>10 DEF ProcessStep

(* The write of state.json at the commit: the manifests of the selection,  *)
(* the obsolete ones of its years and the tree of its release change for   *)
(* the observer in this one step.                                          *)
LEMMA CommitSwitches ==
  ASSUME Shape, Recoverable, OnCourse, CasSwap, pc = "commit", Undisturbed, Undisturbed'
  PROVE  Switch!SwitchTo(op.release)
<1> DEFINE r == op.release
           sel == op.sel \cap Addins
           own == OwnedOf(journal.before[StatePath])
<1>1. /\ journal # NoJournal /\ journal.commit /\ UNCHANGED <<tree, journal>>
      /\ r \in Releases /\ phase = "run"
  BY SwapWrites DEF OnCourse, LoopOnCourse, Forward, Shape, PcOk, roots, QuietPcs
<1>2. /\ cas # NoCas /\ cas.path = StatePath /\ cas.step = "swap"
      /\ cas.expect = journal.before[StatePath] /\ cas.new = journal.after[StatePath]
      /\ file[StatePath] = cas.expect
  BY CasPlace DEF CasSwap, OnCourse, CasOnCourse
<1>3. file' = [file EXCEPT ![StatePath] = journal.after[StatePath]]
  BY <1>2 DEF CasSwap
<1>4. /\ StatePath \in Paths /\ \A p \in Addins : p \in Paths /\ p # StatePath
      /\ file'[StatePath] = journal.after[StatePath]
  BY <1>1, <1>3, JournalFacts, ConstantsAssumption DEF ConstantsAssumption, Shape, DiskOk, Paths, Controls
<1>5. \A a \in Addins : file'[a] = file[a]
  BY <1>3, <1>4 DEF Shape, DiskOk
<1>6. ~Written
  <2>1. /\ StampOf(journal.before[StatePath]) < StampOf(journal.after[StatePath])
        /\ StampOf(journal.before[StatePath]) \in Nat /\ StampOf(journal.after[StatePath]) \in Nat
    BY <1>1, JournalFacts, StampType DEF Recoverable, StateOk
  <2> QED BY <1>2, <2>1 DEF Written, MatchesAfter
<1>7. Written'
  BY <1>1, <1>4 DEF Written, MatchesAfter
<1>8. ShownFile = Image(journal.before) /\ ShownTree = BeforeTree
      /\ ShownFile' = file' /\ ShownTree' = tree
  BY <1>1, <1>6, <1>7 DEF ShownFile, ShownTree
<1>9. Live = LiveIn(Image(journal.before)) /\ Held = HeldIn(BeforeTree)
      /\ Live' = LiveIn(file') /\ Held' = HeldIn(tree)
  <2>1. Live = LiveIn(ShownFile) /\ Held = HeldIn(ShownTree)
    BY SeenIsShown
  <2>2. (Live = LiveIn(ShownFile) /\ Held = HeldIn(ShownTree))'
    BY SeenIsShown, PTL
  <2> QED BY <1>8, <2>1, <2>2 DEF LiveIn, HeldIn
<1>10. OpJournal /\ \A c \in JournaledControls : MatchesAfter(c)
  BY <1>1 DEF OnCourse, LoopOnCourse
<1>11. /\ JournaledControls = op.sel \cup Outdated(op.sel)
       /\ \A c \in JournaledControls : file[c] = IF c \in op.sel THEN r ELSE Absent
  BY <1>10 DEF OpJournal, Forward, MatchesAfter
<1>12. \A a \in Addins : Image(journal.before)[a] = IF a \in JournaledControls THEN journal.before[a] ELSE file[a]
  BY <1>4 DEF Image, JournaledControls, Journaled
<1>13. \A a \in Addins : Image(journal.before)[a] = own[a]
  <2>1. Image(journal.before)[StatePath] = journal.before[StatePath]
    BY <1>1, JournalFacts DEF Image, Journaled
  <2> QED BY <1>1, <2>1 DEF Recoverable, ImagesOk, Stands
<1>14. Live' = [a \in Addins |-> IF a \in sel THEN r
                                 ELSE IF Switch!SameYear(a, sel) THEN Absent ELSE Live[a]]
  <2>1. ASSUME NEW a \in Addins
        PROVE  file'[a] = IF a \in sel THEN r
                          ELSE IF Switch!SameYear(a, sel) THEN Absent ELSE Image(journal.before)[a]
    <3>1. CASE a \in sel
      BY <1>5, <1>11, <3>1
    <3>2. CASE a \notin sel /\ a \in Outdated(op.sel)
      <4>1. Switch!SameYear(a, sel)
        BY <3>2 DEF Outdated, Switch!SameYear
      <4> QED BY <1>5, <1>11, <3>2, <4>1
    <3>3. CASE a \notin sel /\ a \notin Outdated(op.sel) /\ Switch!SameYear(a, sel)
      <4>1. own[a] = Absent
        BY <3>3 DEF Outdated, Switch!SameYear
      <4>2. a \notin JournaledControls
        BY <1>11, <3>3
      <4> QED BY <1>5, <1>12, <1>13, <3>3, <4>1, <4>2
    <3>4. CASE a \notin sel /\ a \notin Outdated(op.sel) /\ ~Switch!SameYear(a, sel)
      <4>1. a \notin JournaledControls
        BY <1>11, <3>4
      <4> QED BY <1>5, <1>12, <3>4, <4>1
    <3> QED BY <3>1, <3>2, <3>3, <3>4
  <2>2. \A a \in Addins : Live[a] = Image(journal.before)[a]
    BY <1>9 DEF LiveIn
  <2> QED BY <1>9, <2>1, <2>2 DEF LiveIn
<1>15. Held' = [Held EXCEPT ![r] = @ \cup sel]
  <2>1. ASSUME NEW q \in Releases, q # r
        PROVE  BeforeTree[q] = tree[q]
    BY <1>10, <2>1 DEF OpJournal, Forward, BeforeTree, Swapped
  <2>2. HeldIn(tree)[r] = HeldIn(BeforeTree)[r] \cup sel
    <3>1. CASE journal.swap = NoSwap
      <4>1. BeforeTree[r] = tree[r] /\ tree[r] # NoTree /\ op.sel \subseteq tree[r].parts
        BY <1>1, <1>10, <3>1 DEF OpJournal, Forward, BeforeTree, Swapped
      <4> QED BY <1>1, <4>1 DEF HeldIn
    <3>2. CASE journal.swap # NoSwap
      <4>1. journal.swap.release = r /\ tree[r] = journal.swap.after /\ tree[r] # NoTree
        BY <1>1, <1>10, <3>2, SwapFacts DEF OpJournal, OnCourse, SlotsOnCourse, Placed, Slots, Forward
      <4>2. BeforeTree[r] = journal.swap.before
        BY <1>1, <3>2, <4>1 DEF BeforeTree, Swapped
      <4>3. tree[r].parts = op.sel \cup (IF journal.swap.before = NoTree THEN {} ELSE journal.swap.before.parts)
        BY <1>10, <3>2, <4>1 DEF OpJournal, Forward
      <4> QED BY <1>1, <4>1, <4>2, <4>3 DEF HeldIn
    <3> QED BY <3>1, <3>2
  <2>3. \A q \in Releases : HeldIn(tree)[q] = IF q = r THEN HeldIn(BeforeTree)[q] \cup sel
                                              ELSE HeldIn(BeforeTree)[q]
    BY <2>1, <2>2 DEF HeldIn
  <2>4. HeldIn(tree) = [q \in Releases |-> HeldIn(tree)[q]]
        /\ HeldIn(BeforeTree) = [q \in Releases |-> HeldIn(BeforeTree)[q]]
    BY DEF HeldIn
  <2>5. HeldIn(tree) = [HeldIn(BeforeTree) EXCEPT ![r] = @ \cup sel]
    BY <1>1, <2>3, <2>4
  <2> QED BY <1>9, <2>5
<1>16. sel \in {s \cap Addins : s \in Selections[r]} \cup {Held[r]}
  <2>1. CASE op.kind = "rollback"
    <3>1. journal.swap = NoSwap /\ tree[r] # NoTree /\ op.sel = tree[r].parts
      BY <1>10, <2>1 DEF OpJournal, Forward
    <3>2. BeforeTree[r] = tree[r]
      BY <1>1, <3>1 DEF BeforeTree, Swapped
    <3>3. Held[r] = op.sel \cap Addins
      BY <1>1, <1>9, <3>1, <3>2 DEF HeldIn
    <3> QED BY <3>3
  <2>2. CASE op.kind # "rollback"
    <3>1. op.kind \in {"install", "repair"}
      BY <1>1, <2>2 DEF Shape, PcOk, ProcOk
    <3>2. op.sel \in Selections[r]
      BY <3>1 DEF Shape, PcOk
    <3> QED BY <3>2
  <2> QED BY <2>1, <2>2
<1> HIDE DEF sel
<1> QED BY <1>14, <1>15, <1>16 DEF Switch!SwitchTo

(* A command takes effect at once or not at all: the transaction over      *)
(* trees, manifests and state.json implements the one-step switch.         *)
THEOREM SwitchesAtomicallyHolds == Spec => SwitchesAtomically
<1>1. Init => Switch!Init
  <2> SUFFICES ASSUME Init PROVE Switch!Init
    OBVIOUS
  <2>1. Live = [a \in Addins |-> Absent]
    BY DEF Init, Live, Paths, Controls
  <2>2. Held = [r \in Releases |-> {}]
    BY DEF Init, Held
  <2>3. (~Undisturbed) = FALSE
    BY DEF Init, Undisturbed
  <2> QED BY <2>1, <2>2, <2>3 DEF Switch!Init
<1>2. Shape /\ Shape' /\ Transaction /\ Transaction' /\ [Next]_vars
      => [Switch!Next]_<<Live, Held, ~Undisturbed>>
  <2> SUFFICES ASSUME Shape, Shape', Transaction, Transaction', [Next]_vars
               PROVE  [Switch!Next]_<<Live, Held, ~Undisturbed>>
    OBVIOUS
  <2>1. CASE ~Undisturbed'
    BY <2>1 DEF Switch!Next, Switch!Disturb
  <2>2. CASE Undisturbed'
    <3>1. Undisturbed /\ Recoverable /\ OnCourse /\ OnCourse'
      BY <2>2, UndisturbedSteps DEF Transaction
    <3>2. CASE CasSwap /\ pc = "commit"
      <4>1. op.release \in Releases
        BY <3>2 DEF Shape, PcOk, Forward
      <4> QED BY <2>2, <3>1, <3>2, <4>1, CommitSwitches DEF Switch!Next
    <3>3. CASE ~(CasSwap /\ pc = "commit")
      <4>1. ShownFile' = ShownFile /\ ShownTree' = ShownTree
        BY <2>2, <3>1, <3>3, OthersShown
      <4>2. Live = LiveIn(ShownFile) /\ Held = HeldIn(ShownTree)
        BY SeenIsShown
      <4>3. (Live = LiveIn(ShownFile) /\ Held = HeldIn(ShownTree))'
        BY SeenIsShown, PTL
      <4>4. Live' = Live /\ Held' = Held
        BY <4>1, <4>2, <4>3 DEF LiveIn, HeldIn
      <4>5. (~Undisturbed)' = (~Undisturbed)
        BY <2>2, <3>1
      <4> QED BY <4>4, <4>5
    <3> QED BY <3>2, <3>3
  <2> QED BY <2>1, <2>2
<1> QED BY <1>1, <1>2, ShapeHolds, TransactionHolds, PTL DEF Spec, SwitchesAtomically, Switch!Spec

-----------------------------------------------------------------------------
(* Where the contents of a release come from, whoever interferes. *)

(* What a release can be made of, and what a set of its components has to  *)
(* be: all the profiles of a year or none.                                 *)
Parts(r) == UNION Selections[r]
Whole(r, parts) ==
  /\ parts \subseteq Parts(r)
  /\ r \in Admitted =>
       \A a \in Parts(r) \cap Addins, b \in parts \cap Addins : Year[a] = Year[b] => a \in parts
Built(r, t) == t # NoTree => Whole(r, t.parts)

(* A state owns a manifest for a release that has it. *)
Named(s) == s # Absent => \A a \in Addins : s.owned[a] \in Releases => a \in Parts(s.owned[a])

(* A compare-and-swap exchanges images of the journal. *)
CasJournaled ==
  cas # NoCas =>
    /\ {cas.expect, cas.new} \subseteq {journal.before[cas.path], journal.after[cas.path], Absent}
    /\ cas.path = StatePath =>
         /\ cas.step = "swap" => file[StatePath] = cas.expect
         /\ cas.step # "swap" => cas.side = cas.expect

(* The journal of an admitted release puts manifests of that release, and  *)
(* what it takes away is of another one: EnsureCompleteActivationSelection *)
(* leaves no manifest of the release itself obsolete.                      *)
JournalTargets ==
  journal.admission # Absent =>
    /\ journal.swap # NoSwap => journal.swap.release = journal.admission
    /\ \A a \in Addins \cap Journaled :
         /\ journal.after[a] \in {journal.admission, Absent}
         /\ journal.after[a] = Absent => journal.before[a] # journal.admission
                                         /\ file[a] # journal.admission
JournalNamed ==
  /\ Named(journal.before[StatePath]) /\ Named(journal.after[StatePath])
  /\ \A a \in Addins \cap Journaled : journal.after[a] \in Releases => a \in Parts(journal.after[a])
JournalBuilt ==
  journal.swap # NoSwap =>
    \A t \in {staging, displaced, failed} : Built(journal.swap.release, t)

BeginWhole ==
  pc = "begin" => /\ Whole(op.release, op.sel)
                  /\ op.kind # "rollback" => displaced = NoTree /\ failed = NoTree

Origins ==
  /\ Named(file[StatePath]) /\ (\A r \in Releases : Built(r, tree[r]))
  /\ BeginWhole /\ CasJournaled
  /\ journal # NoJournal => JournalTargets /\ JournalNamed /\ JournalBuilt

(* How a rejected admission is taken back. *)
Single == thirdParty + (IF unreadable THEN 1 ELSE 0) <= 1
TakenBack ==
  /\ previousExact /\ Single =>
       journal.swap # NoSwap /\ tree[journal.admission] = journal.swap.before
  /\ ~previousExact =>
       /\ \A a \in Addins \cap Journaled : file[a] = journal.admission => pc = "disable" /\ a \in todo
       /\ cas # NoCas /\ cas.path \in Addins =>
            /\ cas.new # journal.admission
            /\ cas.step # "swap" => file[cas.path] # journal.admission
Rejection ==
  /\ pc \in Rejecting \cup {"quarantine"} /\ journal.admission # Absent /\ clean => TakenBack
  /\ quarantine # NoJournal => /\ pc \in {"idle", "recover"}
                               /\ quarantine.journal.admission \in Releases \cup {Absent}
  /\ RejectedNotLoaded

-----------------------------------------------------------------------------
(* Every step keeps the origins. *)

LEMMA SelectedWhole ==
  ASSUME NEW r \in Releases, NEW s \in Selections[r]
  PROVE  Whole(r, s)
<1>1. s \subseteq Parts(r)
  BY DEF Parts
<1>2. ASSUME r \in Admitted, NEW a \in Parts(r) \cap Addins, NEW b \in s \cap Addins,
             Year[a] = Year[b]
      PROVE  a \in s
  <2>1. PICK t \in Selections[r] : a \in t
    BY <1>2 DEF Parts
  <2> QED BY <1>2, <2>1, SelectionAssumption DEF SelectionAssumption, CompleteSelection
<1> QED BY <1>1, <1>2 DEF Whole

LEMMA WholeUnion ==
  ASSUME NEW r, NEW s, NEW t, Whole(r, s), Whole(r, t)
  PROVE  Whole(r, s \cup t)
BY DEF Whole

(* Nothing that the origins speak of changes; a call may be given up. *)
LEMMA SameOrigins ==
  ASSUME Origins, UNCHANGED <<file, roots, journal>>, cas' \in {cas, NoCas},
         pc' = "begin" => pc = "begin" /\ op' = op
  PROVE  Origins'
<1>1. file' = file /\ journal' = journal /\ tree' = tree /\ staging' = staging
      /\ displaced' = displaced /\ failed' = failed
  BY DEF roots
<1>2. Named(file[StatePath])' /\ (\A r \in Releases : Built(r, tree[r]))'
  BY <1>1 DEF Origins, Named, Built
<1>3. BeginWhole'
  BY <1>1 DEF Origins, BeginWhole
<1>4. CasJournaled'
  BY <1>1 DEF Origins, CasJournaled
<1>5. (journal # NoJournal => JournalTargets /\ JournalNamed /\ JournalBuilt)'
  BY <1>1 DEF Origins, JournalTargets, JournalNamed, JournalBuilt, Journaled, Named, Built
<1> QED BY <1>2, <1>3, <1>4, <1>5 DEF Origins

(* The journal is retired or quarantined. *)
LEMMA GoneOrigins ==
  ASSUME Origins, UNCHANGED <<file, tree>>, journal' = NoJournal, cas' = NoCas, pc' # "begin"
  PROVE  Origins'
<1>1. Named(file[StatePath])' /\ (\A r \in Releases : Built(r, tree[r]))'
  BY DEF Origins, Named, Built
<1> QED BY <1>1 DEF Origins, BeginWhole, CasJournaled

LEMMA ThrowLeaves ==
  ASSUME NEW p, Throw(p)
  PROVE  cas' = NoCas /\ pc' # "begin"
BY DEF Throw, Exit, Rejecting

LEMMA QuietOrigins ==
  ASSUME Shape, Origins, UNCHANGED <<disk, env>>,
         \/ AssertReleaseRootMatches \/ ValidateActivatedRelease \/ LoopEnd
  PROVE  Origins'
<1>1. UNCHANGED <<file, roots, journal>>
  BY DEF disk, roots
<1>2. cas' \in {cas, NoCas} /\ pc' # "begin"
  BY ThrowLeaves DEF AssertReleaseRootMatches, ValidateActivatedRelease, LoopEnd, Exit, Goto
<1> QED BY <1>1, <1>2, SameOrigins

LEMMA FaultOrigins ==
  ASSUME Shape, Origins,
         \/ (\E o \in Commands : Execute(o)) \/ Crash \/ IOFault \/ SideFileFault
         \/ RevitStartsOrExits \/ UNCHANGED vars
  PROVE  Origins'
<1>1. UNCHANGED <<file, roots, journal>>
  BY DEF disk, roots, Execute, Crash, IOFault, SideFileFault, RevitStartsOrExits, vars
<1>2. cas' \in {cas, NoCas} /\ (pc' = "begin" => pc = "begin" /\ op' = op)
  BY ThrowLeaves DEF Execute, Crash, IOFault, SideFileFault, RevitStartsOrExits, vars, Exit, proc
<1> QED BY <1>1, <1>2, SameOrigins

LEMMA CasStartOrigins ==
  ASSUME Shape, Origins, NEW p \in Journaled, NEW e, NEW n, CasStart(p, e, n), pc \in LoopPcs,
         {e, n} \subseteq {journal.before[p], journal.after[p], Absent}, UNCHANGED disk
  PROVE  Origins'
<1>1. UNCHANGED <<file, roots, journal>>
  BY DEF disk, roots
<1>2. CASE file[p] # e
  BY <1>1, <1>2, ThrowLeaves, SameOrigins DEF CasStart
<1>3. CASE file[p] = e
  <2>1. /\ cas' = [path |-> p, expect |-> e, new |-> n, step |-> "swap", side |-> Absent]
        /\ pc' = pc
    BY <1>3 DEF CasStart
  <2>2. CasJournaled'
    BY <1>1, <1>3, <2>1 DEF CasJournaled
  <2>3. pc' # "begin"
    BY <2>1 DEF LoopPcs, ControlLoops, StateLoops
  <2>4. Named(file[StatePath])' /\ (\A r \in Releases : Built(r, tree[r]))' /\ BeginWhole'
    BY <1>1, <2>3 DEF Origins, Named, Built, roots, BeginWhole
  <2>5. (journal # NoJournal => JournalTargets /\ JournalNamed /\ JournalBuilt)'
    BY <1>1 DEF Origins, JournalTargets, JournalNamed, JournalBuilt, Journaled, Named, Built, roots
  <2> QED BY <2>2, <2>4, <2>5 DEF Origins
<1> QED BY <1>2, <1>3

LEMMA LoopOrigins ==
  ASSUME Shape, Origins, NEW p \in Paths,
         \/ ActivateControl(p) \/ RestoreControl(p) \/ DisableControl(p) \/ ReinstateControl(p)
  PROVE  Origins'
<1>1. UNCHANGED disk /\ UNCHANGED <<file, roots, journal>>
  BY DEF ActivateControl, RestoreControl, DisableControl, ReinstateControl, disk, roots
<1>2. p \in todo /\ pc \in LoopPcs
  BY DEF ActivateControl, RestoreControl, DisableControl, ReinstateControl, LoopPcs, ControlLoops,
         StateLoops
<1>3. p \in Journaled
  BY <1>2, LoopsJournaled
<1>4. CASE Goto(pc, todo \ {p})
  BY <1>1, <1>4, SameOrigins DEF Goto, LoopPcs, ControlLoops, StateLoops
<1>5. CASE \E e, n \in {journal.before[p], journal.after[p], Absent} : CasStart(p, e, n)
  BY <1>1, <1>2, <1>3, <1>5, CasStartOrigins
<1> QED BY <1>4, <1>5 DEF ActivateControl, RestoreControl, DisableControl, ReinstateControl

LEMMA CommitOrigins ==
  ASSUME Shape, Origins, CommitState
  PROVE  Origins'
<1>1. UNCHANGED disk /\ pc \in LoopPcs /\ StatePath \in todo
  BY DEF CommitState, LoopPcs, StateLoops
<1>2. StatePath \in Journaled
  BY <1>1, LoopsJournaled
<1> QED BY <1>1, <1>2, CasStartOrigins DEF CommitState

(* What a compare-and-swap leaves at an add-in path: an image of the       *)
(* journal, nothing, or what somebody else wrote.                          *)
LEMMA PutOrigins ==
  ASSUME Shape, Origins, journal # NoJournal, NEW p \in Journaled, NEW v,
         file' = [file EXCEPT ![p] = v], UNCHANGED <<roots, journal>>,
         p = StatePath => v \in {journal.before[p], journal.after[p], Absent},
         p \in Addins => v \in {journal.before[p], journal.after[p], Absent} \cup Foreign,
         CasJournaled', pc' # "begin"
  PROVE  Origins'
<1>1. p \in Paths /\ (\A q \in Paths : file'[q] = IF q = p THEN v ELSE file[q])
  BY JournalFacts DEF Shape, DiskOk
<1>2. StatePath \in Paths /\ Addins \subseteq Paths /\ StatePath \notin Addins
  BY ConstantsAssumption DEF ConstantsAssumption, Paths, Controls
<1>3. tree' = tree /\ staging' = staging /\ displaced' = displaced /\ failed' = failed
  BY DEF roots
<1>4. Named(Absent)
  BY DEF Named
<1>5. Named(file'[StatePath])
  BY <1>1, <1>2, <1>4 DEF Origins, JournalNamed
<1>6. Foreign \cap Releases = {} /\ Absent \notin Releases
      /\ journal.admission \in Releases \cup {Absent}
  BY MarkersAssumption, JournalFacts DEF MarkersAssumption
<1>7. JournalTargets'
  <2> SUFFICES ASSUME journal.admission # Absent
               PROVE  JournalTargets'
    BY DEF JournalTargets
  <2>1. ASSUME NEW a \in Addins \cap Journaled, journal.after[a] = Absent
        PROVE  file'[a] # journal.admission
    BY <1>1, <1>2, <1>6, <2>1 DEF Origins, JournalTargets
  <2> QED BY <2>1 DEF Origins, JournalTargets, Journaled
<1>8. JournalNamed' /\ JournalBuilt'
  BY <1>3 DEF Origins, JournalNamed, JournalBuilt, Journaled, Named, Built
<1>9. (\A r \in Releases : Built(r, tree[r]))' /\ BeginWhole' /\ Named(file[StatePath])'
  BY <1>3, <1>5 DEF Origins, Built, BeginWhole, Named
<1> QED BY <1>7, <1>8, <1>9 DEF Origins

LEMMA CasPaths ==
  ASSUME Shape, Origins, cas # NoCas
  PROVE  /\ journal # NoJournal /\ cas.path \in Journaled /\ pc # "begin" /\ pc \in LoopPcs
         /\ cas.expect \in {journal.before[cas.path], journal.after[cas.path], Absent}
         /\ cas.new \in {journal.before[cas.path], journal.after[cas.path], Absent}
<1>1. pc \in LoopPcs /\ cas.path \in todo
  BY CasFields
<1> QED BY <1>1, LoopsJournaled DEF Origins, CasJournaled, LoopPcs, ControlLoops, StateLoops

LEMMA CasSwapOrigins ==
  ASSUME Shape, Origins, CasSwap
  PROVE  Origins'
<1>1. cas # NoCas /\ cas.step = "swap" /\ UNCHANGED <<roots, journal>>
  BY DEF CasSwap
<1>2. /\ journal # NoJournal /\ cas.path \in Journaled /\ pc # "begin"
      /\ cas.new \in {journal.before[cas.path], journal.after[cas.path], Absent}
  BY <1>1, CasPaths
<1>3. CASE UNCHANGED file /\ Throw(cas.path)
  BY <1>1, <1>3, ThrowLeaves, SameOrigins
<1>4. CASE file' = [file EXCEPT ![cas.path] = cas.new] /\ CasReturn
  BY <1>1, <1>2, <1>4, PutOrigins DEF CasReturn, CasJournaled
<1>5. CASE /\ file' = [file EXCEPT ![cas.path] = cas.new]
           /\ cas' = [cas EXCEPT !.step = "verify", !.side = file[cas.path]]
           /\ pc' = pc
  <2>1. /\ cas'.path = cas.path /\ cas'.expect = cas.expect /\ cas'.new = cas.new
        /\ cas'.step = "verify" /\ cas'.side = file[cas.path]
    BY <1>1, <1>5, CasFields DEF CasRecords
  <2>2. CasJournaled'
    BY <1>1, <2>1 DEF Origins, CasJournaled
  <2> QED BY <1>1, <1>2, <1>5, <2>2, PutOrigins
<1> QED BY <1>3, <1>4, <1>5 DEF CasSwap

LEMMA CasVerifyOrigins ==
  ASSUME Shape, Origins, CasVerify
  PROVE  Origins'
<1>1. cas # NoCas /\ cas.step = "verify" /\ UNCHANGED <<file, roots, journal>>
  BY DEF CasVerify
<1>2. pc # "begin"
  BY <1>1, CasPaths
<1>3. CASE CasReturn \/ Throw(cas.path)
  BY <1>1, <1>2, <1>3, ThrowLeaves, SameOrigins DEF CasReturn
<1>4. CASE cas.side # cas.expect /\ cas' = [cas EXCEPT !.step = "putback"] /\ pc' = pc
  <2>1. /\ cas'.path = cas.path /\ cas'.expect = cas.expect /\ cas'.new = cas.new
        /\ cas'.step = "putback" /\ cas'.side = cas.side
    BY <1>1, <1>4, CasFields DEF CasRecords
  <2>2. cas.path # StatePath
    BY <1>1, <1>4 DEF Origins, CasJournaled
  <2>3. CasJournaled'
    BY <1>1, <2>1, <2>2 DEF Origins, CasJournaled
  <2>4. Named(file[StatePath])' /\ (\A r \in Releases : Built(r, tree[r]))' /\ BeginWhole'
    BY <1>1, <1>2, <1>4 DEF Origins, Named, Built, roots, BeginWhole
  <2>5. (journal # NoJournal => JournalTargets /\ JournalNamed /\ JournalBuilt)'
    BY <1>1 DEF Origins, JournalTargets, JournalNamed, JournalBuilt, Journaled, Named, Built, roots
  <2> QED BY <2>3, <2>4, <2>5 DEF Origins
<1> QED BY <1>3, <1>4 DEF CasVerify

LEMMA CasPutBackOrigins ==
  ASSUME Shape, Origins, CasPutBack
  PROVE  Origins'
<1>1. cas # NoCas /\ cas.step = "putback" /\ UNCHANGED <<roots, journal>> /\ Throw(cas.path)
  BY DEF CasPutBack
<1>2. cas' = NoCas /\ pc' # "begin"
  BY <1>1, ThrowLeaves
<1>3. journal # NoJournal /\ cas.path \in Journaled
  BY <1>1, CasPaths
<1>4. cas.path # StatePath /\ cas.side \in Foreign
  BY <1>1 DEF Origins, CasJournaled, Shape, CasOk
<1>5. CASE UNCHANGED file
  BY <1>1, <1>2, <1>5, SameOrigins
<1>6. CASE file' = [file EXCEPT ![cas.path] = cas.side]
  BY <1>1, <1>2, <1>3, <1>4, <1>6, PutOrigins DEF CasJournaled
<1> QED BY <1>5, <1>6 DEF CasPutBack

(* Somebody else never writes a manifest of a release. *)
LEMMA EditOrigins ==
  ASSUME Shape, Origins, NEW c \in Controls, NEW v \in Foreign \cup {Absent}, EditControl(c, v)
  PROVE  Origins'
<1>1. UNCHANGED <<roots, journal, proc>> /\ file' = [file EXCEPT ![c] = v]
  BY DEF EditControl
<1>2. c \in Paths /\ StatePath \in Paths /\ c # StatePath /\ Addins \subseteq Paths
  BY ConstantsAssumption DEF ConstantsAssumption, Paths, Controls
<1>3. \A q \in Paths : file'[q] = IF q = c THEN v ELSE file[q]
  BY <1>1, <1>2 DEF Shape, DiskOk
<1>4. tree' = tree /\ staging' = staging /\ displaced' = displaced /\ failed' = failed
      /\ cas' = cas /\ pc' = pc /\ op' = op /\ file'[StatePath] = file[StatePath]
  BY <1>1, <1>2, <1>3 DEF roots, proc
<1>5. Named(file[StatePath])' /\ (\A r \in Releases : Built(r, tree[r]))' /\ BeginWhole'
  BY <1>4 DEF Origins, Named, Built, BeginWhole
<1>6. CasJournaled'
  BY <1>1, <1>4 DEF Origins, CasJournaled
<1>7. ASSUME journal # NoJournal
      PROVE  JournalTargets' /\ JournalNamed' /\ JournalBuilt'
  <2>1. Foreign \cap Releases = {} /\ journal.admission \in Releases \cup {Absent}
    BY <1>7, MarkersAssumption, JournalFacts DEF MarkersAssumption
  <2>2. JournalTargets'
    BY <1>1, <1>2, <1>3, <1>7, <2>1 DEF Origins, JournalTargets, Journaled
  <2> QED BY <1>1, <1>4, <1>7, <2>2 DEF Origins, JournalNamed, JournalBuilt, Journaled, Named, Built
<1> QED BY <1>1, <1>5, <1>6, <1>7 DEF Origins

(* A directory moves, or is altered in place: what it is made of stays.    *)
LEMMA TreeOrigins ==
  ASSUME Shape, Origins, UNCHANGED <<file, journal>>, cas' \in {cas, NoCas},
         \A r \in Releases : Built(r, tree'[r]),
         journal # NoJournal /\ journal.swap # NoSwap =>
           \A t \in {staging', displaced', failed'} : Built(journal.swap.release, t),
         pc' = "begin" => /\ pc = "begin" /\ op' = op
                          /\ displaced = NoTree => displaced' = NoTree
                          /\ failed = NoTree => failed' = NoTree
  PROVE  Origins'
<1>1. Named(file[StatePath])' /\ (\A r \in Releases : Built(r, tree[r]))'
  BY DEF Origins, Named, Built
<1>2. BeginWhole'
  BY DEF Origins, BeginWhole, Whole
<1>3. CasJournaled'
  BY DEF Origins, CasJournaled
<1>4. journal # NoJournal => JournalTargets' /\ JournalNamed'
  BY DEF Origins, JournalTargets, JournalNamed, Journaled, Named
<1>5. journal # NoJournal => JournalBuilt'
  BY DEF JournalBuilt, Built
<1> QED BY <1>1, <1>2, <1>3, <1>4, <1>5 DEF Origins

LEMMA SwapBuilt ==
  ASSUME Shape, Origins, journal # NoJournal, journal.swap # NoSwap
  PROVE  /\ journal.swap.release \in Releases
         /\ \A t \in {staging, displaced, failed, tree[journal.swap.release], NoTree} :
              Built(journal.swap.release, t)
<1>1. journal.swap.release \in Releases
  BY JournalFacts DEF Swaps
<1>2. Built(journal.swap.release, NoTree)
  BY DEF Built
<1>3. \A t \in {staging, displaced, failed} : Built(journal.swap.release, t)
  BY DEF Origins, JournalBuilt
<1>4. Built(journal.swap.release, tree[journal.swap.release])
  BY <1>1 DEF Origins
<1> QED BY <1>1, <1>2, <1>3, <1>4

(* A tree of the swap comes to a final root, or leaves it. *)
LEMMA PutTree ==
  ASSUME Shape, Origins, NEW r \in Releases, NEW t, Built(r, t), tree' = [tree EXCEPT ![r] = t]
  PROVE  \A q \in Releases : Built(q, tree'[q])
<1>1. \A q \in Releases : tree'[q] = IF q = r THEN t ELSE tree[q]
  BY DEF Shape, DiskOk
<1> QED BY <1>1 DEF Origins

LEMMA MovesOrigins ==
  ASSUME Shape, Origins, DisplaceRoot \/ PlaceRoot
  PROVE  Origins'
<1> DEFINE r == journal.swap.release
<1>1. /\ pc \in {"displace", "place"} /\ UNCHANGED <<file, journal>> /\ pc' # "begin" /\ cas' = cas
      /\ op.release = r /\ journal # NoJournal /\ journal.swap # NoSwap
  BY DEF DisplaceRoot, PlaceRoot, Goto, Shape, PcOk, QuietPcs, SwapPcs
<1>2. /\ r \in Releases
      /\ \A t \in {staging, displaced, failed, tree[r], NoTree} : Built(r, t)
  BY <1>1, SwapBuilt
<1>3. CASE DisplaceRoot
  <2>1. /\ displaced' = tree[r] /\ tree' = [tree EXCEPT ![r] = NoTree]
        /\ UNCHANGED <<staging, failed>>
    BY <1>1, <1>3 DEF DisplaceRoot
  <2>2. \A q \in Releases : Built(q, tree'[q])
    BY <1>2, <2>1, PutTree
  <2> QED BY <1>1, <1>2, <2>1, <2>2, TreeOrigins
<1>4. CASE PlaceRoot
  <2>1. /\ staging' = NoTree /\ tree' = [tree EXCEPT ![r] = staging]
        /\ UNCHANGED <<displaced, failed>>
    BY <1>1, <1>4 DEF PlaceRoot
  <2>2. \A q \in Releases : Built(q, tree'[q])
    BY <1>2, <2>1, PutTree
  <2> QED BY <1>1, <1>2, <2>1, <2>2, TreeOrigins
<1> QED BY <1>3, <1>4

LEMMA QuarantineOrigins ==
  ASSUME Origins, NEW why, Quarantine(why), UNCHANGED <<file, tree>>
  PROVE  Origins'
BY GoneOrigins DEF Quarantine, Exit

LEMMA RootOrigins ==
  ASSUME Shape, Origins, RecoverRootClear \/ RecoverRootRestore \/ RecoverRootStaging
  PROVE  Origins'
<1> DEFINE r == journal.swap.release
<1>1. /\ pc \in {"rootclear", "rootrestore", "rootstaging"} /\ UNCHANGED file
      /\ journal # NoJournal /\ journal.swap # NoSwap /\ cas = NoCas
  BY NoCasOutsideLoops DEF RecoverRootClear, RecoverRootRestore, RecoverRootStaging, Shape, PcOk,
     QuietPcs, SwapPcs, LoopPcs, ControlLoops, StateLoops
<1>2. /\ r \in Releases
      /\ \A t \in {staging, displaced, failed, tree[r], NoTree} : Built(r, t)
  BY <1>1, SwapBuilt
<1>3. CASE Quarantine("roots") /\ UNCHANGED tree
  BY <1>1, <1>3, QuarantineOrigins
<1>4. CASE ~Quarantine("roots")
  <2>1. UNCHANGED journal /\ pc' # "begin" /\ cas' = NoCas
    BY <1>1, <1>4, ThrowLeaves
       DEF RecoverRootClear, RecoverRootRestore, RecoverRootStaging, Goto
  <2>2. \/ UNCHANGED tree
        \/ tree' = [tree EXCEPT ![r] = NoTree]
        \/ tree' = [tree EXCEPT ![r] = displaced]
    BY <1>4 DEF RecoverRootClear, RecoverRootRestore, RecoverRootStaging
  <2>3. {staging', displaced', failed'} \subseteq {staging, displaced, failed, tree[r], NoTree}
    BY <1>4 DEF RecoverRootClear, RecoverRootRestore, RecoverRootStaging
  <2>4. \A q \in Releases : Built(q, tree'[q])
    BY <1>2, <2>2, PutTree DEF Origins
  <2> QED BY <1>1, <1>2, <2>1, <2>3, <2>4, TreeOrigins
<1>5. Quarantine("roots") => UNCHANGED tree
  <2>1. Quarantine("roots") => journal' = NoJournal
    BY DEF Quarantine
  <2> QED BY <1>1, <2>1 DEF RecoverRootClear, RecoverRootRestore, RecoverRootStaging
<1> QED BY <1>3, <1>4, <1>5

LEMMA AlteredParts ==
  ASSUME NEW t \in Slot, t # NoTree, NEW u \in Altered(t), NEW r, Built(r, t)
  PROVE  Built(r, u)
<1>1. t \in Trees
  BY DEF Slot
<1>2. PICK c \in t.parts : u = [t EXCEPT !.bad = @ \cup {c}]
  BY DEF Altered
<1>3. u.parts = t.parts
  BY <1>1, <1>2 DEF Trees
<1> QED BY <1>3 DEF Built

LEMMA AlterOrigins ==
  ASSUME Shape, Origins, AlterTree
  PROVE  Origins'
<1>1. UNCHANGED <<file, journal>> /\ cas' = cas /\ pc' = pc /\ op' = op
  BY DEF AlterTree, proc
<1>2. staging \in Slot /\ displaced \in Slot /\ failed \in Slot /\ tree \in [Releases -> Slot]
  BY DEF Shape, DiskOk
<1>3. \A r \in Releases : Built(r, tree'[r])
  <2>1. CASE UNCHANGED tree
    BY <2>1 DEF Origins
  <2>2. CASE ~UNCHANGED tree
    <3>1. PICK r \in Releases : /\ tree[r] # NoTree
                                /\ \E t \in Altered(tree[r]) : tree' = [tree EXCEPT ![r] = t]
      BY <2>2 DEF AlterTree
    <3>2. PICK t \in Altered(tree[r]) : tree' = [tree EXCEPT ![r] = t]
      BY <3>1
    <3>3. Built(r, t)
      BY <1>2, <3>1, <3>2, AlteredParts DEF Origins
    <3> QED BY <3>2, <3>3, PutTree
  <2> QED BY <2>1, <2>2
<1>4. ASSUME journal # NoJournal, journal.swap # NoSwap
      PROVE  \A t \in {staging', displaced', failed'} : Built(journal.swap.release, t)
  <2>1. \A t \in {staging, displaced, failed} : Built(journal.swap.release, t)
    BY <1>4, SwapBuilt
  <2> QED BY <1>2, <2>1, AlteredParts DEF AlterTree
<1>5. (displaced = NoTree => displaced' = NoTree) /\ (failed = NoTree => failed' = NoTree)
  BY DEF AlterTree
<1> QED BY <1>1, <1>3, <1>4, <1>5, TreeOrigins

(* What is planned is whole: a selection, or the tree of an earlier        *)
(* release.                                                                *)
LEMMA PlanOrigins ==
  ASSUME Shape, Origins, PlanInstall \/ PlanRollback
  PROVE  Origins'
<1>1. /\ pc = "plan" /\ journal = NoJournal /\ cas = NoCas
      /\ UNCHANGED <<file, tree, journal>>
  BY NoCasOutsideLoops DEF PlanInstall, PlanRollback, disk, Shape, PcOk, LoopPcs, ControlLoops,
     StateLoops
<1>2. CASE Exit
  BY <1>1, <1>2, GoneOrigins DEF Exit
<1>3. CASE ~Exit
  <2>1. cas' = NoCas /\ pc' = "begin"
    BY <1>1, <1>3 DEF PlanInstall, PlanRollback, Goto
  <2>2. BeginWhole'
    <3>1. CASE PlanInstall
      <4>1. op.release \in Releases /\ op.sel \in Selections[op.release]
        BY <3>1 DEF PlanInstall, Shape, PcOk
      <4>2. Whole(op.release, op.sel)
        BY <4>1, SelectedWhole
      <4>3. op' = op /\ displaced' = NoTree /\ failed' = NoTree
        BY <1>3, <3>1 DEF PlanInstall, Goto
      <4> QED BY <4>2, <4>3 DEF BeginWhole, Whole
    <3>2. CASE PlanRollback
      <4>1. PICK r \in RollbackTargets :
               /\ tree[r] # NoTree
               /\ op' = [op EXCEPT !.release = r, !.sel = tree[r].parts]
        BY <1>3, <3>2 DEF PlanRollback
      <4>2. op'.release = r /\ op'.sel = tree[r].parts /\ op'.kind = "rollback"
        BY <3>2, <4>1 DEF PlanRollback, Shape, ProcOk
      <4>3. r \in Releases
        BY <4>1 DEF RollbackTargets
      <4>4. Whole(r, tree[r].parts)
        BY <4>1, <4>3 DEF Origins, Built
      <4> QED BY <4>2, <4>4 DEF BeginWhole, Whole
    <3> QED BY <3>1, <3>2
  <2>3. Named(file[StatePath])' /\ (\A r \in Releases : Built(r, tree[r]))' /\ CasJournaled'
    BY <1>1, <2>1 DEF Origins, Named, Built, CasJournaled
  <2> QED BY <1>1, <2>2, <2>3 DEF Origins
<1> QED BY <1>2, <1>3

(* No manifest of the admitted release itself is outdated by a whole part  *)
(* of it: the state would own it for this release, so this release has it, *)
(* and has it for a year that the part takes in.                           *)
LEMMA ObsoleteIsOfAnother ==
  ASSUME Shape, Origins, NEW r \in Admitted, NEW sel, Whole(r, sel), PlanActivation(sel),
         NEW a \in Obsolete(sel)
  PROVE  file[a] # r
<1>1. /\ a \in Addins /\ a \notin sel /\ Owned[a] # Absent /\ file[a] = Owned[a]
      /\ r \in Releases
  BY ConstantsAssumption DEF ConstantsAssumption, Obsolete, PlanActivation
<1>2. PICK t \in sel \cap Addins : Year[t] = Year[a]
  BY DEF Obsolete
<1>3. ASSUME Owned[a] = r
      PROVE  FALSE
  <2>1. file[StatePath] # Absent /\ file[StatePath].owned[a] = r
    BY <1>1, <1>3 DEF Owned
  <2>2. a \in Parts(r)
    BY <1>1, <2>1 DEF Origins, Named
  <2> QED BY <1>1, <1>2, <2>2 DEF Whole
<1> QED BY <1>1, <1>3

LEMMA BeginOrigins ==
  ASSUME Shape, Origins, BeginActivationJournal
  PROVE  Origins'
<1> DEFINE r == op.release
           sel == op.sel
           after == Exact(sel \cup Preserved(r))
           swap == [release |-> r, before |-> tree[r], after |-> after]
           new == IF Refreshes(r) THEN NoSwap ELSE swap
           dom == sel \cup Obsolete(sel) \cup {StatePath}
<1>1. /\ pc = "begin" /\ r \in Releases /\ sel \in SUBSET Controls /\ cas = NoCas
      /\ UNCHANGED <<file, tree, displaced, failed>>
  BY NoCasOutsideLoops DEF BeginActivationJournal, Shape, PcOk, ProcOk, Forward, LoopPcs,
     ControlLoops, StateLoops
<1>2. Whole(r, sel) /\ (op.kind # "rollback" => displaced = NoTree /\ failed = NoTree)
  BY <1>1 DEF Origins, BeginWhole
<1>3. CASE UNCHANGED <<journal, staging>> /\ Throw(StatePath)
  BY <1>1, <1>3, ThrowLeaves, SameOrigins DEF roots
<1>4. CASE /\ PlanActivation(sel) /\ journal' = JournalOf(r, sel, new)
           /\ staging' = IF Refreshes(r) THEN NoTree ELSE after
           /\ cas' = cas /\ pc' # "begin"
  <2>1. /\ StatePath \in dom /\ StatePath \notin Addins /\ sel \cap Obsolete(sel) = {}
        /\ StatePath \notin sel /\ StatePath \notin Obsolete(sel)
    BY <1>1, ConstantsAssumption DEF ConstantsAssumption, Controls, Obsolete
  <2>2. /\ journal'.before = [p \in dom |-> file[p]]
        /\ journal'.after = [p \in dom |-> IF p = StatePath THEN file[p]
                                           ELSE IF p \in sel THEN r ELSE Absent]
        /\ journal'.swap = new
        /\ journal'.admission = IF r \in Admitted THEN r ELSE Absent
    BY <1>4 DEF JournalOf
  <2>3. /\ journal'.before[StatePath] = file[StatePath] /\ journal'.after[StatePath] = file[StatePath]
        /\ DOMAIN journal'.before = dom
        /\ \A a \in Addins \cap dom :
             /\ journal'.before[a] = file[a]
             /\ a \in sel => journal'.after[a] = r
             /\ a \notin sel => journal'.after[a] = Absent /\ a \in Obsolete(sel)
    BY <2>1, <2>2
  <2>4. JournalTargets'
    <3> SUFFICES ASSUME journal'.admission # Absent
                 PROVE  JournalTargets'
      BY DEF JournalTargets
    <3>1. r \in Admitted /\ journal'.admission = r
      BY <2>2
    <3>2. new # NoSwap => new.release = r
      OBVIOUS
    <3>3. Absent \notin Releases
      BY MarkersAssumption DEF MarkersAssumption
    <3>4. ASSUME NEW a \in Addins \cap dom
          PROVE  /\ journal'.after[a] \in {r, Absent}
                 /\ journal'.after[a] = Absent => journal'.before[a] # r /\ file'[a] # r
      <4>1. CASE a \in sel
        BY <1>1, <2>3, <3>3, <4>1
      <4>2. CASE a \notin sel
        <5>1. file[a] # r
          BY <1>2, <1>4, <2>3, <3>1, <4>2, ObsoleteIsOfAnother
        <5> QED BY <1>1, <2>3, <4>2, <5>1
      <4> QED BY <4>1, <4>2
    <3> HIDE DEF new, dom
    <3> QED BY <2>2, <2>3, <3>1, <3>2, <3>4 DEF JournalTargets, Journaled
  <2>5. JournalNamed'
    <3>1. \A a \in Addins \cap dom : journal'.after[a] \in Releases => a \in Parts(journal'.after[a])
      BY <1>2, <2>3, MarkersAssumption DEF MarkersAssumption, Whole
    <3> HIDE DEF dom
    <3>2. Named(journal'.before[StatePath]) /\ Named(journal'.after[StatePath])
      BY <2>3 DEF Origins
    <3> QED BY <2>3, <3>1, <3>2 DEF JournalNamed, Journaled, Named
  <2>6. JournalBuilt'
    <3> SUFFICES ASSUME journal'.swap # NoSwap
                 PROVE  JournalBuilt'
      BY DEF JournalBuilt
    <3>1. ~Refreshes(r) /\ journal'.swap.release = r /\ staging' = after
      BY <1>4, <2>2
    <3>2. displaced' = NoTree /\ failed' = NoTree
      BY <1>1, <1>2, <3>1 DEF Refreshes
    <3>3. after.parts = sel \cup Preserved(r)
      BY DEF Exact
    <3>4. Whole(r, sel \cup Preserved(r))
      <4>1. CASE tree[r] = NoTree
        <5>1. sel \cup Preserved(r) = sel
          BY <4>1 DEF Preserved
        <5> QED BY <1>2, <5>1
      <4>2. CASE tree[r] # NoTree
        <5>1. sel \cup Preserved(r) = sel \cup tree[r].parts
          BY <4>2 DEF Preserved
        <5>2. Whole(r, tree[r].parts)
          BY <1>1, <4>2 DEF Origins, Built
        <5> QED BY <1>2, <5>1, <5>2, WholeUnion
      <4> QED BY <4>1, <4>2
    <3>5. Built(r, after) /\ Built(r, NoTree)
      BY <3>3, <3>4 DEF Built
    <3> HIDE DEF after
    <3>6. \A t \in {staging', displaced', failed'} : Built(journal'.swap.release, t)
      BY <3>1, <3>2, <3>5
    <3> QED BY <3>6 DEF JournalBuilt, Built
  <2>7. Named(file[StatePath])' /\ (\A q \in Releases : Built(q, tree[q]))' /\ CasJournaled'
        /\ BeginWhole'
    BY <1>1, <1>4 DEF Origins, Named, Built, CasJournaled, BeginWhole
  <2> QED BY <2>4, <2>5, <2>6, <2>7 DEF Origins
<1> QED BY <1>1, <1>3, <1>4 DEF BeginActivationJournal, Goto

LEMMA MarkOrigins ==
  ASSUME Shape, Origins, MarkCommit
  PROVE  Origins'
<1>1. /\ pc = "mark" /\ journal # NoJournal /\ cas = NoCas /\ cas' = cas /\ pc' = "commit"
      /\ UNCHANGED <<file, tree, staging, displaced, failed>>
  BY NoCasOutsideLoops DEF MarkCommit, Goto, roots, Shape, PcOk, QuietPcs, LoopPcs, ControlLoops,
     StateLoops
<1>2. JournalTargets /\ JournalNamed /\ JournalBuilt
  BY <1>1 DEF Origins
<1>3. PICK dom \in SUBSET Paths : Images(journal, dom)
  BY <1>1 DEF Shape, JournalOk
<1>4. /\ dom = Journaled /\ StatePath \in dom /\ StatePath \notin Addins
      /\ journal \in Journals(dom)
  BY <1>3, ConstantsAssumption DEF ConstantsAssumption, Images, Journals, Journaled, Controls
<1>5. journal' = [journal EXCEPT !.commit = TRUE, !.after[StatePath] = NewState]
  BY DEF MarkCommit
<1>6. /\ journal'.before = journal.before /\ journal'.swap = journal.swap
      /\ journal'.admission = journal.admission /\ journal'.after[StatePath] = NewState
      /\ \A a \in Addins \cap dom : journal'.after[a] = journal.after[a]
  BY <1>4, <1>5 DEF Journals
<1>7. NewState.owned = NewOwned
  BY DEF NewState
<1>8. Named(NewState)
  <2>1. ASSUME NEW a \in Addins, NewOwned[a] \in Releases
        PROVE  a \in Parts(NewOwned[a])
    <3>1. CASE a \in Journaled
      BY <1>2, <2>1, <3>1 DEF NewOwned, JournalNamed
    <3>2. CASE a \notin Journaled
      <4>1. NewOwned[a] = Owned[a]
        BY <3>2 DEF NewOwned
      <4>2. file[StatePath] # Absent /\ Owned[a] = file[StatePath].owned[a]
        BY <2>1, <4>1, MarkersAssumption DEF MarkersAssumption, Owned
      <4> QED BY <2>1, <4>1, <4>2 DEF Origins, Named
    <3> QED BY <3>1, <3>2
  <2> QED BY <1>7, <2>1 DEF Named
<1>9. JournalTargets'
  BY <1>1, <1>2, <1>4, <1>6 DEF JournalTargets, Journaled
<1>10. JournalNamed'
  <2>1. Named(journal'.before[StatePath]) /\ Named(journal'.after[StatePath])
    BY <1>2, <1>6, <1>8 DEF JournalNamed
  <2>2. \A a \in Addins \cap dom : journal'.after[a] \in Releases => a \in Parts(journal'.after[a])
    BY <1>2, <1>4, <1>6 DEF JournalNamed
  <2>3. DOMAIN journal'.before = dom
    BY <1>4, <1>6 DEF Journaled
  <2> QED BY <2>1, <2>2, <2>3 DEF JournalNamed, Journaled, Named
<1>11. JournalBuilt'
  BY <1>1, <1>2, <1>6 DEF JournalBuilt, Built
<1>12. Named(file[StatePath])' /\ (\A q \in Releases : Built(q, tree[q]))' /\ CasJournaled'
       /\ BeginWhole'
  BY <1>1 DEF Origins, Named, Built, CasJournaled, BeginWhole
<1> QED BY <1>9, <1>10, <1>11, <1>12 DEF Origins

LEMMA RecoverOrigins ==
  ASSUME Shape, Origins, RecoverBegin \/ RecoverReadFault
  PROVE  Origins'
<1>1. /\ pc = "recover" /\ cas = NoCas /\ UNCHANGED <<file, tree, displaced, failed>>
  BY NoCasOutsideLoops DEF RecoverBegin, RecoverReadFault, roots, LoopPcs, ControlLoops, StateLoops
<1>2. CASE journal' = NoJournal
  <2>1. cas' = NoCas /\ pc' # "begin"
    BY <1>1, <1>2 DEF RecoverBegin, RecoverReadFault, Exit, AfterRecovery, Quarantine,
       RejectAdmission, Goto
  <2> QED BY <1>1, <1>2, <2>1, GoneOrigins
<1>3. CASE journal' # NoJournal
  <2>1. UNCHANGED journal /\ UNCHANGED staging
    BY <1>3 DEF RecoverBegin, RecoverReadFault, Quarantine, roots
  <2>2. cas' = NoCas /\ pc' # "begin"
    BY <1>1, <1>3 DEF RecoverBegin, RecoverReadFault, Exit, AfterRecovery, Quarantine,
       RejectAdmission, Goto
  <2> QED BY <1>1, <2>1, <2>2, SameOrigins DEF roots
<1> QED BY <1>2, <1>3

LEMMA CheckOrigins ==
  ASSUME Shape, Origins, RecoverRootCheck \/ RecoverForeignCheck \/ QuarantineRejected \/ Retire
  PROVE  Origins'
<1>1. UNCHANGED <<file, roots>> /\ pc # "begin" /\ cas = NoCas
  BY NoCasOutsideLoops
     DEF RecoverRootCheck, RecoverForeignCheck, QuarantineRejected, Retire, LoopPcs, ControlLoops,
         StateLoops
<1>2. CASE journal' = NoJournal
  <2>1. cas' = NoCas /\ pc' # "begin"
    BY <1>1, <1>2 DEF RecoverRootCheck, RecoverForeignCheck, QuarantineRejected, Retire, Quarantine,
       Exit, AfterRecovery, Goto
  <2> QED BY <1>1, <1>2, <2>1, GoneOrigins DEF roots
<1>3. CASE journal' # NoJournal
  <2>1. UNCHANGED journal /\ cas' = NoCas /\ pc' # "begin"
    BY <1>1, <1>3 DEF RecoverRootCheck, RecoverForeignCheck, QuarantineRejected, Retire, Quarantine,
       Goto
  <2> QED BY <1>1, <2>1, SameOrigins
<1> QED BY <1>2, <1>3

LEMMA InitOrigins ==
  ASSUME Init
  PROVE  Origins
<1>1. file[StatePath] = Absent /\ (\A r \in Releases : tree[r] = NoTree)
  BY DEF Init, Paths
<1> QED BY <1>1 DEF Init, Origins, Named, Built, BeginWhole, CasJournaled

LEMMA NextOrigins ==
  ASSUME Shape, Origins, [Next]_vars
  PROVE  Origins'
<1>1. CASE ProcessStep
  <2>1. CASE \/ PlanInstall \/ PlanRollback \/ BeginActivationJournal
             \/ DisplaceRoot \/ PlaceRoot \/ MarkCommit \/ CommitState
    BY <2>1, PlanOrigins, BeginOrigins, MovesOrigins, MarkOrigins, CommitOrigins
  <2>2. CASE AssertReleaseRootMatches \/ ValidateActivatedRelease \/ LoopEnd
    BY <2>2, QuietOrigins DEF AssertReleaseRootMatches, ValidateActivatedRelease, LoopEnd
  <2>3. CASE \/ Retire \/ RecoverBegin \/ RecoverRootCheck \/ RecoverRootClear \/ RecoverRootRestore
             \/ RecoverRootStaging \/ RecoverForeignCheck \/ QuarantineRejected
    BY <2>3, RecoverOrigins, CheckOrigins, RootOrigins
  <2>4. ASSUME NEW p \in Paths, \/ ActivateControl(p) \/ RestoreControl(p)
                                \/ DisableControl(p) \/ ReinstateControl(p)
        PROVE  Origins'
    BY <2>4, LoopOrigins
  <2>5. CASE CasSwap \/ CasVerify \/ CasPutBack
    BY <2>5, CasSwapOrigins, CasVerifyOrigins, CasPutBackOrigins
  <2> QED BY <1>1, <2>1, <2>2, <2>3, <2>4, <2>5 DEF ProcessStep
<1>2. CASE \/ (\E o \in Commands : Execute(o)) \/ Crash \/ IOFault \/ SideFileFault
           \/ RevitStartsOrExits \/ UNCHANGED vars
  BY <1>2, FaultOrigins
<1>3. CASE RecoverReadFault
  BY <1>3, RecoverOrigins
<1>4. ASSUME NEW c \in Controls, NEW v \in Foreign \cup {Absent}, EditControl(c, v) PROVE Origins'
  BY <1>4, EditOrigins
<1>5. CASE AlterTree
  BY <1>5, AlterOrigins
<1> QED BY <1>1, <1>2, <1>3, <1>4, <1>5 DEF Next

THEOREM OriginsHolds == Spec => []Origins
<1>1. Init => Origins
  BY InitOrigins
<1>2. Shape /\ Origins /\ [Next]_vars => Origins'
  BY NextOrigins
<1> QED BY <1>1, <1>2, ShapeHolds, PTL DEF Spec

-----------------------------------------------------------------------------
(* A rejected admission. *)

RejectPcs == Rejecting \cup {"quarantine"}

LEMMA RejectedLate ==
  ASSUME Shape, Transaction, pc \in RejectPcs \/ quarantine # NoJournal
  PROVE  thirdParty + (IF unreadable THEN 1 ELSE 0) >= 1
<1>1. ~Undisturbed
  BY DEF Transaction, Recoverable, OnCourse, RejectPcs
<1> QED BY <1>1 DEF Undisturbed, Shape, EnvOk

(* A second disturbance lifts the claim about the trees. *)
LEMMA SecondDisturbance ==
  ASSUME Shape, Transaction, pc \in RejectPcs \/ quarantine # NoJournal, AlterTree
  PROVE  ~Single'
<1>1. thirdParty + (IF unreadable THEN 1 ELSE 0) >= 1
  BY RejectedLate
<1>2. thirdParty' = thirdParty + 1 /\ unreadable' = unreadable /\ thirdParty \in Nat
  BY DEF AlterTree, Shape, EnvOk
<1> QED BY <1>1, <1>2 DEF Single

LEMMA EditedAddins ==
  ASSUME Shape, NEW c \in Controls, NEW v \in Foreign \cup {Absent}, EditControl(c, v),
         NEW a \in Addins, file'[a] \in Releases
  PROVE  file'[a] = file[a]
<1>1. file' = [file EXCEPT ![c] = v]
  BY DEF EditControl
<1>2. a \in Paths /\ Foreign \cap Releases = {} /\ Absent \notin Releases
  BY MarkersAssumption DEF MarkersAssumption, Paths, Controls
<1> QED BY <1>1, <1>2 DEF Shape, DiskOk

(* Once the journal is quarantined the next commands stop at once. *)
LEMMA QuarantinedSteps ==
  ASSUME Shape, pc \in {"idle", "recover"}, quarantine # NoJournal, [Next]_vars
  PROVE  /\ pc' \in {"idle", "recover"} /\ quarantine' = quarantine /\ unreadable' = unreadable
         /\ \/ AlterTree /\ UNCHANGED file
            \/ \E c \in Controls, v \in Foreign \cup {Absent} : EditControl(c, v) /\ UNCHANGED tree
            \/ UNCHANGED <<file, tree, thirdParty>>
<1>1. cas = NoCas
  BY NoCasOutsideLoops DEF LoopPcs, ControlLoops, StateLoops
<1>2. CASE ProcessStep
  <2>1. RecoverBegin
    BY <1>1, <1>2 DEF ProcessStep, PlanInstall, PlanRollback, BeginActivationJournal, DisplaceRoot,
       PlaceRoot, AssertReleaseRootMatches, ValidateActivatedRelease, MarkCommit, CommitState, Retire,
       RecoverRootCheck, RecoverRootClear, RecoverRootRestore, RecoverRootStaging,
       RecoverForeignCheck, QuarantineRejected, ActivateControl, RestoreControl, DisableControl,
       ReinstateControl, LoopEnd, CasSwap, CasVerify, CasPutBack
  <2> QED BY <2>1 DEF RecoverBegin, Exit, env
<1>3. CASE \/ (\E o \in Commands : Execute(o)) \/ Crash \/ RevitStartsOrExits \/ UNCHANGED vars
  BY <1>3 DEF Execute, Crash, RevitStartsOrExits, vars, disk, proc, env, roots, Exit
<1>4. ~IOFault /\ ~SideFileFault /\ ~RecoverReadFault
  BY <1>1 DEF IOFault, SideFileFault, RecoverReadFault, Forward, Recovering
<1>5. ASSUME NEW c \in Controls, NEW v \in Foreign \cup {Absent}, EditControl(c, v)
      PROVE  UNCHANGED <<pc, quarantine, unreadable, tree>>
  BY <1>5 DEF EditControl, proc, roots
<1>6. CASE AlterTree
  BY <1>6 DEF AlterTree, proc
<1> QED BY <1>2, <1>3, <1>4, <1>5, <1>6 DEF Next

LEMMA QuarantinedRejection ==
  ASSUME Shape, Transaction, Rejection, quarantine # NoJournal, [Next]_vars
  PROVE  Rejection'
<1>1. pc \in {"idle", "recover"} /\ quarantine.journal.admission \in Releases \cup {Absent}
  BY DEF Rejection
<1>2. /\ pc' \in {"idle", "recover"} /\ quarantine' = quarantine /\ unreadable' = unreadable
      /\ \/ AlterTree /\ UNCHANGED file
         \/ \E c \in Controls, v \in Foreign \cup {Absent} : EditControl(c, v) /\ UNCHANGED tree
         \/ UNCHANGED <<file, tree, thirdParty>>
  BY <1>1, QuarantinedSteps
<1>3. RejectedNotLoaded'
  <2>1. CASE AlterTree
    BY <2>1, SecondDisturbance DEF Single, RejectedNotLoaded
  <2>2. ASSUME NEW c \in Controls, NEW v \in Foreign \cup {Absent}, EditControl(c, v), UNCHANGED tree
        PROVE  RejectedNotLoaded'
    <3>1. Single' => Single
      BY <2>2 DEF EditControl, Single, Shape, EnvOk
    <3>2. \A a \in Addins : file'[a] \in Releases => file'[a] = file[a]
      BY <2>2, EditedAddins
    <3> QED BY <1>1, <1>2, <2>2, <3>1, <3>2 DEF Rejection, RejectedNotLoaded, Single
  <2>3. CASE UNCHANGED <<file, tree, thirdParty>>
    BY <1>2, <2>3 DEF Rejection, RejectedNotLoaded
  <2> QED BY <1>2, <2>1, <2>2, <2>3
<1> QED BY <1>1, <1>2, <1>3 DEF Rejection, Rejecting

(* The journal is quarantined. *)
LEMMA QuarantineRejection ==
  ASSUME Shape, Origins, Rejection, journal # NoJournal, NEW why, Quarantine(why),
         why = "rejected" => pc = "quarantine" /\ UNCHANGED <<file, tree, thirdParty, unreadable>>
  PROVE  Rejection'
<1>1. /\ pc' = "idle"
      /\ quarantine' = [journal |-> journal, reason |-> why, clean |-> clean]
  BY DEF Quarantine, Exit
<1>2. journal.admission \in Releases \cup {Absent}
  BY JournalFacts
<1>3. RejectedNotLoaded'
  <2>1. CASE why # "rejected"
    BY <1>1, <2>1 DEF RejectedNotLoaded
  <2>2. CASE why = "rejected"
    <3>1. ASSUME Single, clean, journal.admission # Absent, NEW a \in Addins \cap DOMAIN journal.before,
                 file[a] = journal.admission
          PROVE  journal.swap # NoSwap /\ tree[journal.admission] = journal.swap.before
      <4>1. TakenBack
        BY <2>2, <3>1 DEF Rejection
      <4>2. previousExact
        BY <2>2, <3>1, <4>1 DEF TakenBack, Journaled
      <4> QED BY <3>1, <4>1, <4>2 DEF TakenBack
    <3>2. Single' = Single
      BY <2>2 DEF Single
    <3> QED BY <1>1, <2>2, <3>1, <3>2 DEF RejectedNotLoaded, Single
  <2> QED BY <2>1, <2>2
<1> QED BY <1>1, <1>2, <1>3 DEF Rejection, Rejecting

(* Elsewhere only the taking back matters. *)
LEMMA PendingRejection ==
  ASSUME quarantine' = NoJournal,
         pc' \in RejectPcs /\ journal'.admission # Absent /\ clean' => TakenBack'
  PROVE  Rejection'
BY DEF Rejection, RejectedNotLoaded, RejectPcs

(* RejectAdmission starts with every control still to be disabled. *)
LEMMA EnterTakenBack ==
  ASSUME Shape, Origins, pc = "recover", journal # NoJournal, RejectAdmission,
         UNCHANGED <<file, tree, journal>>, journal.admission # Absent
  PROVE  TakenBack'
<1>1. /\ pc' = "disable" /\ todo' = JournaledControls /\ cas' = NoCas
      /\ previousExact' = PreviousRootStillExact
  BY NoCasOutsideLoops DEF RejectAdmission, LoopPcs, ControlLoops, StateLoops
<1>2. journal.swap # NoSwap => journal.swap.release = journal.admission
  BY DEF Origins, JournalTargets
<1>3. Addins \cap Journaled \subseteq JournaledControls
  BY ConstantsAssumption DEF ConstantsAssumption, JournaledControls, Controls
<1> QED BY <1>1, <1>2, <1>3 DEF TakenBack, PreviousRootStillExact, Journaled

(* The taking back as the steps of the process see it. *)
LEMMA StepTakenBack ==
  ASSUME TakenBack, UNCHANGED <<tree, journal, previousExact, thirdParty, unreadable>>,
         ~previousExact =>
           /\ \A a \in Addins \cap Journaled :
                file'[a] = journal.admission => pc' = "disable" /\ a \in todo'
           /\ cas' # NoCas /\ cas'.path \in Addins =>
                /\ cas'.new # journal.admission
                /\ cas'.step # "swap" => file'[cas'.path] # journal.admission
  PROVE  TakenBack'
BY DEF TakenBack, Single, Journaled

LEMMA DisableTakenBack ==
  ASSUME Shape, Origins, TakenBack, journal.admission # Absent,
         NEW p \in Paths, DisableControl(p)
  PROVE  TakenBack'
<1>1. /\ pc \in {"disable", "disablestate"} /\ cas = NoCas /\ p \in todo
      /\ UNCHANGED <<file, tree, journal, thirdParty, unreadable>>
  BY DEF DisableControl, disk, env
<1>2. journal # NoJournal /\ p \in Journaled
  BY <1>1, LoopsJournaled DEF LoopPcs, ControlLoops, StateLoops
<1>3. StatePath \notin Addins /\ (pc = "disablestate" => p = StatePath)
      /\ (pc = "disable" => p # StatePath)
  BY <1>1, <1>2, JournalFacts, ConstantsAssumption
     DEF ConstantsAssumption, Controls, Shape, PcOk, StateLoops, ControlLoops
<1>4. JournalTargets
  BY <1>2 DEF Origins
<1>5. CASE file[p] \in {journal.after[p], journal.before[p]} /\ CasStart(p, file[p], Absent)
  <2>1. /\ cas'.path = p /\ cas'.new = Absent /\ cas'.step = "swap"
        /\ UNCHANGED <<pc, todo, previousExact>>
    BY <1>5 DEF CasStart
  <2> QED BY <1>1, <2>1, StepTakenBack DEF TakenBack
<1>6. CASE Goto(pc, todo \ {p}) /\ (journal.after[p] = Absent \/ ~MatchesAfter(p))
  <2>1. cas' = NoCas /\ pc' = pc /\ todo' = todo \ {p} /\ UNCHANGED previousExact
    BY <1>1, <1>6 DEF Goto
  <2>2. p \in Addins => file[p] # journal.admission
    BY <1>2, <1>4, <1>6 DEF JournalTargets, MatchesAfter
  <2> QED BY <1>1, <2>1, <2>2, StepTakenBack DEF TakenBack
<1> QED BY <1>5, <1>6 DEF DisableControl, MatchesAfter, MatchesBefore

LEMMA ReinstateTakenBack ==
  ASSUME Shape, TakenBack, journal.admission # Absent, clean',
         NEW p \in Paths, ReinstateControl(p)
  PROVE  TakenBack'
<1>1. /\ pc \in {"reinstate", "reinstatestate"} /\ cas = NoCas /\ p \in todo
      /\ UNCHANGED <<file, tree, journal, thirdParty, unreadable>>
  BY DEF ReinstateControl, disk, env
<1>2. CASE Goto(pc, todo \ {p})
  <2>1. cas' = NoCas /\ pc' = pc /\ UNCHANGED previousExact
    BY <1>1, <1>2 DEF Goto
  <2> QED BY <1>1, <2>1, StepTakenBack DEF TakenBack
<1>3. ASSUME NEW e, CasStart(p, e, journal.before[p]), ~BeforeIsUnsafe(p)
      PROVE  TakenBack'
  <2>1. file[p] = e
    BY <1>1, <1>3 DEF CasStart, Throw, Forward, Recovering, Rejecting
  <2>2. /\ cas'.path = p /\ cas'.new = journal.before[p] /\ cas'.step = "swap"
        /\ UNCHANGED <<pc, todo, previousExact>>
    BY <1>1, <1>3, <2>1 DEF CasStart
  <2>3. ~previousExact /\ p \in Addins => journal.before[p] # journal.admission
    BY <1>3 DEF BeforeIsUnsafe
  <2> QED BY <1>1, <2>2, <2>3, StepTakenBack DEF TakenBack
<1> QED BY <1>2, <1>3 DEF ReinstateControl

LEMMA LoopEndTakenBack ==
  ASSUME TakenBack, LoopEnd
  PROVE  TakenBack'
<1>1. /\ todo = {} /\ cas' = NoCas
      /\ UNCHANGED <<file, tree, journal, thirdParty, unreadable, previousExact>>
  BY DEF LoopEnd, disk, env, Goto
<1>2. ~previousExact => \A a \in Addins \cap Journaled : file[a] # journal.admission
  BY <1>1 DEF TakenBack
<1> QED BY <1>1, <1>2, StepTakenBack

(* A failed call makes the quarantine one that is not clean. *)
LEMMA ThrowUnclean ==
  ASSUME pc \in Rejecting, NEW p, Throw(p)
  PROVE  ~clean'
BY DEF Throw, Forward, Recovering, Rejecting

LEMMA CasTakenBack ==
  ASSUME Shape, Origins, TakenBack, pc \in RejectPcs, clean', journal.admission # Absent,
         CasSwap \/ CasVerify \/ CasPutBack
  PROVE  TakenBack'
<1>1. /\ cas # NoCas /\ UNCHANGED <<tree, journal, thirdParty, unreadable>>
  BY DEF CasSwap, CasVerify, CasPutBack, roots, env
<1>2. pc \in Rejecting
  BY <1>1, CasPaths DEF RejectPcs, LoopPcs, ControlLoops, StateLoops
<1>3. ~Throw(cas.path)
  BY <1>2, ThrowUnclean
<1>4. cas.path \in Paths /\ Addins \subseteq Paths
  BY <1>1, CasFields DEF Paths, Controls
<1>5. CASE CasSwap
  <2>1. file' = [file EXCEPT ![cas.path] = cas.new] /\ UNCHANGED <<pc, previousExact>>
    BY <1>3, <1>5 DEF CasSwap, CasReturn
  <2>2. \A q \in Paths : file'[q] = IF q = cas.path THEN cas.new ELSE file[q]
    BY <1>4, <2>1 DEF Shape, DiskOk
  <2>3. CASE CasReturn
    <3>1. cas' = NoCas /\ todo' = todo \ {cas.path}
      BY <2>3 DEF CasReturn
    <3> QED BY <1>1, <1>4, <2>1, <2>2, <3>1, StepTakenBack DEF TakenBack
  <2>4. CASE cas' = [cas EXCEPT !.step = "verify", !.side = file[cas.path]] /\ todo' = todo
    <3>1. cas'.path = cas.path /\ cas'.new = cas.new
      BY <1>1, <2>4, CasFields DEF CasRecords
    <3> QED BY <1>1, <1>4, <2>1, <2>2, <2>4, <3>1, StepTakenBack DEF TakenBack
  <2> QED BY <1>3, <1>5, <2>3, <2>4 DEF CasSwap
<1>6. CASE CasVerify
  <2>1. file' = file /\ cas.step = "verify" /\ UNCHANGED <<pc, previousExact>>
    BY <1>3, <1>6 DEF CasVerify, CasReturn
  <2>2. CASE CasReturn
    <3>1. cas' = NoCas /\ todo' = todo \ {cas.path}
      BY <2>2 DEF CasReturn
    <3> QED BY <1>1, <2>1, <3>1, StepTakenBack DEF TakenBack
  <2>3. CASE cas' = [cas EXCEPT !.step = "putback"] /\ todo' = todo
    <3>1. cas'.path = cas.path /\ cas'.new = cas.new
      BY <1>1, <2>3, CasFields DEF CasRecords
    <3> QED BY <1>1, <2>1, <2>3, <3>1, StepTakenBack DEF TakenBack
  <2> QED BY <1>3, <1>6, <2>2, <2>3 DEF CasVerify
<1>7. ~CasPutBack
  BY <1>3 DEF CasPutBack
<1> QED BY <1>5, <1>6, <1>7

LEMMA OthersTakenBack ==
  ASSUME Shape, Transaction, TakenBack, pc \in RejectPcs, journal # NoJournal,
         journal.admission # Absent,
         \/ AlterTree \/ RevitStartsOrExits \/ UNCHANGED vars
         \/ \E c \in Controls, v \in Foreign \cup {Absent} : EditControl(c, v)
  PROVE  TakenBack'
<1>1. UNCHANGED <<journal, previousExact, pc, todo, cas>>
  BY DEF AlterTree, RevitStartsOrExits, vars, EditControl, disk, proc
<1>2. CASE AlterTree
  <2>1. ~Single' /\ UNCHANGED file
    BY <1>2, SecondDisturbance DEF AlterTree
  <2> QED BY <1>1, <2>1 DEF TakenBack, Journaled
<1>3. CASE RevitStartsOrExits \/ UNCHANGED vars
  <2>1. UNCHANGED <<file, tree, thirdParty, unreadable>>
    BY <1>3 DEF RevitStartsOrExits, vars, disk, env
  <2> QED BY <1>1, <2>1, StepTakenBack DEF TakenBack
<1>4. ASSUME NEW c \in Controls, NEW v \in Foreign \cup {Absent}, EditControl(c, v)
      PROVE  TakenBack'
  <2>1. UNCHANGED tree /\ (Single' => Single)
    BY <1>4 DEF EditControl, roots, Single, Shape, EnvOk
  <2>2. \A a \in Addins : file'[a] \in Releases => file'[a] = file[a]
    BY <1>4, EditedAddins
  <2>3. journal.admission \in Releases
    BY JournalFacts
  <2>4. previousExact' /\ Single' => journal'.swap # NoSwap /\ tree'[journal'.admission] = journal'.swap.before
    BY <1>1, <2>1 DEF TakenBack
  <2>5. ~previousExact' =>
          /\ \A a \in Addins \cap Journaled : file'[a] = journal.admission => pc = "disable" /\ a \in todo
          /\ cas # NoCas /\ cas.path \in Addins =>
               /\ cas.new # journal.admission
               /\ cas.step # "swap" => file'[cas.path] # journal.admission
    BY <1>1, <2>2, <2>3 DEF TakenBack
  <2> QED BY <1>1, <2>4, <2>5 DEF TakenBack, Journaled
<1> QED BY <1>2, <1>3, <1>4

(* Where the process is not taking anything back, only RejectAdmission     *)
(* makes it start.                                                         *)
LEMMA EnterRejection ==
  ASSUME Shape, Origins, Rejection, quarantine = NoJournal, [Next]_vars, pc \notin RejectPcs
  PROVE  Rejection'
<1>1. CASE \/ PlanInstall \/ PlanRollback \/ BeginActivationJournal
           \/ DisplaceRoot \/ PlaceRoot \/ AssertReleaseRootMatches
           \/ ValidateActivatedRelease \/ MarkCommit \/ CommitState \/ Retire
  <2>1. quarantine' = NoJournal
    BY <1>1 DEF PlanInstall, PlanRollback, BeginActivationJournal, DisplaceRoot, PlaceRoot,
       AssertReleaseRootMatches, ValidateActivatedRelease, MarkCommit, CommitState, Retire, disk
  <2>2. pc' \notin RejectPcs
    BY <1>1 DEF PlanInstall, PlanRollback, BeginActivationJournal, DisplaceRoot, PlaceRoot,
       AssertReleaseRootMatches, ValidateActivatedRelease, MarkCommit, CommitState, Retire, Goto,
       Exit, Throw, AfterRecovery, CasStart, RejectPcs, Rejecting, Forward, Recovering
  <2> QED BY <2>1, <2>2, PendingRejection
<1>2. CASE RecoverBegin \/ RecoverReadFault
  <2>1. pc = "recover" /\ UNCHANGED <<file, tree>>
    BY <1>2 DEF RecoverBegin, RecoverReadFault, roots
  <2>2. CASE RejectAdmission /\ journal # NoJournal /\ UNCHANGED <<journal, quarantine>>
    <3>1. journal.admission # Absent => TakenBack'
      BY <2>1, <2>2, EnterTakenBack
    <3> QED BY <2>2, <3>1, PendingRejection
  <2>3. CASE Quarantine("invalid") /\ journal # NoJournal
    BY <2>3, QuarantineRejection
  <2>4. CASE pc' \notin RejectPcs /\ UNCHANGED quarantine
    BY <2>4, PendingRejection
  <2> QED BY <1>2, <2>2, <2>3, <2>4 DEF RecoverBegin, RecoverReadFault, Exit, AfterRecovery, Goto,
             RejectPcs, Rejecting
<1>3. CASE \/ RecoverRootCheck \/ RecoverRootClear \/ RecoverRootRestore
           \/ RecoverRootStaging \/ RecoverForeignCheck
  <2>1. journal # NoJournal
    BY <1>3 DEF RecoverRootCheck, RecoverRootClear, RecoverRootRestore, RecoverRootStaging,
       RecoverForeignCheck, Shape, PcOk, QuietPcs
  <2>2. CASE Quarantine("roots") \/ Quarantine("foreign")
    BY <2>1, <2>2, QuarantineRejection
  <2>3. CASE ~(Quarantine("roots") \/ Quarantine("foreign"))
    <3>1. quarantine' = NoJournal /\ pc' \notin RejectPcs
      BY <1>3, <2>3 DEF RecoverRootCheck, RecoverRootClear, RecoverRootRestore, RecoverRootStaging,
         RecoverForeignCheck, Goto, Throw, Exit, RejectPcs, Rejecting, Forward, Recovering
    <3> QED BY <3>1, PendingRejection
  <2> QED BY <2>2, <2>3
<1>4. ~QuarantineRejected
  BY DEF QuarantineRejected, RejectPcs
<1>5. ASSUME NEW p \in Paths, \/ ActivateControl(p) \/ RestoreControl(p)
                              \/ DisableControl(p) \/ ReinstateControl(p)
      PROVE  Rejection'
  <2>1. quarantine' = NoJournal /\ pc' \notin RejectPcs
    BY <1>5 DEF ActivateControl, RestoreControl, DisableControl, ReinstateControl, disk, CasStart,
       Throw, Goto, Exit, RejectPcs, Rejecting, Forward, Recovering
  <2> QED BY <2>1, PendingRejection
<1>6. CASE LoopEnd \/ CasSwap \/ CasVerify \/ CasPutBack
  <2>1. quarantine' = NoJournal
    BY <1>6 DEF LoopEnd, CasSwap, CasVerify, CasPutBack, disk
  <2>2. pc' \notin RejectPcs
    BY <1>6 DEF LoopEnd, CasSwap, CasVerify, CasPutBack, CasReturn, Throw, Goto, Exit, RejectPcs,
       Rejecting, Forward, Recovering
  <2> QED BY <2>1, <2>2, PendingRejection
<1>7. CASE \/ (\E o \in Commands : Execute(o)) \/ Crash \/ IOFault \/ SideFileFault \/ AlterTree
           \/ (\E c \in Controls, v \in Foreign \cup {Absent} : EditControl(c, v))
           \/ RevitStartsOrExits \/ UNCHANGED vars
  <2>1. quarantine' = NoJournal /\ pc' \notin RejectPcs
    BY <1>7 DEF Execute, Crash, IOFault, SideFileFault, AlterTree, EditControl, RevitStartsOrExits, vars, disk, proc,
       Throw, Exit, RejectPcs, Rejecting, Forward, Recovering
  <2> QED BY <2>1, PendingRejection
<1> QED BY <1>1, <1>2, <1>3, <1>4, <1>5, <1>6, <1>7 DEF Next, ProcessStep

LEMMA StayRejection ==
  ASSUME Shape, Transaction, Origins, Rejection, quarantine = NoJournal, [Next]_vars,
         pc \in RejectPcs
  PROVE  Rejection'
<1>1. journal # NoJournal
  BY DEF Shape, PcOk, QuietPcs, RejectPcs, Rejecting
<1>2. CASE QuarantineRejected
  BY <1>1, <1>2, QuarantineRejection DEF QuarantineRejected, roots, env
<1>3. CASE Crash \/ IOFault \/ SideFileFault
  <2> SUFFICES quarantine' = NoJournal /\ (pc' \notin RejectPcs \/ ~clean')
    BY PendingRejection
  <2>1. CASE Crash
    BY <2>1 DEF Crash, Exit, RejectPcs, Rejecting
  <2>2. CASE IOFault
    <3>1. cas # NoCas /\ Throw(cas.path)
      BY <2>2 DEF IOFault, RejectPcs, Rejecting, Forward, Recovering
    <3>2. pc \in Rejecting
      BY <3>1, CasPaths DEF RejectPcs, LoopPcs, ControlLoops, StateLoops
    <3> QED BY <2>2, <3>1, <3>2, ThrowUnclean DEF IOFault, disk
  <2>3. CASE SideFileFault
    <3>1. pc \in Rejecting
      BY <2>3, CasPaths DEF SideFileFault, RejectPcs, LoopPcs, ControlLoops, StateLoops
    <3> QED BY <2>3, <3>1, ThrowUnclean DEF SideFileFault
  <2> QED BY <1>3, <2>1, <2>2, <2>3
<1>4. CASE \/ (\E p \in Paths : DisableControl(p) \/ ReinstateControl(p)) \/ LoopEnd
           \/ CasSwap \/ CasVerify \/ CasPutBack \/ AlterTree
           \/ (\E c \in Controls, v \in Foreign \cup {Absent} : EditControl(c, v))
           \/ RevitStartsOrExits \/ UNCHANGED vars
  <2>1. quarantine' = NoJournal /\ UNCHANGED journal
    BY <1>4 DEF DisableControl, ReinstateControl, LoopEnd, CasSwap, CasVerify, CasPutBack, AlterTree,
       EditControl, RevitStartsOrExits, vars, disk
  <2>2. clean' => clean
    BY <1>4 DEF DisableControl, ReinstateControl, LoopEnd, CasSwap, CasVerify, CasPutBack, AlterTree,
       EditControl, RevitStartsOrExits, vars, proc, CasStart, CasReturn, Throw, Goto, RejectPcs,
       Rejecting, Forward, Recovering
  <2>3. ASSUME clean', journal.admission # Absent
        PROVE  TakenBack'
    <3>1. TakenBack
      BY <2>2, <2>3 DEF Rejection, RejectPcs
    <3> QED BY <1>1, <1>4, <2>3, <3>1, DisableTakenBack, ReinstateTakenBack, LoopEndTakenBack,
               CasTakenBack, OthersTakenBack
  <2> QED BY <2>1, <2>3, PendingRejection
<1>5. \/ QuarantineRejected \/ (\E p \in Paths : DisableControl(p) \/ ReinstateControl(p)) \/ LoopEnd
      \/ CasSwap \/ CasVerify \/ CasPutBack \/ Crash \/ IOFault \/ SideFileFault \/ AlterTree
      \/ (\E c \in Controls, v \in Foreign \cup {Absent} : EditControl(c, v))
      \/ RevitStartsOrExits \/ UNCHANGED vars
  BY DEF Next, ProcessStep, Execute, PlanInstall, PlanRollback, BeginActivationJournal, DisplaceRoot,
     PlaceRoot, AssertReleaseRootMatches, ValidateActivatedRelease, MarkCommit, CommitState, Retire,
     RecoverBegin, RecoverReadFault, RecoverRootCheck, RecoverRootClear, RecoverRootRestore,
     RecoverRootStaging, RecoverForeignCheck, ActivateControl, RestoreControl, RejectPcs, Rejecting
<1> QED BY <1>2, <1>3, <1>4, <1>5

LEMMA NextRejection ==
  ASSUME Shape, Transaction, Origins, Rejection, [Next]_vars
  PROVE  Rejection'
BY QuarantinedRejection, EnterRejection, StayRejection

(* After a single disturbance, a rejected admission whose controls were    *)
(* all taken back leaves no journaled manifest that points into the        *)
(* rejected release, unless its root holds the previous tree: what         *)
(* RecoverRejectedAdmissionControls reports is true.                       *)
THEOREM RejectedNotLoadedHolds == Spec => []RejectedNotLoaded
<1>1. Init => Rejection
  BY DEF Init, Rejection, RejectedNotLoaded, Rejecting
<1>2. Shape /\ Transaction /\ Origins /\ Rejection /\ [Next]_vars => Rejection'
  BY NextRejection
<1>3. Rejection => RejectedNotLoaded
  BY DEF Rejection
<1> QED BY <1>1, <1>2, <1>3, ShapeHolds, TransactionHolds, OriginsHolds, PTL DEF Spec

=============================================================================
