--------------------------- MODULE DeployActivation ---------------------------
(***************************************************************************)
(* OperatorDeploy switches one workstation between releases of the Revit   *)
(* add-in (packages/operator-deploy, DeploymentEngine.cs).  A switch is a  *)
(* journaled transaction over several files: the release tree is swapped   *)
(* by directory moves, one add-in manifest per Revit year and profile and  *)
(* the desktop launchers ("controls") are replaced by compare-and-swap,    *)
(* and state.json is written last.  The process may die, and an I/O call   *)
(* may fail, between any two of these steps; the next command recovers     *)
(* the journal before it does anything else.  Other programs may edit a    *)
(* control, delete it, or alter a file of a release tree at any moment;    *)
(* recovery must notice that and quarantine the journal.                   *)
(*                                                                         *)
(* Contents are abstracted to what the code compares.  A control holds     *)
(* nothing, contents that no release has, or the release its bytes point   *)
(* at (a manifest's bytes are a function of its profile and its release    *)
(* root).  A tree is the set of its components and the set of those whose  *)
(* bytes were altered.                                                     *)
(***************************************************************************)
EXTENDS Naturals, FiniteSets

CONSTANTS
  Releases,     \* release versions
  Addins,       \* add-in manifest paths (one per Revit year and profile)
  Aux,          \* desktop launcher and shortcut paths
  Year,         \* Year[a]: the Revit year of the add-in path a
  Selections,   \* Selections[r]: the component sets a command may select of r
  Admitted,     \* the releases that carry a SafeRead admission
  StatePath,    \* the path of state.json
  Absent,       \* no file at this path
  Foreign,      \* the contents of a control that no release of this product has
  NoTree,       \* no directory at this release root
  NoJournal,    \* no activation journal
  NoSwap,       \* the transaction moves no release tree
  NoCas,        \* no compare-and-swap is under way
  MaxCommands, MaxFaults, MaxThirdParty  \* bounds of the instance

Controls == Addins \cup Aux
Paths == Controls \cup {StatePath}

(* Trees, and the state.json that LoadStateSnapshot accepts.  The list of  *)
(* successful releases repeats none and grows at its end only, so it is    *)
(* the function that gives each release the stamp of the command that last *)
(* appended it (0: not in the list).                                       *)
Trees == [parts : SUBSET Controls, bad : SUBSET Controls]
Slot == Trees \cup {NoTree}
InstalledState == [current : Releases, successful : [Releases -> Nat],
                   owned : [Addins -> Releases \cup {Absent}], stamp : Nat]
Contents == Releases \cup {Absent} \cup Foreign \cup InstalledState

(* A directory swap, a journal of the paths in dom, a compare-and-swap.    *)
Swaps == [release : Releases, before : Slot, after : Trees]
Journals(dom) ==
  [before : [dom -> Contents], after : [dom -> Contents], commit : BOOLEAN,
   swap : Swaps \cup {NoSwap}, admission : Releases \cup {Absent}]
CasRecords == [path : Paths, expect : Contents, new : Contents,
               step : {"swap", "verify", "putback"}, side : Contents]

ASSUME ConstantsAssumption ==
  /\ Addins \cap Aux = {} /\ StatePath \notin Controls
  /\ Selections \in [Releases -> SUBSET ((SUBSET Controls) \ {{}})]
  /\ Admitted \subseteq Releases
  /\ MaxCommands \in Nat /\ MaxFaults \in Nat /\ MaxThirdParty \in Nat

(* EnsureCompleteActivationSelection: a selection of a release takes all   *)
(* its profiles of a year, or none.  (Admission needs manifest schema 3,   *)
(* where this is enforced.)                                                *)
CompleteSelection(r) ==
  \A s, t \in Selections[r] : \A a \in s \cap Addins, b \in t \cap Addins :
    Year[a] = Year[b] => a \in t
ASSUME SelectionAssumption == \A r \in Admitted : CompleteSelection(r)

(* The markers are none of the values they stand beside. *)
ASSUME MarkersAssumption ==
  /\ Absent \notin Releases \cup Foreign \cup InstalledState
  /\ Foreign \cap Releases = {}
  /\ NoTree \notin Trees /\ NoSwap \notin Swaps /\ NoCas \notin CasRecords
  /\ \A dom \in SUBSET Paths : NoJournal \notin Journals(dom)

VARIABLES
  \* on disk
  file,         \* file[p]: contents of a control, or of state.json
  tree,         \* tree[r]: the release tree at its final root
  staging, displaced, failed,  \* the other three roots of the latest swap
  journal,      \* activation-journal.v1.json
  quarantine,   \* the quarantined journal and why, or NoJournal
  sideFiles,    \* <<path, contents>> of each .displaced-* and .removed-* file kept
  \* the OperatorDeploy process that holds the deployment mutex
  pc, phase, op, todo, cas,
  seen,         \* the displaced tree as recovery fingerprinted it
  disabled, previousExact, clean, \* locals of RecoverRejectedAdmissionControls
  \* environment
  revit,        \* Revit is running
  unreadable,   \* an I/O error hid the journal or a candidate tree from recovery
  commands, faults, thirdParty \* how many have happened

disk == <<file, tree, staging, displaced, failed, journal, quarantine, sideFiles>>
proc == <<pc, phase, op, todo, cas, seen, disabled, previousExact, clean>>
env  == <<revit, unreadable, commands, faults, thirdParty>>
vars == <<disk, proc, env>>
roots == <<tree, staging, displaced, failed>>

-----------------------------------------------------------------------------
(* Values. *)

NoOp == [kind |-> "status", release |-> Absent, sel |-> {}]
Exact(parts) == [parts |-> parts, bad |-> {}]

(* LoadStateSnapshot and ResolveCurrentOwnership: what the state owns. *)
Owned == IF file[StatePath] = Absent THEN [a \in Addins |-> Absent]
                                     ELSE file[StatePath].owned
OwnershipResolves ==
  file[StatePath] # Absent =>
    LET cur == file[StatePath].current
    IN  tree[cur] # NoTree /\ \A a \in tree[cur].parts \cap Addins : Owned[a] = cur

(* PlanActivation: the owned manifests of the affected years that the      *)
(* selection no longer has, and the refusal to touch what is not owned.    *)
Obsolete(sel) ==
  {a \in Addins \ sel : /\ Owned[a] # Absent
                        /\ \E t \in sel \cap Addins : Year[t] = Year[a]}
PlanActivation(sel) ==
  /\ OwnershipResolves
  /\ \A a \in Obsolete(sel) : file[a] = Owned[a]
  /\ \A a \in sel \cap Addins : file[a] \in {Absent, Owned[a]}

(* BeginActivationJournal: before and after images of exactly the controls *)
(* of the transaction, state.json among them, with its after image still   *)
(* the present one.                                                        *)
JournalOf(r, sel, swap) ==
  LET dom == sel \cup Obsolete(sel) \cup {StatePath}
  IN  [before |-> [p \in dom |-> file[p]],
       after  |-> [p \in dom |-> IF p = StatePath THEN file[p]
                                 ELSE IF p \in sel THEN r ELSE Absent],
       commit |-> FALSE,
       swap |-> swap,
       admission |-> IF r \in Admitted THEN r ELSE Absent]

Journaled == DOMAIN journal.before
MatchesBefore(p) == file[p] = journal.before[p]
MatchesAfter(p) == file[p] = journal.after[p]
JournaledControls == Journaled \ {StatePath}

-----------------------------------------------------------------------------
(* Control flow of the process. *)

Forward == {"begin", "displace", "place", "assert", "activate", "validate",
            "mark", "commit"}
Recovering == {"rootcheck", "rootclear", "rootrestore", "rootstaging", "foreigncheck",
               "restore"}
Rejecting == {"disable", "reinstate", "disablestate", "reinstatestate"}
Pcs == {"idle", "recover", "plan", "retire", "quarantine"}
         \cup Forward \cup Recovering \cup Rejecting

(* The process returns or dies: its locals are gone. *)
Exit ==
  /\ pc' = "idle" /\ phase' = "start" /\ op' = NoOp /\ todo' = {} /\ cas' = NoCas
  /\ seen' = NoTree /\ disabled' = {} /\ previousExact' = FALSE /\ clean' = TRUE

Goto(next, left) ==
  /\ pc' = next /\ todo' = left
  /\ UNCHANGED <<phase, op, cas, seen, disabled, previousExact, clean>>

(* The catch block of InstallOrUpdate and Rollback recovers in the same    *)
(* process; an exception inside a recovery ends the command and leaves the *)
(* journal pending; one inside RecoverRejectedAdmissionControls is         *)
(* collected and the loop goes on with the next control.                   *)
Throw(p) ==
  \/ /\ pc \in Forward \/ (pc = "retire" /\ phase = "run")
     /\ pc' = "recover" /\ phase' = "unwind" /\ todo' = {} /\ cas' = NoCas
     /\ UNCHANGED <<op, seen, disabled, previousExact, clean>>
  \/ /\ pc \in Recovering \cup {"plan"} \/ (pc = "retire" /\ phase # "run")
     /\ Exit
  \/ /\ pc \in Rejecting
     /\ pc' = (IF pc \in {"disablestate", "reinstatestate"} THEN "quarantine" ELSE pc)
     /\ todo' = todo \ {p} /\ cas' = NoCas /\ clean' = FALSE
     /\ UNCHANGED <<phase, op, seen, disabled, previousExact>>

(* Where a command goes once no journal is pending. *)
AfterRecovery ==
  \/ /\ phase = "start" /\ op.kind # "status"
     /\ pc' = "plan" /\ phase' = "run" /\ todo' = {} /\ cas' = NoCas
     /\ seen' = NoTree /\ disabled' = {} /\ previousExact' = FALSE /\ clean' = TRUE
     /\ UNCHANGED op
  \/ /\ phase # "start" \/ op.kind = "status"
     /\ Exit

-----------------------------------------------------------------------------
(* CasWrite and CasDelete: check the fingerprint, swap, verify what was    *)
(* displaced, and put it back when it is not what was checked.  Only the   *)
(* single file-system calls are atomic.                                    *)

CasStart(p, expect, new) ==
  \/ /\ file[p] = expect
     /\ cas' = [path |-> p, expect |-> expect, new |-> new, step |-> "swap", side |-> Absent]
     /\ UNCHANGED <<pc, phase, op, todo, seen, disabled, previousExact, clean>>
  \/ /\ file[p] # expect
     /\ Throw(p)

CasReturn ==
  /\ todo' = todo \ {cas.path} /\ cas' = NoCas
  /\ disabled' = IF pc \in {"disable", "disablestate"} THEN disabled \cup {cas.path} ELSE disabled
  /\ UNCHANGED <<pc, phase, op, seen, previousExact, clean>>

(* File.Move without overwrite when nothing was expected; otherwise        *)
(* File.Replace or File.Move, which need the path to exist and take        *)
(* whatever is there now into the side file.                               *)
CasSwap ==
  /\ cas # NoCas /\ cas.step = "swap"
  /\ \/ /\ cas.expect = Absent /\ file[cas.path] = Absent
        /\ file' = [file EXCEPT ![cas.path] = cas.new]
        /\ CasReturn
     \/ /\ cas.expect # Absent /\ file[cas.path] # Absent
        /\ file' = [file EXCEPT ![cas.path] = cas.new]
        /\ cas' = [cas EXCEPT !.step = "verify", !.side = file[cas.path]]
        /\ UNCHANGED <<pc, phase, op, todo, seen, disabled, previousExact, clean>>
     \/ /\ (cas.expect = Absent) # (file[cas.path] = Absent)
        /\ Throw(cas.path) /\ UNCHANGED file
  /\ UNCHANGED <<roots, journal, quarantine, sideFiles, env>>

(* What is in the side file of the compare-and-swap under way.             *)
InSideFile ==
  IF cas # NoCas /\ cas.step # "swap" THEN {<<cas.path, cas.side>>} ELSE {}

(* Mutant: what was displaced is not compared with what was expected. *)
CasVerifyMutant ==
  /\ cas # NoCas /\ cas.step = "verify"
  /\ CasReturn
  /\ UNCHANGED <<file, roots, journal, quarantine, sideFiles, env>>

CasVerify ==
  /\ cas # NoCas /\ cas.step = "verify"
  /\ \/ /\ cas.side = cas.expect
        /\ CasReturn /\ UNCHANGED sideFiles
     \/ /\ cas.side # cas.expect /\ file[cas.path] = cas.new
        /\ cas' = [cas EXCEPT !.step = "putback"]
        /\ UNCHANGED <<pc, phase, op, todo, seen, disabled, previousExact, clean, sideFiles>>
     \/ /\ cas.side # cas.expect /\ file[cas.path] # cas.new
        /\ sideFiles' = sideFiles \cup InSideFile
        /\ Throw(cas.path)
  /\ UNCHANGED <<file, roots, journal, quarantine, env>>

(* File.Replace without a backup needs the path to exist, and what is      *)
(* there by now is gone, whatever it is; File.Move without overwrite needs *)
(* the path free.  When the call fails the side file stays.                *)
CasPutBack ==
  /\ cas # NoCas /\ cas.step = "putback"
  /\ \/ /\ (cas.new = Absent) = (file[cas.path] = Absent)
        /\ file' = [file EXCEPT ![cas.path] = cas.side]
        /\ UNCHANGED sideFiles
     \/ /\ (cas.new = Absent) # (file[cas.path] = Absent)
        /\ sideFiles' = sideFiles \cup InSideFile
        /\ UNCHANGED file
  /\ Throw(cas.path)
  /\ UNCHANGED <<roots, journal, quarantine, env>>

-----------------------------------------------------------------------------
(* A command: Execute, then the forward path of InstallOrUpdate/Rollback.  *)

Commands ==
  [kind : {"install", "repair"}, release : Releases, sel : SUBSET Controls]
    \cup {[kind |-> k, release |-> Absent, sel |-> {}] : k \in {"rollback", "status"}}

(* Every command first recovers; only those that may write are counted.    *)
Execute(o) ==
  /\ pc = "idle"
  /\ o.kind \in {"install", "repair"} => o.sel \in Selections[o.release]
  /\ IF o.kind = "status" THEN UNCHANGED commands
     ELSE commands < MaxCommands /\ commands' = commands + 1
  /\ op' = o /\ pc' = "recover"
  /\ UNCHANGED <<disk, phase, todo, cas, seen, disabled, previousExact, clean,
                 revit, unreadable, faults, thirdParty>>

(* Revit must be closed; the payload is staged beside the release root.    *)
PlanInstall ==
  /\ pc = "plan" /\ op.kind \in {"install", "repair"}
  /\ \/ /\ ~revit /\ PlanActivation(op.sel)
        /\ staging' = Exact(op.sel) /\ displaced' = NoTree /\ failed' = NoTree
        /\ Goto("begin", {})
     \/ /\ revit \/ ~PlanActivation(op.sel)
        /\ Exit /\ UNCHANGED <<staging, displaced, failed>>
  /\ UNCHANGED <<file, tree, journal, quarantine, sideFiles, env>>

(* The last successful release other than the current one, if its tree     *)
(* still verifies.                                                         *)
RollbackTargets ==
  IF file[StatePath] = Absent THEN {}
  ELSE LET s == file[StatePath]
           others == {r \in Releases \ {s.current} : s.successful[r] > 0}
       IN  {r \in others : \A q \in others : s.successful[q] <= s.successful[r]}

PlanRollback ==
  /\ pc = "plan" /\ op.kind = "rollback"
  /\ \/ /\ ~revit
        /\ \E r \in RollbackTargets :
             /\ tree[r] # NoTree /\ tree[r].bad = {} /\ PlanActivation(tree[r].parts)
             /\ op' = [op EXCEPT !.release = r, !.sel = tree[r].parts]
        /\ pc' = "begin"
        /\ UNCHANGED <<phase, todo, cas, seen, disabled, previousExact, clean>>
     \/ /\ \/ revit
           \/ \A r \in RollbackTargets :
                \/ tree[r] = NoTree \/ tree[r].bad # {}
                \/ ~PlanActivation(tree[r].parts)
        /\ Exit
  /\ UNCHANGED <<disk, env>>

(* What InstallOrUpdate does with the tree that is already at the final    *)
(* root: nothing there, refresh the activation only, replace it (keeping   *)
(* the components that are not selected), or refuse.                       *)
Preserved(r) == IF tree[r] = NoTree THEN {} ELSE tree[r].parts \ op.sel
Verifies(r) == tree[r] # NoTree /\ op.sel \subseteq tree[r].parts \ tree[r].bad
Refreshes(r) == op.kind = "rollback" \/ (op.kind = "install" /\ Verifies(r))
Refused(r) ==
  /\ tree[r] # NoTree
  /\ \/ Preserved(r) \cap tree[r].bad # {}
     \/ op.kind = "install" /\ ~Verifies(r) /\ op.sel \subseteq tree[r].parts

BeginActivationJournal ==
  LET r == op.release
      after == Exact(op.sel \cup Preserved(r))
      swap == [release |-> r, before |-> tree[r], after |-> after]
      refresh == Refreshes(r)
  IN
  /\ pc = "begin"
  /\ \/ /\ op.kind # "rollback" => ~Refused(r)
        /\ PlanActivation(op.sel)
        /\ journal' = JournalOf(r, op.sel, IF refresh THEN NoSwap ELSE swap)
        /\ staging' = IF refresh THEN NoTree ELSE after
        /\ IF refresh THEN Goto("activate", op.sel \cup Obsolete(op.sel))
                      ELSE Goto("displace", {})
     \/ /\ (op.kind # "rollback" /\ Refused(r)) \/ ~PlanActivation(op.sel)
        /\ Throw(StatePath) /\ UNCHANGED <<journal, staging>>
  /\ UNCHANGED <<file, tree, displaced, failed, quarantine, sideFiles, env>>

DisplaceRoot ==
  /\ pc = "displace"
  /\ displaced' = tree[op.release]
  /\ tree' = [tree EXCEPT ![op.release] = NoTree]
  /\ Goto("place", {})
  /\ UNCHANGED <<file, staging, failed, journal, quarantine, sideFiles, env>>

PlaceRoot ==
  /\ pc = "place"
  /\ tree' = [tree EXCEPT ![op.release] = staging]
  /\ staging' = NoTree
  /\ Goto("assert", {})
  /\ UNCHANGED <<file, displaced, failed, journal, quarantine, sideFiles, env>>

AssertReleaseRootMatches ==
  /\ pc = "assert"
  /\ \/ /\ tree[op.release] = journal.swap.after
        /\ Goto("activate", JournaledControls)
     \/ /\ tree[op.release] # journal.swap.after
        /\ Throw(StatePath)
  /\ UNCHANGED <<disk, env>>

(* ActivateRelease: targets, then obsolete manifests, then launchers. *)
Rank(p) == IF p \in Aux THEN 2 ELSE IF journal.after[p] = Absent THEN 1 ELSE 0
ActivateControl(p) ==
  /\ pc = "activate" /\ cas = NoCas /\ p \in todo
  /\ \A q \in todo : Rank(p) <= Rank(q)
  /\ CasStart(p, journal.before[p], journal.after[p])
  /\ UNCHANGED <<disk, env>>

(* ValidateActivatedRelease: the tree verifies, every control of it and    *)
(* every manifest the new state will own is live and exact, and every      *)
(* obsolete one is gone.                                                   *)
NewOwned == [a \in Addins |-> IF a \in Journaled THEN journal.after[a] ELSE Owned[a]]
ActivatedReleaseValid ==
  /\ tree[op.release] # NoTree /\ tree[op.release].bad = {}
  /\ \A c \in tree[op.release].parts : file[c] = op.release
  /\ \A a \in Addins : NewOwned[a] # Absent => file[a] = NewOwned[a]
  /\ \A a \in Addins \cap Journaled : journal.after[a] = Absent => file[a] = Absent
ValidateActivatedRelease ==
  /\ pc = "validate"
  /\ \/ ActivatedReleaseValid /\ Goto("mark", {})
     \/ ~ActivatedReleaseValid /\ Throw(StatePath)
  /\ UNCHANGED <<disk, env>>

(* SaveSuccessfulState / Rollback, then SaveState: the journal learns the  *)
(* after image of the state and becomes a commit record, then the state is *)
(* written, then the journal is retired.  Every state has its own time     *)
(* stamp.                                                                  *)
NewState ==
  LET old == IF file[StatePath] = Absent THEN [r \in Releases |-> 0]
             ELSE file[StatePath].successful
  IN  [current |-> op.release,
       successful |-> IF op.kind = "rollback" THEN old
                     ELSE [old EXCEPT ![op.release] = commands],
       owned |-> NewOwned,
       stamp |-> commands]
MarkCommit ==
  /\ pc = "mark"
  /\ journal' = [journal EXCEPT !.commit = TRUE, !.after[StatePath] = NewState]
  /\ Goto("commit", {StatePath})
  /\ UNCHANGED <<file, roots, quarantine, sideFiles, env>>

CommitState ==
  /\ pc = "commit" /\ cas = NoCas /\ StatePath \in todo
  /\ CasStart(StatePath, journal.before[StatePath], journal.after[StatePath])
  /\ UNCHANGED <<disk, env>>

(* RetireActivationJournal. *)
Retire ==
  /\ pc = "retire"
  /\ journal' = NoJournal
  /\ AfterRecovery
  /\ UNCHANGED <<file, roots, quarantine, sideFiles, env>>

-----------------------------------------------------------------------------
(* RecoverPendingActivationJournal. *)

Quarantine(why) ==
  /\ quarantine' = [journal |-> journal, reason |-> why, clean |-> clean]
  /\ journal' = NoJournal
  /\ Exit

(* VerifyJournalAdmissionCandidates: some root still holds the replacement *)
(* tree exactly; without a swap, an admitted release must still verify.    *)
CandidatesVerify ==
  IF journal.swap # NoSwap
  THEN journal.swap.after \in {tree[journal.swap.release], staging, failed}
  ELSE journal.admission # Absent =>
         tree[journal.admission] # NoTree /\ tree[journal.admission].bad = {}

(* Mutants: the commit mark alone decides; a refresh is never committed. *)
CommittedByMark == journal.commit
CommittedSwapsOnly ==
  /\ journal.commit /\ journal.swap # NoSwap
  /\ \A p \in Journaled : MatchesAfter(p)
  /\ tree[journal.swap.release] = journal.swap.after
Committed ==
  /\ journal.commit
  /\ \A p \in Journaled : MatchesAfter(p)
  /\ journal.swap # NoSwap => tree[journal.swap.release] = journal.swap.after

(* RejectedAdmissionPreviousRootStillExact *)
PreviousRootStillExact ==
  /\ journal.swap # NoSwap
  /\ journal.swap.before # NoTree
  /\ tree[journal.swap.release] = journal.swap.before

RejectAdmission ==
  /\ pc' = "disable" /\ todo' = JournaledControls
  /\ previousExact' = PreviousRootStillExact
  /\ UNCHANGED <<phase, op, cas, seen, disabled, clean>>

(* A quarantined journal or a running Revit ends the command.  Nothing     *)
(* pending: the command proceeds, and a catch block that never had a       *)
(* journal deletes its staging directory.                                  *)
RecoverBegin ==
  /\ pc = "recover"
  /\ \/ /\ quarantine # NoJournal \/ (journal # NoJournal /\ revit)
        /\ Exit /\ UNCHANGED staging
     \/ /\ quarantine = NoJournal /\ journal = NoJournal
        /\ staging' = IF phase = "unwind" THEN NoTree ELSE staging
        /\ AfterRecovery
     \/ /\ quarantine = NoJournal /\ journal # NoJournal /\ ~revit
        /\ UNCHANGED staging
        /\ \/ /\ ~CandidatesVerify
              /\ RejectAdmission
           \/ /\ CandidatesVerify /\ Committed /\ Goto("retire", {})
           \/ /\ CandidatesVerify /\ ~Committed /\ journal.swap # NoSwap
              /\ pc' = "rootcheck"
              /\ UNCHANGED <<phase, op, todo, cas, seen, disabled, previousExact, clean>>
           \/ /\ CandidatesVerify /\ ~Committed /\ journal.swap = NoSwap
              /\ Goto("foreigncheck", {})
  /\ UNCHANGED <<file, tree, displaced, failed, journal, quarantine, sideFiles, env>>

(* Any exception while the journal is read counts as an invalid journal,   *)
(* and any exception while a candidate tree is read as a rejected one.     *)
RecoverReadFault ==
  /\ pc = "recover" /\ quarantine = NoJournal /\ journal # NoJournal /\ ~revit
  /\ faults < MaxFaults /\ faults' = faults + 1 /\ unreadable' = TRUE
  /\ \/ Quarantine("invalid")
     \/ RejectAdmission /\ UNCHANGED <<journal, quarantine>>
  /\ UNCHANGED <<file, roots, sideFiles, revit, commands, thirdParty>>

(* RecoverReleaseRootSwap fingerprints the four roots once, then moves at  *)
(* most three directories.                                                 *)
SlotsRecognizedMutant ==  \* forgets that neither tree may be in place
  LET s == journal.swap
  IN  /\ tree[s.release] \in {s.before, s.after}
      /\ staging \in {NoTree, s.after}
      /\ displaced \in {NoTree, s.before}
      /\ failed \in {NoTree, s.after}
SlotsRecognized ==
  LET s == journal.swap
  IN  /\ tree[s.release] \in {NoTree, s.before, s.after}
      /\ staging \in {NoTree, s.after}
      /\ displaced \in {NoTree, s.before}
      /\ failed \in {NoTree, s.after}

RecoverRootCheck ==
  /\ pc = "rootcheck"
  /\ \/ /\ SlotsRecognized
        /\ seen' = displaced /\ pc' = "rootclear"
        /\ UNCHANGED <<phase, op, todo, cas, disabled, previousExact, clean,
                       journal, quarantine>>
     \/ ~SlotsRecognized /\ Quarantine("roots")
  /\ UNCHANGED <<file, roots, sideFiles, env>>

(* The replacement tree leaves the final root. *)
RecoverRootClear ==
  LET s == journal.swap
      moves == tree[s.release] \notin {NoTree, s.before}
  IN
  /\ pc = "rootclear"
  /\ \/ /\ ~moves
        /\ Goto("rootrestore", {}) /\ UNCHANGED <<tree, failed, journal, quarantine>>
     \/ /\ moves /\ failed # NoTree
        /\ Quarantine("roots") /\ UNCHANGED <<tree, failed>>
     \/ /\ moves /\ failed = NoTree
        /\ failed' = tree[s.release] /\ tree' = [tree EXCEPT ![s.release] = NoTree]
        /\ Goto("rootrestore", {}) /\ UNCHANGED <<journal, quarantine>>
  /\ UNCHANGED <<file, staging, displaced, sideFiles, env>>

(* The previous tree comes back to the final root and is fingerprinted     *)
(* again.                                                                  *)
RecoverRootRestore ==
  LET s == journal.swap
      needed == s.before # NoTree /\ tree[s.release] # s.before
  IN
  /\ pc = "rootrestore"
  /\ \/ /\ ~needed
        /\ Goto("rootstaging", {}) /\ UNCHANGED <<tree, displaced, journal, quarantine>>
     \/ /\ needed /\ (seen # s.before \/ tree[s.release] # NoTree)
        /\ Quarantine("roots") /\ UNCHANGED <<tree, displaced>>
     \/ /\ needed /\ seen = s.before /\ tree[s.release] = NoTree
        /\ tree' = [tree EXCEPT ![s.release] = displaced] /\ displaced' = NoTree
        /\ \/ displaced = s.before /\ Goto("rootstaging", {})
           \/ displaced # s.before /\ Throw(StatePath)
        /\ UNCHANGED <<journal, quarantine>>
  /\ UNCHANGED <<file, staging, failed, sideFiles, env>>

(* A replacement tree that was never placed is set aside as well. *)
RecoverRootStaging ==
  /\ pc = "rootstaging"
  /\ \/ /\ staging = NoTree
        /\ Goto("foreigncheck", {}) /\ UNCHANGED <<staging, failed, journal, quarantine>>
     \/ /\ staging # NoTree /\ failed # NoTree
        /\ Quarantine("roots") /\ UNCHANGED <<staging, failed>>
     \/ /\ staging # NoTree /\ failed = NoTree
        /\ failed' = staging /\ staging' = NoTree
        /\ Goto("foreigncheck", {}) /\ UNCHANGED <<journal, quarantine>>
  /\ UNCHANGED <<file, tree, displaced, sideFiles, env>>

(* Only now are the controls compared with their two images. *)
(* Mutant: the controls are not compared. *)
ThirdPartyImageMutant == FALSE
ThirdPartyImage == \E p \in Journaled : ~MatchesBefore(p) /\ ~MatchesAfter(p)
RecoverForeignCheck ==
  /\ pc = "foreigncheck"
  /\ \/ ThirdPartyImage /\ Quarantine("foreign")
     \/ /\ ~ThirdPartyImage
        /\ Goto("restore", Journaled) /\ UNCHANGED <<journal, quarantine>>
  /\ UNCHANGED <<file, roots, sideFiles, env>>

(* Before images come back, state.json last. *)
RestoreControl(p) ==
  /\ pc = "restore" /\ cas = NoCas /\ p \in todo
  /\ p = StatePath => todo = {StatePath}
  /\ \/ MatchesBefore(p) /\ Goto("restore", todo \ {p})
     \/ ~MatchesBefore(p) /\ CasStart(p, journal.after[p], journal.before[p])
  /\ UNCHANGED <<disk, env>>

-----------------------------------------------------------------------------
(* RecoverRejectedAdmissionControls: the candidate no longer verifies. The *)
(* trees stay where they are; after images are removed, then before images *)
(* come back unless they point into the rejected release.                  *)

(* Mutant: only the state is examined. *)
BeforeIsUnsafeMutant(p) ==
  /\ journal.admission # Absent /\ ~previousExact
  /\ p = StatePath /\ journal.before[p] # Absent
  /\ journal.before[p].current = journal.admission

BeforeIsUnsafe(p) ==
  /\ journal.admission # Absent /\ ~previousExact
  /\ \/ p \in Addins /\ journal.before[p] = journal.admission
     \/ /\ p = StatePath /\ journal.before[p] # Absent
        /\ journal.before[p].current = journal.admission

DisableControl(p) ==
  /\ pc \in {"disable", "disablestate"} /\ cas = NoCas /\ p \in todo
  /\ \/ /\ journal.after[p] # Absent /\ MatchesAfter(p)
        /\ CasStart(p, journal.after[p], Absent)
     \/ /\ journal.after[p] = Absent \/ ~MatchesAfter(p)
        /\ \/ /\ p = StatePath /\ BeforeIsUnsafe(p) /\ MatchesBefore(p)
              /\ CasStart(p, journal.before[p], Absent)
           \/ /\ ~(p = StatePath /\ BeforeIsUnsafe(p) /\ MatchesBefore(p))
              /\ Goto(pc, todo \ {p})
  /\ UNCHANGED <<disk, env>>

(* RestoreRejectedControlPreimage *)
ReinstateControl(p) ==
  LET wasDisabled == p \in disabled \/ (file[p] = Absent /\ MatchesAfter(p))
  IN
  /\ pc \in {"reinstate", "reinstatestate"} /\ cas = NoCas /\ p \in todo
  /\ \/ /\ BeforeIsUnsafe(p) \/ MatchesBefore(p)
              \/ (~wasDisabled /\ ~MatchesAfter(p))
              \/ (journal.before[p] = Absent /\ ~MatchesAfter(p))
        /\ Goto(pc, todo \ {p})
     \/ /\ ~BeforeIsUnsafe(p) /\ ~MatchesBefore(p)
        /\ journal.before[p] # Absent /\ wasDisabled
        /\ CasStart(p, Absent, journal.before[p])
     \/ /\ ~BeforeIsUnsafe(p) /\ ~MatchesBefore(p) /\ MatchesAfter(p)
        /\ journal.before[p] = Absent \/ ~wasDisabled
        /\ CasStart(p, journal.after[p], journal.before[p])
  /\ UNCHANGED <<disk, env>>

QuarantineRejected ==
  /\ pc = "quarantine"
  /\ Quarantine("rejected")
  /\ UNCHANGED <<file, roots, sideFiles, env>>

(* A loop over controls is through. *)
(* Mutant: the state is committed before the controls are activated. *)
LoopEndMutant ==
  /\ cas = NoCas
  /\ \/ pc = "activate" /\ Goto("mark", {})
     \/ pc \in {"commit", "restore"} /\ todo = {} /\ Goto("retire", {})
  /\ UNCHANGED <<disk, env>>

LoopEnd ==
  /\ todo = {} /\ cas = NoCas
  /\ \/ pc = "activate" /\ Goto("validate", {})
     \/ pc \in {"commit", "restore"} /\ Goto("retire", {})
     \/ pc = "disable" /\ Goto("reinstate", JournaledControls)
     \/ pc = "reinstate" /\ Goto("disablestate", {StatePath})
     \/ pc = "disablestate" /\ Goto("reinstatestate", {StatePath})
     \/ pc = "reinstatestate" /\ Goto("quarantine", {})
  /\ UNCHANGED <<disk, env>>

-----------------------------------------------------------------------------
(* Faults and the rest of the workstation. *)

(* The process dies; side files it had not cleaned up stay. *)
Crash ==
  /\ pc # "idle" /\ faults < MaxFaults
  /\ faults' = faults + 1
  /\ sideFiles' = sideFiles \cup InSideFile
  /\ Exit
  /\ UNCHANGED <<file, roots, journal, quarantine, revit, unreadable,
                 commands, thirdParty>>

(* An I/O call fails before it has an effect. *)
IOFault ==
  /\ faults < MaxFaults
  /\ \/ pc \in (Forward \cup Recovering \cup {"retire"}) /\ cas = NoCas
     \/ cas # NoCas /\ cas.step = "swap"
  /\ faults' = faults + 1
  /\ Throw(IF cas = NoCas THEN StatePath ELSE cas.path)
  /\ UNCHANGED <<disk, revit, unreadable, commands, thirdParty>>

(* An I/O call on the side file fails.  An exception while it is read back *)
(* (or the path is read again) leaves through the finally block, which     *)
(* deletes it; one inside the put-back keeps it.                           *)
SideFileFault ==
  /\ cas # NoCas /\ cas.step \in {"verify", "putback"}
  /\ faults < MaxFaults /\ faults' = faults + 1
  /\ sideFiles' = IF cas.step = "putback" THEN sideFiles \cup InSideFile ELSE sideFiles
  /\ Throw(cas.path)
  /\ UNCHANGED <<file, roots, journal, quarantine, revit, unreadable, commands, thirdParty>>

(* Somebody else writes or deletes a control. *)
EditControl(c, v) ==
  /\ thirdParty < MaxThirdParty /\ file[c] # v
  /\ file' = [file EXCEPT ![c] = v]
  /\ thirdParty' = thirdParty + 1
  /\ UNCHANGED <<roots, journal, quarantine, sideFiles, proc, revit, unreadable,
                 commands, faults>>

(* Somebody else alters a component of a release tree, wherever it is. *)
Altered(t) == {[t EXCEPT !.bad = @ \cup {c}] : c \in t.parts \ t.bad}
AlterTree ==
  /\ thirdParty < MaxThirdParty
  /\ \/ /\ \E r \in Releases : /\ tree[r] # NoTree
                               /\ \E t \in Altered(tree[r]) : tree' = [tree EXCEPT ![r] = t]
        /\ UNCHANGED <<staging, displaced, failed>>
     \/ staging # NoTree /\ staging' \in Altered(staging) /\ UNCHANGED <<tree, displaced, failed>>
     \/ displaced # NoTree /\ displaced' \in Altered(displaced) /\ UNCHANGED <<tree, staging, failed>>
     \/ failed # NoTree /\ failed' \in Altered(failed) /\ UNCHANGED <<tree, staging, displaced>>
  /\ thirdParty' = thirdParty + 1
  /\ UNCHANGED <<file, journal, quarantine, sideFiles, proc, revit, unreadable,
                 commands, faults>>

RevitStartsOrExits ==
  /\ revit' = ~revit
  /\ UNCHANGED <<disk, proc, unreadable, commands, faults, thirdParty>>

-----------------------------------------------------------------------------
Init ==
  /\ file = [p \in Paths |-> Absent]
  /\ tree = [r \in Releases |-> NoTree]
  /\ staging = NoTree /\ displaced = NoTree /\ failed = NoTree
  /\ journal = NoJournal /\ quarantine = NoJournal /\ sideFiles = {}
  /\ pc = "idle" /\ phase = "start" /\ op = NoOp /\ todo = {} /\ cas = NoCas
  /\ seen = NoTree /\ disabled = {} /\ previousExact = FALSE /\ clean = TRUE
  /\ revit = FALSE /\ unreadable = FALSE
  /\ commands = 0 /\ faults = 0 /\ thirdParty = 0

(* One step of the running OperatorDeploy process. *)
ProcessStep ==
  \/ PlanInstall \/ PlanRollback \/ BeginActivationJournal
  \/ DisplaceRoot \/ PlaceRoot \/ AssertReleaseRootMatches
  \/ ValidateActivatedRelease \/ MarkCommit \/ CommitState \/ Retire
  \/ RecoverBegin \/ RecoverRootCheck \/ RecoverRootClear \/ RecoverRootRestore
  \/ RecoverRootStaging \/ RecoverForeignCheck \/ QuarantineRejected
  \/ \E p \in Paths : \/ ActivateControl(p) \/ RestoreControl(p)
                      \/ DisableControl(p) \/ ReinstateControl(p)
  \/ LoopEnd \/ CasSwap \/ CasVerify \/ CasPutBack

Next ==
  \/ \E o \in Commands : Execute(o)
  \/ ProcessStep
  \/ Crash \/ IOFault \/ SideFileFault \/ RecoverReadFault
  \/ \E c \in Controls, v \in Foreign \cup {Absent} : EditControl(c, v)
  \/ AlterTree
  \/ RevitStartsOrExits

Spec == Init /\ [][Next]_vars

(* A running process takes its next step, and some command is run again    *)
(* after an interrupted one.                                               *)
Fairness == WF_vars(ProcessStep) /\ WF_vars(Execute(NoOp))
FairSpec == Spec /\ Fairness

-----------------------------------------------------------------------------
(* Properties. *)

(* The type of every variable. *)
TypeOK ==
  /\ file \in [Paths -> Contents]
  /\ tree \in [Releases -> Slot]
  /\ staging \in Slot /\ displaced \in Slot /\ failed \in Slot
  /\ sideFiles \subseteq Paths \X Contents
  /\ journal = NoJournal \/ \E dom \in SUBSET Paths : journal \in Journals(dom)
  /\ pc \in Pcs /\ phase \in {"start", "run", "unwind"}
  /\ op \in [kind : {"install", "repair", "rollback", "status"},
             release : Releases \cup {Absent}, sel : SUBSET Controls]
  /\ todo \subseteq Paths /\ disabled \subseteq Paths
  /\ cas \in CasRecords \cup {NoCas}
  /\ seen \in Slot /\ previousExact \in BOOLEAN /\ clean \in BOOLEAN
  /\ revit \in BOOLEAN /\ unreadable \in BOOLEAN
  /\ commands \in 0..MaxCommands /\ faults \in 0..MaxFaults
  /\ thirdParty \in 0..MaxThirdParty

Undisturbed == thirdParty = 0 /\ ~unreadable

(* Whatever was interrupted, once no journal is pending the workstation    *)
(* runs one activation as a whole: every add-in manifest is the one that   *)
(* state.json owns (or absent), and its release tree holds that component  *)
(* unaltered.  (State is committed last and recovery restores it last.)    *)
Coherent ==
  Undisturbed /\ journal = NoJournal =>
    \A a \in Addins :
      /\ file[a] = Owned[a]
      /\ Owned[a] # Absent => /\ tree[Owned[a]] # NoTree
                              /\ a \in tree[Owned[a]].parts \ tree[Owned[a]].bad

(* Crashes and failed calls at any point, recovery included, never make    *)
(* recovery take its own half-done work for a foreign change.              *)
NoFalseQuarantine == quarantine # NoJournal => ~Undisturbed

(* Contents v of the manifest path a are live, or kept in a side file.     *)
Survives(a, v) == file[a] = v \/ <<a, v>> \in sideFiles \cup InSideFile

(* Somebody else writes over v, or deletes it. *)
OverwrittenByOthers(a, v) == file[a] = v /\ file'[a] # v /\ thirdParty' = thirdParty + 1

(* CasWrite puts an earlier foreign manifest back over v, written between  *)
(* its second look at the path and File.Replace, which keeps no backup.    *)
ReplacedByPutBack(a, v) ==
  /\ cas # NoCas /\ cas.step = "putback" /\ cas.path = a /\ cas.new # Absent
  /\ file[a] = v /\ cas.side \in Foreign \ {v} /\ file'[a] = cas.side

(* v was displaced and an I/O error hides it from the comparison: its side *)
(* file is deleted.                                                        *)
LostReadingBack(a, v) ==
  /\ cas # NoCas /\ cas.step = "verify" /\ cas.path = a /\ cas.side = v
  /\ faults' = faults + 1 /\ cas' = NoCas

(* Contents that somebody else gave to a manifest are never destroyed by   *)
(* CasWrite and CasDelete: each stays live or in a side file of its path   *)
(* until its authors replace it, but for the two windows the code leaves:  *)
(* a second edit during the put-back of a first one, and an I/O error      *)
(* while the side file is read back.                                       *)
KeepsForeign ==
  \A a \in Addins, v \in Foreign :
    Survives(a, v) /\ ~Survives(a, v)' =>
      OverwrittenByOthers(a, v) \/ ReplacedByPutBack(a, v) \/ LostReadingBack(a, v)
ForeignPreserved == [][KeepsForeign]_vars

(* After a single disturbance the message "transaction-owned controls were *)
(* restored or disabled before quarantine" is true: no journaled manifest  *)
(* points into the rejected admitted release unless that root holds its    *)
(* previous tree.                                                          *)
RejectedNotLoaded ==
  quarantine # NoJournal /\ thirdParty + (IF unreadable THEN 1 ELSE 0) <= 1 =>
    LET j == quarantine.journal
    IN  quarantine.reason = "rejected" /\ quarantine.clean /\ j.admission # Absent =>
          \A a \in Addins \cap DOMAIN j.before :
            file[a] = j.admission =>
              j.swap # NoSwap /\ tree[j.admission] = j.swap.before

(* A committed state is never rolled back by recovery: the stamp of        *)
(* state.json only grows.                                                  *)
Stamp == IF file[StatePath] = Absent THEN 0 ELSE file[StatePath].stamp
CommitStands == [][Undisturbed' => Stamp' >= Stamp]_vars

(* What an observer sees while a transaction is pending: the before images *)
(* until state.json is written, the after images from then on.             *)
Written == journal # NoJournal /\ journal.commit /\ MatchesAfter(StatePath)
Live ==
  [a \in Addins |->
     IF journal # NoJournal /\ ~Written /\ a \in Journaled THEN journal.before[a]
     ELSE file[a]]
Held ==
  [r \in Releases |->
     LET t == IF /\ journal # NoJournal /\ ~Written
                 /\ journal.swap # NoSwap /\ journal.swap.release = r
              THEN journal.swap.before ELSE tree[r]
     IN  IF t = NoTree THEN {} ELSE t.parts \cap Addins]

Switch == INSTANCE ReleaseSwitch WITH live <- Live, held <- Held, disturbed <- ~Undisturbed

(* The directory moves, control swaps and state write of one command take  *)
(* effect together or not at all.                                          *)
SwitchesAtomically == Switch!Spec

(* Once Revit stays closed, a pending journal is retired or quarantined.   *)
PendingResolved == <>[]~revit => (journal # NoJournal ~> journal = NoJournal)
=============================================================================
