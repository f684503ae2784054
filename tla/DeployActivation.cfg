CONSTANTS
  r1 = r1  r2 = r2  a23 = a23  b23 = b23  a24 = a24  desk = desk
  Releases = {r1, r2}
  Addins = {a23, b23, a24}
  Aux = {desk}
  Year <- MCYear
  Selections <- MCSelections
  Admitted = {r1}
  StatePath = StatePath
  Absent = Absent  Foreign = {f1}  NoTree = NoTree
  NoJournal = NoJournal  NoSwap = NoSwap  NoCas = NoCas
  MaxCommands = 3
  MaxFaults = 1
  MaxThirdParty = 1
SPECIFICATION FairSpec
INVARIANTS NoFalseQuarantine Coherent RejectedNotLoaded
PROPERTIES ForeignPreserved CommitStands SwitchesAtomically PendingResolved
