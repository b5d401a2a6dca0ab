SPECIFICATION FilesSpec
CONSTANTS
  gateTxn = gateTxn
  machineTxn = machineTxn
  Txns = {gateTxn, machineTxn}
  NoTxn = NoTxn
  StateFiles = {"gate", "machine"}
  MachineFile = "machine"
  FileOf <- MCFileOf
  MaxRetries = 1
  editor = editor
  editorB = editorB
  deleter = deleter
  restorer = restorer
  fileA = fileA
  Editors = {editor, editorB}
  Deleters = {deleter}
  Restorers = {restorer}
  BackupOf <- MCBackupOf
  Files = {fileA}
  On <- MCOn
  Nobody = Nobody
  openerA = openerA
  openerB = openerB
  Openers = {openerA, openerB}
  OldColumns <- MCOldColumns
  FirstVersion = 24
  LastVersion = 37
  MaxFaults = 1
  curatorA = curatorA
  curatorB = curatorB
  Curators = {curatorA, curatorB}
  Docs = {"doc"}
  NoTmp = NoTmp
  nightly = nightly
  byHand = byHand
  Archivers = {nightly, byHand}
  DagEntries = {"taskA", "taskB"}
  MaxVersion = 1
CHECK_DEADLOCK FALSE
INVARIANTS
  FilesTypeOK
  CommitIsAfterRename
  PreparedIsAccountedFor
  OneInside
  Restorable
  OpenRepairs
  RaceIsHarmless
  MovedNotLost
PROPERTIES
  AllOrNothing
  ReplacedIsBackedUp
  NeverOlder
  RetryMeetsItself
