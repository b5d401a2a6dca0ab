SPECIFICATION SessionsSpec
CONSTANTS
  lead = lead
  peer = peer
  kidA = kidA
  kidB = kidB
  keyA = keyA
  keyB = keyB
  Parents = {lead, peer}
  Children = {kidA, kidB}
  ParentOf <- MCParentOf
  DispatchKeys = {keyA, keyB}
  JobOf <- MCJobOf
  AgentTypeOf <- MCAgentTypeOf
  NoSession = NoSession
  NoKey = NoKey
  Asked = {"remote_repo_write", "framework_maintenance"}
  GrantTtl <- MCGrantTtl
  StaleAge = 1
  MaxWrites = 2
  MaxLaunches = 0
  root = root
  child = child
  jobA = jobA
  jobB = jobB
  Sessions = {root, child}
  NoParent = NoParent
  Parent <- MCParent
  AgentTypes = {"coder"}
  Jobs = {jobA, jobB}
  Domains = {"domain"}
  None = None
  MapLimit = 2
  boss = boss
  coder = coder
  Workers = {boss, coder}
  NoWorker = NoWorker
  DagTasks = {"task"}
  NoTask = "none"
  Roles = {"Orchestrator", "Coder"}
  RoleOf <- MCRoleOf
  StartedFor <- MCStartedFor
  DagExempt = {"Orchestrator"}
  Dispatchers = {"Orchestrator"}
  Tracked = {"payload_complete", "dag_entry_verified", "task_log_written"}
  readerA = readerA
  readerB = readerB
  Readers = {readerA}
  ReaderRoles = {"coder"}
  ReaderRole <- MCReaderRole
  SkillFiles = {"skill"}
  Contents = {"text", "edited"}
  NoFile = "gone"
  Scopes = {"one", "two"}
  Callers = {boss}
  OtherTools = {"read", "edit"}
  SoftRejectionThreshold = 2
  MaxAtOnce = 2
  MaxUnread = 1
  topic = topic
  page = page
  copy = copy
  Scholars = {root, child}
  ScholarAgent <- MCScholarAgent
  Topics = {topic}
  Studies = {"task"}
  NoStudy = "none"
  Pages = {page, copy}
  Mandatory <- MCMandatory
  Names <- MCNames
  MaxStages = 1
CHECK_DEADLOCK FALSE
INVARIANTS
  SessionsTypeOK
  HeldByOwnChild
  OneUsableGrant
  BudgetHonoured
  DispatchItemsEarned
  StopsShort
  OpenMeansRead
  QuestionOpen
  LimitHolds
  AttestedWasRead
PROPERTIES
  LeaseIsExclusive
  BoundOnce
  NothingForgotten
