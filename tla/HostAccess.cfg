\* One host per job's type, two tools of the baseline, one region, two faults.
CONSTANTS
  web = web  db = db  ssm = ssm  api = api  out = out
  sshEnv = sshEnv  ssmEnv = ssmEnv  apiEnv = apiEnv  badEnv = badEnv
  agent = agent  badAgent = badAgent  p1 = p1  p2 = p2  p3 = p3  p4 = p4
  shop = shop  eu = eu  os = os  disk = disk
  Jobs = {web, db, api, out, ssm, sshEnv, ssmEnv, apiEnv, badEnv}
  Task <- Tasks
  Via <- Types
  Hosts = {"host"}
  HostOf <- OneHost
  Regions = {eu}
  RegionOf <- OneRegion
  HealthURL = {web, db, api}
  Deadline = {web, db, api, out}
  Tools = {"info", "disk"}
  None = None
  MaxFaults = 2
  Enrollments = {agent, badAgent}
  Projects = {shop}
  ProjectOf <- OneProject
  BadURL = {badEnv, badAgent}
  Polls = {p1, p2, p3, p4}
  RunnerOf <- OneRunner
  Fields = {os, disk}
  Report <- Reports
  Groups <- Together
SPECIFICATION FairSpec
CHECK_DEADLOCK FALSE
INVARIANTS
  ReturnsAreTrue
  RowsAreWhole
  ReportsStand
PROPERTIES
  ImplementsRemediation
  AllEnds
