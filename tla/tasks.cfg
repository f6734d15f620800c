SPECIFICATION Spec
CONSTANTS
  boss = boss
  worker = worker
  office = office
  site = site
  Members = {boss, worker}
  Roles = {office, site}
  RoleOf <- MCRoleOf
  Managers = {boss}
  TaskIds = {1}
  Progress = {0, 50, 100}
  MaxVersion = 3
CHECK_DEADLOCK FALSE
INVARIANTS ProgressMatchesStatus CardsFiltersAndCountsAgree
 
