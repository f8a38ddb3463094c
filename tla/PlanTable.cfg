\* Two groups, two plans, a week of two days.
CONSTANTS
  Groups = {1, 2}
  PlanIds = {1, 2}
  FmIds = {1, 2}
  DaysAWeek = 2
  MinutesADay = 4
  PlanDefs <- MCPlanDefs
SPECIFICATION Spec
INVARIANTS TableExact TableIsCalendar ActiveIsEnabled
PROPERTY RestartKeepsTable
