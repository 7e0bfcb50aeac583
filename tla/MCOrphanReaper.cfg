SPECIFICATION FairSpec
CONSTANTS
  Pids = {me, boss, p1, p2}
  Me = me
  Boss = boss
  Asks <- ThreeAsks
  Slack = 1
  MaxTime = 6
INVARIANTS TypeOK OwnedServersSurvive VictimsWereListed ReportIsTrue
PROPERTIES CallReturns
