SPECIFICATION ProgressFairSpec
CONSTANTS
  r1 = r1 r2 = r2 d1 = d1 v1 = v1 v2 = v2
  percentage = percentage cfi = cfi url = url tab = tab
  Resources = {r1, r2}
  Devices = {d1}
  Columns = {percentage, url}
  Pushed = percentage
  ZeroOnInsert = {percentage}
  InsertOnly = {url}
  Values = {v1, v2}
  Zero = Zero
  Null = Null
  Bodies <- MCBodies
  Workers = {w1, w2}
  Idle = Idle
  Viewers = {s1}
  Tabs = {tab}
  PageOf <- MCPageOf
  Percent = percentage
  Nobody = Nobody
  MaxSaves = 3
INVARIANTS ProgressTypeOK LastPushIsRecent
PROPERTY ViewersCatchUp
