SPECIFICATION ProgressSpec
CONSTANTS
  r1 = r1 r2 = r2 d1 = d1 v1 = v1 v2 = v2
  percentage = percentage cfi = cfi url = url tab = tab
  Resources = {r1, r2}
  Devices = {d1}
  Columns = {percentage, cfi}
  Pushed = percentage
  ZeroOnInsert = {percentage}
  InsertOnly = {}
  Values = {v1, v2}
  Zero = Zero
  Null = Null
  Bodies <- MCBodies
  Workers = {w1, w2}
  Idle = Idle
  Viewers = {}
  Tabs = {tab}
  PageOf <- MCPageOf
  Percent = percentage
  Nobody = Nobody
  MaxSaves = 3
PROPERTY SaveCurrentKeepsPlace
