SPECIFICATION PwaSpec
CONSTANTS
  Tabs = {t1, t2}
  MaxRelease = 3
PROPERTY NoReloadWhileBusy
CHECK_DEADLOCK FALSE
