\* KFILESYNC_STATE.md:124, refuted.
SPECIFICATION Spec
CONSTANTS
  Devices = {d1}
  Tasks = {t1, t2}
  MaxRequests = 2
PROPERTY RevokedIsTerminal
