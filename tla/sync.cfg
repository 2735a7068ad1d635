\* Two devices that edit, delete and synchronise one path.
SPECIFICATION Spec
CONSTANTS
  Devices = {1, 2}
  Times = {1}
  Tasks = {t1}
  MaxVersion <- TwoAndOne
INVARIANTS
  TypeOK
  LearntIsAsked
  PlansMirror
