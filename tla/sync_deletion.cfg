\* The comment at sync_plan_generator.rs:56, refuted.
SPECIFICATION Spec
CONSTANTS
  Devices = {1, 2}
  Times = {1}
  Tasks = {t1}
  MaxVersion <- TwoAndOne
PROPERTY DeletionsReachPeer
