SPECIFICATION Spec
CONSTANTS
  Requests = {r1, r2}
  Streams = {s1}
  Urls = {"empty", "short", "whole"}
INVARIANTS
  TypeOK
  Undisturbed
  ExitTruthful
PROPERTIES
  ShutdownEnds
CHECK_DEADLOCK FALSE
