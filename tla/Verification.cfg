\* Two senders and two verifiers; codes that live for two units of time, a
\* cooldown of one and an hour of two, in which two codes may be sent: the
\* first codes expire, the cooldown passes, and requests can race at each
\* limit, within a clock that stops at two.
CONSTANTS
  Senders = {s1, s2}
  Verifiers = {v1, v2}
  CodeTTL = 2
  Cooldown = 1
  Hour = 2
  MaxSends = 2
  MaxTries = 2
  MaxTime = 2
SPECIFICATION Spec
SYMMETRY Symmetry
INVARIANTS
  CodeIsScarce
  SendsAreLimited
  BurstIsLimited
  SupersededIsDead
CHECK_DEADLOCK FALSE
