\* Two threads, four calls on every kind of lock in both modes, with the event
\* limit and the held list at their bounds.
CONSTANTS
    Threads = {t1, t2}
    Limits = {6}
    Slots = {1, 2}
    MaxCalls = 4
SPECIFICATION Spec
INVARIANT ReleasesGenuine
CHECK_DEADLOCK FALSE
