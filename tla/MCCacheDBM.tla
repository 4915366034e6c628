------------------------------- MODULE MCCacheDBM ------------------------------
EXTENDS CacheDBM

CONSTANT T1

\* The capacities and first records of a scene, the threads, keys and
\* processors of its calls, and how often each kind of call may be made.
Scene == [rec |-> 2, mem |-> 100, tight |-> 12, fill |-> <<>>, threads |-> {T1}, keys |-> Keys,
          procs |-> Procs, process |-> 0, multi |-> 0, each |-> 0, iterator |-> 0,
          open |-> 0, sync |-> 0, clear |-> 0, rebuild |-> 0, crash |-> 0]
Filled == [Scene EXCEPT !.fill = <<0, 1, 1, 1, 2, 1>>, !.threads = Threads]

\* One slot's list and chains; the limits on memory; two calls on two keys;
\* ProcessEach and the iterator beside other calls; saving, loading, crashing.
MCLimits ==
  {[Scene EXCEPT !.rec = 4, !.fill = <<0, 1, 2, 1, 4, 1>>, !.keys = Keys \ {1},
                 !.procs = {ProcOf(v) : v \in {NOOP, REMOVE, 2, 3}},
                 !.process = 3, !.rebuild = 1, !.clear = 1],
   [Scene EXCEPT !.mem = 18, !.process = 3, !.rebuild = 1, !.open = 1],
   [Filled EXCEPT !.keys = {0, 1, 2}, !.procs = {ProcOf(REMOVE), ProcOf(3)},
                  !.process = 1, !.multi = 2],
   [Filled EXCEPT !.procs = {ProcOf(NOOP), ProcOf(REMOVE), ProcOf(2)},
                  !.process = 2, !.each = 1],
   [Filled EXCEPT !.fill = <<0, 1, 1, 1>>, !.keys = {0, 1, 4},
                  !.procs = {ProcOf(REMOVE), ProcOf(2)},
                  !.process = 1, !.iterator = 4, !.clear = 1],
   [Scene EXCEPT !.fill = <<0, 1, 1, 1>>, !.procs = {ProcOf(REMOVE), ProcOf(3)},
                 !.process = 2, !.open = 2, !.sync = 1, !.crash = 1]}
=============================================================================
