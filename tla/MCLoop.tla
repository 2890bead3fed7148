------------------------------- MODULE MCLoop -------------------------------
(***************************************************************************)
(* The uses of an IO scheduler that the configurations choose from.        *)
(***************************************************************************)
EXTENDS IOEventLoop

CONSTANTS t1, t2, t3, r1, r2

\* Two threads schedule and wake two tasks, the scheduler is stopped once.
Stopped == [tasks |-> {t1, t2}, threads |-> {r1, r2}, batch_size |-> 1,
            yielding |-> {}, waking |-> {}, awaiting |-> {}, faulty |-> FALSE, stops |-> 1]

\* Tasks that yield, wake each other and are woken by the loop, in batches of
\* two; with two tasks that wake, the larger variant.
Mixed == [tasks |-> {t1, t2, t3}, threads |-> {r1}, batch_size |-> 2,
          yielding |-> {t1}, waking |-> {t1}, awaiting |-> {t3}, faulty |-> TRUE,
          stops |-> 0]
Busy == [Mixed EXCEPT !.waking = {t1, t2}]

\* One task yields; two tasks wake others.
Yields == [tasks |-> {t1, t2}, threads |-> {r1}, batch_size |-> 1,
           yielding |-> {t1}, waking |-> {}, awaiting |-> {}, faulty |-> FALSE, stops |-> 0]
Wakes == [Yields EXCEPT !.tasks = {t1, t2, t3}, !.yielding = {}, !.waking = {t1, t2}]

StoppedOrMixed == {Stopped, Mixed}
OnlyBusy == {Busy}
OnlyYields == {Yields}
OnlyWakes == {Wakes}
YieldsInBatches == {[Yields EXCEPT !.batch_size = 2]}
YieldsThenStops == {[Yields EXCEPT !.stops = 1]}
=============================================================================
