----------------------------- MODULE TimingWheel -----------------------------
(***************************************************************************)
(* TimingWheelTimerManager, the timers of one event loop: wheels of slots, *)
(* where the timers of a higher wheel move down when the wheel below it    *)
(* has turned once.  The code has wheels of 256, 64, 64, 64 and 64 slots;  *)
(* here their number and sizes are Sizes, and wheels count from 1.         *)
(* Time is counted in units of which TickDuration make a tick.             *)
(*                                                                         *)
(* push() places a timer from the clock, tick() works from the tick it has *)
(* reached.  A coroutine that keeps the loop busy moves the two apart, by  *)
(* at most MaxLag units here.                                              *)
(***************************************************************************)
EXTENDS Naturals, Sequences, FiniteSets

CONSTANTS Timers,        \* Timer objects; each is pushed at most once
          Sizes,         \* slots of each wheel
          TickDuration,  \* m_tickDuration
          Delays,        \* the delays a timer may have
          MaxLag,        \* longest time between two calls of tick()
          MaxNow         \* bound on the clock

ASSUME WheelAssumption ==
    /\ Sizes \in Seq(Nat \ {0}) /\ Len(Sizes) > 0
    /\ TickDuration \in Nat \ {0}

VARIABLES now,           \* steady_clock::now()
          m_startTime, m_currentTick,
          place,         \* where each timer is: <<wheel, slot>> or Nowhere
          expire,        \* Timer::m_expireTime, 0 before the first push
          cancelled,     \* timers with the kCancel flag
          firedAt,       \* when handleTimeout() ran for a timer, or Never
          lastTick       \* when the loop last called tick()

vars == <<now, m_startTime, m_currentTick, place, expire, cancelled, firedAt,
          lastTick>>

Nowhere == <<0, 0>>
Never == 0

\* Ticks in one turn of wheels 1..i; one slot of wheel i+1 stands for them.
Span(i) ==
    LET span[k \in 0..Len(Sizes)] == IF k = 0 THEN 1 ELSE span[k-1] * Sizes[k]
    IN  span[i]

MaxTicks == Span(Len(Sizes))

\* The wheel for a timer so many ticks away, and its slot for a given tick.
Level(ticks) == CHOOSE i \in DOMAIN Sizes :
                    /\ ticks < Span(i)
                    /\ \A j \in 1..(i-1) : ticks >= Span(j)
Slot(i, tick) == <<i, (tick \div Span(i-1)) % Sizes[i]>>

\* m_size is the number of timers in the wheels.
Size(pl) == Cardinality({t \in Timers : pl[t] # Nowhere})

\* push(): rounded up.
DelayTicks(ns) == (ns + TickDuration - 1) \div TickDuration
\* cascadeSlot(): rounded down.
RemainingTicks(ns) == ns \div TickDuration

Init ==
    /\ now = 1 /\ m_startTime = 1 /\ m_currentTick = 0 /\ lastTick = 1
    /\ place = [t \in Timers |-> Nowhere]
    /\ expire = [t \in Timers |-> 0]
    /\ firedAt = [t \in Timers |-> Never]
    /\ cancelled = {}

-----------------------------------------------------------------------------
(* push().  The expiry is fixed by the first getExpireTime().  An empty     *)
(* wheel restarts at the present.  A timer without delay fires at once; one *)
(* beyond the last wheel is refused.                                        *)

push(t, delay) ==
    /\ expire[t] = 0
    /\ expire' = [expire EXCEPT ![t] = now + delay]
    /\ m_startTime' = IF Size(place) = 0 THEN now ELSE m_startTime
    /\ m_currentTick' = IF Size(place) = 0 THEN 0 ELSE m_currentTick
    /\ IF delay = 0
         THEN /\ firedAt' = [firedAt EXCEPT ![t] = now]
              /\ UNCHANGED place
         ELSE LET ticks == DelayTicks(delay)
                  tick == (now - m_startTime') \div TickDuration + ticks
              IN  /\ place' = IF ticks >= MaxTicks
                                THEN place
                                ELSE [place EXCEPT ![t] = Slot(Level(ticks), tick)]
                  /\ UNCHANGED firedAt
    /\ UNCHANGED <<now, cancelled, lastTick>>

cancel(t) ==
    /\ expire[t] # 0
    /\ cancelled' = cancelled \union {t}
    /\ UNCHANGED <<now, m_startTime, m_currentTick, place, expire, firedAt,
                   lastTick>>

-----------------------------------------------------------------------------
(* tick().  The wheels while it runs are a record: the tick reached, the    *)
(* places, and the timers whose handleTimeout() was called.                 *)

\* cascadeSlot() on the current slot of wheel i.
cascadeSlot(w, i) ==
    LET slot == {t \in Timers : w.place[t] = Slot(i, w.tick)}
        live == slot \ cancelled
        left(t) == IF expire[t] <= now THEN 0
                                       ELSE RemainingTicks(expire[t] - now)
        due == {t \in live : left(t) = 0}
    IN  [w EXCEPT !.place =
                     [t \in Timers |->
                        IF t \notin slot THEN @[t]
                        ELSE IF t \in live \ due /\ left(t) < MaxTicks
                          THEN Slot(Level(left(t)), w.tick + left(t))
                          ELSE Nowhere],
                  !.fired = @ \union due]

\* Every timer of the current slot of wheel 1 is fired, cancelled or not.
processWheel1_One(w) ==
    LET slot == {t \in Timers : w.place[t] = Slot(1, w.tick)}
        t == CHOOSE t \in slot : TRUE
    IN  IF slot = {} THEN w
        ELSE [w EXCEPT !.place = [@ EXCEPT ![t] = Nowhere],
                       !.fired = @ \union {t}]

processWheel1(w) ==
    LET slot == {t \in Timers : w.place[t] = Slot(1, w.tick)}
    IN  [w EXCEPT !.place = [t \in Timers |-> IF t \in slot THEN Nowhere ELSE @[t]],
                  !.fired = @ \union slot]

\* One iteration: the cascades of the wheels that have come round, lowest
\* first, then wheel 1.
Turn(w) ==
    LET down[i \in DOMAIN Sizes] ==
            IF i = 1 THEN w
            ELSE IF w.tick > 0 /\ w.tick % Span(i-1) = 0
              THEN cascadeSlot(down[i-1], i)
              ELSE down[i-1]
    IN  [processWheel1(down[Len(Sizes)]) EXCEPT !.tick = @ + 1]

Turned(target) ==
    LET turns[k \in m_currentTick..(target + 1)] ==
            IF k = m_currentTick
              THEN [tick |-> m_currentTick, place |-> place, fired |-> {}]
              ELSE IF Size(turns[k-1].place) = 0 THEN turns[k-1]
                                                 ELSE Turn(turns[k-1])
    IN  turns[target + 1]

tick ==
    LET target == (now - m_startTime) \div TickDuration
    IN  /\ lastTick' = now
        /\ UNCHANGED <<now, expire, cancelled>>
        /\ IF Size(place) = 0 \/ target <= m_currentTick
             THEN UNCHANGED <<m_startTime, m_currentTick, place, firedAt>>
             ELSE LET w == Turned(target)
                  IN  /\ place' = w.place
                      /\ firedAt' = [t \in Timers |->
                                       IF t \in w.fired THEN now ELSE firedAt[t]]
                      /\ m_startTime' = IF Size(w.place) = 0 THEN now ELSE m_startTime
                      /\ m_currentTick' = IF Size(w.place) = 0 THEN 0 ELSE w.tick

\* Time passes; the loop is back at tick() after MaxLag units at the latest.
Elapse ==
    /\ now < MaxNow
    /\ now - lastTick < MaxLag
    /\ now' = now + 1
    /\ UNCHANGED <<m_startTime, m_currentTick, place, expire, cancelled, firedAt,
                   lastTick>>

Next == \/ \E t \in Timers : cancel(t) \/ \E d \in Delays : push(t, d)
        \/ tick
        \/ Elapse

Spec == Init /\ [][Next]_vars

-----------------------------------------------------------------------------

\* Every timer is in no slot or in a slot that exists, and the wheel never
\* stands more than one tick ahead of the clock (tick()).
TypeOK ==
    /\ now \in 1..MaxNow /\ lastTick \in 1..now /\ m_startTime \in 1..now
    /\ m_currentTick \in 0..((now - m_startTime) \div TickDuration + 1)
    /\ \A t \in Timers :
         /\ place[t] = Nowhere \/ \E i \in DOMAIN Sizes :
                                    place[t] \in {i} \X (0..(Sizes[i] - 1))
         /\ expire[t] \in Nat /\ firedAt[t] \in 0..now
    /\ cancelled \subseteq Timers

\* When tick() returns, no timer that is still in a wheel has been due for
\* two ticks or more, cancelled or not, however it was placed and moved down
\* (push, tick, cascadeSlot).
NotLate ==
    lastTick = now =>
        \A t \in Timers :
            place[t] # Nowhere => now < expire[t] + 2 * TickDuration

\* No timer is fired two ticks or more before its expiry: push() rounds up
\* and a cascade counts again from the clock, so that only the rounding of
\* the last cascade and the tick that tick() lags behind can bring it forward.
NotEarly ==
    \A t \in Timers :
        firedAt[t] # Never => expire[t] < firedAt[t] + 2 * TickDuration

\* A timer fires within two ticks of its expiry, before or after it.
OnTime == NotLate /\ NotEarly

\* "The timers of wheel 1 should all be due, execute them" (processWheel1):
\* stated with the tick that the cascade may round away.
WheelOneDue ==
    \A t \in Timers :
        firedAt[t] # Never => expire[t] < firedAt[t] + TickDuration

\* A timer that was cancelled is not handled any more: "the timer manager
\* checks this flag before it calls handleTimeout()" (Timer::cancel).
CancelledNotHandled ==
    [][\A t \in cancelled : firedAt'[t] = firedAt[t]]_vars
=============================================================================
