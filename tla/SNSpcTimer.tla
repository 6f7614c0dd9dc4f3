----------------------------- MODULE SNSpcTimer -----------------------------
(***************************************************************************)
(* A timer of the sound processor (snspctimer.cpp, and the registers F1,   *)
(* FA to FC and FD to FF of snspcio.cpp).  It is not clocked: it adds up   *)
(* the cycles since it was last looked at when it is written, read, and    *)
(* once at the end of every frame (snes.cpp).  The time is a counter of    *)
(* TIME_RANGE values that wraps: the SPC's total, a signed 32-bit integer, *)
(* does within two minutes of play.                                        *)
(***************************************************************************)
EXTENDS Integers

CONSTANTS
  CYCLESPERTICK,   \* uCyclesPerTick (128 or 16 times SNSPC_CYCLE)
  UNSET_COMPARE,   \* what a compare value of 0 stands for (0x100)
  COUNTER_RANGE,   \* values of uUpCounter (0x100)
  READ_RANGE,      \* values of what is read from it (0x10)
  TIME_RANGE,      \* values of the SPC's total (2^32)
  FRAME_CYCLES     \* the most cycles of a frame

\* Two frames are less than half the range, and the counter wraps with it.
ASSUME SNSpcTimerAssumption ==
  /\ CYCLESPERTICK \in Nat \ {0} /\ UNSET_COMPARE \in Nat \ {0}
  /\ READ_RANGE \in Nat \ {0} /\ COUNTER_RANGE \in Nat \ {0}
  /\ COUNTER_RANGE % READ_RANGE = 0
  /\ FRAME_CYCLES \in Nat \ {0} /\ TIME_RANGE \in Nat
  /\ 2 * FRAME_CYCLES < TIME_RANGE

VARIABLES
  timer,       \* the SNSpcTimerT
  total,       \* SNSPCGetCounter(TOTAL), less than TIME_RANGE
  sinceFrame,  \* cycles since the frame began
  clocked      \* history: the same timer, clocked in every cycle

timerVars == <<timer, total, sinceFrame, clocked>>

iDivisor(uCompare) ==
  CYCLESPERTICK * (IF uCompare # 0 THEN uCompare ELSE UNSET_COMPARE)

TimerInit ==
  /\ timer = [iCycleSync |-> 0, nElapsedCycles |-> 0, uCompare |-> 0,
              uUpCounter |-> 0, bEnabled |-> FALSE]
  /\ total = 0 /\ sinceFrame = 0
  /\ clocked = [nElapsed |-> 0, count |-> 0]

\* A difference of two times: the one that is closest to zero, as in 32 bits.
Elapsed(now, past) ==
  LET d == (now - past) % TIME_RANGE IN
  IF 2 * d < TIME_RANGE THEN d ELSE d - TIME_RANGE

\* Faulty: what is left of a count is lost.
SyncTimerRounded(t, now) ==
  LET sum == t.nElapsedCycles + Elapsed(now, t.iCycleSync)
      nCount == sum \div iDivisor(t.uCompare)
  IN IF t.bEnabled
       THEN [t EXCEPT !.iCycleSync = now,
                      !.uUpCounter = (@ + nCount) % COUNTER_RANGE,
                      !.nElapsedCycles = IF nCount > 0 THEN 0 ELSE sum]
       ELSE [t EXCEPT !.iCycleSync = now]

\* SNSpcTimerSync.
SyncTimer(t, now) ==
  LET sum == t.nElapsedCycles + Elapsed(now, t.iCycleSync)
      nCount == IF sum >= iDivisor(t.uCompare)
                  THEN sum \div iDivisor(t.uCompare) ELSE 0
  IN IF t.bEnabled
       THEN [t EXCEPT !.iCycleSync = now,
                      !.uUpCounter = (@ + nCount) % COUNTER_RANGE,
                      !.nElapsedCycles = sum - nCount * iDivisor(t.uCompare)]
       ELSE [t EXCEPT !.iCycleSync = now]

\* What SNSpcTimerGetCounter returns.
Counted(t, now) == SyncTimer(t, now).uUpCounter % READ_RANGE

-----------------------------------------------------------------------------
\* The clocked timer, n cycles after its last pulse.
Clocked(n, count, uCompare) ==
  [nElapsed |-> n % iDivisor(uCompare),
   count    |-> (count + n \div iDivisor(uCompare)) % READ_RANGE]

\* A cycle passes, of which the timer learns nothing.
Tick ==
  /\ sinceFrame < FRAME_CYCLES
  /\ total' = (total + 1) % TIME_RANGE
  /\ sinceFrame' = sinceFrame + 1
  /\ clocked' = IF timer.bEnabled
                  THEN Clocked(clocked.nElapsed + 1, clocked.count, timer.uCompare)
                  ELSE clocked
  /\ UNCHANGED timer

\* The end of ExecuteFrame.
EndTimerFrame ==
  /\ sinceFrame > 0
  /\ timer' = SyncTimer(timer, total)
  /\ sinceFrame' = 0
  /\ UNCHANGED <<total, clocked>>

\* SNSpcTimerSetEnable, which does nothing unless it changes something.
SetEnable(bEnable) ==
  /\ bEnable # timer.bEnabled
  /\ timer' = [SyncTimer(timer, total) EXCEPT
                 !.uUpCounter = IF bEnable THEN 0 ELSE @, !.bEnabled = bEnable]
  /\ clocked' = IF bEnable THEN Clocked(clocked.nElapsed, 0, timer.uCompare)
                            ELSE clocked
  /\ UNCHANGED <<total, sinceFrame>>

\* SNSpcTimerSetTimer, called after SNSpcTimerSync.
SetTimer(uValue) ==
  /\ timer' = [SyncTimer(timer, total) EXCEPT !.uCompare = uValue]
  /\ clocked' = IF timer.bEnabled
                  THEN Clocked(clocked.nElapsed, clocked.count, uValue)
                  ELSE clocked
  /\ UNCHANGED <<total, sinceFrame>>

\* SNSpcTimerGetCounter: reading resets the counter.
GetCounter ==
  /\ timer' = [SyncTimer(timer, total) EXCEPT !.uUpCounter = 0]
  /\ clocked' = [clocked EXCEPT !.count = 0]
  /\ UNCHANGED <<total, sinceFrame>>

TimerNext ==
  \/ Tick \/ EndTimerFrame \/ GetCounter
  \/ \E bEnable \in BOOLEAN : SetEnable(bEnable)
  \/ \E uValue \in 0 .. UNSET_COMPARE - 1 : SetTimer(uValue)

TimerSpec == TimerInit /\ [][TimerNext]_timerVars

-----------------------------------------------------------------------------
\* A timer that is looked at now and then counts what one that is clocked in
\* every cycle counts, whenever the SPC reads, stops, starts or programs it,
\* and however often the counters it is computed from have wrapped.
TimerIsExact == Counted(timer, total) = clocked.count
=============================================================================
