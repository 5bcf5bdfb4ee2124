---------------------------- MODULE MCTimerQueue ----------------------------
EXTENDS TimerQueue

\* Two addresses, so a freed Timer's address is handed out again.
MCNumAddrs == 2
\* Two timers: a stale TimerId next to a live Timer at the same address, or
\* a late timer arming the timerfd before an early one is added.
MCMaxTimers == 2
MCMaxTime == 3
\* A timer due now and one past the next: the second arms the timerfd late.
MCDelays == {0, 2}
\* One-shot and repeating every tick.
MCIntervals == {0, 1}
=============================================================================
