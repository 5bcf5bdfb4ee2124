---------------------------- MODULE MCTaskDeque ----------------------------
EXTENDS TaskDeque

CONSTANTS w1, w2, p1, p2

\* Two workers, so stop must wake more than one waiter.
MCWorkers == {w1, w2}
\* Two producers, so one can take the slot a pop freed for the other.
MCProducers == {p1, p2}
MCTasksPerProducer == 2
\* kMaxTaskDequeSize = 10 empty Tasks, scaled down: more than a bound of 1.
MCInitNulls == 2
\* Unset m_max_queue_size: unbounded, or bounded at 1 or 2.
MCMaxSizes == {0, 1, 2}
=============================================================================
