--------------------------- MODULE MCMessageQueue ---------------------------
EXTENDS MessageQueue

CONSTANTS m1, m2, q1, q2, d

\* Both messages carry one idempotency key.
MCKey == [m \in Messages |-> "k"]
MCName == [q \in Queues |-> q]

To(a, b) == [m \in Messages |-> IF m = m1 THEN a ELSE b]

\* Two messages for the topic while nothing is stopped, one while the queues
\* are stopped (twice), and two for the direct queue, which is stopped.
MCCallers == {[dest |-> To("topic", "topic"), stops |-> 0],
              [dest |-> To("topic", "none"), stops |-> 2],
              [dest |-> To(d, d), stops |-> 1]}

\* The publisher of m1 tries again once.
MCMaxPublish == [m \in Messages |-> IF m = m1 THEN 2 ELSE 1]
=============================================================================
