--------------------------- MODULE MCOutboxRelay ---------------------------
\* Two sessions that write and two relays.
EXTENDS OutboxRelay

CONSTANTS w1, w2, r1, r2

TwoWriters == {w1, w2}
TwoRelays == {r1, r2}
=============================================================================
