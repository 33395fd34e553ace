---------------------------- MODULE MCOrderPages ----------------------------
\* Three orders, at two times: at least two share a created_at.
EXTENDS OrderPages

MCOrders == 1..3
MCTimes == 1..2
=============================================================================
