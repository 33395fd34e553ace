------------------------ MODULE MCAccountingProjector ------------------------
\* Two streams, named so that the first comes first in every query.
EXTENDS AccountingProjector

MCAccounts == 1..2
=============================================================================
