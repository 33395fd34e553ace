------------------------ MODULE MCAccountingProducer ------------------------
\* Two streams, named so that the first comes first in every query.
EXTENDS AccountingProducer

MCAccounts == 1..2
=============================================================================
