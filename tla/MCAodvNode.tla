----------------------------- MODULE MCAodvNode -----------------------------
EXTENDS AodvNode

CONSTANTS n1, n2
MCOrder == <<n1, n2>>
MCOrderOne == <<n1>>
=============================================================================
