---------------------------- MODULE MCBackground ----------------------------
EXTENDS Background

\* <<one job at a time, two>>
Troubles == <<2, 0>>
Users_ == {1, 2}
=============================================================================
