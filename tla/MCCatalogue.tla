---------------------------- MODULE MCCatalogue ----------------------------
EXTENDS Catalogue

\* <<one client, two clients>>
Rows == <<3, 2>>
Refs == <<2, 1>>
Hits == <<3, 2>>
=============================================================================
