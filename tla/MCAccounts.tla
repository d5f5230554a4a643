----------------------------- MODULE MCAccounts -----------------------------
EXTENDS Accounts

\* <<one client, two clients>>
Sessions_ == <<3, 2>>
Secrets == <<4, 3>>
Resets_ == <<1, 1>>
Tokens_ == <<3, 1>>
Edits_ == <<2, 1>>
Accounts_ == <<3, 2>>
Entries_ == <<2, 1>>
=============================================================================
