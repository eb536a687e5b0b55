------------------------------ MODULE MCUpdater ------------------------------
EXTENDS Updater

\* The newest commit does not start.
MCDefective == {MaxCommit}
=============================================================================
