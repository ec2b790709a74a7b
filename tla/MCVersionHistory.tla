-------------------------- MODULE MCVersionHistory --------------------------
\* Instances of VersionHistory for TLC.
EXTENDS VersionHistory

\* Every record is synchronised by a definition of its own.
OneEach == [r \in Records |-> r]
=============================================================================
