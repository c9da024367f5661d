---------------------------- MODULE MCConnection ----------------------------
\* Instances of Connection for TLC.
EXTENDS Connection

CONSTANTS n1, n2, p1, p2

\* Servers with a bus name and an object path of their own.
OwnPaths == {<<n1, p1>>, <<n2, p2>>}

\* Two servers, in two processes, that happen to use the same object path.
SamePath == {<<n1, p1>>, <<n2, p1>>}
=============================================================================
