---------------------------- MODULE MCSignalMatch ----------------------------
\* Instances of SignalMatch for TLC.
EXTENDS SignalMatch, TLC

CONSTANTS a, b, c

\* a and b are stubs of one interface and object; c is another interface of
\* the same object.
McBusname    == (a :> "bus") @@ (b :> "bus") @@ (c :> "bus")
McIface      == (a :> "I") @@ (b :> "I") @@ (c :> "J")
McObjectpath == (a :> "/o") @@ (b :> "/o") @@ (c :> "/o")
=============================================================================
