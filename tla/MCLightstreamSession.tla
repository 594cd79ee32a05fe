------------------------ MODULE MCLightstreamSession ------------------------
(* Instances of LightstreamSession for TLC.                                  *)
EXTENDS LightstreamSession

Reg(n, k, d) == [name |-> n, kind |-> k, dict |-> d]
Tab(c, s) == [cats |-> c, sound |-> s]

\* A table type, a message type, and a table type that takes the name of the
\* first.
MCRegistry == << Reg("ticks", "Table", TRUE), Reg("ping", "Message", FALSE),
                 Reg("ticks", "Table", TRUE) >>

MCTables == {Tab(1, TRUE), Tab(2, TRUE), Tab(1, FALSE)}
=============================================================================
