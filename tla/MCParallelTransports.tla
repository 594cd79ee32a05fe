------------------------- MODULE MCParallelTransports -------------------------
(* ParallelLightstream with a caller that abandons sends, and ParallelTables,  *)
(* for TLC, one beside the other: the initial state says which of them runs,   *)
(* and the other rests in a state in which none of its fair actions is         *)
(* enabled.                                                                    *)
EXTENDS ParallelLightstream, ParallelTables

CONSTANT FewTables   \* bound: tables written, but to an ordered HTTP/2 reader

VARIABLE part

\* A writer whose first connection was refused.
LightstreamRests ==
  /\ phase = "dropped" /\ opened = 0 /\ next = 0 /\ pending = <<>> /\ cancelled = {}
  /\ joined = 0 /\ firstErr = FALSE
  /\ senders = [c \in Conn |-> <<>>] /\ wtask = [c \in Conn |-> "none"]
  /\ held = [c \in Conn |-> <<>>]
  /\ net = [c \in Conn |-> <<>>] /\ tail = [c \in Conn |-> "none"]
  /\ reader = "accepting"
  /\ from = [s \in Conn |-> None] /\ rtask = [s \in Conn |-> "none"]
  /\ rheld = [s \in Conn |-> <<>>] /\ streams = [s \in Conn |-> <<>>]
  /\ cursor = 0 /\ closed = [s \in Conn |-> FALSE] /\ emitted = <<>> /\ faults = 1

\* A writer and a reader that are done, and no table was written.
TablesRest ==
  /\ ptKind = "tcp" /\ ptSort = "Arrival"
  /\ ptNext = 0 /\ ptPending = 0 /\ ptAbandoned = {} /\ ptFinish = "ok"
  /\ ptSenders = [c \in PtC |-> <<>>] /\ ptTask = [c \in PtC |-> "ok"]
  /\ ptWork = [c \in PtC |-> 0] /\ ptLink = "up"
  /\ ptNet = [c \in PtC |-> <<>>] /\ ptEnd = [c \in PtC |-> "eos"] /\ ptFaults = 0
  /\ ptSlots = [i \in 1 .. PtN |-> i - 1]
  /\ ptHeld = [s \in PtC |-> 0] /\ ptRead = [s \in PtC |-> "done"]
  /\ ptStreams = [s \in PtC |-> <<>>]
  /\ ptCursor = 0 /\ ptClosed = PtC /\ ptOut = <<>> /\ ptResult = "ok"

MCInit ==
  \/ part = "lightstream" /\ Init /\ TablesRest
  \/ part = "tables" /\ PtInit /\ LightstreamRests

\* Either a call is dropped or something is lost.  Only an ordered reader of HTTP/2
\* streams, which share a window, is given all PtMaxTables tables, and then nothing
\* is lost.
MCPtNext ==
  /\ PtNext
  /\ ptNext' > FewTables => ptKind = "http" /\ ptSort = "Ordered"
  /\ ptNext' > FewTables \/ ptAbandoned' # {} => ptFaults' = 0

\* The tables may stop, a Lightstream without an end may not.
MCNext ==
  \/ part = "lightstream" /\ (Next \/ RouteCancelled) /\ UNCHANGED <<part, ptvars>>
  \/ part = "tables" /\ (MCPtNext \/ UNCHANGED ptvars) /\ UNCHANGED <<part, vars>>

MCSpec ==
  /\ MCInit /\ [][MCNext]_<<part, vars, ptvars>>
  /\ Fairness /\ PtFairness
===============================================================================
