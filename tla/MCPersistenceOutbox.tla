------------------------ MODULE MCPersistenceOutbox ------------------------
(* One key, written by a turn's reply and by its interrupted marker, and    *)
(* two overlapping recovery runs.                                           *)
EXTENDS PersistenceOutbox

CONSTANTS k1, reply, marker

MCKeyOf == [x \in Writes |-> k1]
=============================================================================
