------------------------------ MODULE ConnLife ------------------------------
(***************************************************************************)
(* The life of one connection, as TcpConnection promises it and TcpServer  *)
(* relies on it: it is established, disconnected, erased from the server's *)
(* map when that is asked to, destroyed on its loop and freed, in this     *)
(* order.  A server that ends does not wait to be asked.                   *)
(*                                                                         *)
(* A call or the end of the server may cross the end of the connection;    *)
(* nothing is promised from then on.                                       *)
(***************************************************************************)

VARIABLES
  life,        \* of the TcpConnection
  owner,       \* what will see to its end: the map, a queued
               \* connectDestroyed, or nothing any more
  asked,       \* is the server asked to remove it, or about to be?
  registered,  \* is the Channel known to the loop?
  crossed

vars == <<life, owner, asked, registered, crossed>>

Init ==
  /\ life = "connecting" /\ owner = "map"
  /\ asked = FALSE /\ registered = FALSE /\ crossed = FALSE

Establish ==
  /\ life = "connecting" /\ owner # "none"
  /\ life' = "connected" /\ registered' = TRUE
  /\ UNCHANGED <<owner, asked>>

\* The end of the stream, an error or a forced close.
Disconnect ==
  /\ life = "connected" /\ owner = "map"
  /\ life' = "disconnected" /\ asked' = TRUE
  /\ UNCHANGED <<owner, registered>>

Erase ==
  /\ owner = "map" /\ asked
  /\ owner' = "destroy" /\ asked' = FALSE
  /\ UNCHANGED <<life, registered>>

ServerEnds ==
  /\ owner = "map" /\ life \in {"connecting", "connected"}
  /\ owner' = "destroy"
  /\ UNCHANGED <<life, asked, registered>>

\* connectDestroyed disconnects first, which the user is told.
DisconnectLate ==
  /\ life = "connected" /\ owner = "destroy"
  /\ life' = "disconnected"
  /\ UNCHANGED <<owner, asked, registered>>

\* The object may be freed at once, if nobody else refers to it.  A server
\* that ends on the loop of the connection destroys it directly.
Destroy ==
  /\ owner = "destroy" \/ (owner = "map" /\ ~asked)
  /\ life \in {"connected", "disconnected"}
  /\ life' \in {"disconnected", "freed"}
  /\ owner' = "none" /\ registered' = FALSE
  /\ UNCHANGED asked

Free ==
  /\ owner = "none" /\ life = "disconnected"
  /\ life' = "freed"
  /\ UNCHANGED <<owner, asked, registered>>

Step ==
  \/ Establish \/ Disconnect \/ Erase \/ ServerEnds
  \/ DisconnectLate \/ Destroy \/ Free

Next ==
  \/ ~crossed /\ Step /\ UNCHANGED crossed
  \/ crossed'

Spec == Init /\ [][Next]_vars
=============================================================================
