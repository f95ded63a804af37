----------------------------- MODULE LineClient -----------------------------
(***************************************************************************)
(* What the executor sees of a WebSocket client: whether a message can be  *)
(* sent now, and what may become of the client.  WsClient implements it;   *)
(* Service has two, the CTI client and the ARI event client.               *)
(*                                                                         *)
(* Two states are dead ends that the code did not intend.  A mute client   *)
(* has a connection and believes it has none: it refuses to send, and      *)
(* nothing makes it connect again.  A stuck client is locked for good by a *)
(* sender that waits for itself, or whose write never returns: Disconnect  *)
(* and every later call hang.                                              *)
(***************************************************************************)
CONSTANT HasSenders   \* SendMessage may be called

VARIABLE line

LineStates == {"new", "up", "down", "mute", "stuck", "off"}

LineInit == line = "new"

\* The first Connect succeeded.
Connect == line = "new" /\ line' = "up"

\* A broken connection is torn down, and is going to be replaced.
TearDown == line = "up" /\ line' = "down"

Reconnect == line = "down" /\ line' = "up"

\* connected is cleared under a connection: by the reader of the one before,
\* or because the broken one could not be closed.
FallMute == line = "up" /\ line' = "mute"

\* A write failed and SendMessage asks for the lock it holds; or it stalled.
FallStuck == HasSenders /\ line = "up" /\ line' = "stuck"

\* Disconnect of a connected client.  Any other it leaves as it is.
Disconnect == line = "up" /\ line' = "off"

LineNext ==
  Connect \/ TearDown \/ Reconnect \/ FallMute \/ FallStuck \/ Disconnect

LineSpec == LineInit /\ [][LineNext]_line
============================================================================
