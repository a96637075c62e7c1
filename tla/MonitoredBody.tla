--------------------------- MODULE MonitoredBody ----------------------------
(***************************************************************************)
(* What the proxy promises about one body, without the machinery: a stream *)
(* handed on item by item, and monitors shown how far it has got. The      *)
(* hand-over and the showing never wait for, reorder or undo each other.   *)
(***************************************************************************)
EXTENDS Naturals, Sequences

VARIABLES
  sent,      (* what the sender has produced: frames and errors            *)
  bytes,     (* how many data bytes that is                                *)
  received,  (* what the receiver has been given                           *)
  ended,     (* nothing more will be taken from the sender                 *)
  shown,     (* data bytes monitors have been shown                        *)
  closed     (* monitors have been shown the end                           *)

abstractVars == <<sent, bytes, received, ended, shown, closed>>

Start ==
  /\ sent = <<>> /\ bytes = 0 /\ received = <<>>
  /\ ended = FALSE /\ shown = 0 /\ closed = FALSE

(* The next item is taken from the sender.                                 *)
Take ==
  /\ ~ended
  /\ Len(sent') = Len(sent) + 1
  /\ \A i \in 1..Len(sent) : sent'[i] = sent[i]
  /\ bytes' >= bytes

(* The receiver is given the item that follows what it already has.        *)
Give ==
  /\ Len(received) < Len(sent')
  /\ received' = Append(received, sent'[Len(received) + 1])

Pass ==
  /\ \/ Take /\ UNCHANGED received
     \/ UNCHANGED <<sent, bytes>> /\ Give
     \/ Take /\ Give
  /\ UNCHANGED <<ended, shown, closed>>

End ==
  /\ ended' = TRUE
  /\ UNCHANGED <<sent, bytes, received, shown, closed>>

(* Monitors are shown more of what has been taken, and possibly the end.   *)
Show ==
  /\ ~closed
  /\ shown' >= shown /\ shown' <= bytes
  /\ closed' => ended
  /\ UNCHANGED <<sent, bytes, received, ended>>

Proceed == Pass \/ End \/ Show

Promise == Start /\ [][Proceed]_abstractVars
=============================================================================
