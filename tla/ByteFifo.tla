------------------------------ MODULE ByteFifo ------------------------------
(***************************************************************************)
(* What one direction of a guac_socket promises: the bytes accepted by     *)
(* guac_socket_write() are delivered by guac_socket_read() in order, each  *)
(* one once, and none is withheld for ever.  The code never looks at the   *)
(* value of a byte it transports, so byte number k is simply k.            *)
(***************************************************************************)
EXTENDS Naturals, Sequences

VARIABLES
  sent,       \* how many bytes the writing side has had accepted
  delivered   \* the bytes handed to the reading side, in order

vars == <<sent, delivered>>

Init == sent = 0 /\ delivered = << >>

\* Some more bytes are accepted.
Accept == sent' \in Nat /\ sent' > sent /\ UNCHANGED delivered

\* The next n bytes that were accepted and not yet delivered are delivered.
Deliver ==
  /\ \E n \in 1 .. (sent - Len(delivered)) :
        delivered' = delivered \o [k \in 1 .. n |-> Len(delivered) + k]
  /\ UNCHANGED sent

Next == Accept \/ Deliver

\* The safety part: a reliable ordered byte stream.
SafeSpec == Init /\ [][Next]_vars

\* Bytes that were accepted keep being delivered until there are none left.
Spec == SafeSpec /\ WF_vars(Deliver)
=============================================================================
