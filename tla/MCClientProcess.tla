-------------------------- MODULE MCClientProcess ---------------------------
(* Instances of ClientProcess for TLC: two users that come and leave in any *)
(* order.                                                                   *)
EXTENDS ClientProcess

CONSTANTS u1, u2

\* A file log in a folder whose name has some size, and none when the size is
\* that of "NO_LOG".
GoodConfigs == {[fileLog |-> TRUE, size |-> 2], [fileLog |-> FALSE, size |-> 6]}
\* No file log, and the folder that is the default, "./".
DefaultFolder == {[fileLog |-> FALSE, size |-> 2]}
\* A folder that is empty.
NoFolder == {[fileLog |-> FALSE, size |-> 0]}
=============================================================================
