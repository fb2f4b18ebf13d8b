-------------------------- MODULE MCJsonRpcChain --------------------------
(* Two posters with a process each.  A call is a record that says what it is. *)
EXTENDS JsonRpcChain

TwoPosters == [kind : {"post"}, sender : {"poster"}, process : {"p"}, task : {0}]
    \cup [kind : {"post"}, sender : {"rival"}, process : {"q"}, task : {0}]
Kinds == [c \in Call |-> c.kind]
Senders == [c \in Call |-> c.sender]
Processes == [c \in Call |-> c.process]
Tasks == [c \in Call |-> c.task]
Polls == [c \in Call |-> 1]
=============================================================================
