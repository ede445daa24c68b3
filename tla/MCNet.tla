------------------------------- MODULE MCNet -------------------------------
(* Instances of Net: rings of three and two descriptors.                   *)
EXTENDS Net

Ask(kind, to, from) == [kind |-> kind, to |-> to, from |-> from]

MCFrames ==
  {Ask("arp_request", Us, "a"), Ask("echo_request", Us, "b"), Ask("echo_request", "them", "b"),
   Ask("other", Us, "a")}

=============================================================================
