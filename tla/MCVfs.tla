------------------------------- MODULE MCVfs -------------------------------
(* An instance of Vfs: two descriptors, buffers of 1 and 2 bytes.          *)
EXTENDS Vfs

(* "/d/f", "d/" and, in the root, a new name longer than one chunk.        *)
File == [abs |-> TRUE, chunks |-> <<"d", "f">>, leaf |-> 1]
Relative == [abs |-> FALSE, chunks |-> <<"d">>, leaf |-> 0]
Long == [abs |-> TRUE, chunks |-> <<"n", "g">>, leaf |-> 2]

MCPaths == {File, Relative, Long}
MCDefault == [dir |-> "d", file |-> "f", text |-> <<1>>]

=============================================================================
