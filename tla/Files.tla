------------------------------- MODULE Files -------------------------------
(***************************************************************************)
(* What the file system promises to its callers: a set of objects, each    *)
(* under its own path, and a table of descriptors.  A file is a size and a *)
(* byte for every offset, 0 where nothing was ever written; how the bytes  *)
(* are stored does not show.  Truncation sets the size only.  A call that  *)
(* fails changes nothing, but an open that had to create its file and got  *)
(* no descriptor leaves the file.                                          *)
(***************************************************************************)
EXTENDS Integers, Sequences

CONSTANTS
  Fds,      \* descriptors
  Bytes,    \* the values of a byte that callers write
  MaxSize   \* bound on the size of a file

VARIABLES
  objects,  \* path |-> [dir, size, bytes]; a path is a sequence of names
  opened,   \* descriptor |-> << >> or <<path, offset>>
  answer    \* the last call and what it returned: [call, ok, data]

vars == <<objects, opened, answer>>

Fail(call) == [call |-> call, ok |-> FALSE, data |-> << >>]
Ok(call, data) == [call |-> call, ok |-> TRUE, data |-> data]

Empty(dir) == [dir |-> dir, size |-> 0, bytes |-> [o \in 0 .. MaxSize - 1 |-> 0]]

Parent(p) == SubSeq(p, 1, Len(p) - 1)

WellFormed(objs) ==
  \A p \in DOMAIN objs :
    p = << >> \/ (Parent(p) \in DOMAIN objs /\ objs[Parent(p)].dir)

Init ==
  /\ objects = [p \in {} |-> Empty(TRUE)]
  /\ opened = [fd \in Fds |-> << >>]
  /\ answer = Fail("none")

(* The initial tree appears at once.                                       *)
Mount ==
  /\ answer' = Fail("none")
  /\ UNCHANGED <<opened, answer>>
  /\ DOMAIN objects = {}
  /\ WellFormed(objects')

(* Any call may fail, but what was written can be read.                    *)
Refuse ==
  /\ answer' \in {Fail(call) : call \in {"open", "close", "write", "make", "list"}}
  /\ UNCHANGED <<objects, opened>>

RefuseRead ==
  /\ answer' = Fail("read")
  /\ \E fd \in Fds :
       \/ opened[fd] = << >>
       \/ objects[opened[fd][1]].dir
       \/ \A o \in 0 .. MaxSize - 1 : objects[opened[fd][1]].bytes[o] = 0
  /\ UNCHANGED <<objects, opened>>

(* The objects with a new, empty one at p.                                 *)
Makeable(p) ==
  /\ p # << >>
  /\ p \notin DOMAIN objects
  /\ Parent(p) \in DOMAIN objects
  /\ objects[Parent(p)].dir

With(p, dir) ==
  [q \in DOMAIN objects \cup {p} |-> IF q = p THEN Empty(dir) ELSE objects[q]]

New(p) == p \in DOMAIN objects' \ DOMAIN objects

Make ==
  /\ answer' \in {Ok("make", <<0>>), Fail("open")}
  /\ UNCHANGED opened
  /\ \E p \in DOMAIN objects' : \E dir \in BOOLEAN :
       New(p) /\ Makeable(p) /\ objects' = With(p, dir)

(* Open descriptor fd for the object at p of objs.                         *)
Open(fd, p, objs) ==
  /\ \E offset \in {0, objs[p].size} : opened' = [opened EXCEPT ![fd] = <<p, offset>>]
  /\ objects' = objs \/ objects' = [objs EXCEPT ![p].size = 0]

OpenAny(fd) ==
  /\ answer' = Ok("open", <<fd>>)
  /\ opened[fd] = << >>
  /\ \/ \E p \in DOMAIN objects : Open(fd, p, objects)
     \/ \E p \in DOMAIN objects' : New(p) /\ Makeable(p) /\ Open(fd, p, With(p, FALSE))

Close(fd) ==
  /\ answer' = Ok("close", <<0>>)
  /\ opened[fd] # << >>
  /\ opened' = [opened EXCEPT ![fd] = << >>]
  /\ UNCHANGED objects

(* The bytes from the descriptor's offset on, as many as asked for or as   *)
(* there are.                                                              *)
Read(fd, n) ==
  /\ answer'.call = "read" /\ answer'.ok
  /\ opened[fd] # << >>
  /\ LET o == objects[opened[fd][1]]
         offset == opened[fd][2]
         left == IF o.size > offset THEN o.size - offset ELSE 0
         count == IF n < left THEN n ELSE left
     IN  /\ ~o.dir
         /\ answer' = Ok("read", [i \in 1 .. count |-> o.bytes[offset + i - 1]])
         /\ opened' = [opened EXCEPT ![fd][2] = offset + count]
  /\ UNCHANGED objects

Write(fd, bs) ==
  /\ answer' = Ok("write", <<Len(bs)>>)
  /\ opened[fd] # << >>
  /\ LET p == opened[fd][1]
         o == objects[p]
         offset == opened[fd][2]
         end == offset + Len(bs)
     IN  /\ ~o.dir
         /\ objects' = [objects EXCEPT ![p] =
              [o EXCEPT !.size = IF end > o.size THEN end ELSE o.size,
                        !.bytes = [i \in DOMAIN o.bytes |->
                                     IF i \in offset .. end - 1 THEN bs[i - offset + 1]
                                                                ELSE o.bytes[i]]]]
         /\ opened' = [opened EXCEPT ![fd][2] = end]

(* An entry of a directory: a name under which there is an object.         *)
List ==
  /\ answer'.call = "list"
  /\ \E p \in DOMAIN objects :
       p # << >> /\ answer' = Ok("list", <<p[Len(p)], objects[p].dir>>)
  /\ UNCHANGED <<objects, opened>>

Next ==
  \/ Mount \/ Refuse \/ RefuseRead \/ Make \/ List
  \/ \E fd \in Fds : OpenAny(fd) \/ Close(fd)
  \/ \E fd \in Fds, n \in 0 .. MaxSize : Read(fd, n)
  \/ \E fd \in Fds, k \in 0 .. MaxSize : \E bs \in [1 .. k -> Bytes] : Write(fd, bs)

Spec == Init /\ [][Next]_vars

=============================================================================
