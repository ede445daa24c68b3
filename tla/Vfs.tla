-------------------------------- MODULE Vfs --------------------------------
(* The virtual file system (kernel/fs/vfs.c) over Ramfs, and two callers:  *)
(* the file commands of the shell (kernel/shell.c) and a kernel client     *)
(* that makes any calls on descriptors of its own.  Calls do not overlap.  *)
(*                                                                         *)
(* A path is a sequence of chunks: a name between slashes that fits in     *)
(* VFS_NAME_MAX - 1 characters is one chunk, a longer one is several.  The *)
(* last `leaf' chunks stand after the last slash, none if the path ends    *)
(* with it; with abs = FALSE the path does not begin with a slash.         *)
EXTENDS Ramfs

CONSTANTS
  Fds,        \* 0 .. VFS_MAX_FDS - 1
  OpenFlags,  \* sets of flags that the kernel client opens with
  Paths,      \* paths that callers name: [abs, chunks, leaf]
  Default,    \* the directory and the file that ramfs_init makes
  ReadSize,   \* bytes that one read asks for
  Newline     \* the byte that cmd_write ends a file with

ASSUME VfsAssumption ==
  /\ Fds \subseteq Nat
  /\ \A path \in Paths : /\ path \in [abs : BOOLEAN, chunks : Seq(STRING), leaf : Nat]
                         /\ path.leaf <= Len(path.chunks)
  /\ Default \in [dir : STRING, file : STRING, text : Seq(Bytes)]
  /\ Len(Default.text) <= MaxSize /\ MaxNodes >= 3
  /\ ReadSize \in Nat
  /\ Newline \in Bytes

VARIABLES
  root_node,  \* NULL until ramfs_init
  fd_table,   \* [used, node, offset] for every descriptor
  answer,     \* the last call and what it returned: [call, ok, data]
  shell,      \* the shell's command: [at, fd, path]
  client      \* descriptors that the kernel client opened

fsVars == <<nodes, root_node, fd_table, answer>>
vars == <<fsVars, shell, client>>

Fail(call) == [call |-> call, ok |-> FALSE, data |-> << >>]
Ok(call, data) == [call |-> call, ok |-> TRUE, data |-> data]

Closed == [used |-> FALSE, node |-> NULL, offset |-> 0]
NoPath == [abs |-> FALSE, chunks |-> << >>, leaf |-> 0]
At(place, fd) == [at |-> place, fd |-> fd, path |-> NoPath]
Prompt == At("prompt", -1)

Init ==
  /\ nodes = << >>
  /\ root_node = NULL
  /\ fd_table = [fd \in Fds |-> Closed]
  /\ answer = Fail("none")
  /\ shell = Prompt
  /\ client = {}

(* ramfs_init: the root, a directory, and in it a file that is written     *)
(* once.  The heap is fresh.                                               *)
ramfs_init ==
  /\ root_node = NULL
  /\ nodes' = << alloc_node("/", TRUE, NULL, FALSE),
                 alloc_node(Default.dir, TRUE, 1, FALSE),
                 [alloc_node(Default.file, FALSE, 2, TRUE) EXCEPT
                    !.size = Len(Default.text),
                    !.data = [i \in 1 .. NewCap(0, Len(Default.text)) |->
                                IF i <= Len(Default.text) THEN Default.text[i] ELSE 0]] >>
  /\ root_node' = 1
  /\ UNCHANGED <<fd_table, answer, shell, client>>

----------------------------------------------------------------------------

(* The node that the chunks lead to: next_component stops after            *)
(* VFS_NAME_MAX - 1 characters and goes on with the rest of the name.      *)
Resolve(chunks) ==
  LET at[i \in 0 .. Len(chunks)] ==
        IF i = 0 THEN root_node
        ELSE IF at[i - 1] = NULL THEN NULL
        ELSE ramfs_lookup(at[i - 1], chunks[i])
  IN  at[Len(chunks)]

vfs_resolve(path) == Resolve(path.chunks)

(* resolve_parent: the name after the last slash, cut to its first chunk,  *)
(* and the node of what comes before.                                      *)
Leaf(path) == path.chunks[Len(path.chunks) - path.leaf + 1]

resolve_parent(path) ==
  IF path.abs /\ path.leaf > 0
    THEN Resolve(SubSeq(path.chunks, 1, Len(path.chunks) - path.leaf))
    ELSE NULL

(* vfs_mkdir and vfs_create_file, which ask the parent to create.          *)
CanCreate(path) ==
  /\ resolve_parent(path) # NULL
  /\ MayCreate(resolve_parent(path), Leaf(path))

Create(path, dir) ==
  /\ CanCreate(path)
  /\ ramfs_create(resolve_parent(path), Leaf(path), dir)

Make(path, dir) ==
  /\ \/ /\ Create(path, dir)
        /\ answer' = Ok("make", <<0>>)
     \/ /\ answer' = Fail("make")       \* refused, or out of memory
        /\ UNCHANGED nodes
  /\ UNCHANGED <<root_node, fd_table>>


----------------------------------------------------------------------------

(* A free descriptor is taken for a node of the given size, or there is    *)
(* none.                                                                   *)
FreeFds == {fd \in Fds : ~fd_table[fd].used}
alloc_fd == Min(FreeFds)

Opened(node, size, flags) ==
  IF FreeFds = {}
    THEN answer' = Fail("open") /\ UNCHANGED fd_table
    ELSE /\ answer' = Ok("open", <<alloc_fd>>)
         /\ fd_table' = [fd_table EXCEPT ![alloc_fd] =
              [used |-> TRUE, node |-> node,
               offset |-> IF "append" \in flags THEN size ELSE 0]]

(* The file is created before the descriptor is sought.                    *)
vfs_open(path, flags) ==
  LET node == vfs_resolve(path) IN
  /\ \/ /\ node # NULL
        /\ Opened(node, nodes[node].size, flags)
        /\ nodes' = IF "trunc" \in flags /\ FreeFds # {}
                      THEN [nodes EXCEPT ![node].size = 0]
                      ELSE nodes
     \/ /\ node = NULL
        /\ "creat" \in flags
        /\ Create(path, FALSE)
        /\ Opened(Len(nodes'), 0, flags)
     \/ /\ node = NULL                  \* not found, refused, out of memory
        /\ answer' = Fail("open")
        /\ UNCHANGED <<nodes, fd_table>>
  /\ UNCHANGED root_node

(* The offset of a closed descriptor is never read again.                  *)
vfs_close(fd) ==
  /\ \/ /\ fd_table[fd].used
        /\ fd_table' = [fd_table EXCEPT ![fd] = Closed]
        /\ answer' = Ok("close", <<0>>)
     \/ /\ ~fd_table[fd].used
        /\ answer' = Fail("close")
        /\ UNCHANGED fd_table
  /\ UNCHANGED <<nodes, root_node>>

(* The offset of fd after n bytes.                                         *)
StaysPut(fd, n) == UNCHANGED fd_table

Advance(fd, n) == fd_table' = [fd_table EXCEPT ![fd].offset = @ + n]

vfs_read(fd, size) ==
  LET entry == fd_table[fd]
      data == ramfs_read(entry.node, entry.offset, size)
  IN  /\ \/ /\ entry.used
            /\ HasPayload(entry.node)
            /\ answer' = Ok("read", data)
            /\ Advance(fd, Len(data))
         \/ /\ entry.used => ~HasPayload(entry.node)
            /\ answer' = Fail("read")
            /\ UNCHANGED fd_table
      /\ UNCHANGED <<nodes, root_node>>

vfs_write(fd, buf) ==
  LET entry == fd_table[fd]
      end == entry.offset + Len(buf)
  IN  /\ \/ /\ entry.used
            /\ HasPayload(entry.node)
            /\ end <= MaxSize
            /\ ramfs_write(entry.node, entry.offset, buf)
            /\ Advance(fd, Len(buf))
            /\ answer' = Ok("write", <<Len(buf)>>)
         \/ /\ entry.used /\ HasPayload(entry.node) => NeedsMemory(entry.node, end)
            /\ answer' = Fail("write")
            /\ UNCHANGED <<nodes, fd_table>>
      /\ UNCHANGED root_node

vfs_readdir(path, index) ==
  LET dir == vfs_resolve(path)
      child == IF dir = NULL THEN NULL ELSE ramfs_readdir(dir, index)
  IN  /\ answer' = IF child = NULL THEN Fail("list")
                   ELSE Ok("list", <<nodes[child].name, nodes[child].dir>>)
      /\ UNCHANGED <<nodes, root_node, fd_table>>

----------------------------------------------------------------------------

(* The shell's commands.  The shell waits at the prompt between them.      *)
cmd_cat(path) ==
  /\ shell = Prompt
  /\ vfs_open(path, {})
  /\ shell' = IF answer'.ok THEN At("cat", answer'.data[1]) ELSE Prompt
  /\ UNCHANGED client

CatRead ==
  /\ shell.at = "cat"
  /\ vfs_read(shell.fd, ReadSize)
  /\ shell' = [shell EXCEPT !.at = IF answer'.ok /\ answer'.data # << >> THEN @ ELSE "close"]
  /\ UNCHANGED client

cmd_write(path) ==
  /\ shell = Prompt
  /\ vfs_open(path, {"creat", "trunc"})
  /\ shell' = IF answer'.ok THEN At("text", answer'.data[1]) ELSE Prompt
  /\ UNCHANGED client

(* The results of the two writes are not looked at.                        *)
WriteText ==
  /\ shell.at = "text"
  /\ \E b \in Bytes : vfs_write(shell.fd, <<b>>)
  /\ shell' = [shell EXCEPT !.at = "newline"]
  /\ UNCHANGED client

WriteNewline ==
  /\ shell.at = "newline"
  /\ vfs_write(shell.fd, <<Newline>>)
  /\ shell' = [shell EXCEPT !.at = "close"]
  /\ UNCHANGED client

CloseKept ==
  /\ shell.at = "close"
  /\ answer' = Fail("close")
  /\ shell' = Prompt
  /\ UNCHANGED <<nodes, root_node, fd_table, client>>

ShellClose ==
  /\ shell.at = "close"
  /\ vfs_close(shell.fd)
  /\ shell' = Prompt
  /\ UNCHANGED client

(* cmd_ls lists a directory entry by entry; fd is the index.               *)
cmd_ls(path) ==
  /\ shell = Prompt
  /\ vfs_resolve(path) # NULL
  /\ nodes[vfs_resolve(path)].dir
  /\ shell' = [at |-> "ls", fd |-> 0, path |-> path]
  /\ UNCHANGED <<fsVars, client>>

LsNext ==
  /\ shell.at = "ls"
  /\ vfs_readdir(shell.path, shell.fd)
  /\ shell' = IF answer'.ok THEN [shell EXCEPT !.fd = @ + 1] ELSE Prompt
  /\ UNCHANGED client

(* cmd_mkdir, cmd_touch: one call.                                         *)
cmd_make(path, dir) ==
  /\ shell = Prompt
  /\ Make(path, dir)
  /\ UNCHANGED <<shell, client>>


ShellStep == CatRead \/ WriteText \/ WriteNewline \/ ShellClose \/ LsNext

Command ==
  /\ root_node # NULL
  /\ \E path \in Paths :
       cmd_cat(path) \/ cmd_write(path) \/ cmd_ls(path) \/ \E dir \in BOOLEAN : cmd_make(path, dir)

(* The kernel client, on any descriptor that is not the shell's.           *)
ClientOpen ==
  /\ \E path \in Paths, flags \in OpenFlags : vfs_open(path, flags)
  /\ client' = IF answer'.ok THEN client \cup {answer'.data[1]} ELSE client

ClientCall ==
  \E fd \in Fds :
    /\ fd # shell.fd \/ shell.at = "ls"
    /\ \/ vfs_close(fd) /\ client' = client \ {fd}
       \/ vfs_read(fd, ReadSize) /\ UNCHANGED client
       \/ \E b \in Bytes : vfs_write(fd, <<b>>) /\ UNCHANGED client

Client ==
  /\ root_node # NULL
  /\ ClientOpen \/ ClientCall
  /\ UNCHANGED shell

Next == ramfs_init \/ ShellStep \/ Command \/ Client

(* The shell is a task of its own, and the scheduler is round robin.       *)
Spec == Init /\ [][Next]_vars /\ WF_vars(ShellStep)

----------------------------------------------------------------------------

(* Every variable stays in its range, and a file is never longer than its  *)
(* buffer, so that no read runs past it (ramfs.c:70-86, 96-101, 110-114).  *)
TypeOK ==
  /\ root_node \in {NULL, 1}
  /\ Len(nodes) <= MaxNodes
  /\ \A n \in Nodes :
       /\ nodes[n].dir \in BOOLEAN /\ nodes[n].payload \in BOOLEAN
       /\ nodes[n].parent \in 0 .. n - 1
       /\ nodes[n].data \in Seq(Bytes \cup {0})
       /\ nodes[n].size \in 0 .. Len(nodes[n].data)
  /\ \A fd \in Fds :
       /\ fd_table[fd].offset \in 0 .. MaxSize
       /\ fd_table[fd].used => fd_table[fd].node \in Nodes
  /\ answer.ok \in BOOLEAN
  /\ shell.at \in {"prompt", "cat", "text", "newline", "close", "ls"}
  /\ client \subseteq Fds

(* A descriptor is in use exactly while a caller has it: the shell's from  *)
(* the open of cat or write to the close that ends the command, whatever   *)
(* reads and writes returned in between, so that the table never fills up  *)
(* with descriptors nobody will close (vfs.c:26-31, 130-136, 145-150;      *)
(* shell.c:273-289, 339-349).                                              *)
DescriptorsReturned ==
  {fd \in Fds : fd_table[fd].used} =
    client \cup (IF shell.at \in {"prompt", "ls"} THEN {} ELSE {shell.fd})

(* Whatever was created is found and listed under its name, no node hides  *)
(* another, and the two ways of reading a path agree: where every name     *)
(* fits, vfs_resolve arrives at the child that resolve_parent and          *)
(* ramfs_lookup name (vfs.c:39-51, 73-118; ramfs.c:118-153).               *)
CreatedIsFound ==
  /\ \A n \in Nodes \ {1} :
       LET parent == nodes[n].parent IN
         /\ ramfs_lookup(parent, nodes[n].name) = n
         /\ \E i \in 0 .. Len(nodes) : ramfs_readdir(parent, i) = n
  /\ \A path \in Paths :
       path.leaf = 1 /\ resolve_parent(path) # NULL =>
         vfs_resolve(path) = ramfs_lookup(resolve_parent(path), Leaf(path))

(* Every command of the shell comes back to the prompt: the loop of cat    *)
(* reaches the end of the file although it may be truncated and written    *)
(* meanwhile, and the loop of ls the end of the directory although nodes   *)
(* are added in front (shell.c:251-261, 285-289).                          *)
ShellReturns == shell # Prompt ~> shell = Prompt

(* The path of a node, from the root.                                      *)
PathOf[n \in Nat] ==
  IF n <= 1 THEN << >> ELSE Append(PathOf[nodes[n].parent], nodes[n].name)

Object(n) ==
  [dir |-> nodes[n].dir, size |-> nodes[n].size,
   bytes |-> [o \in 0 .. MaxSize - 1 |->
                IF o < Len(nodes[n].data) THEN nodes[n].data[o + 1] ELSE 0]]

Objects ==
  [p \in {PathOf[n] : n \in Nodes} |-> Object(CHOOSE n \in Nodes : PathOf[n] = p)]

Descriptors ==
  [fd \in Fds |-> IF fd_table[fd].used
                    THEN <<PathOf[fd_table[fd].node], fd_table[fd].offset>>
                    ELSE << >>]

F == INSTANCE Files WITH objects <- Objects, opened <- Descriptors

(* Nodes, lists and growing buffers behave as the files and descriptors    *)
(* of Files: bytes keep their place when a buffer grows, a gap reads as    *)
(* what was last written there or 0, a failed call changes nothing but     *)
(* the file that vfs_open made before it ran out of descriptors            *)
(* (vfs.c:122-171; ramfs.c:44-116).                                        *)
ImplementsFiles == F!Spec

=============================================================================
