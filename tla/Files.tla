-------------------------------- MODULE Files ---------------------------------
(* The file tree, the archive it is loaded from and the file descriptors of    *)
(* the user task: src/fs/vfs.cpp, src/fs/tmpfs.cpp, src/fs/initramfs.cpp, the  *)
(* hash map of src/klib/hashmap.hpp and allocate_fdnum of src/sched/sched.cpp. *)
EXTENDS Integers, SequencesExt

CONSTANTS
    Names,            \* names of files and directories, ".", ".." and "" too
    Hash,             \* of each name, its hash
    Archives,         \* the archives the boot loader may pass
    BlockSize,        \* bytes in a block of an archive (512 in the code)
    InitialCapacity,  \* slots of a new hash map (16 in the code)
    Paths,            \* the paths the program uses
    Offsets, Counts,  \* the offsets and lengths it uses
    Word,             \* offsets are modulo this (2^64 in the code)
    HeapLimit,        \* bytes a file's storage can have
    Unending,         \* sizes whose realloc never ends (those for which the sum
                      \* with a header is above 2^63 and rounded does not wrap)
    MaxDescriptors,   \* bound: size of the descriptor table
    MaxCalls          \* bound: system calls on descriptors

ASSUME NamesAssumption ==
    /\ {".", "..", ""} \subseteq Names /\ Hash \in [Names -> Nat]
    /\ \A path \in Paths : path.components \in Seq(Names)
ASSUME SizeAssumption ==
    /\ BlockSize \in Nat \ {0} /\ InitialCapacity \in Nat /\ InitialCapacity > 2
    /\ Word \in Nat /\ HeapLimit \in Nat /\ Word > HeapLimit
    /\ \A size \in Unending : size \in Nat /\ size > HeapLimit

(* An archive is a list of blocks: each header is the first or follows the     *)
(* data of an earlier one, and no data looks like a header.                    *)
Blocks(size) == (size + BlockSize - 1) \div BlockSize

ASSUME ArchivesAssumption ==
    \A a \in Archives :
        /\ a \in Seq(Range(a))
        /\ \A i \in DOMAIN a : a[i].magic =>
              /\ a[i].name \in Seq(Names) /\ a[i].size \in Nat
              /\ a[i].type \in {"FILE", "DIRECTORY", "other"}
              /\ a[i].name = <<".">> => a[i].type = "DIRECTORY"
              /\ i = 1 \/ \E j \in 1 .. i - 1 : a[j].magic /\ i = j + 1 + Blocks(a[j].size)
              /\ \A j \in DOMAIN a : j > i /\ j <= i + Blocks(a[i].size) => ~ a[j].magic

VARIABLES
    nodes,                 \* the tree's nodes, the root first
    archive, at,           \* the archive and the block load_into looks at
    stage,                 \* "loading", then "running"
    file_descriptors,      \* of the user task, as are the next three
    num_file_descriptors,
    first_free_fdnum,
    cwd,
    used,                  \* calls so far, for the bound
    status                 \* "ok"; "panic"; "wild" after a use of memory that is not
                           \* ours; "spins" in a realloc that never ends

vars == <<nodes, archive, at, stage, file_descriptors, num_file_descriptors,
          first_free_fdnum, cwd, used, status>>
table == <<file_descriptors, num_file_descriptors, first_free_fdnum>>
loader == <<archive, at, stage>>

-----------------------------------------------------------------------------
(* HashMap. Nothing calls erase, so a slot is empty or holds an entry.         *)
Empty == [key |-> "", value |-> 0]
NewMap(capacity) == [size |-> 0, slots |-> [i \in 1..capacity |-> Empty]]
Capacity(m) == Len(m.slots)

(* The slot that attempt i for this key looks at. *)
Slot(m, key, i) == ((Hash[key] + i) % Capacity(m)) + 1
Attempts(m) == 0 .. (Capacity(m) - 1)
First(S) == CHOOSE i \in S : \A j \in S : i <= j

load_percentage(m) == (m.size * 100) \div Capacity(m)

(* The loop of insert: nothing happens when no slot is empty. *)
Place(m, key, value) ==
    LET free == {i \in Attempts(m) : m.slots[Slot(m, key, i)] = Empty}
    IN  IF free = {} THEN m
        ELSE [m EXCEPT !.slots[Slot(m, key, First(free))] = [key |-> key, value |-> value]]

(* A new map of twice the slots, into which the old entries are inserted, slot *)
(* by slot. The inserts count, and fill half of it at most, so that they do    *)
(* not grow it.                                                                *)
Reinsert(new, e) ==
    IF e = Empty THEN new ELSE Place([new EXCEPT !.size = @ + 1], e.key, e.value)

growDropsLast(m) ==
    LET new[i \in 0 .. Capacity(m)] ==
          IF i = 0 THEN NewMap(2 * Capacity(m)) ELSE Reinsert(new[i - 1], m.slots[i])
    IN  new[Capacity(m) - 1]

grow(m) ==
    LET new[i \in 0 .. Capacity(m)] ==
          IF i = 0 THEN NewMap(2 * Capacity(m)) ELSE Reinsert(new[i - 1], m.slots[i])
    IN  new[Capacity(m)]

insert(m, key, value) ==
    LET counted == [m EXCEPT !.size = @ + 1]
    IN  Place(IF load_percentage(counted) >= 75 THEN grow(counted) ELSE counted, key, value)

(* The value under this key, or 0. *)
get(m, key) ==
    LET hits == {i \in Attempts(m) : /\ m.slots[Slot(m, key, i)] # Empty
                                     /\ m.slots[Slot(m, key, i)].key = key}
    IN  IF hits = {} THEN 0 ELSE m.slots[Slot(m, key, First(hits))].value

-----------------------------------------------------------------------------
(* Nodes are numbered in the order they are made; 0 is the null pointer. The   *)
(* constructor does not set `redirect`: Junk is what reused memory holds.      *)
Null == 0
Junk == -1
Node(type, parent, name, redirect) ==
    [type |-> type, parent |-> parent, name |-> name, redirect |-> redirect,
     children |-> NewMap(InitialCapacity), data |-> << >>]

Root == 1
Directories == {n \in DOMAIN nodes : nodes[n].type = "DIRECTORY"}

(* A directory with its dot entries, which are the next two nodes. *)
create_dotentries(n, node) ==
    << [node EXCEPT !.children = insert(insert(@, ".", n + 1), "..", n + 2)],
       Node("NONE", n, ".", n),
       Node("NONE", n, "..", IF node.parent = Null THEN n ELSE node.parent) >>

(* tmpfs::create. *)
create(ns, parent, name, type, redirect) ==
    LET n == Len(ns) + 1
        node == Node(type, parent, name, redirect)
    IN  [i \in 1 .. n - 1 |-> IF i = parent THEN [ns[i] EXCEPT !.children = insert(@, name, n)]
                              ELSE ns[i]]
          \o (IF type = "FILE" THEN <<node>> ELSE create_dotentries(n, node))

(* A dot entry redirects to a directory, which should redirect nowhere. *)
reduce_node(n) ==
    LET target == IF nodes[n].type = "NONE" THEN nodes[n].redirect ELSE n
    IN  IF nodes[target].redirect = Junk THEN Junk ELSE target

(* path_to_node. A path is its components, without the slash that begins an    *)
(* absolute one or one that ends it: "/" is <<"">>, "a//b" is <<"a", "", "b">>.*)
Result(parent, target, basename) ==
    [target_parent |-> parent, target |-> target, basename |-> basename]
NoBasename == "none"
Failed == Result(Null, Null, NoBasename)

Follow(last, name) ==
    LET next == get(nodes[last.target].children, name)
    IN  IF last.target \in {Null, Junk} THEN last
        ELSE IF nodes[last.target].type # "DIRECTORY" THEN Failed
        ELSE Result(last.target, IF next = Null THEN Null ELSE reduce_node(next), name)

path_to_node(components, starting_point) ==
    LET result[k \in 0 .. Len(components)] ==
          IF k = 0 THEN Result(Null, starting_point, NoBasename)
          ELSE Follow(result[k - 1], components[k])
    IN  IF components = << >> THEN Failed ELSE result[Len(components)]

-----------------------------------------------------------------------------
(* tmpfs. Storage that realloc adds and no write has filled holds anything.    *)
Unwritten == "?"

Extended(data, size) == [i \in 1 .. size |-> IF i <= Len(data) THEN data[i] ELSE Unwritten]

Sum(offset, count) == (offset + count) % Word

(* A write of a file's bytes, or no bytes when realloc never ends or the copy  *)
(* is outside of the storage: realloc has failed, or the sum has wrapped, or   *)
(* it is so near to Word that realloc's own sum wraps to a block too small.    *)
Outside == <<"outside">>
Endless == <<"endless">>
write(data, bytes, offset) ==
    LET end == Sum(offset, Len(bytes))
        storage == IF end > Len(data) /\ end <= HeapLimit THEN Extended(data, end) ELSE data
    IN  IF end > Len(data) /\ end \in Unending THEN Endless
        ELSE IF offset + Len(bytes) > Len(storage) THEN Outside
        ELSE [i \in DOMAIN storage |->
                IF i \in offset + 1 .. offset + Len(bytes) THEN bytes[i - offset] ELSE storage[i]]

(* What becomes of the kernel with such a write. *)
After(data) == IF data = Outside THEN "wild" ELSE IF data = Endless THEN "spins" ELSE "ok"

(* A read whose end wraps around is not cut short. *)
readOutside(data, count, offset) == offset < Len(data) /\ Sum(offset, count) <= Len(data)
                                      /\ offset + count > Len(data)

-----------------------------------------------------------------------------
(* vfs::init makes the root; new_user_task the three descriptors without node. *)
NoDescriptor == [node |-> -1, cursor |-> 0]
NoNodeDescriptor == [node |-> Null, cursor |-> 0]

Init ==
    /\ \E redirect \in {Null, Junk} : nodes = create(<< >>, Null, "", "DIRECTORY", redirect)
    /\ archive \in Archives
    /\ at = 1
    /\ stage = "loading"
    /\ file_descriptors = <<NoNodeDescriptor, NoNodeDescriptor, NoNodeDescriptor>>
    /\ num_file_descriptors = 3
    /\ first_free_fdnum = 3
    /\ cwd = Root
    /\ used = 0
    /\ status = "ok"

(* One round of load_into's loop. *)
Header == archive[at]
IsHeader == at <= Len(archive) /\ Header.magic

next_header_unpadded == at + 1 + (Header.size \div BlockSize)

next_header == at + 1 + Blocks(Header.size)

JunkNodes == {n \in DOMAIN nodes : nodes[n].redirect = Junk}

load_into ==
    LET result == path_to_node(Header.name, Root)
        data == write(<< >>, [i \in 1 .. Header.size |-> Header.byte], 0)
    IN  /\ stage = "loading" /\ status = "ok" /\ IsHeader
        /\ IF Header.name = <<".">>
           THEN UNCHANGED <<nodes, status>>
           ELSE IF result.target = Junk
           THEN status' = "wild" /\ UNCHANGED nodes
           ELSE IF result.target # Null \/ result.basename = NoBasename \/ Header.type = "other"
           THEN status' = "panic" /\ UNCHANGED nodes
           ELSE IF Header.type = "FILE" /\ After(data) # "ok"
           THEN status' = After(data) /\ UNCHANGED nodes
           ELSE /\ \E redirect \in {Null, Junk} :
                     /\ redirect = Junk => JunkNodes = {}
                     /\ LET ns == create(nodes, result.target_parent, result.basename,
                                         Header.type, redirect)
                        IN  nodes' = IF Header.type = "FILE"
                                     THEN [ns EXCEPT ![Len(ns)].data = data] ELSE ns
                /\ UNCHANGED status
        /\ at' = next_header
        /\ UNCHANGED <<archive, stage, table, cwd, used>>

(* kernel_thread goes on to start the program. *)
Loaded ==
    /\ stage = "loading" /\ status = "ok" /\ ~ IsHeader
    /\ stage' = "running"
    /\ UNCHANGED <<nodes, archive, at, table, cwd, used, status>>

-----------------------------------------------------------------------------
(* System calls. Descriptor fd is element fd + 1 of the table. *)
Running == stage = "running" /\ status = "ok"
Descriptors == -1 .. Len(file_descriptors)
Valid(fd) == fd >= 0 /\ fd < Len(file_descriptors)
descriptor(fd) == file_descriptors[fd + 1]
IsOpen(fd) == Valid(fd) /\ descriptor(fd) # NoDescriptor

Counted == used < MaxCalls /\ used' = used + 1
Fails(how) == status' = how /\ UNCHANGED <<nodes, loader, table, cwd, used>>

(* Where relative paths start, for open and openat. *)
AT_FDCWD == -100
start(path, dirfd) ==
    IF path.absolute THEN Root ELSE IF dirfd = AT_FDCWD THEN cwd ELSE descriptor(dirfd).node

(* allocate_fdnum: the first free number from the hint on. *)
allocate_fdnum_hinted == first_free_fdnum

allocate_fdnum ==
    First({Len(file_descriptors)} \cup
          {i \in first_free_fdnum .. (Len(file_descriptors) - 1) : descriptor(i) = NoDescriptor})

openat(dirfd, path) ==
    LET relative == ~ path.absolute /\ dirfd # AT_FDCWD
        target == path_to_node(path.components, start(path, dirfd)).target
    IN  /\ Running
        /\ relative => IsOpen(dirfd)
        /\ IF relative /\ descriptor(dirfd).node = Null THEN Fails("panic")
           ELSE /\ relative => nodes[descriptor(dirfd).node].type = "DIRECTORY"
                /\ target # Null
                /\ IF target = Junk THEN Fails("wild")
                   ELSE /\ allocate_fdnum < MaxDescriptors /\ Counted
                        /\ file_descriptors' =
                             [i \in 1 .. (IF allocate_fdnum = Len(file_descriptors)
                                          THEN allocate_fdnum + 1 ELSE Len(file_descriptors)) |->
                                IF i = allocate_fdnum + 1 THEN [node |-> target, cursor |-> 0]
                                ELSE file_descriptors[i]]
                        /\ num_file_descriptors' = num_file_descriptors + 1
                        /\ first_free_fdnum' = allocate_fdnum
                        /\ UNCHANGED <<nodes, loader, cwd, status>>

closeUncounted(fd) ==
    /\ Running /\ IsOpen(fd) /\ Counted
    /\ file_descriptors' = [file_descriptors EXCEPT ![fd + 1] = NoDescriptor]
    /\ first_free_fdnum' = fd
    /\ UNCHANGED <<nodes, loader, num_file_descriptors, cwd, status>>

close(fd) ==
    /\ Running /\ IsOpen(fd) /\ Counted
    /\ file_descriptors' = [file_descriptors EXCEPT ![fd + 1] = NoDescriptor]
    /\ num_file_descriptors' = num_file_descriptors - 1
    /\ first_free_fdnum' = fd
    /\ UNCHANGED <<nodes, loader, cwd, status>>

(* read, pread, write and pwrite on a descriptor: the node's file system is    *)
(* looked up first. A directory has no bytes, but its cursor moves too.        *)
MoveCursor(fd, cursor) ==
    file_descriptors' = [file_descriptors EXCEPT ![fd + 1].cursor = cursor]

ReadAt(fd, count, offset, cursor) ==
    LET node == descriptor(fd).node
    IN  /\ Running /\ IsOpen(fd)
        /\ IF node = Null THEN Fails("panic")
           ELSE IF nodes[node].type = "FILE" /\ readOutside(nodes[node].data, count, offset)
           THEN Fails("wild")
           ELSE /\ Counted
                /\ MoveCursor(fd, cursor)
                /\ UNCHANGED <<nodes, loader, num_file_descriptors, first_free_fdnum, cwd, status>>

WriteAt(fd, bytes, offset, cursor) ==
    LET node == descriptor(fd).node
        data == write(nodes[node].data, bytes, offset)
    IN  /\ Running /\ IsOpen(fd)
        /\ IF node = Null THEN Fails("panic")
           ELSE IF nodes[node].type = "FILE" /\ After(data) # "ok" THEN Fails(After(data))
           ELSE /\ Counted
                /\ MoveCursor(fd, cursor)
                /\ nodes' = IF nodes[node].type = "FILE" THEN [nodes EXCEPT ![node].data = data]
                            ELSE nodes
                /\ UNCHANGED <<loader, num_file_descriptors, first_free_fdnum, cwd, status>>

(* Descriptor 0 reads the keyboard and 1 writes the console, open or not. *)
read(fd, count) ==
    fd # 0 /\ ReadAt(fd, count, descriptor(fd).cursor, Sum(descriptor(fd).cursor, count))
pread(fd, count, offset) == ReadAt(fd, count, offset, descriptor(fd).cursor)
write_fd(fd, bytes) ==
    fd # 1 /\ WriteAt(fd, bytes, descriptor(fd).cursor, Sum(descriptor(fd).cursor, Len(bytes)))
pwrite(fd, bytes, offset) == WriteAt(fd, bytes, offset, descriptor(fd).cursor)

seek(fd, offset) ==
    /\ Running /\ IsOpen(fd) /\ Counted
    /\ MoveCursor(fd, offset)
    /\ UNCHANGED <<nodes, loader, num_file_descriptors, first_free_fdnum, cwd, status>>

chdir(path) ==
    LET target == path_to_node(path.components, start(path, AT_FDCWD)).target
    IN  /\ Running /\ target # Null
        /\ IF target = Junk THEN Fails("wild")
           ELSE /\ nodes[target].type = "DIRECTORY"
                /\ cwd' = target
                /\ UNCHANGED <<nodes, loader, table, used, status>>

(* The components that getcwd writes, each after a slash. *)
getcwdWithRoot ==
    LET above[n \in DOMAIN nodes] ==
          IF nodes[n].parent = Null THEN <<nodes[n].name>>
          ELSE Append(above[nodes[n].parent], nodes[n].name)
    IN  above[cwd]

getcwd ==
    LET above[n \in DOMAIN nodes] ==
          IF nodes[n].parent = Null \/ nodes[nodes[n].parent].parent = Null
          THEN <<nodes[n].name>>
          ELSE Append(above[nodes[n].parent], nodes[n].name)
    IN  above[cwd]

Bytes == UNION {[1 .. count -> {"w"}] : count \in Counts}

Next ==
    \/ load_into \/ Loaded
    \/ \E path \in Paths, dirfd \in Descriptors \cup {AT_FDCWD} : openat(dirfd, path)
    \/ \E path \in Paths : chdir(path)
    \/ \E fd \in Descriptors :
         \/ close(fd)
         \/ \E count \in Counts : read(fd, count)
         \/ \E count \in Counts, offset \in Offsets : pread(fd, count, offset)
         \/ \E bytes \in Bytes : write_fd(fd, bytes)
         \/ \E bytes \in Bytes, offset \in Offsets : pwrite(fd, bytes, offset)
         \/ \E offset \in Offsets : seek(fd, offset)

Spec == Init /\ [][Next]_vars

-----------------------------------------------------------------------------
(* Properties *)

(* What a path means, from the nodes' parents and names and not from the maps. *)
Child(ns, n, name) ==
    IF name = "." THEN n
    ELSE IF name = ".." THEN (IF n = Root THEN Root ELSE ns[n].parent)
    ELSE LET found == {c \in DOMAIN ns : /\ ns[c].type # "NONE"
                                         /\ ns[c].parent = n /\ ns[c].name = name}
         IN  IF found = {} THEN Null ELSE CHOOSE c \in found : TRUE

Below(ns, n, name) ==
    IF n \in DOMAIN ns /\ ns[n].type = "DIRECTORY" THEN Child(ns, n, name) ELSE Null

Meaning(ns, n, components) ==
    LET m[k \in 0 .. Len(components)] ==
          IF k = 0 THEN n ELSE Below(ns, m[k - 1], components[k])
    IN  m[Len(components)]

(* However the hash maps grow and their keys collide, path_to_node finds every *)
(* node that was created and nothing else, from every directory, through "."   *)
(* and ".." and over names that are missing or are files.                      *)
LookupIsResolve ==
    JunkNodes = {} =>
        \A d \in Directories, components \in {<<n>> : n \in Names} \cup (Names \X Names) :
            path_to_node(components, d).target = Meaning(nodes, d, components)

(* An archive that lists directories before what is in them is loaded whole:   *)
(* no header is taken for data or skipped, and each file has its bytes, until  *)
(* the program writes it.                                                      *)
Headers == {i \in DOMAIN archive : archive[i].magic}
ParentsFirst ==
    \A i \in Headers : LET name == archive[i].name
                       IN  \/ Len(name) = 1
                           \/ Len(name) = 2 /\ name[1] = "."
                           \/ \E j \in Headers : /\ j < i /\ archive[j].type = "DIRECTORY"
                                                 /\ archive[j].name = Front(name)

ArchiveLoaded ==
    stage = "running" /\ used = 0 /\ status = "ok" /\ ParentsFirst =>
        \A i \in Headers :
            LET n == Meaning(nodes, Root, archive[i].name)
            IN  /\ n # Null /\ nodes[n].type = archive[i].type
                /\ archive[i].type = "FILE" =>
                     nodes[n].data = [b \in 1 .. archive[i].size |-> archive[i].byte]

OpenSlots == {i \in DOMAIN file_descriptors : file_descriptors[i] # NoDescriptor}

(* "the actual number": the count kept beside the table of descriptors is the  *)
(* number of those that are open.                                              *)
CountIsActual == num_file_descriptors = Cardinality(OpenSlots)

(* The path that getcwd writes leads back to the working directory. (The one   *)
(* it writes for the root, "/", leads nowhere: the root has no entry "".)      *)
CwdSpelled ==
    cwd # Root /\ JunkNodes = {} => path_to_node(getcwd, Root).target = cwd

(* The hint that allocate_fdnum starts from goes up and down with open and     *)
(* close, yet an open descriptor is never given to another file.               *)
DescriptorsKeepFile ==
    [][\A i \in DOMAIN file_descriptors :
          file_descriptors[i] # NoDescriptor =>
              file_descriptors'[i] = NoDescriptor \/ file_descriptors'[i].node = file_descriptors[i].node]_vars
=============================================================================
