---------------------------- MODULE Files_proofs ----------------------------
(* The table of file descriptors: the count beside it is right, and an open    *)
(* descriptor keeps its file. The hash maps: they hold what was inserted,      *)
(* however they grow. The tree: path_to_node finds what a path means, the      *)
(* archive is loaded whole, and getcwd writes a path that leads back.          *)
EXTENDS Files, FiniteSetTheorems, SequenceTheorems, NaturalsInduction,
        WellFoundedInduction, TLAPS

-----------------------------------------------------------------------------
(* A set of numbers has a least one. *)
LEMMA Least ==
    ASSUME NEW S \in SUBSET Nat, S # {}
    PROVE  \E x \in S : \A y \in S : x <= y
<1> DEFINE R == OpToRel(<, Nat)
<1>1. IsWellFoundedOn(R, Nat)
  BY NatLessThanWellFounded
<1>2. \A x, y \in Nat : <<x, y>> \in R <=> x < y
  BY DEF OpToRel
<1> HIDE DEF R
<1>3. PICK x \in S : \A y \in S : ~ (<<y, x>> \in R)
  BY <1>1, WFMin
<1>4. x \in Nat /\ \A y \in S : y \in Nat
  OBVIOUS
<1>5. \A y \in S : ~ (y < x)
  BY <1>2, <1>3, <1>4
<1>6. \A y \in S : x <= y
  BY <1>4, <1>5
<1> QED
  BY <1>6

(* Induction: a set of numbers with 0 and every successor has them all. *)
LEMMA Induct ==
    ASSUME NEW T, 0 \in T, \A k \in Nat : k \in T => k + 1 \in T
    PROVE  Nat \subseteq T
<1> DEFINE U == {k \in Nat : k \notin T}
<1> SUFFICES ASSUME U # {} PROVE FALSE
  OBVIOUS
<1>1. PICK x \in U : \A y \in U : x <= y
  BY Least
<1>2. x \in Nat /\ x # 0 /\ x - 1 \in Nat /\ x - 1 \notin U
  BY <1>1
<1>3. (x - 1) \in T /\ (x - 1) + 1 = x
  BY <1>2
<1> QED BY <1>1, <1>2, <1>3

LEMMA InductTo ==
    ASSUME NEW n \in Nat, NEW K, 0 \in K, \A k \in Nat : k < n /\ k \in K => k + 1 \in K
    PROVE  n \in K
<1> DEFINE T == {k \in Nat : k <= n => k \in K}
<1>1. 0 \in T
  OBVIOUS
<1>2. ASSUME NEW k \in Nat, k \in T PROVE k + 1 \in T
  BY <1>2
<1> HIDE DEF T
<1>3. n \in T
  BY <1>1, <1>2, Induct
<1> QED BY <1>3 DEF T

(* A function on the first numbers is a sequence of its values. *)
LEMMA FunctionIsSeq ==
    ASSUME NEW n \in Nat, NEW f, f = [i \in 1 .. n |-> f[i]]
    PROVE  f \in Seq(Range(f)) /\ Len(f) = n /\ DOMAIN f = 1 .. n
<1>1. DOMAIN f = 1 .. n
  OBVIOUS
<1>2. \A i \in 1 .. n : f[i] \in Range(f)
  BY <1>1 DEF Range
<1>3. f \in [1 .. n -> Range(f)]
  BY <1>2
<1>4. f \in Seq(Range(f))
  BY <1>3, SeqDef
<1> HIDE DEF Range
<1>5. DOMAIN f = 1 .. Len(f) /\ Len(f) \in Nat
  BY <1>4, LenProperties
<1>6. Len(f) = n
  BY <1>1, <1>5
<1> QED BY <1>1, <1>4, <1>6

(* The first of a set of numbers is one of them. *)
LEMMA FirstIsIn ==
    ASSUME NEW S \in SUBSET Nat, S # {}
    PROVE  First(S) \in S
<1>1. PICK x \in S : \A y \in S : x <= y
  BY Least
<1> QED BY <1>1 DEF First

-----------------------------------------------------------------------------
(* The table of descriptors. *)

(* A descriptor is a pair whose node is not the mark of a free slot: otherwise *)
(* moving its cursor could make it look free, or a free slot look open.        *)
Sound(d) ==
    \/ d = NoDescriptor
    \/ d.node # NoDescriptor.node /\ d = [node |-> d.node, cursor |-> d.cursor]

TableInv ==
    /\ file_descriptors \in Seq(Range(file_descriptors))
    /\ first_free_fdnum \in Nat
    /\ \A i \in DOMAIN file_descriptors : Sound(file_descriptors[i])
    /\ CountIsActual

(* What a step may do to an open descriptor: close it or move its cursor.      *)
Keeps ==
    \A i \in DOMAIN file_descriptors :
        file_descriptors[i] # NoDescriptor =>
            file_descriptors'[i] = NoDescriptor \/ file_descriptors'[i].node = file_descriptors[i].node

LEMMA TableShape ==
    ASSUME TableInv
    PROVE  /\ Len(file_descriptors) \in Nat
           /\ DOMAIN file_descriptors = 1 .. Len(file_descriptors)
           /\ file_descriptors = [i \in 1 .. Len(file_descriptors) |-> file_descriptors[i]]
           /\ IsFiniteSet(OpenSlots) /\ Cardinality(OpenSlots) \in Nat
           /\ OpenSlots \subseteq DOMAIN file_descriptors
<1> USE DEF TableInv
<1>1. /\ Len(file_descriptors) \in Nat
      /\ DOMAIN file_descriptors = 1 .. Len(file_descriptors)
      /\ file_descriptors \in [1 .. Len(file_descriptors) -> Range(file_descriptors)]
  BY LenProperties
<1>2. OpenSlots \in SUBSET (1 .. Len(file_descriptors))
  BY <1>1 DEF OpenSlots
<1>3. IsFiniteSet(1 .. Len(file_descriptors))
  BY <1>1, FS_Interval
<1>4. IsFiniteSet(OpenSlots) /\ Cardinality(OpenSlots) \in Nat
  BY <1>2, <1>3, FS_Subset, FS_CardinalityType
<1> QED BY <1>1, <1>2, <1>4

(* allocate_fdnum gives the end of the table or a free slot, whatever the hint. *)
LEMMA AllocatedIsFree ==
    ASSUME TableInv
    PROVE  /\ allocate_fdnum \in Nat /\ allocate_fdnum <= Len(file_descriptors)
           /\ \/ allocate_fdnum = Len(file_descriptors)
              \/ descriptor(allocate_fdnum) = NoDescriptor
<1> DEFINE n == Len(file_descriptors)
           S == {n} \cup {i \in first_free_fdnum .. (n - 1) : descriptor(i) = NoDescriptor}
<1>1. n \in Nat /\ first_free_fdnum \in Nat
  BY TableShape DEF TableInv
<1> HIDE DEF n
<1>2. S \in SUBSET Nat /\ S # {}
  BY <1>1
<1>3. \A i \in S : i <= n /\ (i = n \/ descriptor(i) = NoDescriptor)
  BY <1>1
<1>4. allocate_fdnum = First(S)
  BY DEF allocate_fdnum, n
<1> HIDE DEF S
<1>5. allocate_fdnum \in S
  BY <1>2, <1>4, FirstIsIn
<1> QED BY <1>2, <1>3, <1>5 DEF n

-----------------------------------------------------------------------------
(* What the calls do to the table. *)

Opened(target) ==
    /\ target # Junk
    /\ file_descriptors' =
         [i \in 1 .. (IF allocate_fdnum = Len(file_descriptors)
                      THEN allocate_fdnum + 1 ELSE Len(file_descriptors)) |->
            IF i = allocate_fdnum + 1 THEN [node |-> target, cursor |-> 0]
            ELSE file_descriptors[i]]
    /\ num_file_descriptors' = num_file_descriptors + 1
    /\ first_free_fdnum' = allocate_fdnum

Closed(fd) ==
    /\ IsOpen(fd)
    /\ file_descriptors' = [file_descriptors EXCEPT ![fd + 1] = NoDescriptor]
    /\ num_file_descriptors' = num_file_descriptors - 1
    /\ first_free_fdnum' = fd

Moved(fd, cursor) ==
    /\ IsOpen(fd)
    /\ MoveCursor(fd, cursor)
    /\ UNCHANGED <<num_file_descriptors, first_free_fdnum>>

LEMMA OpenStep ==
    ASSUME TableInv, NEW target, Opened(target)
    PROVE  TableInv' /\ Keeps
<1> DEFINE n == Len(file_descriptors)
           k == allocate_fdnum
           m == IF k = n THEN k + 1 ELSE n
           new == [node |-> target, cursor |-> 0]
<1>1. /\ k \in Nat /\ n \in Nat /\ k <= n /\ DOMAIN file_descriptors = 1 .. n
      /\ k < n => file_descriptors[k + 1] = NoDescriptor
  BY TableShape, AllocatedIsFree DEF descriptor
<1>2. file_descriptors' = [i \in 1 .. m |-> IF i = k + 1 THEN new ELSE file_descriptors[i]]
  BY DEF Opened
<1>3. /\ num_file_descriptors' = num_file_descriptors + 1
      /\ first_free_fdnum' = k /\ target # Junk
  BY DEF Opened
<1> HIDE DEF n, k
<1>4. m \in Nat /\ 1 .. m = (1 .. n) \cup {k + 1} /\ (k < n => k + 1 \in 1 .. n)
  BY <1>1
<1>5. new # NoDescriptor /\ Sound(new)
  <2>1. new.node = target /\ new.cursor = 0
    OBVIOUS
  <2>2. NoDescriptor.node = Junk
    BY DEF NoDescriptor, Junk
  <2>3. new.node # NoDescriptor.node
    BY <1>3, <2>1, <2>2
  <2> QED BY <2>1, <2>3 DEF Sound
<1> HIDE DEF m, new
<1>6. file_descriptors' \in Seq(Range(file_descriptors')) /\ DOMAIN file_descriptors' = 1 .. m
  <2>1. file_descriptors' = [i \in 1 .. m |-> file_descriptors'[i]]
    BY <1>2
  <2> QED BY <1>4, <2>1, FunctionIsSeq
<1>7. /\ file_descriptors'[k + 1] = new
      /\ \A i \in 1 .. n : i # k + 1 => file_descriptors'[i] = file_descriptors[i]
  BY <1>2, <1>4
<1>8. k + 1 \notin OpenSlots
  BY <1>1 DEF OpenSlots
<1>9. OpenSlots' = OpenSlots \cup {k + 1}
  BY <1>1, <1>4, <1>5, <1>6, <1>7, <1>8 DEF OpenSlots, NoDescriptor
<1>10. Cardinality(OpenSlots') = Cardinality(OpenSlots) + 1
  BY <1>8, <1>9, TableShape, FS_AddElement
<1>11. CountIsActual'
  BY <1>3, <1>10 DEF CountIsActual, TableInv
<1>12. \A i \in DOMAIN file_descriptors' : Sound(file_descriptors'[i])
  BY <1>1, <1>4, <1>5, <1>6, <1>7 DEF TableInv
<1>13. TableInv'
  <2>1. \A i \in DOMAIN file_descriptors' : Sound(file_descriptors[i])'
    BY <1>12 DEF Sound, NoDescriptor
  <2> QED BY <1>1, <1>3, <1>6, <1>11, <2>1 DEF TableInv
<1>14. Keeps
  <2>1. \A i \in 1 .. n : i = k + 1 => file_descriptors[i] = NoDescriptor
    BY <1>1
  <2> QED BY <1>1, <1>7, <2>1 DEF Keeps
<1> QED BY <1>13, <1>14

LEMMA CloseStep ==
    ASSUME TableInv, NEW fd \in Int, Closed(fd)
    PROVE  TableInv' /\ Keeps
<1> DEFINE n == Len(file_descriptors)
<1>1. /\ n \in Nat /\ DOMAIN file_descriptors = 1 .. n
      /\ file_descriptors = [i \in 1 .. n |-> file_descriptors[i]]
  BY TableShape
<1>2. fd \in Nat /\ fd + 1 \in 1 .. n /\ file_descriptors[fd + 1] # NoDescriptor
  BY <1>1 DEF Closed, IsOpen, Valid, descriptor
<1>3. /\ file_descriptors' = [file_descriptors EXCEPT ![fd + 1] = NoDescriptor]
      /\ num_file_descriptors' = num_file_descriptors - 1 /\ first_free_fdnum' = fd
  BY DEF Closed
<1> HIDE DEF n
<1>4. /\ file_descriptors' = [i \in 1 .. n |-> file_descriptors'[i]]
      /\ file_descriptors'[fd + 1] = NoDescriptor
      /\ \A i \in 1 .. n : i # fd + 1 => file_descriptors'[i] = file_descriptors[i]
  BY <1>1, <1>2, <1>3
<1>5. file_descriptors' \in Seq(Range(file_descriptors')) /\ DOMAIN file_descriptors' = 1 .. n
  BY <1>1, <1>4, FunctionIsSeq
<1>6. fd + 1 \in OpenSlots /\ OpenSlots' = OpenSlots \ {fd + 1}
  BY <1>1, <1>2, <1>4, <1>5 DEF OpenSlots, NoDescriptor
<1>7. Cardinality(OpenSlots') = Cardinality(OpenSlots) - 1
  BY <1>6, TableShape, FS_RemoveElement
<1>8. CountIsActual'
  BY <1>3, <1>7 DEF CountIsActual, TableInv
<1>9. \A i \in DOMAIN file_descriptors' : Sound(file_descriptors[i])'
  BY <1>1, <1>4, <1>5 DEF TableInv, Sound, NoDescriptor
<1>10. TableInv'
  BY <1>2, <1>3, <1>5, <1>8, <1>9 DEF TableInv
<1>11. Keeps
  BY <1>1, <1>4 DEF Keeps
<1> QED BY <1>10, <1>11

LEMMA MoveStep ==
    ASSUME TableInv, NEW fd \in Int, NEW cursor, Moved(fd, cursor)
    PROVE  TableInv' /\ Keeps
<1> DEFINE n == Len(file_descriptors)
           old == file_descriptors[fd + 1]
           new == [node |-> old.node, cursor |-> cursor]
<1>1. /\ n \in Nat /\ DOMAIN file_descriptors = 1 .. n
      /\ file_descriptors = [i \in 1 .. n |-> file_descriptors[i]]
  BY TableShape
<1>2. fd + 1 \in 1 .. n /\ old # NoDescriptor
  BY <1>1 DEF Moved, IsOpen, Valid, descriptor
<1>3. old.node # NoDescriptor.node /\ old = [node |-> old.node, cursor |-> old.cursor]
  BY <1>1, <1>2 DEF TableInv, Sound
<1>4. /\ file_descriptors' = [file_descriptors EXCEPT ![fd + 1] = new]
      /\ UNCHANGED <<num_file_descriptors, first_free_fdnum>>
  <2>1. file_descriptors' = [file_descriptors EXCEPT ![fd + 1] = [old EXCEPT !.cursor = cursor]]
    BY DEF Moved, MoveCursor
  <2>2. [old EXCEPT !.cursor = cursor] = new
    BY <1>3
  <2> QED BY <2>1, <2>2 DEF Moved
<1>5. new.node = old.node /\ new # NoDescriptor /\ Sound(new)
  <2>1. new.node = old.node /\ new.cursor = cursor
    OBVIOUS
  <2>2. new # NoDescriptor
    BY <1>3, <2>1
  <2> QED BY <1>3, <2>1, <2>2 DEF Sound
<1> HIDE DEF n, old, new
<1>6. /\ file_descriptors' = [i \in 1 .. n |-> file_descriptors'[i]]
      /\ file_descriptors'[fd + 1] = new
      /\ \A i \in 1 .. n : i # fd + 1 => file_descriptors'[i] = file_descriptors[i]
  BY <1>1, <1>2, <1>4
<1>7. file_descriptors' \in Seq(Range(file_descriptors')) /\ DOMAIN file_descriptors' = 1 .. n
  BY <1>1, <1>6, FunctionIsSeq
<1>8. OpenSlots' = OpenSlots
  BY <1>1, <1>2, <1>5, <1>6, <1>7 DEF OpenSlots, NoDescriptor, old
<1>9. \A i \in DOMAIN file_descriptors' : Sound(file_descriptors'[i])
  BY <1>1, <1>5, <1>6, <1>7 DEF TableInv
<1>10. TableInv'
  <2>1. \A i \in DOMAIN file_descriptors' : Sound(file_descriptors[i])'
    BY <1>9 DEF Sound, NoDescriptor
  <2>2. CountIsActual'
    BY <1>4, <1>8 DEF CountIsActual, TableInv
  <2> QED BY <1>4, <1>7, <2>1, <2>2 DEF TableInv
<1>11. Keeps
  BY <1>1, <1>5, <1>6 DEF Keeps, old
<1> QED BY <1>10, <1>11

LEMMA SameTable ==
    ASSUME TableInv, UNCHANGED table
    PROVE  TableInv' /\ Keeps
<1>1. UNCHANGED <<file_descriptors, num_file_descriptors, first_free_fdnum>>
  BY DEF table
<1>2. OpenSlots' = OpenSlots
  BY <1>1 DEF OpenSlots, NoDescriptor
<1>3. \A i \in DOMAIN file_descriptors' : Sound(file_descriptors[i])'
  BY <1>1 DEF TableInv, Sound, NoDescriptor
<1>4. TableInv'
  BY <1>1, <1>2, <1>3 DEF TableInv, CountIsActual
<1>5. Keeps
  BY <1>1 DEF Keeps
<1> QED BY <1>4, <1>5

-----------------------------------------------------------------------------
(* Each call fails, leaves the table alone, or does one of these to it.        *)

LEMMA ReadOrWrite ==
    ASSUME TableInv, NEW fd \in Int, NEW offset, NEW cursor,
           \/ \E count : ReadAt(fd, count, offset, cursor)
           \/ \E bytes : WriteAt(fd, bytes, offset, cursor)
    PROVE  TableInv' /\ Keeps
<1>1. Moved(fd, cursor) \/ UNCHANGED table
  <2>1. ASSUME NEW count, ReadAt(fd, count, offset, cursor)
        PROVE  Moved(fd, cursor) \/ UNCHANGED table
    BY <2>1, Zenon DEF ReadAt, Fails, Moved
  <2>2. ASSUME NEW bytes, WriteAt(fd, bytes, offset, cursor)
        PROVE  Moved(fd, cursor) \/ UNCHANGED table
    BY <2>2, Zenon DEF WriteAt, Fails, Moved
  <2> QED BY <2>1, <2>2
<1> QED BY <1>1, MoveStep, SameTable

LEMMA TableStep ==
    ASSUME TableInv, [Next]_vars
    PROVE  TableInv' /\ Keeps
<1>1. CASE UNCHANGED vars \/ load_into \/ Loaded \/ \E path \in Paths : chdir(path)
  <2>1. UNCHANGED table
    BY <1>1, Zenon DEF vars, table, load_into, Loaded, chdir, Fails
  <2> QED BY <2>1, SameTable
<1>2. ASSUME NEW path \in Paths, NEW dirfd \in Descriptors \cup {AT_FDCWD}, openat(dirfd, path)
      PROVE  TableInv' /\ Keeps
  <2> DEFINE target == path_to_node(path.components, start(path, dirfd)).target
  <2>1. Opened(target) \/ UNCHANGED table
    BY <1>2, Zenon DEF openat, Fails, Opened
  <2> QED BY <2>1, OpenStep, SameTable
<1>3. ASSUME NEW fd \in Descriptors
      PROVE  fd \in Int
  <2>1. Len(file_descriptors) \in Nat
    BY TableShape
  <2> QED BY <1>3, <2>1 DEF Descriptors
<1>4. ASSUME NEW fd \in Descriptors, close(fd)
      PROVE  TableInv' /\ Keeps
  <2>1. Closed(fd)
    BY <1>4, Zenon DEF close, Closed
  <2> QED BY <1>3, <2>1, CloseStep
<1>5. ASSUME NEW fd \in Descriptors,
             \/ \E count \in Counts : read(fd, count)
             \/ \E count \in Counts, offset \in Offsets : pread(fd, count, offset)
             \/ \E bytes \in Bytes : write_fd(fd, bytes)
             \/ \E bytes \in Bytes, offset \in Offsets : pwrite(fd, bytes, offset)
      PROVE  TableInv' /\ Keeps
  <2>1. fd \in Int
    BY <1>3
  <2>2. ASSUME NEW count, read(fd, count)
        PROVE  TableInv' /\ Keeps
    BY <2>1, <2>2, ReadOrWrite, Zenon DEF read
  <2>3. ASSUME NEW count, NEW offset, pread(fd, count, offset)
        PROVE  TableInv' /\ Keeps
    BY <2>1, <2>3, ReadOrWrite, Zenon DEF pread
  <2>4. ASSUME NEW bytes, write_fd(fd, bytes)
        PROVE  TableInv' /\ Keeps
    BY <2>1, <2>4, ReadOrWrite, Zenon DEF write_fd
  <2>5. ASSUME NEW bytes, NEW offset, pwrite(fd, bytes, offset)
        PROVE  TableInv' /\ Keeps
    BY <2>1, <2>5, ReadOrWrite, Zenon DEF pwrite
  <2> QED BY <1>5, <2>2, <2>3, <2>4, <2>5
<1>6. ASSUME NEW fd \in Descriptors, NEW offset \in Offsets, seek(fd, offset)
      PROVE  TableInv' /\ Keeps
  <2>1. Moved(fd, offset)
    BY <1>6, Zenon DEF seek, Moved
  <2> QED BY <1>3, <2>1, MoveStep
<1> QED BY <1>1, <1>2, <1>4, <1>5, <1>6, Zenon DEF Next

LEMMA InitTable == Init => TableInv
<1> SUFFICES ASSUME Init PROVE TableInv
  OBVIOUS
<1>1. /\ file_descriptors = <<NoNodeDescriptor, NoNodeDescriptor, NoNodeDescriptor>>
      /\ num_file_descriptors = 3 /\ first_free_fdnum = 3
  BY DEF Init
<1>2. NoNodeDescriptor # NoDescriptor /\ Sound(NoNodeDescriptor)
  BY DEF NoNodeDescriptor, NoDescriptor, Null, Sound
<1> HIDE DEF NoNodeDescriptor
<1>3. /\ DOMAIN file_descriptors = 1 .. 3
      /\ \A i \in 1 .. 3 : file_descriptors[i] = NoNodeDescriptor
      /\ file_descriptors = [i \in 1 .. 3 |-> file_descriptors[i]]
  BY <1>1
<1>4. file_descriptors \in Seq(Range(file_descriptors))
  BY <1>3, FunctionIsSeq
<1>5. OpenSlots = 1 .. 3
  BY <1>2, <1>3 DEF OpenSlots
<1>6. Cardinality(1 .. 3) = 3
  <2>1. 1 \in Int /\ 3 \in Int
    OBVIOUS
  <2>2. Cardinality(1 .. 3) = IF 1 > 3 THEN 0 ELSE 3 - 1 + 1
    BY ONLY <2>1, FS_Interval, Zenon
  <2> QED BY <2>2
<1> QED BY <1>1, <1>2, <1>3, <1>4, <1>5, <1>6 DEF TableInv, CountIsActual

-----------------------------------------------------------------------------
(* Remainders: the slots that the attempts for a key look at are all of them.  *)

LEMMA Remainder ==
    ASSUME NEW c \in Nat \ {0}, NEW q \in Nat, NEW r \in 0 .. c - 1
    PROVE  (q * c + r) % c = r
<1> DEFINE n == q * c + r
           d == n \div c
           e == n % c
<1>1. c \in Nat /\ c > 0 /\ r \in Nat /\ r < c /\ q * c \in Nat
  OBVIOUS
<1>2. n \in Nat
  BY <1>1
<1> HIDE DEF n
<1>3. d \in Nat /\ e \in Nat /\ e < c /\ n = c * d + e
  BY <1>1, <1>2
<1> HIDE DEF d, e
<1>4. c * d + e = c * q + r
  BY <1>1, <1>3 DEF n
<1>5. ASSUME NEW a \in Nat, NEW b \in Nat, NEW x \in 0 .. c - 1, NEW y \in 0 .. c - 1,
             a < b, c * a + x = c * b + y
      PROVE  FALSE
  <2>1. PICK k \in Nat : b = a + 1 + k
    <3>1. b - a - 1 \in Nat /\ b = a + 1 + (b - a - 1)
      BY <1>5
    <3> QED BY <3>1
  <2>2. c * b = c * a + c + c * k /\ c * k \in Nat /\ c * a \in Nat
    BY <1>1, <2>1
  <2> QED BY <1>1, <1>5, <2>2
<1>6. d = q
  BY <1>1, <1>3, <1>4, <1>5
<1> QED BY <1>1, <1>3, <1>4, <1>6 DEF e, n

LEMMA Covers ==
    ASSUME NEW c \in Nat \ {0}, NEW h \in Nat, NEW t \in 0 .. c - 1
    PROVE  \E i \in 0 .. c - 1 : (h + i) % c = t
<1> DEFINE q == h \div c
           r == h % c
<1>1. q \in Nat /\ r \in 0 .. c - 1 /\ h = c * q + r /\ c * q = q * c
  OBVIOUS
<1> HIDE DEF q, r
<1>2. CASE r <= t
  <2>1. t - r \in 0 .. c - 1 /\ h + (t - r) = q * c + t
    BY <1>1, <1>2
  <2>2. (q * c + t) % c = t
    BY <1>1, Remainder
  <2> QED BY <2>1, <2>2
<1>3. CASE t < r
  <2>1. (q + 1) * c = q * c + c
    BY <1>1
  <2>2. t - r + c \in 0 .. c - 1 /\ h + (t - r + c) = (q + 1) * c + t
    BY <1>1, <1>3, <2>1
  <2>3. ((q + 1) * c + t) % c = t
    BY <1>1, Remainder
  <2> QED BY <2>2, <2>3
<1> QED BY <1>1, <1>2, <1>3

-----------------------------------------------------------------------------
(* Hash maps: the entries a map holds, wherever they are. *)

IsMap(m) ==
    /\ m = [size |-> m.size, slots |-> m.slots] /\ m.size \in Nat
    /\ Capacity(m) \in Nat /\ Capacity(m) > 2
    /\ m.slots = [i \in 1 .. Capacity(m) |-> m.slots[i]]

Filled(m) == {i \in 1 .. Capacity(m) : m.slots[i] # Empty}
Content(m) == {m.slots[i] : i \in Filled(m)}

(* A key has one entry. One entry at most is not counted: the one that insert  *)
(* places after it has grown the map.                                          *)
MapInv(m) ==
    /\ IsMap(m)
    /\ \A e \in Content(m) : /\ e = [key |-> e.key, value |-> e.value]
                             /\ e.key \in Names /\ e.value \in Nat \ {0}
    /\ \A e, f \in Content(m) : e.key = f.key => e = f
    /\ Cardinality(Filled(m)) <= m.size + 1

Entry(key, value) == [key |-> key, value |-> value]
WithEntry(m, s, key, value) == [m EXCEPT !.slots[s] = Entry(key, value)]
OneMore(m) == [m EXCEPT !.size = @ + 1]

LEMMA FilledFinite ==
    ASSUME NEW m, IsMap(m)
    PROVE  /\ IsFiniteSet(Filled(m)) /\ Cardinality(Filled(m)) \in Nat
           /\ Cardinality(Filled(m)) <= Capacity(m)
           /\ Cardinality(Filled(m)) < Capacity(m) => \E s \in 1 .. Capacity(m) : s \notin Filled(m)
<1> DEFINE c == Capacity(m)
<1>1. c \in Nat
  BY DEF IsMap
<1> HIDE DEF c
<1>2. IsFiniteSet(1 .. c) /\ Cardinality(1 .. c) = c
  <2>1. IsFiniteSet(1 .. c) /\ Cardinality(1 .. c) = IF 1 > c THEN 0 ELSE c - 1 + 1
    BY <1>1, FS_Interval
  <2> QED BY <1>1, <2>1
<1>3. Filled(m) \in SUBSET (1 .. c)
  BY DEF Filled, c
<1>4. IsFiniteSet(Filled(m)) /\ Cardinality(Filled(m)) <= c
  BY <1>2, <1>3, FS_Subset
<1>5. Cardinality(Filled(m)) \in Nat
  BY <1>4, FS_CardinalityType
<1>6. Cardinality(Filled(m)) < c => Filled(m) # 1 .. c
  BY <1>1, <1>2, <1>5
<1> QED BY <1>3, <1>4, <1>5, <1>6 DEF c

LEMMA Constants ==
    /\ "." \in Names /\ ".." \in Names /\ "" \in Names /\ Hash \in [Names -> Nat]
    /\ \A path \in Paths : path.components \in Seq(Names)
    /\ BlockSize \in Nat \ {0} /\ InitialCapacity \in Nat /\ InitialCapacity > 2
    /\ Word \in Nat /\ HeapLimit \in Nat /\ Word > HeapLimit
  BY NamesAssumption, SizeAssumption, Zenon

LEMMA SlotIs ==
    ASSUME NEW m, IsMap(m), NEW key \in Names
    PROVE  /\ \A i \in Attempts(m) : Slot(m, key, i) \in 1 .. Capacity(m)
           /\ \A s \in 1 .. Capacity(m) : \E i \in Attempts(m) : Slot(m, key, i) = s
           /\ Attempts(m) \subseteq Nat
<1> DEFINE c == Capacity(m)
           h == Hash[key]
<1>1. c \in Nat \ {0} /\ h \in Nat /\ Attempts(m) = 0 .. c - 1
  <2>1. c \in Nat /\ c > 2
    BY DEF IsMap
  <2>2. h \in Nat
    BY Constants
  <2>3. Attempts(m) = 0 .. c - 1
    BY DEF Attempts
  <2> QED BY <2>1, <2>2, <2>3
<1>2. \A i : Slot(m, key, i) = ((h + i) % c) + 1
  BY DEF Slot
<1> HIDE DEF c, h
<1>3. ASSUME NEW i \in Attempts(m) PROVE Slot(m, key, i) \in 1 .. c
  <2>1. h + i \in Nat
    BY <1>1
  <2>2. (h + i) % c \in 0 .. c - 1
    BY <1>1, <2>1
  <2> QED BY <1>1, <1>2, <2>2
<1>4. ASSUME NEW s \in 1 .. c PROVE \E i \in Attempts(m) : Slot(m, key, i) = s
  <2>1. s - 1 \in 0 .. c - 1 /\ (s - 1) + 1 = s
    BY <1>1
  <2>2. PICK i \in 0 .. c - 1 : (h + i) % c = s - 1
    BY <1>1, <2>1, Covers
  <2> QED BY <1>1, <1>2, <2>1, <2>2
<1> QED BY <1>1, <1>3, <1>4 DEF c

LEMMA EmptyMap ==
    ASSUME NEW c \in Nat, c > 2
    PROVE  /\ MapInv(NewMap(c)) /\ Content(NewMap(c)) = {} /\ Capacity(NewMap(c)) = c
           /\ NewMap(c).size = 0 /\ Cardinality(Filled(NewMap(c))) = 0
<1> DEFINE m == NewMap(c)
           f == [i \in 1 .. c |-> Empty]
<1>1. m.size = 0 /\ m.slots = f /\ m = [size |-> m.size, slots |-> m.slots]
  BY DEF NewMap
<1>2. f = [i \in 1 .. c |-> f[i]] /\ \A i \in 1 .. c : f[i] = Empty
  OBVIOUS
<1> HIDE DEF f, m
<1>3. Capacity(m) = c
  BY <1>1, <1>2, FunctionIsSeq DEF Capacity
<1>4. Filled(m) = {} /\ Content(m) = {}
  BY <1>1, <1>2, <1>3 DEF Filled, Content
<1>5. Cardinality(Filled(m)) = 0
  BY <1>4, FS_EmptySet
<1> QED BY <1>1, <1>2, <1>3, <1>4, <1>5 DEF MapInv, IsMap, m

LEMMA WithEntryIs ==
    ASSUME NEW m, IsMap(m), NEW s \in 1 .. Capacity(m), s \notin Filled(m), NEW key, NEW value \in Nat \ {0}
    PROVE  LET w == WithEntry(m, s, key, value)
           IN  /\ IsMap(w) /\ Capacity(w) = Capacity(m) /\ w.size = m.size
               /\ Content(w) = Content(m) \cup {Entry(key, value)}
               /\ Cardinality(Filled(w)) = Cardinality(Filled(m)) + 1
<1> DEFINE w == WithEntry(m, s, key, value)
           e == Entry(key, value)
           c == Capacity(m)
           g == m.slots
           f == [i \in 1 .. c |-> IF i = s THEN e ELSE g[i]]
<1>1. e # Empty
  BY DEF Entry, Empty
<1>2. c \in Nat /\ c > 2 /\ m.size \in Nat /\ g = [i \in 1 .. c |-> g[i]]
      /\ m = [size |-> m.size, slots |-> g]
  BY DEF IsMap
<1>3. w = [m EXCEPT !.slots = [g EXCEPT ![s] = e]]
  BY DEF WithEntry
<1> HIDE DEF w, e, g
<1>4. [g EXCEPT ![s] = e] = f
  BY <1>2
<1>5. w = [size |-> m.size, slots |-> f]
  BY <1>2, <1>3, <1>4
<1>6. w.size = m.size /\ w.slots = f /\ w = [size |-> w.size, slots |-> w.slots]
  BY <1>5
<1>7. f = [i \in 1 .. c |-> f[i]] /\ \A i \in 1 .. c : f[i] = IF i = s THEN e ELSE g[i]
  OBVIOUS
<1> HIDE DEF f
<1>8. Capacity(w) = c
  BY <1>2, <1>6, <1>7, FunctionIsSeq DEF Capacity
<1>9. IsMap(w)
  BY <1>2, <1>6, <1>7, <1>8 DEF IsMap
<1> HIDE DEF c
<1>10. c = Capacity(m) /\ s \in 1 .. c /\ g = m.slots /\ g[s] = Empty
  BY DEF c, g, Filled
<1>11. Filled(w) = Filled(m) \cup {s}
  BY <1>1, <1>6, <1>7, <1>8, <1>10 DEF Filled
<1>12. \A i \in Filled(m) : i \in 1 .. c /\ i # s /\ f[i] = g[i]
  BY <1>7, <1>10 DEF Filled
<1>13. Content(w) = {f[i] : i \in Filled(m) \cup {s}} /\ Content(m) = {g[i] : i \in Filled(m)}
  BY <1>6, <1>10, <1>11 DEF Content
<1>14. f[s] = e
  BY <1>7, <1>10
<1>15. Content(w) = Content(m) \cup {e}
  BY <1>12, <1>13, <1>14
<1>16. Cardinality(Filled(w)) = Cardinality(Filled(m)) + 1
  BY <1>11, FilledFinite, FS_AddElement
<1> QED BY <1>6, <1>8, <1>9, <1>15, <1>16 DEF w, e, c

(* insert's loop ends at a free slot, when there is one. *)
LEMMA PlaceIs ==
    ASSUME NEW m, IsMap(m), Cardinality(Filled(m)) < Capacity(m),
           NEW key \in Names, NEW value
    PROVE  \E s \in 1 .. Capacity(m) :
               s \notin Filled(m) /\ Place(m, key, value) = WithEntry(m, s, key, value)
<1> DEFINE free == {i \in Attempts(m) : m.slots[Slot(m, key, i)] = Empty}
           s == Slot(m, key, First(free))
<1>1. PICK t \in 1 .. Capacity(m) : t \notin Filled(m)
  BY FilledFinite
<1>2. PICK i \in Attempts(m) : Slot(m, key, i) = t
  BY SlotIs
<1>3. m.slots[t] = Empty
  BY <1>1 DEF Filled
<1>4. i \in free
  BY <1>2, <1>3
<1>5. free \in SUBSET Nat /\ free # {}
  BY <1>4, SlotIs
<1>6. First(free) \in free
  <2> HIDE DEF free
  <2> QED BY <1>5, FirstIsIn
<1>7. First(free) \in Attempts(m) /\ m.slots[s] = Empty
  BY <1>6
<1>8. s \in 1 .. Capacity(m)
  <2> DEFINE k == First(free)
  <2>1. k \in Attempts(m)
    BY <1>7
  <2> HIDE DEF k
  <2>2. Slot(m, key, k) \in 1 .. Capacity(m)
    BY <2>1, SlotIs
  <2> QED BY <2>2 DEF k
<1>9. s \notin Filled(m)
  BY <1>7 DEF Filled
<1>10. Place(m, key, value) = WithEntry(m, s, key, value)
  BY <1>5, Zenon DEF Place, WithEntry, Entry
<1> QED BY <1>8, <1>9, <1>10

LEMMA OneMoreIs ==
    ASSUME NEW m, IsMap(m)
    PROVE  LET w == OneMore(m)
           IN  /\ IsMap(w) /\ Capacity(w) = Capacity(m) /\ w.size = m.size + 1
               /\ w.slots = m.slots /\ Filled(w) = Filled(m) /\ Content(w) = Content(m)
<1> DEFINE w == OneMore(m)
<1>1. m = [size |-> m.size, slots |-> m.slots] /\ m.size \in Nat
  BY DEF IsMap
<1>2. w = [m EXCEPT !.size = @ + 1]
  BY DEF OneMore
<1> HIDE DEF w
<1>3. w = [size |-> m.size + 1, slots |-> m.slots]
  BY <1>1, <1>2
<1>4. w.size = m.size + 1 /\ w.slots = m.slots /\ w = [size |-> w.size, slots |-> w.slots]
  BY <1>3
<1>5. Capacity(w) = Capacity(m)
  BY <1>4 DEF Capacity
<1>6. Filled(w) = Filled(m) /\ Content(w) = Content(m)
  BY <1>4, <1>5 DEF Filled, Content
<1>7. IsMap(w)
  BY <1>1, <1>4, <1>5 DEF IsMap
<1> QED BY <1>4, <1>5, <1>6, <1>7 DEF w

(* The loop of grow. *)
GrowLoop(g, m, n) ==
    g = [i \in 0 .. n |-> IF i = 0 THEN NewMap(2 * Capacity(m)) ELSE Reinsert(g[i - 1], m.slots[i])]

LEMMA GrowLoopExists ==
    ASSUME NEW m, NEW n \in Nat
    PROVE  \E g : GrowLoop(g, m, n)
<1> DEFINE first == NewMap(2 * Capacity(m))
           Body(new, i) == Reinsert(new, m.slots[i])
           T == {k \in Nat : \E g : g = [i \in 0 .. k |-> IF i = 0 THEN first ELSE Body(g[i - 1], i)]}
<1> HIDE DEF first, Body
<1>1. 0 \in T
  <2> DEFINE g == [i \in 0 .. 0 |-> first]
  <2>1. g = [i \in 0 .. 0 |-> IF i = 0 THEN first ELSE Body(g[i - 1], i)]
    OBVIOUS
  <2> QED BY <2>1
<1>2. ASSUME NEW k \in Nat, k \in T PROVE k + 1 \in T
  <2>1. PICK g : g = [i \in 0 .. k |-> IF i = 0 THEN first ELSE Body(g[i - 1], i)]
    BY <1>2
  <2> DEFINE e == [i \in 0 .. k + 1 |-> IF i = k + 1 THEN Body(g[k], k + 1) ELSE g[i]]
  <2>2. ASSUME NEW i \in 0 .. k + 1 PROVE e[i] = IF i = 0 THEN first ELSE Body(e[i - 1], i)
    <3>1. CASE i = k + 1
      <4>1. i # 0 /\ i - 1 = k /\ k \in 0 .. k + 1 /\ k # k + 1
        BY <3>1
      <4>2. e[i - 1] = g[k]
        BY <4>1
      <4>3. e[i] = Body(g[k], k + 1)
        BY <3>1
      <4> HIDE DEF e
      <4> QED BY <3>1, <4>1, <4>2, <4>3
    <3>2. CASE i # k + 1
      <4>1. i \in 0 .. k /\ (i # 0 => i - 1 \in 0 .. k + 1 /\ i - 1 # k + 1)
        BY <3>2
      <4>2. g[i] = IF i = 0 THEN first ELSE Body(g[i - 1], i)
        BY <2>1, <4>1
      <4>3. e[i] = g[i] /\ (i # 0 => e[i - 1] = g[i - 1])
        BY <3>2, <4>1
      <4> HIDE DEF e
      <4> QED BY <4>2, <4>3
    <3> QED BY <3>1, <3>2
  <2>3. e = [i \in 0 .. k + 1 |-> e[i]]
    OBVIOUS
  <2> HIDE DEF e
  <2>4. e = [i \in 0 .. k + 1 |-> IF i = 0 THEN first ELSE Body(e[i - 1], i)]
    BY <2>2, <2>3
  <2> QED BY <2>4
<1> HIDE DEF T
<1>3. n \in T
  BY <1>1, <1>2, Induct
<1> QED BY <1>3 DEF T, GrowLoop, Body, first

IsEntry(e) == e = Entry(e.key, e.value) /\ e.key \in Names /\ e.value \in Nat \ {0}

LEMMA ReinsertIs ==
    ASSUME NEW m, IsMap(m), Cardinality(Filled(m)) < Capacity(m), NEW e, IsEntry(e)
    PROVE  LET r == Reinsert(m, e)
           IN  /\ IsMap(r) /\ Capacity(r) = Capacity(m) /\ r.size = m.size + 1
               /\ Content(r) = Content(m) \cup {e}
               /\ Cardinality(Filled(r)) = Cardinality(Filled(m)) + 1
<1> DEFINE r == Reinsert(m, e)
           w == OneMore(m)
<1>1. e # Empty
  <2>1. e.value # 0
    BY DEF IsEntry
  <2>2. Empty.value = 0
    BY DEF Empty
  <2> QED BY <2>1, <2>2
<1>2. r = Place(w, e.key, e.value)
  BY <1>1, Zenon DEF Reinsert, OneMore
<1>3. /\ IsMap(w) /\ Capacity(w) = Capacity(m) /\ w.size = m.size + 1
      /\ Filled(w) = Filled(m) /\ Content(w) = Content(m)
  BY OneMoreIs
<1> HIDE DEF r, w
<1>4. e.key \in Names /\ e.value \in Nat \ {0} /\ e = Entry(e.key, e.value)
  BY DEF IsEntry
<1>5. PICK s \in 1 .. Capacity(w) :
        s \notin Filled(w) /\ Place(w, e.key, e.value) = WithEntry(w, s, e.key, e.value)
  BY <1>3, <1>4, PlaceIs
<1>6. r = WithEntry(w, s, e.key, e.value)
  BY <1>2, <1>5
<1>7. /\ IsMap(r) /\ Capacity(r) = Capacity(w) /\ r.size = w.size
      /\ Content(r) = Content(w) \cup {Entry(e.key, e.value)}
      /\ Cardinality(Filled(r)) = Cardinality(Filled(w)) + 1
  BY <1>3, <1>4, <1>5, <1>6, WithEntryIs
<1> QED BY <1>3, <1>4, <1>7 DEF r

(* grow keeps the entries and counts them all. *)
LEMMA GrowIs ==
    ASSUME NEW m, IsMap(m), \A e \in Content(m) : IsEntry(e)
    PROVE  LET r == grow(m)
           IN  /\ IsMap(r) /\ Capacity(r) = 2 * Capacity(m) /\ Content(r) = Content(m)
               /\ Cardinality(Filled(r)) <= r.size /\ Cardinality(Filled(r)) <= Capacity(m)
<1> DEFINE c == Capacity(m)
           g == CHOOSE g : GrowLoop(g, m, c)
           Done(k) == {m.slots[i] : i \in 1 .. k} \ {Empty}
           K == {k \in 0 .. c : /\ IsMap(g[k]) /\ Capacity(g[k]) = 2 * c /\ Content(g[k]) = Done(k)
                                /\ Cardinality(Filled(g[k])) <= g[k].size
                                /\ Cardinality(Filled(g[k])) <= k}
<1>1. c \in Nat /\ c > 2
  BY DEF IsMap
<1>2. GrowLoop(g, m, c)
  BY <1>1, GrowLoopExists
<1>3. grow(m) = g[c]
  BY DEF grow, GrowLoop
<1> HIDE DEF g
<1>4. /\ g[0] = NewMap(2 * c)
      /\ \A k \in 1 .. c : g[k] = Reinsert(g[k - 1], m.slots[k])
  <2> HIDE DEF c
  <2>1. \A i \in 0 .. c : g[i] = IF i = 0 THEN NewMap(2 * Capacity(m)) ELSE Reinsert(g[i - 1], m.slots[i])
    BY <1>2 DEF GrowLoop
  <2>2. 0 \in 0 .. c /\ \A k \in 1 .. c : k \in 0 .. c /\ k # 0
    BY <1>1
  <2> QED BY <2>1, <2>2 DEF c
<1> HIDE DEF c
<1>5. 0 \in K
  <2>1. 2 * c \in Nat /\ 2 * c > 2 /\ 0 \in 0 .. c
    BY <1>1
  <2>2. /\ MapInv(g[0]) /\ Content(g[0]) = {} /\ Capacity(g[0]) = 2 * c
        /\ g[0].size = 0 /\ Cardinality(Filled(g[0])) = 0
    BY <1>4, <2>1, EmptyMap
  <2>3. Done(0) = {}
    OBVIOUS
  <2> QED BY <2>1, <2>2, <2>3 DEF MapInv
<1>6. ASSUME NEW k \in Nat, k < c, k \in K PROVE k + 1 \in K
  <2> DEFINE new == g[k]
             e == m.slots[k + 1]
  <2>1. /\ IsMap(new) /\ Capacity(new) = 2 * c /\ Content(new) = Done(k)
        /\ Cardinality(Filled(new)) <= new.size /\ Cardinality(Filled(new)) <= k
    BY <1>6
  <2>2. k + 1 \in 0 .. c /\ k + 1 \in 1 .. c /\ (k + 1) - 1 = k
    BY <1>1, <1>6
  <2>3. g[k + 1] = Reinsert(new, e)
    BY <1>4, <2>2
  <2>4. Done(k + 1) = (Done(k) \cup {e}) \ {Empty}
    <3>1. 1 .. (k + 1) = (1 .. k) \cup {k + 1}
      OBVIOUS
    <3> QED BY <3>1
  <2>5. Empty \notin Done(k)
    OBVIOUS
  <2>6. Cardinality(Filled(new)) \in Nat /\ new.size \in Nat
    BY <2>1, FilledFinite DEF IsMap
  <2> HIDE DEF Done, new, e
  <2>7. CASE e = Empty
    <3>1. g[k + 1] = new
      BY <2>3, <2>7 DEF Reinsert
    <3>2. Done(k + 1) = Done(k)
      BY <2>4, <2>5, <2>7
    <3> QED BY <2>1, <2>2, <2>6, <3>1, <3>2
  <2>8. CASE e # Empty
    <3>1. e \in Content(m)
      BY <2>2, <2>8 DEF Content, Filled, e, c
    <3>2. IsEntry(e)
      BY <3>1
    <3>3. Cardinality(Filled(new)) < Capacity(new)
      BY <1>1, <1>6, <2>1, <2>6
    <3>4. /\ IsMap(g[k + 1]) /\ Capacity(g[k + 1]) = Capacity(new) /\ g[k + 1].size = new.size + 1
          /\ Content(g[k + 1]) = Content(new) \cup {e}
          /\ Cardinality(Filled(g[k + 1])) = Cardinality(Filled(new)) + 1
      BY <2>1, <2>3, <3>2, <3>3, ReinsertIs
    <3>5. Done(k + 1) = Done(k) \cup {e}
      BY <2>4, <2>5, <2>8
    <3>6. Cardinality(Filled(g[k + 1])) <= g[k + 1].size /\ Cardinality(Filled(g[k + 1])) <= k + 1
      BY <2>1, <2>6, <3>4
    <3>7. Capacity(g[k + 1]) = 2 * c /\ Content(g[k + 1]) = Done(k + 1)
      BY <2>1, <3>4, <3>5
    <3> QED BY <2>2, <3>4, <3>6, <3>7
  <2> QED BY <2>7, <2>8
<1>7. c \in K
  <2> HIDE DEF K
  <2> QED BY <1>1, <1>5, <1>6, InductTo
<1>8. Done(c) = Content(m)
  BY DEF Content, Filled, c
<1> HIDE DEF Done
<1>9. /\ IsMap(g[c]) /\ Capacity(g[c]) = 2 * c /\ Content(g[c]) = Content(m)
      /\ Cardinality(Filled(g[c])) <= g[c].size /\ Cardinality(Filled(g[c])) <= c
  BY <1>7, <1>8
<1> QED BY <1>3, <1>9 DEF c

(* insert keeps a map's entries and adds one. *)
LEMMA InsertIs ==
    ASSUME NEW m, MapInv(m), NEW key \in Names, NEW value \in Nat \ {0},
           \A e \in Content(m) : e.key # key
    PROVE  /\ MapInv(insert(m, key, value))
           /\ Content(insert(m, key, value)) = Content(m) \cup {Entry(key, value)}
<1> DEFINE w == OneMore(m)
           b == IF load_percentage(w) >= 75 THEN grow(w) ELSE w
           r == Place(b, key, value)
           C == Content(m)
<1>1. insert(m, key, value) = r
  BY Zenon DEF insert, OneMore
<1>2. IsMap(m) /\ Cardinality(Filled(m)) <= m.size + 1 /\ \A e \in C : IsEntry(e)
  BY DEF MapInv, IsEntry, Entry
<1>3. /\ IsMap(w) /\ Capacity(w) = Capacity(m) /\ w.size = m.size + 1
      /\ Filled(w) = Filled(m) /\ Content(w) = C
  BY <1>2, OneMoreIs
<1> HIDE DEF w
<1>4. m.size \in Nat /\ Cardinality(Filled(m)) \in Nat /\ Capacity(m) \in Nat /\ Capacity(m) > 2
  BY <1>2, FilledFinite DEF IsMap
<1>5. /\ IsMap(b) /\ Content(b) = C /\ Cardinality(Filled(b)) < Capacity(b)
      /\ Cardinality(Filled(b)) <= b.size
  <2>1. CASE load_percentage(w) >= 75
    <3>1. b = grow(w)
      BY <2>1
    <3> HIDE DEF b
    <3>2. /\ IsMap(b) /\ Capacity(b) = 2 * Capacity(w) /\ Content(b) = Content(w)
          /\ Cardinality(Filled(b)) <= b.size /\ Cardinality(Filled(b)) <= Capacity(w)
      BY <1>2, <1>3, <3>1, GrowIs
    <3>3. Cardinality(Filled(b)) \in Nat
      BY <3>2, FilledFinite
    <3> QED BY <1>3, <1>4, <3>2, <3>3
  <2>2. CASE ~ (load_percentage(w) >= 75)
    <3>1. b = w
      BY <2>2
    <3>2. ~ ((w.size * 100) \div Capacity(w) >= 75)
      BY <2>2 DEF load_percentage
    <3> DEFINE n == w.size
               c == Capacity(w)
               q == (n * 100) \div c
               x == (n * 100) % c
    <3>3. n \in Nat /\ c \in Nat /\ c > 2
      BY <1>3, <1>4
    <3> HIDE DEF n, c, b
    <3>4. n * 100 = c * q + x /\ q \in Nat /\ x \in Nat /\ x < c
      BY <3>3
    <3>5. q <= 74
      BY <3>2, <3>4 DEF n, c
    <3> HIDE DEF q, x
    <3>6. c * q <= c * 74
      <4>1. PICK d \in Nat : 74 = q + d
        <5>1. 74 - q \in Nat /\ 74 = q + (74 - q)
          BY <3>4, <3>5
        <5> QED BY <5>1
      <4>2. c * 74 = c * q + c * d /\ c * d \in Nat /\ c * q \in Nat
        BY <3>3, <3>4, <4>1
      <4> QED BY <4>2
    <3>7. n < c
      <4>1. c * q \in Nat
        BY <3>3, <3>4
      <4> QED BY <3>3, <3>4, <3>6, <4>1
    <3> QED BY <1>2, <1>3, <1>4, <3>1, <3>7 DEF n, c
  <2> QED BY <2>1, <2>2
<1> HIDE DEF b
<1>6. PICK s \in 1 .. Capacity(b) : s \notin Filled(b) /\ r = WithEntry(b, s, key, value)
  BY <1>5, PlaceIs
<1> HIDE DEF r
<1>7. /\ IsMap(r) /\ Capacity(r) = Capacity(b) /\ r.size = b.size
      /\ Content(r) = C \cup {Entry(key, value)}
      /\ Cardinality(Filled(r)) = Cardinality(Filled(b)) + 1
  BY <1>5, <1>6, WithEntryIs
<1>8. Cardinality(Filled(r)) <= r.size + 1
  <2>1. b.size \in Nat /\ Cardinality(Filled(b)) \in Nat
    BY <1>5, FilledFinite DEF IsMap
  <2> QED BY <1>5, <1>7, <2>1
<1>9. Entry(key, value).key = key /\ IsEntry(Entry(key, value))
  BY DEF Entry, IsEntry
<1>10. \A e \in Content(r) : IsEntry(e)
  BY <1>2, <1>7, <1>9
<1>11. \A e, f \in C : e.key = f.key => e = f
  BY DEF MapInv
<1>12. \A e, f \in Content(r) : e.key = f.key => e = f
  BY <1>7, <1>9, <1>11
<1>13. MapInv(r)
  BY <1>7, <1>8, <1>10, <1>12 DEF MapInv, IsEntry, Entry
<1> QED BY <1>1, <1>7, <1>13

(* get finds the entry of a key, wherever it is. *)
LEMMA GetIs ==
    ASSUME NEW m, MapInv(m), NEW key \in Names
    PROVE  /\ \A e \in Content(m) : e.key = key => get(m, key) = e.value
           /\ get(m, key) # 0 => \E e \in Content(m) : e.key = key /\ e.value = get(m, key)
<1> DEFINE hits == {i \in Attempts(m) : /\ m.slots[Slot(m, key, i)] # Empty
                                        /\ m.slots[Slot(m, key, i)].key = key}
           At(i) == m.slots[Slot(m, key, i)]
<1>1. IsMap(m)
  BY DEF MapInv
<1>2. ASSUME NEW i \in hits PROVE At(i) \in Content(m) /\ At(i).key = key
  <2>1. Slot(m, key, i) \in 1 .. Capacity(m)
    BY <1>1, SlotIs
  <2> QED BY <2>1 DEF Content, Filled
<1>3. ASSUME NEW e \in Content(m), e.key = key PROVE hits # {}
  <2>1. PICK t \in Filled(m) : e = m.slots[t]
    BY DEF Content
  <2>2. t \in 1 .. Capacity(m) /\ m.slots[t] # Empty
    BY DEF Filled
  <2>3. PICK i \in Attempts(m) : Slot(m, key, i) = t
    BY <1>1, <2>2, SlotIs
  <2>4. i \in hits
    BY <1>3, <2>1, <2>2, <2>3
  <2> QED BY <2>4
<1>4. get(m, key) = IF hits = {} THEN 0 ELSE At(First(hits)).value
  BY Zenon DEF get
<1>5. hits \in SUBSET Nat
  BY <1>1, SlotIs
<1> HIDE DEF hits, At
<1>6. hits # {} => First(hits) \in hits
  BY <1>5, FirstIsIn
<1>7. hits # {} => \E e \in Content(m) : e.key = key /\ e.value = get(m, key)
  BY <1>2, <1>4, <1>6
<1>8. \A e, f \in Content(m) : e.key = f.key => e = f
  BY DEF MapInv
<1> QED BY <1>3, <1>4, <1>7, <1>8

-----------------------------------------------------------------------------
(* The tree. *)

Kids(ns, d) == {c \in 1 .. Len(ns) : ns[c].parent = d}
Above(ns, d) == IF ns[d].parent = Null THEN d ELSE ns[d].parent

IsNode(node) ==
    node = [type |-> node.type, parent |-> node.parent, name |-> node.name,
            redirect |-> node.redirect, children |-> node.children, data |-> node.data]

(* Parents are directories and come first; dot entries redirect to where they  *)
(* say, and only they have their names.                                        *)
NodeInv(ns, i) ==
    /\ IsNode(ns[i])
    /\ ns[i].name \in Names /\ ns[i].type \in {"FILE", "DIRECTORY", "NONE"}
    /\ i = Root => ns[i].parent = Null /\ ns[i].type = "DIRECTORY"
    /\ i # Root => ns[i].parent \in 1 .. i - 1 /\ ns[ns[i].parent].type = "DIRECTORY"
    /\ ns[i].type # "NONE" => ns[i].name \notin {".", ".."} /\ ns[i].redirect \in {Null, Junk}
    /\ ns[i].type = "NONE" => \/ ns[i].name = "." /\ ns[i].redirect = ns[i].parent
                              \/ ns[i].name = ".." /\ ns[i].redirect = Above(ns, ns[i].parent)

(* A directory's map holds its dot entries and the nodes made in it.           *)
DirectoryInv(ns, d) ==
    /\ MapInv(ns[d].children)
    /\ Content(ns[d].children) = {Entry(ns[c].name, c) : c \in Kids(ns, d)}
    /\ \E c \in Kids(ns, d) : ns[c].name = "."
    /\ \E c \in Kids(ns, d) : ns[c].name = ".."

TreeInv(ns) ==
    /\ Len(ns) \in Nat /\ ns = [i \in 1 .. Len(ns) |-> ns[i]]
    /\ \A i \in 1 .. Len(ns) : NodeInv(ns, i)
    /\ \A d \in 1 .. Len(ns) : ns[d].type = "DIRECTORY" => DirectoryInv(ns, d)

IsDirectory(ns, d) == d \in DOMAIN ns /\ ns[d].type = "DIRECTORY"

FilesInv == TreeInv(nodes) /\ Len(nodes) > 0 /\ IsDirectory(nodes, cwd)

Loads(ns, header) ==
    LET n == Meaning(ns, Root, header.name)
    IN  /\ n \in DOMAIN ns /\ ns[n].type = header.type
        /\ header.type = "FILE" => ns[n].data = [b \in 1 .. header.size |-> header.byte]

LoadInv ==
    /\ archive \in Archives /\ at \in Nat \ {0} /\ used \in Nat /\ stage \in {"loading", "running"}
    /\ \A i \in Headers : i < at => i + 1 + Blocks(archive[i].size) <= at
    /\ stage = "running" /\ status = "ok" => \A i \in Headers : i < at
    /\ status = "ok" /\ used = 0 /\ ParentsFirst =>
         \A i \in Headers : i < at => Loads(nodes, archive[i])

-----------------------------------------------------------------------------
(* What create makes of the nodes. *)

(* A sequence and one behind it, as functions. *)
LEMMA ConcatIs ==
    ASSUME NEW k \in Nat, NEW f, f = [i \in 1 .. k |-> f[i]],
           NEW l \in Nat, NEW t, t = [i \in 1 .. l |-> t[i]]
    PROVE  /\ Len(f \o t) = k + l /\ (f \o t) = [i \in 1 .. k + l |-> (f \o t)[i]]
           /\ \A i \in 1 .. k : (f \o t)[i] = f[i]
           /\ \A i \in 1 .. l : (f \o t)[k + i] = t[i]
<1> DEFINE S == Range(f) \cup Range(t)
           g == f \o t
<1>1. f \in Seq(Range(f)) /\ Len(f) = k /\ t \in Seq(Range(t)) /\ Len(t) = l
  BY FunctionIsSeq
<1>2. f \in Seq(S) /\ t \in Seq(S)
  <2>1. \A A, B : Seq(A) \subseteq Seq(A \cup B)
    OBVIOUS
  <2>2. S = Range(t) \cup Range(f)
    OBVIOUS
  <2> HIDE DEF S
  <2> QED BY <1>1, <2>1, <2>2 DEF S
<1>3. /\ g \in Seq(S) /\ Len(g) = k + l
      /\ \A i \in 1 .. k + l : g[i] = IF i <= k THEN f[i] ELSE t[i - k]
  <2> HIDE DEF S
  <2> QED BY <1>1, <1>2, ConcatProperties
<1> HIDE DEF S, g
<1>4. g = [i \in 1 .. k + l |-> g[i]]
  BY <1>3, LenProperties
<1>5. ASSUME NEW i \in 1 .. k PROVE g[i] = f[i]
  <2>1. i \in 1 .. k + l /\ i <= k
    BY <1>5
  <2> QED BY <1>3, <2>1
<1>6. ASSUME NEW i \in 1 .. l PROVE g[k + i] = t[i]
  <2>1. k + i \in 1 .. k + l /\ ~ (k + i <= k) /\ (k + i) - k = i
    BY <1>6
  <2> QED BY <1>3, <2>1
<1> QED BY <1>3, <1>4, <1>5, <1>6 DEF g

WithChildren(node, m) == [node EXCEPT !.children = m]
WithData(node, d) == [node EXCEPT !.data = d]

LEMMA FieldsOfWith ==
    ASSUME NEW node, IsNode(node), NEW x
    PROVE  /\ LET w == WithChildren(node, x)
              IN  /\ IsNode(w) /\ w.type = node.type /\ w.parent = node.parent /\ w.name = node.name
                  /\ w.redirect = node.redirect /\ w.data = node.data /\ w.children = x
           /\ LET w == WithData(node, x)
              IN  /\ IsNode(w) /\ w.type = node.type /\ w.parent = node.parent /\ w.name = node.name
                  /\ w.redirect = node.redirect /\ w.children = node.children /\ w.data = x
<1> DEFINE r(c, d) == [type |-> node.type, parent |-> node.parent, name |-> node.name,
                       redirect |-> node.redirect, children |-> c, data |-> d]
<1>1. node = r(node.children, node.data)
  BY DEF IsNode
<1>2. WithChildren(node, x) = r(x, node.data)
  BY <1>1 DEF WithChildren
<1>3. WithData(node, x) = r(node.children, x)
  BY <1>1 DEF WithData
<1>4. ASSUME NEW c, NEW d
      PROVE  /\ r(c, d).type = node.type /\ r(c, d).parent = node.parent /\ r(c, d).name = node.name
             /\ r(c, d).redirect = node.redirect /\ r(c, d).children = c /\ r(c, d).data = d
             /\ IsNode(r(c, d))
  BY DEF IsNode
<1> HIDE DEF r
<1> QED BY <1>2, <1>3, <1>4

LEMMA FieldsOfNode ==
    ASSUME NEW type, NEW parent, NEW name, NEW redirect
    PROVE  LET w == Node(type, parent, name, redirect)
           IN  /\ IsNode(w) /\ w.type = type /\ w.parent = parent /\ w.name = name
               /\ w.redirect = redirect /\ w.children = NewMap(InitialCapacity) /\ w.data = << >>
  BY DEF Node, IsNode

(* The nodes ms are those of ns and a new one, with its dot entries if it is a *)
(* directory.                                                                  *)
Size(type) == IF type = "FILE" THEN 1 ELSE 3
Dots(n) == insert(insert(NewMap(InitialCapacity), ".", n + 1), "..", n + 2)

Created(ns, ms, parent, name, type, redirect) ==
    LET n == Len(ns) + 1
    IN  /\ Len(ms) = Len(ns) + Size(type) /\ ms = [i \in 1 .. Len(ms) |-> ms[i]]
        /\ \A i \in 1 .. Len(ns) :
             ms[i] = IF i = parent THEN WithChildren(ns[i], insert(ns[i].children, name, n)) ELSE ns[i]
        /\ type = "FILE" => ms[n] = Node(type, parent, name, redirect)
        /\ type # "FILE" =>
             /\ ms[n] = WithChildren(Node(type, parent, name, redirect), Dots(n))
             /\ ms[n + 1] = Node("NONE", n, ".", n)
             /\ ms[n + 2] = Node("NONE", n, "..", IF parent = Null THEN n ELSE parent)

LEMMA CreateIs ==
    ASSUME NEW ns, Len(ns) \in Nat, ns = [i \in 1 .. Len(ns) |-> ns[i]],
           NEW parent, NEW name, NEW type, NEW redirect
    PROVE  Created(ns, create(ns, parent, name, type, redirect), parent, name, type, redirect)
<1> DEFINE n == Len(ns) + 1
           node == Node(type, parent, name, redirect)
           old(i) == IF i = parent THEN WithChildren(ns[i], insert(ns[i].children, name, n)) ELSE ns[i]
           f == [i \in 1 .. n - 1 |-> old(i)]
           t == IF type = "FILE" THEN <<node>> ELSE create_dotentries(n, node)
           ms == create(ns, parent, name, type, redirect)
<1>1. ms = f \o t
  BY Zenon DEF create, WithChildren
<1>2. node.children = NewMap(InitialCapacity) /\ node.parent = parent
  BY FieldsOfNode
<1> HIDE DEF node
<1>3. /\ type = "FILE" => t = <<node>>
      /\ type # "FILE" => t = << WithChildren(node, Dots(n)), Node("NONE", n, ".", n),
                                 Node("NONE", n, "..", IF parent = Null THEN n ELSE parent) >>
  BY <1>2 DEF create_dotentries, WithChildren, Dots
<1>4. n - 1 = Len(ns) /\ Size(type) \in Nat
  BY DEF Size
<1> HIDE DEF n, t, ms
<1>5. /\ t = [i \in 1 .. Size(type) |-> t[i]]
      /\ type = "FILE" => t[1] = node
      /\ type # "FILE" => /\ t[1] = WithChildren(node, Dots(n)) /\ t[2] = Node("NONE", n, ".", n)
                          /\ t[3] = Node("NONE", n, "..", IF parent = Null THEN n ELSE parent)
  <2>1. CASE type = "FILE"
    BY <1>3, <2>1 DEF Size
  <2>2. CASE type # "FILE"
    BY <1>3, <2>2 DEF Size
  <2> QED BY <2>1, <2>2
<1>6. f = [i \in 1 .. Len(ns) |-> f[i]] /\ \A i \in 1 .. Len(ns) : f[i] = old(i)
  BY <1>4
<1> HIDE DEF f, old
<1>7. /\ Len(ms) = Len(ns) + Size(type) /\ ms = [i \in 1 .. Len(ns) + Size(type) |-> ms[i]]
      /\ \A i \in 1 .. Len(ns) : ms[i] = f[i]
      /\ \A i \in 1 .. Size(type) : ms[Len(ns) + i] = t[i]
  BY <1>1, <1>4, <1>5, <1>6, ConcatIs
<1>8. /\ 1 \in 1 .. Size(type)
      /\ type # "FILE" => 2 \in 1 .. Size(type) /\ 3 \in 1 .. Size(type)
      /\ n = Len(ns) + 1 /\ n + 1 = Len(ns) + 2 /\ n + 2 = Len(ns) + 3
  BY DEF Size, n
<1>9. /\ ms[n] = t[1]
      /\ type # "FILE" => ms[n + 1] = t[2] /\ ms[n + 2] = t[3]
  BY <1>7, <1>8
<1>10. \A i \in 1 .. Len(ns) : ms[i] = old(i)
  BY <1>6, <1>7
<1> QED BY <1>5, <1>7, <1>9, <1>10 DEF Created, n, ms, node, old

(* A name is new in a directory, or the node is the root. *)
Fits(ns, parent, name, type, redirect) ==
    /\ name \in Names /\ name \notin {".", ".."}
    /\ type \in {"FILE", "DIRECTORY"} /\ redirect \in {Null, Junk}
    /\ \/ IsDirectory(ns, parent) /\ \A c \in Kids(ns, parent) : ns[c].name # name
       \/ Len(ns) = 0 /\ parent = Null /\ type = "DIRECTORY"

SameNode(a, b) ==
    /\ IsNode(a) /\ a.type = b.type /\ a.parent = b.parent /\ a.name = b.name
    /\ a.redirect = b.redirect

LEMMA TreeShape ==
    ASSUME NEW ns, TreeInv(ns)
    PROVE  /\ Len(ns) \in Nat /\ DOMAIN ns = 1 .. Len(ns)
           /\ \A i \in 1 .. Len(ns) : NodeInv(ns, i) /\ ns[i].parent \in 0 .. i - 1 /\ i \in Nat \ {0}
<1>1. Len(ns) \in Nat /\ DOMAIN ns = 1 .. Len(ns) /\ \A i \in 1 .. Len(ns) : NodeInv(ns, i)
  BY DEF TreeInv
<1>2. ASSUME NEW i \in 1 .. Len(ns) PROVE ns[i].parent \in 0 .. i - 1
  <2>1. /\ i = Root => ns[i].parent = Null
        /\ i # Root => ns[i].parent \in 1 .. i - 1
    BY <1>1 DEF NodeInv
  <2> QED BY <1>1, <2>1 DEF Root, Null
<1> QED BY <1>1, <1>2

LEMMA CreatedFields ==
    ASSUME NEW ns, TreeInv(ns), NEW ms, NEW parent, NEW name, NEW type, NEW redirect,
           Created(ns, ms, parent, name, type, redirect), type \in {"FILE", "DIRECTORY"}
    PROVE  LET n == Len(ns) + 1
           IN  /\ Len(ms) = Len(ns) + Size(type) /\ ms = [i \in 1 .. Len(ms) |-> ms[i]]
               /\ \A i \in 1 .. Len(ns) :
                    /\ SameNode(ms[i], ns[i]) /\ ms[i].data = ns[i].data
                    /\ i # parent => ms[i].children = ns[i].children
                    /\ i = parent => ms[i].children = insert(ns[i].children, name, n)
               /\ SameNode(ms[n], Node(type, parent, name, redirect)) /\ ms[n].data = << >>
               /\ type = "DIRECTORY" =>
                    /\ ms[n].children = Dots(n)
                    /\ ms[n + 1] = Node("NONE", n, ".", n)
                    /\ ms[n + 2] = Node("NONE", n, "..", IF parent = Null THEN n ELSE parent)
<1> DEFINE n == Len(ns) + 1
           node == Node(type, parent, name, redirect)
<1>1. /\ Len(ms) = Len(ns) + Size(type) /\ ms = [i \in 1 .. Len(ms) |-> ms[i]]
      /\ \A i \in 1 .. Len(ns) :
           ms[i] = IF i = parent THEN WithChildren(ns[i], insert(ns[i].children, name, n)) ELSE ns[i]
      /\ type = "FILE" => ms[n] = node
      /\ type # "FILE" =>
           /\ ms[n] = WithChildren(node, Dots(n))
           /\ ms[n + 1] = Node("NONE", n, ".", n)
           /\ ms[n + 2] = Node("NONE", n, "..", IF parent = Null THEN n ELSE parent)
  BY DEF Created
<1>2. IsNode(node) /\ node.data = << >>
  BY FieldsOfNode
<1>3. "FILE" # "DIRECTORY"
  OBVIOUS
<1> HIDE DEF n, node
<1>4. ASSUME NEW i \in 1 .. Len(ns)
      PROVE  /\ SameNode(ms[i], ns[i]) /\ ms[i].data = ns[i].data
             /\ i # parent => ms[i].children = ns[i].children
             /\ i = parent => ms[i].children = insert(ns[i].children, name, n)
  <2>1. IsNode(ns[i])
    BY TreeShape DEF NodeInv
  <2>2. CASE i = parent
    <3>1. ms[i] = WithChildren(ns[i], insert(ns[i].children, name, n))
      BY <1>1, <2>2
    <3> QED BY <2>1, <2>2, <3>1, FieldsOfWith DEF SameNode
  <2>3. CASE i # parent
    <3>1. ms[i] = ns[i]
      BY <1>1, <2>3
    <3> QED BY <2>1, <2>3, <3>1 DEF SameNode
  <2> QED BY <2>2, <2>3
<1>5. SameNode(ms[n], node) /\ ms[n].data = << >> /\ (type # "FILE" => ms[n].children = Dots(n))
  <2>1. CASE type = "FILE"
    BY <1>1, <1>2, <2>1 DEF SameNode
  <2>2. CASE type # "FILE"
    <3>1. ms[n] = WithChildren(node, Dots(n))
      BY <1>1, <2>2
    <3> QED BY <1>2, <3>1, FieldsOfWith DEF SameNode
  <2> QED BY <2>1, <2>2
<1> QED BY <1>1, <1>3, <1>4, <1>5 DEF n, node

LEMMA CreatedKids ==
    ASSUME NEW ns, TreeInv(ns), NEW ms, NEW parent, NEW name, NEW type, NEW redirect,
           Created(ns, ms, parent, name, type, redirect), type \in {"FILE", "DIRECTORY"}
    PROVE  LET n == Len(ns) + 1
           IN  /\ \A d \in 1 .. Len(ns) :
                    Kids(ms, d) = Kids(ns, d) \cup (IF d = parent THEN {n} ELSE {})
               /\ type = "DIRECTORY" /\ parent \in 0 .. Len(ns) => Kids(ms, n) = {n + 1, n + 2}
<1> DEFINE n == Len(ns) + 1
           L == Len(ns)
<1>0. L \in Nat /\ n = L + 1
  BY TreeShape
<1>1. /\ \A i \in 1 .. L : ms[i].parent = ns[i].parent /\ ns[i].parent \in 0 .. i - 1
      /\ ms[n].parent = parent /\ Len(ms) = L + Size(type)
  BY TreeShape, CreatedFields, FieldsOfNode DEF SameNode
<1>2. type = "DIRECTORY" => ms[n + 1].parent = n /\ ms[n + 2].parent = n
  <2>1. type = "DIRECTORY" => /\ ms[n + 1] = Node("NONE", n, ".", n)
                              /\ ms[n + 2] = Node("NONE", n, "..", IF parent = Null THEN n ELSE parent)
    BY CreatedFields
  <2> HIDE DEF n
  <2> QED BY <2>1, FieldsOfNode
<1> HIDE DEF L, n
<1>3. /\ type = "FILE" => 1 .. Len(ms) = (1 .. L) \cup {n}
      /\ type = "DIRECTORY" => 1 .. Len(ms) = (1 .. L) \cup {n, n + 1, n + 2}
  BY <1>0, <1>1 DEF Size
<1>4. ASSUME NEW d \in 1 .. L
      PROVE  Kids(ms, d) = Kids(ns, d) \cup (IF d = parent THEN {n} ELSE {})
  <2>1. n # d
    BY <1>0
  <2>2. Kids(ns, d) = {c \in 1 .. L : ns[c].parent = d}
    BY DEF Kids, L
  <2> QED BY <1>1, <1>2, <1>3, <2>1, <2>2 DEF Kids
<1>5. ASSUME type = "DIRECTORY", parent \in 0 .. L PROVE Kids(ms, n) = {n + 1, n + 2}
  <2>1. parent # n /\ \A i \in 1 .. L : ms[i].parent # n
    BY <1>0, <1>1, <1>5
  <2>2. 1 .. Len(ms) = (1 .. L) \cup {n, n + 1, n + 2} /\ ms[n + 1].parent = n /\ ms[n + 2].parent = n
    BY <1>2, <1>3, <1>5
  <2> QED BY <1>1, <2>1, <2>2 DEF Kids
<1> QED BY <1>4, <1>5 DEF L, n

LEMMA CreatedNodes ==
    ASSUME NEW ns, TreeInv(ns), NEW ms, NEW parent, NEW name, NEW type, NEW redirect,
           Created(ns, ms, parent, name, type, redirect), Fits(ns, parent, name, type, redirect)
    PROVE  \A i \in 1 .. Len(ms) : NodeInv(ms, i)
<1> DEFINE n == Len(ns) + 1
           L == Len(ns)
<1>0. /\ L \in Nat /\ n = L + 1 /\ DOMAIN ns = 1 .. L /\ type \in {"FILE", "DIRECTORY"}
      /\ name \in Names /\ name \notin {".", ".."} /\ redirect \in {Null, Junk}
  BY TreeShape DEF Fits
<1>1. /\ L > 0 => parent \in 1 .. L /\ ns[parent].type = "DIRECTORY"
      /\ L = 0 => parent = Null /\ type = "DIRECTORY"
  BY <1>0 DEF Fits, IsDirectory
<1>2. /\ Len(ms) = L + Size(type)
      /\ \A i \in 1 .. L : SameNode(ms[i], ns[i])
      /\ SameNode(ms[n], Node(type, parent, name, redirect))
      /\ type = "DIRECTORY" => /\ ms[n + 1] = Node("NONE", n, ".", n)
                               /\ ms[n + 2] = Node("NONE", n, "..", IF parent = Null THEN n ELSE parent)
  BY <1>0, CreatedFields
<1> HIDE DEF L, n
<1>3. ASSUME NEW i \in 1 .. L PROVE NodeInv(ms, i)
  <2>1. NodeInv(ns, i) /\ SameNode(ms[i], ns[i])
    BY <1>2, TreeShape DEF L
  <2>2. i # Root => /\ ns[i].parent \in 1 .. i - 1 /\ ns[i].parent \in 1 .. L
                    /\ ms[ns[i].parent].type = "DIRECTORY"
    <3>1. ASSUME i # Root PROVE ns[i].parent \in 1 .. i - 1 /\ ns[ns[i].parent].type = "DIRECTORY"
      BY <2>1, <3>1 DEF NodeInv
    <3>2. ASSUME i # Root PROVE ns[i].parent \in 1 .. L
      BY <1>0, <3>1, <3>2
    <3> QED BY <1>2, <3>1, <3>2 DEF SameNode
  <2>3. i # Root => Above(ms, ns[i].parent) = Above(ns, ns[i].parent)
    BY <1>2, <2>2 DEF Above, SameNode
  <2>4. ns[i].type = "NONE" => i # Root
    BY <2>1 DEF NodeInv
  <2> QED BY <2>1, <2>2, <2>3, <2>4 DEF NodeInv, SameNode
<1>4. /\ IsNode(ms[n]) /\ ms[n].type = type /\ ms[n].parent = parent /\ ms[n].name = name
      /\ ms[n].redirect = redirect
  <2>1. LET w == Node(type, parent, name, redirect)
        IN  w.type = type /\ w.parent = parent /\ w.name = name /\ w.redirect = redirect
    BY FieldsOfNode
  <2> QED BY <1>2, <2>1 DEF SameNode
<1>5. NodeInv(ms, n)
  <2>1. n = Root <=> L = 0
    BY <1>0 DEF Root
  <2>2. n # Root => parent \in 1 .. n - 1 /\ ms[parent].type = "DIRECTORY"
    BY <1>0, <1>1, <1>2, <2>1 DEF SameNode
  <2>3. n = Root => parent = Null /\ type = "DIRECTORY"
    BY <1>1, <2>1
  <2> QED BY <1>0, <1>4, <2>2, <2>3 DEF NodeInv
<1>6. ASSUME type = "DIRECTORY" PROVE NodeInv(ms, n + 1) /\ NodeInv(ms, n + 2)
  <2> DEFINE up == IF parent = Null THEN n ELSE parent
  <2>1. up = Above(ms, n)
    BY <1>4 DEF Above
  <2>2. ms[n + 1] = Node("NONE", n, ".", n) /\ ms[n + 2] = Node("NONE", n, "..", up)
    BY <1>2, <1>6
  <2> HIDE DEF up
  <2>3. /\ IsNode(ms[n + 1]) /\ ms[n + 1].type = "NONE" /\ ms[n + 1].parent = n
        /\ ms[n + 1].name = "." /\ ms[n + 1].redirect = n
    BY <2>2, FieldsOfNode
  <2>4. /\ IsNode(ms[n + 2]) /\ ms[n + 2].type = "NONE" /\ ms[n + 2].parent = n
        /\ ms[n + 2].name = ".." /\ ms[n + 2].redirect = up
    BY <2>2, FieldsOfNode
  <2>5. "." \in Names /\ ".." \in Names
    BY Constants
  <2>6. /\ n + 1 # Root /\ n + 2 # Root /\ n \in 1 .. (n + 1) - 1 /\ n \in 1 .. (n + 2) - 1
        /\ ms[n].type = "DIRECTORY"
    BY <1>0, <1>4, <1>6 DEF Root
  <2>7. NodeInv(ms, n + 1)
    BY <2>3, <2>5, <2>6 DEF NodeInv
  <2>8. NodeInv(ms, n + 2)
    BY <2>1, <2>4, <2>5, <2>6 DEF NodeInv
  <2> QED BY <2>7, <2>8
<1>7. /\ type = "FILE" => 1 .. Len(ms) = (1 .. L) \cup {n}
      /\ type = "DIRECTORY" => 1 .. Len(ms) = (1 .. L) \cup {n, n + 1, n + 2}
  BY <1>0, <1>2 DEF Size
<1> QED BY <1>0, <1>3, <1>5, <1>6, <1>7

LEMMA DotsAre ==
    ASSUME NEW n \in Nat
    PROVE  MapInv(Dots(n)) /\ Content(Dots(n)) = {Entry(".", n + 1), Entry("..", n + 2)}
<1> DEFINE a == NewMap(InitialCapacity)
           b == insert(a, ".", n + 1)
<1>1. MapInv(a) /\ Content(a) = {}
  BY Constants, EmptyMap
<1>2. "." \in Names /\ ".." \in Names /\ n + 1 \in Nat \ {0} /\ n + 2 \in Nat \ {0}
  <2>1. "." \in Names /\ ".." \in Names
    BY Constants
  <2> QED BY <2>1
<1> HIDE DEF a
<1>3. MapInv(b) /\ Content(b) = {} \cup {Entry(".", n + 1)}
  BY <1>1, <1>2, InsertIs
<1>4. Entry(".", n + 1).key # ".."
  BY DEF Entry
<1> HIDE DEF b
<1>5. \A e \in Content(b) : e.key # ".."
  BY <1>3, <1>4
<1>6. /\ MapInv(insert(b, "..", n + 2))
      /\ Content(insert(b, "..", n + 2)) = Content(b) \cup {Entry("..", n + 2)}
  BY <1>2, <1>3, <1>5, InsertIs
<1>7. Dots(n) = insert(b, "..", n + 2)
  BY DEF Dots, a, b
<1> QED BY <1>3, <1>6, <1>7

LEMMA CreatedDirectories ==
    ASSUME NEW ns, TreeInv(ns), NEW ms, NEW parent, NEW name, NEW type, NEW redirect,
           Created(ns, ms, parent, name, type, redirect), Fits(ns, parent, name, type, redirect)
    PROVE  \A d \in 1 .. Len(ms) : ms[d].type = "DIRECTORY" => DirectoryInv(ms, d)
<1> DEFINE n == Len(ns) + 1
           L == Len(ns)
<1>0. /\ L \in Nat /\ n = L + 1 /\ DOMAIN ns = 1 .. L /\ type \in {"FILE", "DIRECTORY"}
      /\ name \in Names
  BY TreeShape DEF Fits
<1>1. parent \in 0 .. L
  BY <1>0 DEF Fits, IsDirectory, Null
<1>2. \A d \in 1 .. L : Kids(ms, d) = Kids(ns, d) \cup (IF d = parent THEN {n} ELSE {})
  BY <1>0, CreatedKids
<1>3. type = "DIRECTORY" => Kids(ms, n) = {n + 1, n + 2}
  BY <1>0, <1>1, CreatedKids
<1>4. /\ Len(ms) = L + Size(type)
      /\ \A i \in 1 .. L : SameNode(ms[i], ns[i])
      /\ \A i \in 1 .. L : i # parent => ms[i].children = ns[i].children
      /\ \A i \in 1 .. L : i = parent => ms[i].children = insert(ns[i].children, name, n)
      /\ SameNode(ms[n], Node(type, parent, name, redirect))
      /\ type = "DIRECTORY" =>
           /\ ms[n].children = Dots(n) /\ ms[n + 1] = Node("NONE", n, ".", n)
           /\ ms[n + 2] = Node("NONE", n, "..", IF parent = Null THEN n ELSE parent)
  BY <1>0, CreatedFields
<1>5. ms[n].type = type /\ ms[n].name = name
  BY <1>4, FieldsOfNode DEF SameNode
<1> HIDE DEF L, n
<1>6. ASSUME NEW d \in 1 .. L, ms[d].type = "DIRECTORY" PROVE DirectoryInv(ms, d)
  <2> DEFINE old == ns[d].children
             new == ms[d].children
  <2>1. ns[d].type = "DIRECTORY"
    BY <1>4, <1>6 DEF SameNode
  <2>2. DirectoryInv(ns, d)
    BY <1>6, <2>1 DEF TreeInv, L
  <2>3. /\ MapInv(old) /\ Content(old) = {Entry(ns[c].name, c) : c \in Kids(ns, d)}
        /\ \E c \in Kids(ns, d) : ns[c].name = "."
        /\ \E c \in Kids(ns, d) : ns[c].name = ".."
    BY <2>2 DEF DirectoryInv
  <2>4. Kids(ns, d) \subseteq 1 .. L
    BY DEF Kids, L
  <2>5. \A c \in Kids(ns, d) : ms[c].name = ns[c].name /\ c \in Kids(ms, d)
    BY <1>2, <1>4, <2>4 DEF SameNode
  <2> HIDE DEF old, new
  <2>6. CASE d = parent
    <3>1. \A e \in Content(old) : e.key # name
      <4>1. \A c \in Kids(ns, d) : ns[c].name # name
        BY <1>0, <2>6 DEF Fits, IsDirectory, L
      <4>2. \A c : Entry(ns[c].name, c).key = ns[c].name
        BY DEF Entry
      <4> QED BY <2>3, <4>1, <4>2
    <3>2. n \in Nat \ {0}
      BY <1>0
    <3>3. MapInv(insert(old, name, n)) /\ Content(insert(old, name, n)) = Content(old) \cup {Entry(name, n)}
      BY <1>0, <2>3, <3>1, <3>2, InsertIs
    <3>4. new = insert(old, name, n)
      BY <1>4, <2>6 DEF old, new
    <3>5. Kids(ms, d) = Kids(ns, d) \cup {n}
      BY <1>2, <2>6
    <3>6. Content(new) = {Entry(ms[c].name, c) : c \in Kids(ms, d)}
      BY <1>5, <2>3, <2>5, <3>3, <3>4, <3>5
    <3> QED BY <2>3, <2>5, <3>3, <3>4, <3>6 DEF DirectoryInv, new
  <2>7. CASE d # parent
    <3>1. new = old
      BY <1>4, <2>7 DEF old, new
    <3>2. Kids(ms, d) = Kids(ns, d)
      BY <1>2, <2>7
    <3>3. Content(new) = {Entry(ms[c].name, c) : c \in Kids(ms, d)}
      BY <2>3, <2>5, <3>1, <3>2
    <3> QED BY <2>3, <2>5, <3>1, <3>3 DEF DirectoryInv, new
  <2> QED BY <2>6, <2>7
<1>7. ASSUME type = "DIRECTORY" PROVE DirectoryInv(ms, n)
  <2>1. ms[n + 1].name = "." /\ ms[n + 2].name = ".."
    BY <1>4, <1>7, FieldsOfNode
  <2>2. Kids(ms, n) = {n + 1, n + 2} /\ ms[n].children = Dots(n)
    BY <1>3, <1>4, <1>7
  <2>3. MapInv(Dots(n)) /\ Content(Dots(n)) = {Entry(".", n + 1), Entry("..", n + 2)}
    BY <1>0, DotsAre
  <2>4. {Entry(ms[c].name, c) : c \in Kids(ms, n)} = {Entry(".", n + 1), Entry("..", n + 2)}
    BY <2>1, <2>2
  <2> QED BY <2>1, <2>2, <2>3, <2>4 DEF DirectoryInv
<1>8. /\ type = "FILE" => 1 .. Len(ms) = (1 .. L) \cup {n}
      /\ type = "DIRECTORY" => 1 .. Len(ms) = (1 .. L) \cup {n, n + 1, n + 2}
  BY <1>0, <1>4 DEF Size
<1>9. type = "DIRECTORY" => ms[n + 1].type = "NONE" /\ ms[n + 2].type = "NONE"
  BY <1>4, FieldsOfNode
<1> QED BY <1>0, <1>5, <1>6, <1>7, <1>8, <1>9

LEMMA CreatedTree ==
    ASSUME NEW ns, TreeInv(ns), NEW ms, NEW parent, NEW name, NEW type, NEW redirect,
           Created(ns, ms, parent, name, type, redirect), Fits(ns, parent, name, type, redirect)
    PROVE  TreeInv(ms) /\ Len(ms) > Len(ns) /\ Len(ns) \in Nat
<1>1. type \in {"FILE", "DIRECTORY"} /\ Len(ns) \in Nat
  BY TreeShape DEF Fits
<1>2. Len(ms) = Len(ns) + Size(type) /\ ms = [i \in 1 .. Len(ms) |-> ms[i]]
  BY <1>1, CreatedFields
<1>3. Len(ms) \in Nat /\ Len(ms) > Len(ns)
  BY <1>1, <1>2 DEF Size
<1> QED BY <1>1, <1>2, <1>3, CreatedNodes, CreatedDirectories DEF TreeInv

(* Writing to a file changes nothing of the tree. *)
Written(ns, n, data) == [ns EXCEPT ![n].data = data]

LEMMA SameTree ==
    ASSUME NEW ns, TreeInv(ns), NEW n \in 1 .. Len(ns), NEW data
    PROVE  LET ms == Written(ns, n, data)
           IN  /\ TreeInv(ms) /\ Len(ms) = Len(ns)
               /\ \A i \in 1 .. Len(ns) : /\ SameNode(ms[i], ns[i])
                                          /\ ms[i].data = IF i = n THEN data ELSE ns[i].data
<1> DEFINE ms == Written(ns, n, data)
           L == Len(ns)
<1>0. L \in Nat /\ ns = [i \in 1 .. L |-> ns[i]] /\ DOMAIN ns = 1 .. L
  BY DEF TreeInv
<1>1. ms = [ns EXCEPT ![n] = WithData(ns[n], data)]
  BY DEF Written, WithData
<1> HIDE DEF ms, L
<1>2. /\ ms = [i \in 1 .. L |-> ms[i]]
      /\ \A i \in 1 .. L : ms[i] = IF i = n THEN WithData(ns[n], data) ELSE ns[i]
  BY <1>0, <1>1
<1>3. Len(ms) = L
  BY <1>0, <1>2, FunctionIsSeq
<1>4. ASSUME NEW i \in 1 .. L
      PROVE  /\ SameNode(ms[i], ns[i]) /\ ms[i].children = ns[i].children
             /\ ms[i].data = IF i = n THEN data ELSE ns[i].data
  <2>1. IsNode(ns[i])
    BY TreeShape DEF NodeInv, L
  <2>2. CASE i = n
    BY <1>2, <2>1, <2>2, FieldsOfWith DEF SameNode
  <2>3. CASE i # n
    BY <1>2, <2>1, <2>3 DEF SameNode
  <2> QED BY <2>2, <2>3
<1>5. \A d : Kids(ms, d) = Kids(ns, d)
  BY <1>3, <1>4 DEF Kids, SameNode, L
<1>6. ASSUME NEW i \in 1 .. L PROVE NodeInv(ms, i)
  <2>1. NodeInv(ns, i)
    BY TreeShape DEF L
  <2>2. ASSUME i # Root PROVE ns[i].parent \in 1 .. L /\ ns[i].parent \in 1 .. i - 1
    BY <1>0, <2>1, <2>2 DEF NodeInv
  <2>3. i # Root => ms[ns[i].parent].type = ns[ns[i].parent].type /\ Above(ms, ns[i].parent) = Above(ns, ns[i].parent)
    BY <1>4, <2>2 DEF Above, SameNode
  <2>4. SameNode(ms[i], ns[i])
    BY <1>4
  <2>5. ns[i].type = "NONE" => i # Root
    BY <2>1 DEF NodeInv
  <2> QED BY <2>1, <2>2, <2>3, <2>4, <2>5 DEF NodeInv, SameNode
<1>7. ASSUME NEW d \in 1 .. L, ms[d].type = "DIRECTORY" PROVE DirectoryInv(ms, d)
  <2>1. DirectoryInv(ns, d)
    BY <1>4, <1>7 DEF TreeInv, SameNode, L
  <2>2. \A c \in Kids(ns, d) : ms[c].name = ns[c].name
    BY <1>4 DEF Kids, SameNode, L
  <2>3. {Entry(ms[c].name, c) : c \in Kids(ms, d)} = {Entry(ns[c].name, c) : c \in Kids(ns, d)}
    BY <1>5, <2>2
  <2> QED BY <1>4, <1>5, <2>1, <2>2, <2>3 DEF DirectoryInv
<1>8. TreeInv(ms)
  BY <1>0, <1>2, <1>3, <1>6, <1>7 DEF TreeInv
<1> QED BY <1>3, <1>4, <1>8 DEF ms, L

-----------------------------------------------------------------------------
(* What a component of a path leads to. *)

LEMMA OneKid ==
    ASSUME NEW ns, TreeInv(ns), NEW d, IsDirectory(ns, d),
           NEW a \in Kids(ns, d), NEW b \in Kids(ns, d), ns[a].name = ns[b].name
    PROVE  a = b
<1>1. DirectoryInv(ns, d)
  BY DEF TreeInv, IsDirectory
<1> DEFINE e == Entry(ns[a].name, a)
           f == Entry(ns[b].name, b)
           C == Content(ns[d].children)
<1>2. e \in C /\ f \in C /\ \A x, y \in C : x.key = y.key => x = y
  BY <1>1 DEF DirectoryInv, MapInv
<1>3. e.key = ns[a].name /\ e.value = a /\ f.key = ns[b].name /\ f.value = b
  BY DEF Entry
<1> HIDE DEF e, f, C
<1>4. e = f
  BY <1>2, <1>3
<1> QED BY <1>3, <1>4

Target(ns, c) == IF ns[c].type = "NONE" THEN ns[c].redirect ELSE c

LEMMA KidIs ==
    ASSUME NEW ns, TreeInv(ns), NEW d, IsDirectory(ns, d), NEW c \in Kids(ns, d)
    PROVE  /\ d \in 1 .. Len(ns) /\ c \in 1 .. Len(ns) /\ ns[c].parent = d /\ c # Root
           /\ Target(ns, c) \in 1 .. Len(ns) /\ ns[Target(ns, c)].type # "NONE"
           /\ ns[c].type = "NONE" <=> ns[c].name \in {".", ".."}
           /\ ns[c].name = "." => Target(ns, c) = d
           /\ ns[c].name = ".." => Target(ns, c) = IF d = Root THEN Root ELSE ns[d].parent
           /\ d # Root => ns[d].parent \in 1 .. Len(ns) /\ ns[ns[d].parent].type = "DIRECTORY"
<1> DEFINE L == Len(ns)
<1>1. L \in Nat /\ DOMAIN ns = 1 .. L /\ \A i \in 1 .. L : NodeInv(ns, i)
  BY TreeShape
<1> HIDE DEF L
<1>2. d \in 1 .. L /\ ns[d].type = "DIRECTORY" /\ c \in 1 .. L /\ ns[c].parent = d
  BY <1>1 DEF IsDirectory, Kids, L
<1>3. NodeInv(ns, d) /\ NodeInv(ns, c)
  BY <1>1, <1>2
<1>4. /\ d = Root => ns[d].parent = Null
      /\ d # Root => ns[d].parent \in 1 .. d - 1 /\ ns[ns[d].parent].type = "DIRECTORY"
  BY <1>3 DEF NodeInv
<1>5. c # Root
  BY <1>2, <1>3 DEF NodeInv, Null
<1>6. /\ d # Root => /\ ns[d].parent \in 1 .. L /\ ns[ns[d].parent].type = "DIRECTORY"
                     /\ ns[d].parent # Null
  BY <1>1, <1>2, <1>4 DEF Null
<1>7. Above(ns, d) = IF d = Root THEN Root ELSE ns[d].parent
  BY <1>4, <1>6 DEF Above
<1>8. Above(ns, d) \in 1 .. L /\ ns[Above(ns, d)].type = "DIRECTORY"
  BY <1>2, <1>6, <1>7
<1>9. /\ ns[c].type # "NONE" => ns[c].name \notin {".", ".."}
      /\ ns[c].type = "NONE" => \/ ns[c].name = "." /\ ns[c].redirect = d
                                \/ ns[c].name = ".." /\ ns[c].redirect = Above(ns, d)
  BY <1>2, <1>3 DEF NodeInv
<1>10. CASE ns[c].type = "NONE"
  <2>1. Target(ns, c) = ns[c].redirect
    BY <1>10 DEF Target
  <2>2. CASE ns[c].name = "."
    BY <1>2, <1>5, <1>6, <1>9, <1>10, <2>1, <2>2 DEF L
  <2>3. CASE ns[c].name = ".."
    BY <1>2, <1>5, <1>6, <1>7, <1>8, <1>9, <1>10, <2>1, <2>3 DEF L
  <2> QED BY <1>9, <1>10, <2>2, <2>3
<1>11. CASE ns[c].type # "NONE"
  BY <1>2, <1>5, <1>6, <1>9, <1>11 DEF Target, L
<1> QED BY <1>10, <1>11

(* The meaning of a component is the directory's kid of that name. *)
LEMMA ChildIs ==
    ASSUME NEW ns, TreeInv(ns), NEW d, IsDirectory(ns, d), NEW key
    PROVE  /\ \A c \in Kids(ns, d) : ns[c].name = key => Child(ns, d, key) = Target(ns, c)
           /\ (\A c \in Kids(ns, d) : ns[c].name # key) => Child(ns, d, key) = Null
<1>1. \A c \in Kids(ns, d) : /\ c \in DOMAIN ns /\ ns[c].parent = d
                             /\ ns[c].type = "NONE" <=> ns[c].name \in {".", ".."}
                             /\ ns[c].name = "." => Target(ns, c) = d
                             /\ ns[c].name = ".." => Target(ns, c) = IF d = Root THEN Root ELSE ns[d].parent
  BY KidIs, TreeShape
<1>2. (\E c \in Kids(ns, d) : ns[c].name = ".") /\ (\E c \in Kids(ns, d) : ns[c].name = "..")
  BY DEF TreeInv, DirectoryInv, IsDirectory
<1>3. CASE key = "."
  BY <1>1, <1>2, <1>3 DEF Child
<1>4. CASE key = ".."
  BY <1>1, <1>2, <1>4 DEF Child
<1>5. CASE key # "." /\ key # ".."
  <2> DEFINE found == {c \in DOMAIN ns : ns[c].type # "NONE" /\ ns[c].parent = d /\ ns[c].name = key}
  <2>1. Child(ns, d, key) = IF found = {} THEN Null ELSE CHOOSE c \in found : TRUE
    BY <1>5 DEF Child
  <2>2. \A c \in found : c \in Kids(ns, d) /\ ns[c].name = key
    BY TreeShape DEF Kids
  <2>3. \A c \in Kids(ns, d) : ns[c].name = key => c \in found /\ Target(ns, c) = c
    BY <1>1, <1>5 DEF Target
  <2> HIDE DEF found
  <2>4. ASSUME NEW c \in Kids(ns, d), ns[c].name = key PROVE Child(ns, d, key) = Target(ns, c)
    <3>1. c \in found /\ Target(ns, c) = c
      BY <2>3, <2>4
    <3>2. \A x \in found : x = c
      BY <2>2, <2>4, OneKid
    <3>3. (CHOOSE x \in found : TRUE) = c
      BY <3>1, <3>2
    <3> QED BY <2>1, <3>1, <3>3
  <2>5. (\A c \in Kids(ns, d) : ns[c].name # key) => found = {}
    BY <2>2
  <2> QED BY <2>1, <2>4, <2>5
<1> QED BY <1>3, <1>4, <1>5

(* The map of a directory knows its kids. *)
LEMMA LookupIs ==
    ASSUME NEW ns, TreeInv(ns), NEW d, IsDirectory(ns, d), NEW key \in Names
    PROVE  LET v == get(ns[d].children, key)
           IN  /\ v # Null => v \in Kids(ns, d) /\ ns[v].name = key
               /\ v = Null => \A c \in Kids(ns, d) : ns[c].name # key
<1> DEFINE m == ns[d].children
           v == get(m, key)
<1>1. MapInv(m) /\ Content(m) = {Entry(ns[c].name, c) : c \in Kids(ns, d)}
  BY DEF TreeInv, DirectoryInv, IsDirectory
<1>2. \A c : Entry(ns[c].name, c).key = ns[c].name /\ Entry(ns[c].name, c).value = c
  BY DEF Entry
<1> HIDE DEF m
<1>3. /\ \A e \in Content(m) : e.key = key => v = e.value
      /\ v # 0 => \E e \in Content(m) : e.key = key /\ e.value = v
  BY <1>1, GetIs
<1>4. Kids(ns, d) \subseteq Nat \ {0}
  <2>1. Len(ns) \in Nat
    BY TreeShape
  <2> QED BY <2>1 DEF Kids
<1> HIDE DEF v
<1>5. v # Null => v \in Kids(ns, d) /\ ns[v].name = key
  BY <1>1, <1>2, <1>3 DEF Null
<1>6. ASSUME v = Null, NEW c \in Kids(ns, d), ns[c].name = key PROVE FALSE
  <2>1. Entry(ns[c].name, c) \in Content(m)
    BY <1>1
  <2>2. v = c
    BY <1>2, <1>3, <1>6, <2>1
  <2> QED BY <1>4, <1>6, <2>2 DEF Null
<1> QED BY <1>5, <1>6 DEF m, v

-----------------------------------------------------------------------------
(* Paths. *)

MeaningLoop(g, ns, first, path, n) ==
    g = [i \in 0 .. n |-> IF i = 0 THEN first ELSE Below(ns, g[i - 1], path[i])]

PathLoop(g, first, path, n) ==
    g = [i \in 0 .. n |-> IF i = 0 THEN first ELSE Follow(g[i - 1], path[i])]

LEMMA MeaningLoopExists ==
    ASSUME NEW ns, NEW first, NEW path, NEW n \in Nat
    PROVE  \E g : MeaningLoop(g, ns, first, path, n)
<1> DEFINE Body(last, i) == Below(ns, last, path[i])
           T == {k \in Nat : \E g : g = [i \in 0 .. k |-> IF i = 0 THEN first ELSE Body(g[i - 1], i)]}
<1> HIDE DEF Body
<1>1. 0 \in T
  <2> DEFINE g == [i \in 0 .. 0 |-> first]
  <2>1. g = [i \in 0 .. 0 |-> IF i = 0 THEN first ELSE Body(g[i - 1], i)]
    OBVIOUS
  <2> QED BY <2>1
<1>2. ASSUME NEW k \in Nat, k \in T PROVE k + 1 \in T
  <2>1. PICK g : g = [i \in 0 .. k |-> IF i = 0 THEN first ELSE Body(g[i - 1], i)]
    BY <1>2
  <2> DEFINE e == [i \in 0 .. k + 1 |-> IF i = k + 1 THEN Body(g[k], k + 1) ELSE g[i]]
  <2>2. ASSUME NEW i \in 0 .. k + 1 PROVE e[i] = IF i = 0 THEN first ELSE Body(e[i - 1], i)
    <3>1. CASE i = k + 1
      <4>1. i # 0 /\ i - 1 = k /\ k \in 0 .. k + 1 /\ k # k + 1
        BY <3>1
      <4>2. e[i - 1] = g[k]
        BY <4>1
      <4>3. e[i] = Body(g[k], k + 1)
        BY <3>1
      <4> HIDE DEF e
      <4> QED BY <3>1, <4>1, <4>2, <4>3
    <3>2. CASE i # k + 1
      <4>1. i \in 0 .. k /\ (i # 0 => i - 1 \in 0 .. k + 1 /\ i - 1 # k + 1)
        BY <3>2
      <4>2. g[i] = IF i = 0 THEN first ELSE Body(g[i - 1], i)
        BY <2>1, <4>1
      <4>3. e[i] = g[i] /\ (i # 0 => e[i - 1] = g[i - 1])
        BY <3>2, <4>1
      <4> HIDE DEF e
      <4> QED BY <4>2, <4>3
    <3> QED BY <3>1, <3>2
  <2>3. e = [i \in 0 .. k + 1 |-> e[i]]
    OBVIOUS
  <2> HIDE DEF e
  <2>4. e = [i \in 0 .. k + 1 |-> IF i = 0 THEN first ELSE Body(e[i - 1], i)]
    BY <2>2, <2>3
  <2> QED BY <2>4
<1> HIDE DEF T
<1>3. n \in T
  BY <1>1, <1>2, Induct
<1> QED BY <1>3 DEF T, MeaningLoop, Body

LEMMA PathLoopExists ==
    ASSUME NEW first, NEW path, NEW n \in Nat
    PROVE  \E g : PathLoop(g, first, path, n)
<1> DEFINE Body(last, i) == Follow(last, path[i])
           T == {k \in Nat : \E g : g = [i \in 0 .. k |-> IF i = 0 THEN first ELSE Body(g[i - 1], i)]}
<1> HIDE DEF Body
<1>1. 0 \in T
  <2> DEFINE g == [i \in 0 .. 0 |-> first]
  <2>1. g = [i \in 0 .. 0 |-> IF i = 0 THEN first ELSE Body(g[i - 1], i)]
    OBVIOUS
  <2> QED BY <2>1
<1>2. ASSUME NEW k \in Nat, k \in T PROVE k + 1 \in T
  <2>1. PICK g : g = [i \in 0 .. k |-> IF i = 0 THEN first ELSE Body(g[i - 1], i)]
    BY <1>2
  <2> DEFINE e == [i \in 0 .. k + 1 |-> IF i = k + 1 THEN Body(g[k], k + 1) ELSE g[i]]
  <2>2. ASSUME NEW i \in 0 .. k + 1 PROVE e[i] = IF i = 0 THEN first ELSE Body(e[i - 1], i)
    <3>1. CASE i = k + 1
      <4>1. i # 0 /\ i - 1 = k /\ k \in 0 .. k + 1 /\ k # k + 1
        BY <3>1
      <4>2. e[i - 1] = g[k]
        BY <4>1
      <4>3. e[i] = Body(g[k], k + 1)
        BY <3>1
      <4> HIDE DEF e
      <4> QED BY <3>1, <4>1, <4>2, <4>3
    <3>2. CASE i # k + 1
      <4>1. i \in 0 .. k /\ (i # 0 => i - 1 \in 0 .. k + 1 /\ i - 1 # k + 1)
        BY <3>2
      <4>2. g[i] = IF i = 0 THEN first ELSE Body(g[i - 1], i)
        BY <2>1, <4>1
      <4>3. e[i] = g[i] /\ (i # 0 => e[i - 1] = g[i - 1])
        BY <3>2, <4>1
      <4> HIDE DEF e
      <4> QED BY <4>2, <4>3
    <3> QED BY <3>1, <3>2
  <2>3. e = [i \in 0 .. k + 1 |-> e[i]]
    OBVIOUS
  <2> HIDE DEF e
  <2>4. e = [i \in 0 .. k + 1 |-> IF i = 0 THEN first ELSE Body(e[i - 1], i)]
    BY <2>2, <2>3
  <2> QED BY <2>4
<1> HIDE DEF T
<1>3. n \in T
  BY <1>1, <1>2, Induct
<1> QED BY <1>3 DEF T, PathLoop, Body

LEMMA MeaningRounds ==
    ASSUME NEW ns, NEW first, NEW path, Len(path) \in Nat
    PROVE  \E g : /\ g[0] = first /\ Meaning(ns, first, path) = g[Len(path)]
                  /\ \A k \in 1 .. Len(path) : g[k] = Below(ns, g[k - 1], path[k])
<1> DEFINE n == Len(path)
           g == CHOOSE g : MeaningLoop(g, ns, first, path, n)
<1>1. MeaningLoop(g, ns, first, path, n)
  BY MeaningLoopExists
<1>2. Meaning(ns, first, path) = g[n]
  BY DEF Meaning, MeaningLoop
<1> HIDE DEF g
<1>3. n \in Nat
  OBVIOUS
<1> HIDE DEF n
<1>4. \A i \in 0 .. n : g[i] = IF i = 0 THEN first ELSE Below(ns, g[i - 1], path[i])
  BY <1>1 DEF MeaningLoop
<1>5. 0 \in 0 .. n /\ \A k \in 1 .. n : k \in 0 .. n /\ k # 0
  BY <1>3
<1>6. g[0] = first /\ \A k \in 1 .. n : g[k] = Below(ns, g[k - 1], path[k])
  BY <1>4, <1>5
<1> QED BY <1>2, <1>6 DEF n

(* The last component is followed from what the others mean. *)
LEMMA MeaningLast ==
    ASSUME NEW ns, NEW d, NEW p, NEW q, Len(p) \in Nat, Len(q) = Len(p) + 1,
           \A i \in 1 .. Len(p) : p[i] = q[i]
    PROVE  Meaning(ns, d, q) = Below(ns, Meaning(ns, d, p), q[Len(q)])
<1> DEFINE n == Len(p)
<1>1. PICK g : /\ g[0] = d /\ Meaning(ns, d, p) = g[n]
               /\ \A k \in 1 .. n : g[k] = Below(ns, g[k - 1], p[k])
  BY MeaningRounds
<1>2. PICK h : /\ h[0] = d /\ Meaning(ns, d, q) = h[n + 1]
               /\ \A k \in 1 .. n + 1 : h[k] = Below(ns, h[k - 1], q[k])
  BY MeaningRounds
<1>3. n \in Nat /\ \A i \in 1 .. n : p[i] = q[i]
  OBVIOUS
<1> HIDE DEF n
<1> DEFINE K == {k \in 0 .. n : g[k] = h[k]}
<1>4. 0 \in K
  BY <1>1, <1>2, <1>3
<1>5. ASSUME NEW k \in Nat, k < n, k \in K PROVE k + 1 \in K
  <2>1. k + 1 \in 0 .. n /\ k + 1 \in 1 .. n /\ k + 1 \in 1 .. n + 1 /\ (k + 1) - 1 = k
    BY <1>3, <1>5
  <2>2. g[k + 1] = Below(ns, g[k], p[k + 1]) /\ h[k + 1] = Below(ns, h[k], q[k + 1])
    BY <1>1, <1>2, <2>1
  <2> QED BY <1>3, <1>5, <2>1, <2>2
<1>6. n \in K
  <2> HIDE DEF K
  <2> QED BY <1>3, <1>4, <1>5, InductTo
<1>7. n + 1 \in 1 .. n + 1 /\ (n + 1) - 1 = n
  BY <1>3
<1>8. h[n + 1] = Below(ns, h[n], q[n + 1])
  BY <1>2, <1>7
<1> QED BY <1>1, <1>2, <1>6, <1>8 DEF n

LEMMA MeaningOfNothing ==
    ASSUME NEW ns, NEW d, NEW p, Len(p) = 0
    PROVE  Meaning(ns, d, p) = d
  BY MeaningRounds

(* What has a meaning keeps it when other meanings only are added. *)
LEMMA MeaningOfOne ==
    ASSUME NEW ns, NEW d, NEW p, Len(p) = 1
    PROVE  Meaning(ns, d, p) = Below(ns, d, p[1])
<1>1. Len(p) \in Nat
  OBVIOUS
<1>2. PICK g : /\ g[0] = d /\ Meaning(ns, d, p) = g[Len(p)]
               /\ \A k \in 1 .. Len(p) : g[k] = Below(ns, g[k - 1], p[k])
  BY ONLY <1>1, MeaningRounds
<1>3. 1 \in 1 .. Len(p) /\ 1 - 1 = 0
  OBVIOUS
<1>4. g[1] = Below(ns, g[1 - 1], p[1])
  BY ONLY <1>2, <1>3
<1> QED BY <1>2, <1>3, <1>4

LEMMA MeaningStays ==
    ASSUME NEW ns, NEW ms, NEW d, NEW path, Len(path) \in Nat, Null \notin DOMAIN ns,
           \A n \in DOMAIN ns, i \in 1 .. Len(path) :
               Below(ns, n, path[i]) # Null => Below(ms, n, path[i]) = Below(ns, n, path[i]),
           Meaning(ns, d, path) # Null
    PROVE  Meaning(ms, d, path) = Meaning(ns, d, path)
<1> DEFINE n == Len(path)
<1>1. PICK g : /\ g[0] = d /\ Meaning(ns, d, path) = g[n]
               /\ \A k \in 1 .. n : g[k] = Below(ns, g[k - 1], path[k])
  BY MeaningRounds
<1>2. PICK h : /\ h[0] = d /\ Meaning(ms, d, path) = h[n]
               /\ \A k \in 1 .. n : h[k] = Below(ms, h[k - 1], path[k])
  <2>1. Len(path) \in Nat
    OBVIOUS
  <2> QED BY ONLY <2>1, MeaningRounds
<1>3. n \in Nat
  OBVIOUS
<1> DEFINE K == {k \in 0 .. n : g[k] # Null => h[k] = g[k]}
<1>4. 0 \in K
  BY <1>1, <1>2, <1>3
<1>5. ASSUME NEW k \in Nat, k < n, k \in K PROVE k + 1 \in K
  <2>1. k + 1 \in 0 .. n /\ k + 1 \in 1 .. n /\ (k + 1) - 1 = k
    BY <1>3, <1>5
  <2>2. g[k + 1] = Below(ns, g[k], path[k + 1]) /\ h[k + 1] = Below(ms, h[k], path[k + 1])
    BY <1>1, <1>2, <2>1
  <2>3. Below(ns, g[k], path[k + 1]) # Null => g[k] \in DOMAIN ns
    BY DEF Below
  <2>4. ASSUME g[k + 1] # Null PROVE h[k + 1] = g[k + 1]
    <3>1. g[k] \in DOMAIN ns /\ g[k] # Null
      BY <2>2, <2>3, <2>4
    <3>2. h[k] = g[k]
      BY <1>5, <3>1
    <3>3. Below(ms, g[k], path[k + 1]) = Below(ns, g[k], path[k + 1])
      BY <2>1, <2>2, <2>4, <3>1
    <3> QED BY <2>2, <3>2, <3>3
  <2> QED BY <2>1, <2>4
<1>6. n \in K
  <2> HIDE DEF K, n
  <2> QED BY <1>3, <1>4, <1>5, InductTo
<1> QED BY <1>1, <1>2, <1>6

LEMMA PathRounds ==
    ASSUME NEW first, NEW path, Len(path) \in Nat, path # << >>
    PROVE  \E g : /\ g[0] = Result(Null, first, NoBasename)
                  /\ path_to_node(path, first) = g[Len(path)]
                  /\ \A k \in 1 .. Len(path) : g[k] = Follow(g[k - 1], path[k])
<1> DEFINE n == Len(path)
           s == Result(Null, first, NoBasename)
           g == CHOOSE g : PathLoop(g, s, path, n)
<1>1. PathLoop(g, s, path, n)
  <2> HIDE DEF s
  <2> QED BY PathLoopExists
<1>2. path_to_node(path, first) = g[n]
  BY DEF path_to_node, PathLoop
<1> HIDE DEF g, s
<1>3. n \in Nat
  OBVIOUS
<1> HIDE DEF n
<1>4. \A i \in 0 .. n : g[i] = IF i = 0 THEN s ELSE Follow(g[i - 1], path[i])
  BY <1>1 DEF PathLoop
<1>5. 0 \in 0 .. n /\ \A k \in 1 .. n : k \in 0 .. n /\ k # 0
  BY <1>3
<1>6. g[0] = s /\ \A k \in 1 .. n : g[k] = Follow(g[k - 1], path[k])
  BY <1>4, <1>5
<1> QED BY <1>2, <1>6 DEF n, s

(* What path_to_node has found after some components, when they mean n: the    *)
(* node, or Junk; and where it has stopped, for want of a name.                *)
Found(r, n) ==
    /\ r.target \in {Null, Junk} \cup {i \in DOMAIN nodes : nodes[i].type # "NONE"}
    /\ r.target # n => r.target = Junk
    /\ r.target = Junk => JunkNodes # {}
    /\ r.target = Null /\ r.basename # NoBasename =>
         /\ IsDirectory(nodes, r.target_parent) /\ r.basename \in Names
         /\ \A c \in Kids(nodes, r.target_parent) : nodes[c].name # r.basename

LEMMA ResultIs ==
    ASSUME NEW parent, NEW target, NEW basename
    PROVE  LET r == Result(parent, target, basename)
           IN  r.target_parent = parent /\ r.target = target /\ r.basename = basename
  BY DEF Result

LEMMA Nowhere ==
    ASSUME TreeInv(nodes)
    PROVE  Null \notin DOMAIN nodes /\ Junk \notin DOMAIN nodes /\ Null # Junk
<1>1. DOMAIN nodes = 1 .. Len(nodes) /\ Len(nodes) \in Nat
  BY TreeShape
<1> QED BY <1>1 DEF Null, Junk

LEMMA FollowIs ==
    ASSUME TreeInv(nodes), NEW r, NEW n, Found(r, n), NEW name \in Names
    PROVE  /\ Found(Follow(r, name), Below(nodes, n, name))
           /\ IsDirectory(nodes, n) /\ Follow(r, name).target = Null =>
                Follow(r, name).target_parent = n /\ Follow(r, name).basename = name
<1> DEFINE t == r.target
           f == Follow(r, name)
           b == Below(nodes, n, name)
           v == get(nodes[t].children, name)
<1>1. Null \notin DOMAIN nodes /\ Junk \notin DOMAIN nodes /\ Null # Junk
  BY Nowhere
<1>2. CASE t = Junk
  <2>1. f = r
    BY <1>2 DEF Follow
  <2> QED BY <1>1, <1>2, <2>1 DEF Found
<1>3. CASE t = Null
  <2>1. f = r /\ n = Null
    BY <1>1, <1>3 DEF Follow, Found
  <2>2. b = Null /\ ~ IsDirectory(nodes, n)
    BY <1>1, <2>1 DEF Below, IsDirectory
  <2> QED BY <1>3, <2>1, <2>2 DEF Found
<1>4. CASE t \notin {Null, Junk} /\ nodes[t].type # "DIRECTORY"
  <2>1. f = Failed /\ n = t
    BY <1>4 DEF Follow, Found
  <2>2. f.target = Null /\ f.basename = NoBasename
    BY <2>1 DEF Failed, Result
  <2>3. b = Null /\ ~ IsDirectory(nodes, n)
    BY <1>4, <2>1 DEF Below, IsDirectory
  <2> QED BY <1>1, <2>2, <2>3 DEF Found
<1>5. CASE t \notin {Null, Junk} /\ nodes[t].type = "DIRECTORY"
  <2> DEFINE next == IF v = Null THEN Null ELSE reduce_node(v)
  <2>1. f = Result(t, next, name)
    BY <1>5 DEF Follow
  <2>2. n = t /\ IsDirectory(nodes, t)
    BY <1>5 DEF Found, IsDirectory
  <2>3. b = Child(nodes, t, name)
    BY <2>2 DEF Below, IsDirectory
  <2>4. f.target = next /\ f.target_parent = t /\ f.basename = name
    BY <2>1, ResultIs
  <2>5. /\ v # Null => v \in Kids(nodes, t) /\ nodes[v].name = name
        /\ v = Null => \A c \in Kids(nodes, t) : nodes[c].name # name
    BY <2>2, LookupIs
  <2> HIDE DEF v, f, b, t
  <2>6. CASE v = Null
    <3>1. b = Null
      BY <2>2, <2>3, <2>5, <2>6, ChildIs
    <3> QED BY <1>1, <2>2, <2>4, <2>5, <2>6, <3>1 DEF Found, f, b
  <2>7. CASE v # Null
    <3> DEFINE g == Target(nodes, v)
    <3>1. v \in Kids(nodes, t) /\ b = g
      BY <2>2, <2>3, <2>5, <2>7, ChildIs
    <3>2. g \in DOMAIN nodes /\ nodes[g].type # "NONE"
      BY <2>2, <3>1, KidIs, TreeShape
    <3>3. reduce_node(v) = IF nodes[g].redirect = Junk THEN Junk ELSE g
      BY DEF reduce_node, Target
    <3> HIDE DEF g
    <3>4. nodes[g].redirect = Junk => JunkNodes # {}
      BY <3>2 DEF JunkNodes
    <3>5. f.target = IF nodes[g].redirect = Junk THEN Junk ELSE g
      BY <2>4, <2>7, <3>3
    <3>6. f.target # Null
      BY <1>1, <3>2, <3>5
    <3> QED BY <1>1, <3>1, <3>2, <3>4, <3>5, <3>6 DEF Found, f, b
  <2> QED BY <2>6, <2>7
<1> QED BY <1>2, <1>3, <1>4, <1>5

(* path_to_node finds what a path means. *)
LEMMA PathIs ==
    ASSUME TreeInv(nodes), NEW d, IsDirectory(nodes, d), NEW path \in Seq(Names), path # << >>
    PROVE  /\ Found(path_to_node(path, d), Meaning(nodes, d, path))
           /\ \A p : /\ Len(p) \in Nat /\ Len(path) = Len(p) + 1 /\ \A i \in 1 .. Len(p) : p[i] = path[i]
                     /\ IsDirectory(nodes, Meaning(nodes, d, p)) /\ path_to_node(path, d).target = Null
                     => /\ path_to_node(path, d).target_parent = Meaning(nodes, d, p)
                        /\ path_to_node(path, d).basename = path[Len(path)]
<1> DEFINE n == Len(path)
<1>1. n \in Nat /\ n # 0 /\ \A k \in 1 .. n : path[k] \in Names
  OBVIOUS
<1>2. PICK g : /\ g[0] = d /\ Meaning(nodes, d, path) = g[n]
               /\ \A k \in 1 .. n : g[k] = Below(nodes, g[k - 1], path[k])
  BY <1>1, MeaningRounds
<1>3. PICK r : /\ r[0] = Result(Null, d, NoBasename) /\ path_to_node(path, d) = r[n]
               /\ \A k \in 1 .. n : r[k] = Follow(r[k - 1], path[k])
  BY <1>1, PathRounds
<1> HIDE DEF n
<1> DEFINE K == {k \in 0 .. n : Found(r[k], g[k])}
<1>4. 0 \in K
  <2>1. r[0].target = d /\ d \in DOMAIN nodes /\ nodes[d].type = "DIRECTORY"
    BY <1>3, ResultIs DEF IsDirectory
  <2>2. Null \notin DOMAIN nodes /\ Junk \notin DOMAIN nodes
    BY Nowhere
  <2>3. Found(r[0], g[0])
    BY <1>2, <2>1, <2>2 DEF Found
  <2> QED BY <1>1, <2>3
<1>5. ASSUME NEW k \in Nat, k < n, k \in K
      PROVE  k + 1 \in K
  <2>1. k + 1 \in 0 .. n /\ k + 1 \in 1 .. n /\ (k + 1) - 1 = k
    BY <1>1, <1>5
  <2>2. r[k + 1] = Follow(r[k], path[k + 1]) /\ g[k + 1] = Below(nodes, g[k], path[k + 1])
    BY <1>2, <1>3, <2>1
  <2>3. Found(r[k], g[k]) /\ path[k + 1] \in Names
    BY <1>1, <1>5, <2>1
  <2>4. Found(r[k + 1], g[k + 1])
    BY <2>2, <2>3, FollowIs
  <2> QED BY <2>1, <2>4
<1>6. ASSUME NEW k \in 0 .. n PROVE Found(r[k], g[k])
  <2>1. ASSUME NEW j \in Nat, j < k, j \in K PROVE j + 1 \in K
    BY <1>1, <1>5, <2>1
  <2> HIDE DEF K
  <2>2. k \in K
    BY <1>4, <2>1, InductTo
  <2> QED BY <2>2 DEF K
<1>7. Found(r[n], g[n])
  BY <1>1, <1>6
<1>8. ASSUME NEW p, Len(p) \in Nat, n = Len(p) + 1, \A i \in 1 .. Len(p) : p[i] = path[i],
             IsDirectory(nodes, Meaning(nodes, d, p)), r[n].target = Null
      PROVE  r[n].target_parent = Meaning(nodes, d, p) /\ r[n].basename = path[n]
  <2>0. n \in 1 .. n /\ n - 1 \in 0 .. n /\ n - 1 = Len(p)
    BY <1>1, <1>8
  <2>1. r[n] = Follow(r[n - 1], path[n]) /\ Found(r[n - 1], g[n - 1]) /\ path[n] \in Names
    BY <1>1, <1>3, <1>6, <2>0
  <2>2. Meaning(nodes, d, p) = g[n - 1]
    <3> DEFINE m == Len(p)
    <3>1. PICK h : /\ h[0] = d /\ Meaning(nodes, d, p) = h[m]
                   /\ \A k \in 1 .. m : h[k] = Below(nodes, h[k - 1], p[k])
      <4>1. Len(p) \in Nat
        BY <1>8
      <4> QED BY <4>1, MeaningRounds
    <3>2. m \in Nat /\ n = m + 1 /\ \A i \in 1 .. m : p[i] = path[i]
      BY <1>8
    <3> HIDE DEF m
    <3> DEFINE J == {k \in 0 .. m : g[k] = h[k]}
    <3>3. 0 \in J
      BY <1>2, <3>1, <3>2
    <3>4. ASSUME NEW k \in Nat, k < m, k \in J PROVE k + 1 \in J
      <4>1. k + 1 \in 0 .. m /\ k + 1 \in 1 .. n /\ k + 1 \in 1 .. m /\ (k + 1) - 1 = k
        BY <3>2, <3>4
      <4>2. g[k + 1] = Below(nodes, g[k], path[k + 1]) /\ h[k + 1] = Below(nodes, h[k], p[k + 1])
        BY <1>2, <3>1, <4>1
      <4> QED BY <3>2, <3>4, <4>1, <4>2
    <3>5. m \in J
      <4> HIDE DEF J
      <4> QED BY <3>2, <3>3, <3>4, InductTo
    <3>6. m = n - 1
      BY <3>2
    <3> QED BY <3>1, <3>5, <3>6
  <2> QED BY <1>8, <2>1, <2>2, FollowIs
<1> QED BY <1>2, <1>3, <1>7, <1>8 DEF n

-----------------------------------------------------------------------------
(* The archive. *)

LEMMA ArchiveIs ==
    ASSUME archive \in Archives
    PROVE  /\ Len(archive) \in Nat /\ DOMAIN archive = 1 .. Len(archive)
           /\ \A i \in Headers :
                /\ archive[i].name \in Seq(Names) /\ archive[i].size \in Nat
                /\ archive[i].type \in {"FILE", "DIRECTORY", "other"}
                /\ archive[i].name = <<".">> => archive[i].type = "DIRECTORY"
                /\ Blocks(archive[i].size) \in Nat /\ i \in Nat \ {0}
                /\ i = 1 \/ \E j \in Headers : j < i /\ i = j + 1 + Blocks(archive[j].size)
                /\ \A j \in Headers : j > i => j >= i + 1 + Blocks(archive[i].size)
<1> DEFINE a == archive
<1>1. /\ a \in Seq(Range(a))
      /\ \A i \in DOMAIN a : a[i].magic =>
              /\ a[i].name \in Seq(Names) /\ a[i].size \in Nat
              /\ a[i].type \in {"FILE", "DIRECTORY", "other"}
              /\ a[i].name = <<".">> => a[i].type = "DIRECTORY"
              /\ i = 1 \/ \E j \in 1 .. i - 1 : a[j].magic /\ i = j + 1 + Blocks(a[j].size)
              /\ \A j \in DOMAIN a : j > i /\ j <= i + Blocks(a[i].size) => ~ a[j].magic
  BY ArchivesAssumption, Zenon
<1>2. Len(a) \in Nat /\ DOMAIN a = 1 .. Len(a)
  BY <1>1, LenProperties
<1>3. Headers = {i \in DOMAIN a : a[i].magic}
  BY DEF Headers
<1> HIDE DEF a
<1>4. ASSUME NEW i \in Headers PROVE i \in 1 .. Len(a) /\ a[i].size \in Nat /\ Blocks(a[i].size) \in Nat
  <2>1. i \in 1 .. Len(a) /\ a[i].size \in Nat
    BY <1>1, <1>2, <1>3
  <2>2. BlockSize \in Nat \ {0}
    BY Constants
  <2> DEFINE s == a[i].size
  <2>3. s \in Nat /\ s + BlockSize - 1 \in Nat
    BY <2>1, <2>2
  <2> HIDE DEF s
  <2>4. (s + BlockSize - 1) \div BlockSize \in Nat
    BY <2>2, <2>3
  <2> QED BY <2>1, <2>4 DEF Blocks, s
<1>5. ASSUME NEW i \in Headers
      PROVE  i = 1 \/ \E j \in Headers : j < i /\ i = j + 1 + Blocks(a[j].size)
  <2>1. i \in 1 .. Len(a)
    BY <1>4
  <2>2. CASE i # 1
    <3>1. PICK j \in 1 .. i - 1 : a[j].magic /\ i = j + 1 + Blocks(a[j].size)
      BY <1>1, <1>3, <1>5, <2>2
    <3>2. j \in 1 .. Len(a) /\ j < i
      BY <1>2, <2>1
    <3>3. j \in Headers
      BY <1>2, <1>3, <3>1, <3>2
    <3> QED BY <3>1, <3>2, <3>3
  <2> QED BY <2>2
<1>6. ASSUME NEW i \in Headers, NEW j \in Headers, j > i PROVE j >= i + 1 + Blocks(a[i].size)
  <2>1. j \in 1 .. Len(a) /\ i \in 1 .. Len(a) /\ Blocks(a[i].size) \in Nat
    BY <1>4
  <2>2. a[i].magic /\ a[j].magic /\ i \in DOMAIN a /\ j \in DOMAIN a
    BY <1>3
  <2>3. ~ (j > i /\ j <= i + Blocks(a[i].size))
    BY <1>1, <2>2
  <2> QED BY <1>6, <2>1, <2>3
<1>7. ASSUME NEW i \in Headers
      PROVE  /\ a[i].name \in Seq(Names) /\ a[i].type \in {"FILE", "DIRECTORY", "other"}
             /\ a[i].name = <<".">> => a[i].type = "DIRECTORY"
  BY <1>1, <1>3, <1>7, Zenon
<1>8. \A i \in Headers : i \in Nat \ {0}
  BY <1>2, <1>4
<1> QED BY <1>2, <1>4, <1>5, <1>6, <1>7, <1>8 DEF a

(* A file written at once has the bytes that were written. *)
LEMMA WriteIs ==
    ASSUME NEW size \in Nat, NEW byte,
           After(write(<< >>, [i \in 1 .. size |-> byte], 0)) = "ok"
    PROVE  write(<< >>, [i \in 1 .. size |-> byte], 0) = [b \in 1 .. size |-> byte]
<1> DEFINE bytes == [i \in 1 .. size |-> byte]
           end == Sum(0, Len(bytes))
           storage == IF end > Len(<< >>) /\ end <= HeapLimit THEN Extended(<< >>, end) ELSE << >>
           data == [i \in DOMAIN storage |->
                      IF i \in 0 + 1 .. 0 + Len(bytes) THEN bytes[i - 0] ELSE storage[i]]
<1>0. Len(bytes) = size
  <2>1. bytes = [i \in 1 .. size |-> bytes[i]]
    OBVIOUS
  <2> HIDE DEF bytes
  <2> QED BY <2>1, FunctionIsSeq
<1>1. end = size % Word /\ Word \in Nat /\ Word > 0 /\ Len(<< >>) = 0
  <2>1. Word \in Nat /\ Word > 0
    <3>1. Word \in Nat /\ HeapLimit \in Nat /\ Word > HeapLimit
      BY Constants
    <3> QED BY <3>1
  <2> QED BY <1>0, <2>1 DEF Sum
<1>2. end \in Nat /\ end <= size
  <2>1. size = Word * (size \div Word) + end /\ end \in Nat /\ size \div Word \in Nat
    BY <1>1
  <2>2. Word * (size \div Word) \in Nat
    BY <1>1, <2>1
  <2> QED BY <2>1, <2>2
<1>3. write(<< >>, bytes, 0) = IF end > Len(<< >>) /\ end \in Unending THEN Endless
                               ELSE IF 0 + Len(bytes) > Len(storage) THEN Outside ELSE data
  BY Zenon DEF write
<1>4. ~ (size > Len(storage)) /\ write(<< >>, bytes, 0) = data
  <2>1. 0 + Len(bytes) = size
    BY <1>0
  <2>2. write(<< >>, bytes, 0) # Outside /\ write(<< >>, bytes, 0) # Endless
    BY DEF After
  <2> HIDE DEF storage, data, end
  <2> QED BY <1>3, <2>1, <2>2
<1>5. DOMAIN storage = 1 .. size
  <2>1. CASE end > 0 /\ end <= HeapLimit
    <3>1. storage = Extended(<< >>, end)
      BY <1>1, <2>1
    <3> DEFINE e == Extended(<< >>, end)
    <3>2. e = [i \in 1 .. end |-> e[i]] /\ DOMAIN e = 1 .. end
      BY DEF Extended
    <3> HIDE DEF e, end
    <3>3. Len(e) = end
      BY <1>2, <3>2, FunctionIsSeq
    <3>4. size = end
      BY <1>2, <1>4, <3>1, <3>3 DEF e
    <3> QED BY <3>1, <3>2, <3>4 DEF e
  <2>2. CASE ~ (end > 0 /\ end <= HeapLimit)
    <3>1. storage = << >>
      BY <1>1, <2>2
    <3>2. size = 0
      BY <1>4, <3>1
    <3> QED BY <3>1, <3>2
  <2> QED BY <2>1, <2>2
<1> HIDE DEF storage
<1>6. data = [i \in 1 .. size |-> byte]
  <2>1. \A i \in 1 .. size : i \in 0 + 1 .. 0 + Len(bytes) /\ bytes[i - 0] = byte
    BY <1>0
  <2> HIDE DEF bytes
  <2> QED BY <1>5, <2>1
<1> QED BY <1>4, <1>6

(* The nodes ms have all that ns have. *)
Extends(ns, ms) ==
    /\ TreeInv(ns) /\ TreeInv(ms) /\ Len(ms) >= Len(ns)
    /\ \A i \in 1 .. Len(ns) : SameNode(ms[i], ns[i])

LEMMA BelowKept ==
    ASSUME NEW ns, NEW ms, Extends(ns, ms), NEW n \in DOMAIN ns, NEW name,
           Below(ns, n, name) # Null
    PROVE  Below(ms, n, name) = Below(ns, n, name)
<1>1. /\ TreeInv(ns) /\ TreeInv(ms) /\ Len(ns) \in Nat /\ Len(ms) \in Nat /\ Len(ms) >= Len(ns)
      /\ DOMAIN ns = 1 .. Len(ns) /\ DOMAIN ms = 1 .. Len(ms)
      /\ \A i \in 1 .. Len(ns) : SameNode(ms[i], ns[i])
  BY TreeShape DEF Extends
<1>2. \A i \in 1 .. Len(ns) : i \in 1 .. Len(ms)
  BY <1>1
<1>3. IsDirectory(ns, n) /\ Below(ns, n, name) = Child(ns, n, name)
  BY DEF Below, IsDirectory
<1>4. IsDirectory(ms, n)
  BY <1>1, <1>2, <1>3 DEF IsDirectory, SameNode
<1>5. Below(ms, n, name) = Child(ms, n, name)
  BY <1>4 DEF Below, IsDirectory
<1>6. PICK c \in Kids(ns, n) : ns[c].name = name
  BY <1>1, <1>3, ChildIs
<1>7. c \in Kids(ms, n) /\ ms[c].name = name /\ Target(ms, c) = Target(ns, c)
  BY <1>1, <1>2, <1>6 DEF Kids, SameNode, Target
<1>8. Child(ns, n, name) = Target(ns, c)
  BY <1>1, <1>3, <1>6, ChildIs
<1>9. Child(ms, n, name) = Target(ms, c)
  BY <1>1, <1>4, <1>7, ChildIs
<1> QED BY <1>3, <1>5, <1>7, <1>8, <1>9

LEMMA MeaningKept ==
    ASSUME NEW ns, NEW ms, Extends(ns, ms), NEW d, NEW path \in Seq(Names),
           Meaning(ns, d, path) # Null
    PROVE  Meaning(ms, d, path) = Meaning(ns, d, path)
<1>1. Len(path) \in Nat
  BY LenProperties
<1>2. Null \notin DOMAIN ns
  <2>1. DOMAIN ns = 1 .. Len(ns) /\ Len(ns) \in Nat
    BY TreeShape DEF Extends
  <2> QED BY <2>1 DEF Null
<1>3. \A n \in DOMAIN ns, i \in 1 .. Len(path) :
        Below(ns, n, path[i]) # Null => Below(ms, n, path[i]) = Below(ns, n, path[i])
  BY BelowKept
<1> QED BY <1>1, <1>2, <1>3, MeaningStays

LEMMA LoadsKept ==
    ASSUME NEW ns, NEW ms, Extends(ns, ms), NEW header, header.name \in Seq(Names),
           Loads(ns, header), \A i \in 1 .. Len(ns) : ms[i].data = ns[i].data
    PROVE  Loads(ms, header)
<1> DEFINE n == Meaning(ns, Root, header.name)
<1>1. /\ n \in DOMAIN ns /\ ns[n].type = header.type
      /\ header.type = "FILE" => ns[n].data = [b \in 1 .. header.size |-> header.byte]
  BY DEF Loads
<1> HIDE DEF n
<1>2. /\ DOMAIN ns = 1 .. Len(ns) /\ DOMAIN ms = 1 .. Len(ms) /\ Len(ms) >= Len(ns)
      /\ Len(ns) \in Nat /\ Len(ms) \in Nat /\ \A i \in 1 .. Len(ns) : SameNode(ms[i], ns[i])
  BY TreeShape DEF Extends
<1>3. n # Null /\ n \in DOMAIN ms /\ ms[n].type = ns[n].type /\ ms[n].data = ns[n].data
  BY <1>1, <1>2 DEF SameNode, Null
<1>4. Meaning(ms, Root, header.name) = n
  BY <1>3, MeaningKept DEF n
<1> QED BY <1>1, <1>3, <1>4 DEF Loads

-----------------------------------------------------------------------------
(* One round of load_into. *)

(* What it makes of the nodes when it fails at nothing. *)
Creates(header, result, redirect) ==
    LET data == write(<< >>, [i \in 1 .. header.size |-> header.byte], 0)
        ms == create(nodes, result.target_parent, result.basename, header.type, redirect)
    IN  /\ redirect \in {Null, Junk} /\ result = path_to_node(header.name, Root)
        /\ result.target = Null /\ result.basename # NoBasename /\ header.type # "other"
        /\ header.type = "FILE" => After(data) = "ok"
        /\ nodes' = IF header.type = "FILE" THEN [ms EXCEPT ![Len(ms)].data = data] ELSE ms

LEMMA LoadCases ==
    ASSUME load_into
    PROVE  /\ stage = "loading" /\ status = "ok" /\ IsHeader /\ at' = next_header
           /\ UNCHANGED <<archive, stage, table, cwd, used>>
           /\ \/ UNCHANGED nodes /\ (status' = "ok" => Header.name = <<".">>)
              \/ status' = "ok" /\ \E result, redirect : Creates(Header, result, redirect)
<1> DEFINE result == path_to_node(Header.name, Root)
           data == write(<< >>, [i \in 1 .. Header.size |-> Header.byte], 0)
           ms(redirect) == create(nodes, result.target_parent, result.basename, Header.type, redirect)
<1>1. /\ stage = "loading" /\ status = "ok" /\ IsHeader /\ at' = next_header
      /\ UNCHANGED <<archive, stage, table, cwd, used>>
  BY Zenon DEF load_into
<1>2. IF Header.name = <<".">> THEN UNCHANGED <<nodes, status>>
      ELSE IF result.target = Junk THEN status' = "wild" /\ UNCHANGED nodes
      ELSE IF result.target # Null \/ result.basename = NoBasename \/ Header.type = "other"
      THEN status' = "panic" /\ UNCHANGED nodes
      ELSE IF Header.type = "FILE" /\ After(data) # "ok" THEN status' = After(data) /\ UNCHANGED nodes
      ELSE /\ \E redirect \in {Null, Junk} :
                nodes' = IF Header.type = "FILE"
                         THEN [ms(redirect) EXCEPT ![Len(ms(redirect))].data = data] ELSE ms(redirect)
           /\ UNCHANGED status
  BY Zenon DEF load_into
<1> HIDE DEF result, data, ms
<1> DEFINE Some == \E res, redirect : Creates(Header, res, redirect)
           Q == \/ UNCHANGED nodes /\ (status' = "ok" => Header.name = <<".">>)
                \/ status' = "ok" /\ Some
<1> SUFFICES Q
  BY <1>1
<1>3. CASE Header.name = <<".">>
  BY <1>2, <1>3
<1> DEFINE Stops == \/ result.target = Junk \/ result.target # Null \/ result.basename = NoBasename
                    \/ Header.type = "other" \/ (Header.type = "FILE" /\ After(data) # "ok")
<1>4. CASE Stops
  <2>1. CASE Header.name # <<".">>
    <3>1. UNCHANGED nodes /\ status' # "ok"
      BY <1>2, <1>4, <2>1
    <3> QED BY <3>1
  <2> QED BY <1>3, <2>1
<1>5. CASE Header.name # <<".">> /\ ~ Stops
  <2>1. UNCHANGED status
    BY <1>2, <1>5
  <2>2. PICK redirect \in {Null, Junk} :
          nodes' = IF Header.type = "FILE"
                   THEN [ms(redirect) EXCEPT ![Len(ms(redirect))].data = data] ELSE ms(redirect)
    BY <1>2, <1>5
  <2>3. Creates(Header, result, redirect)
    BY <1>5, <2>2, Zenon DEF Creates, result, data, ms
  <2>4. Some
    BY <2>3
  <2> QED BY <1>1, <2>1, <2>4
<1> HIDE DEF Q, Stops
<1> QED BY <1>3, <1>4, <1>5

(* The directory in which the last component is looked up is there. *)
ParentIs(header, d) ==
    /\ IsDirectory(nodes, d)
    /\ \E p \in Seq(Names) : /\ Len(header.name) = Len(p) + 1 /\ Meaning(nodes, Root, p) = d
                             /\ \A i \in 1 .. Len(p) : p[i] = header.name[i]

LEMMA CreateStep ==
    ASSUME TreeInv(nodes), Len(nodes) > 0, NEW header, NEW result, NEW redirect,
           header.name \in Seq(Names), header.size \in Nat,
           header.type \in {"FILE", "DIRECTORY", "other"},
           Creates(header, result, redirect)
    PROVE  /\ Extends(nodes, nodes') /\ \A i \in 1 .. Len(nodes) : nodes'[i].data = nodes[i].data
           /\ (\E d : ParentIs(header, d)) => Loads(nodes', header)
<1> DEFINE data == write(<< >>, [i \in 1 .. header.size |-> header.byte], 0)
           parent == result.target_parent
           name == result.basename
           type == header.type
           ms == create(nodes, parent, name, type, redirect)
           n == Len(nodes) + 1
           path == header.name
<1>1. /\ redirect \in {Null, Junk} /\ result = path_to_node(path, Root)
      /\ result.target = Null /\ name # NoBasename /\ type \in {"FILE", "DIRECTORY"}
      /\ type = "FILE" => After(data) = "ok"
      /\ nodes' = IF type = "FILE" THEN [ms EXCEPT ![Len(ms)].data = data] ELSE ms
  BY DEF Creates
<1>2. path # << >>
  <2>1. ASSUME path = << >> PROVE result.basename = NoBasename
    BY <1>1, <2>1 DEF path_to_node, Failed, Result
  <2> QED BY <1>1, <2>1
<1>3. Len(nodes) \in Nat /\ IsDirectory(nodes, Root)
  <2>1. Len(nodes) \in Nat /\ DOMAIN nodes = 1 .. Len(nodes) /\ \A i \in 1 .. Len(nodes) : NodeInv(nodes, i)
    BY TreeShape
  <2>2. Root \in 1 .. Len(nodes)
    BY <2>1 DEF Root
  <2> QED BY <2>1, <2>2 DEF NodeInv, IsDirectory
<1> HIDE DEF ms, data
<1>4. /\ Found(result, Meaning(nodes, Root, path))
      /\ \A p : /\ Len(p) \in Nat /\ Len(path) = Len(p) + 1 /\ \A i \in 1 .. Len(p) : p[i] = path[i]
                /\ IsDirectory(nodes, Meaning(nodes, Root, p)) /\ result.target = Null
                => parent = Meaning(nodes, Root, p) /\ name = path[Len(path)]
  BY <1>1, <1>2, <1>3, PathIs
<1>5. /\ IsDirectory(nodes, parent) /\ name \in Names
      /\ \A c \in Kids(nodes, parent) : nodes[c].name # name
  BY <1>1, <1>4 DEF Found
<1> HIDE DEF parent, name, type, path
<1>6. name \notin {".", ".."}
  <2>1. /\ \E c \in Kids(nodes, parent) : nodes[c].name = "."
        /\ \E c \in Kids(nodes, parent) : nodes[c].name = ".."
    BY <1>5 DEF TreeInv, DirectoryInv, IsDirectory
  <2> QED BY <1>5, <2>1
<1>7. Fits(nodes, parent, name, type, redirect)
  BY <1>1, <1>5, <1>6 DEF Fits
<1>8. Created(nodes, ms, parent, name, type, redirect)
  <2>1. nodes = [i \in 1 .. Len(nodes) |-> nodes[i]]
    BY DEF TreeInv
  <2> QED BY <1>3, <2>1, CreateIs DEF ms
<1>9. TreeInv(ms) /\ Len(ms) > Len(nodes)
  BY <1>7, <1>8, CreatedTree
<1>10. /\ \A i \in 1 .. Len(nodes) : SameNode(ms[i], nodes[i]) /\ ms[i].data = nodes[i].data
       /\ SameNode(ms[n], Node(type, parent, name, redirect)) /\ Len(ms) = Len(nodes) + Size(type)
  BY <1>1, <1>8, CreatedFields
<1>11. ms[n].type = type /\ ms[n].parent = parent /\ ms[n].name = name
  BY <1>10, FieldsOfNode DEF SameNode
<1>12. Len(ms) \in Nat /\ n \in 1 .. Len(ms) /\ (type = "FILE" => Len(ms) = n)
  BY <1>1, <1>3, <1>10 DEF Size
<1> HIDE DEF n
<1>13. /\ TreeInv(nodes') /\ Len(nodes') = Len(ms)
       /\ \A i \in 1 .. Len(ms) : /\ SameNode(nodes'[i], ms[i])
                                  /\ ~ (type = "FILE" /\ i = n) => nodes'[i].data = ms[i].data
       /\ type = "FILE" => nodes'[n].data = data
  <2>1. CASE type = "FILE"
    <3>1. nodes' = [ms EXCEPT ![n].data = data]
      BY <1>1, <1>12, <2>1
    <3> DEFINE w == Written(ms, n, data)
    <3>2. /\ TreeInv(w) /\ Len(w) = Len(ms)
          /\ \A i \in 1 .. Len(ms) : /\ SameNode(w[i], ms[i])
                                     /\ w[i].data = IF i = n THEN data ELSE ms[i].data
      BY <1>9, <1>12, SameTree
    <3>3. nodes' = w
      BY <3>1 DEF Written
    <3> HIDE DEF w
    <3> QED BY <1>12, <2>1, <3>2, <3>3
  <2>2. CASE type # "FILE"
    <3>1. nodes' = ms
      BY <1>1, <2>2
    <3>2. \A i \in 1 .. Len(ms) : IsNode(ms[i])
      BY <1>9, TreeShape DEF NodeInv
    <3> QED BY <1>9, <2>2, <3>1, <3>2 DEF SameNode
  <2> QED BY <2>1, <2>2
<1>14. \A i \in 1 .. Len(nodes) : i \in 1 .. Len(ms) /\ i # n
  BY <1>3, <1>9, <1>12 DEF n
<1>15. Extends(nodes, nodes') /\ \A i \in 1 .. Len(nodes) : nodes'[i].data = nodes[i].data
  <2>1. \A i \in 1 .. Len(nodes) : SameNode(nodes'[i], nodes[i]) /\ nodes'[i].data = nodes[i].data
    BY <1>10, <1>13, <1>14 DEF SameNode
  <2>2. Len(nodes') >= Len(nodes)
    BY <1>3, <1>9, <1>12, <1>13
  <2> QED BY <1>13, <2>1, <2>2 DEF Extends
<1>16. ASSUME NEW d, ParentIs(header, d) PROVE Loads(nodes', header)
  <2>1. PICK p \in Seq(Names) : /\ Len(path) = Len(p) + 1 /\ Meaning(nodes, Root, p) = d
                                /\ \A i \in 1 .. Len(p) : p[i] = path[i]
    BY <1>16 DEF ParentIs, path
  <2>2. Len(p) \in Nat /\ IsDirectory(nodes, d)
    BY <1>16, LenProperties DEF ParentIs
  <2>3. parent = d /\ name = path[Len(path)]
    BY <1>1, <1>4, <2>1, <2>2
  <2>4. d # Null
    BY <2>2, Nowhere DEF IsDirectory
  <2>5. Meaning(nodes', Root, p) = d
    BY <1>15, <2>1, <2>4, MeaningKept
  <2>6. Meaning(nodes', Root, path) = Below(nodes', d, name)
    BY <2>1, <2>2, <2>3, <2>5, MeaningLast
  <2>7. /\ nodes'[n].type = type /\ nodes'[n].parent = d /\ nodes'[n].name = name
        /\ n \in DOMAIN nodes' /\ n \in 1 .. Len(nodes') /\ n \in Kids(nodes', d)
    <3>1. DOMAIN nodes' = 1 .. Len(nodes')
      BY <1>13 DEF TreeInv
    <3>2. nodes'[n].type = type /\ nodes'[n].parent = d /\ nodes'[n].name = name
      BY <1>11, <1>12, <1>13, <2>3 DEF SameNode
    <3> QED BY <1>12, <1>13, <3>1, <3>2 DEF Kids
  <2>8. IsDirectory(nodes', d)
    <3>1. d \in 1 .. Len(nodes) /\ nodes[d].type = "DIRECTORY"
      BY <2>2, TreeShape DEF IsDirectory
    <3>2. SameNode(nodes'[d], nodes[d])
      BY <1>15, <3>1 DEF Extends
    <3>3. d \in DOMAIN nodes'
      BY <1>13, <1>14, <3>1 DEF TreeInv
    <3> QED BY <3>1, <3>2, <3>3 DEF IsDirectory, SameNode
  <2>9. Below(nodes', d, name) = n
    <3>1. Below(nodes', d, name) = Child(nodes', d, name)
      BY <2>8 DEF Below, IsDirectory
    <3>2. Child(nodes', d, name) = Target(nodes', n)
      BY <1>13, <2>7, <2>8, ChildIs
    <3>3. Target(nodes', n) = n
      BY <1>1, <2>7 DEF Target
    <3> QED BY <3>1, <3>2, <3>3
  <2>10. type = "FILE" => nodes'[n].data = [b \in 1 .. header.size |-> header.byte]
    <3>1. After(data) = "ok" => data = [b \in 1 .. header.size |-> header.byte]
      BY WriteIs DEF data
    <3> QED BY <1>1, <1>13, <3>1
  <2> QED BY <2>6, <2>7, <2>9, <2>10 DEF Loads, type, path
<1> QED BY <1>15, <1>16

-----------------------------------------------------------------------------
(* The invariant of the tree and of the loader. *)

LEMMA RootIs ==
    ASSUME TreeInv(nodes), Len(nodes) > 0
    PROVE  IsDirectory(nodes, Root)
<1>1. Len(nodes) \in Nat /\ DOMAIN nodes = 1 .. Len(nodes) /\ \A i \in 1 .. Len(nodes) : NodeInv(nodes, i)
  BY TreeShape
<1>2. Root \in 1 .. Len(nodes)
  BY <1>1 DEF Root
<1> QED BY <1>1, <1>2 DEF NodeInv, IsDirectory

(* An archive that lists directories first finds them. *)
LEMMA ParentIsThere ==
    ASSUME FilesInv, LoadInv, ParentsFirst, status = "ok", used = 0, IsHeader,
           Header.name # << >>
    PROVE  \E d : ParentIs(Header, d)
<1> DEFINE path == Header.name
           n == Len(path)
<1>1. at \in Headers /\ archive \in Archives
  <2>1. archive \in Archives /\ at \in Nat \ {0} /\ at <= Len(archive) /\ archive[at].magic
    BY DEF LoadInv, IsHeader, Header
  <2>2. Len(archive) \in Nat /\ DOMAIN archive = 1 .. Len(archive)
    BY <2>1, ArchiveIs
  <2>3. at \in DOMAIN archive
    BY <2>1, <2>2
  <2> QED BY <2>1, <2>3 DEF Headers
<1>2. path \in Seq(Names) /\ Header = archive[at]
  BY <1>1, ArchiveIs DEF Header
<1>3. n \in Nat /\ n # 0 /\ DOMAIN path = 1 .. n
  BY <1>2, LenProperties, EmptySeq
<1>4. TreeInv(nodes) /\ Len(nodes) > 0 /\ IsDirectory(nodes, Root)
  BY RootIs DEF FilesInv
<1> DEFINE p == SubSeq(path, 1, n - 1)
<1>5. p \in Seq(Names) /\ Len(p) = n - 1 /\ \A i \in 1 .. n - 1 : p[i] = path[i]
  <2>1. 1 \in Int /\ n - 1 \in Int /\ \A i \in 1 .. n - 1 : path[i] \in Names
    BY <1>2, <1>3
  <2> HIDE DEF n
  <2> QED BY <1>2, <1>3, <2>1 DEF n
<1> HIDE DEF path, n, p
<1>6. n = Len(p) + 1 /\ Len(p) \in Nat /\ \A i \in 1 .. Len(p) : p[i] = path[i]
  BY <1>3, <1>5
<1>7. \/ n = 1
      \/ n = 2 /\ path[1] = "."
      \/ \E j \in Headers : j < at /\ archive[j].type = "DIRECTORY" /\ archive[j].name = p
  <2>1. Front(path) = p
    BY DEF Front, p, n
  <2> QED BY <1>1, <1>2, <2>1 DEF ParentsFirst, path, n
<1>8. CASE n = 1
  <2>1. Meaning(nodes, Root, p) = Root
    BY <1>6, <1>8, MeaningOfNothing
  <2> QED BY <1>4, <1>5, <1>6, <2>1 DEF ParentIs, path, n
<1>9. CASE n = 2 /\ path[1] = "."
  <2>0. n = 2 /\ path[1] = "."
    BY <1>9
  <2>1. Len(p) = 1
    BY ONLY <2>0, <1>6
  <2>2. p[1] = "."
    <3>1. 1 \in 1 .. Len(p)
      BY <2>1
    <3> QED BY ONLY <3>1, <2>0, <1>6
  <2>4. Meaning(nodes, Root, p) = Below(nodes, Root, ".")
    BY ONLY <2>1, <2>2, MeaningOfOne
  <2>5. Below(nodes, Root, ".") = Root
    BY <1>4 DEF Below, IsDirectory, Child
  <2> QED BY <1>4, <1>5, <1>6, <2>4, <2>5 DEF ParentIs, path, n
<1>10. ASSUME NEW j \in Headers, j < at, archive[j].type = "DIRECTORY", archive[j].name = p
       PROVE  \E d : ParentIs(Header, d)
  <2>1. Loads(nodes, archive[j])
    BY <1>10 DEF LoadInv
  <2>2. IsDirectory(nodes, Meaning(nodes, Root, p))
    BY <1>10, <2>1 DEF Loads, IsDirectory
  <2> QED BY <1>5, <1>6, <2>2 DEF ParentIs, path, n
<1> QED BY <1>7, <1>8, <1>9, <1>10

LEMMA LoadStep ==
    ASSUME FilesInv, LoadInv, load_into
    PROVE  FilesInv' /\ LoadInv'
<1>1. /\ stage = "loading" /\ status = "ok" /\ IsHeader /\ at' = next_header
      /\ archive' = archive /\ stage' = stage /\ cwd' = cwd /\ used' = used
      /\ \/ nodes' = nodes /\ (status' = "ok" => Header.name = <<".">>)
         \/ status' = "ok" /\ \E result, redirect : Creates(Header, result, redirect)
  BY LoadCases, Zenon
<1>2. /\ archive \in Archives /\ at \in Nat \ {0} /\ used \in Nat /\ stage \in {"loading", "running"}
      /\ \A i \in Headers : i < at => i + 1 + Blocks(archive[i].size) <= at
      /\ used = 0 /\ ParentsFirst => \A i \in Headers : i < at => Loads(nodes, archive[i])
  BY <1>1 DEF LoadInv
<1>3. TreeInv(nodes) /\ Len(nodes) > 0 /\ IsDirectory(nodes, cwd)
  BY DEF FilesInv
<1>4. at \in Headers /\ Header = archive[at] /\ Header.magic
  <2>1. at <= Len(archive) /\ archive[at].magic
    BY <1>1 DEF IsHeader, Header
  <2>2. Len(archive) \in Nat /\ DOMAIN archive = 1 .. Len(archive)
    BY <1>2, ArchiveIs
  <2>3. at \in DOMAIN archive
    BY <1>2, <2>1, <2>2
  <2> QED BY <2>1, <2>3 DEF Headers, Header
<1>5. /\ Header.name \in Seq(Names) /\ Header.size \in Nat
      /\ Header.type \in {"FILE", "DIRECTORY", "other"}
      /\ Header.name = <<".">> => Header.type = "DIRECTORY"
      /\ Blocks(Header.size) \in Nat /\ at' = at + 1 + Blocks(Header.size)
  BY <1>1, <1>2, <1>4, ArchiveIs DEF next_header
<1>6. Headers' = Headers /\ ParentsFirst' = ParentsFirst
  BY <1>1 DEF Headers, ParentsFirst
<1>7. \A i \in Headers : /\ i \in Nat \ {0} /\ Blocks(archive[i].size) \in Nat
                         /\ archive[i].name \in Seq(Names)
                         /\ i > at => i >= at'
  BY <1>2, <1>4, <1>5, ArchiveIs
<1>8. \A i \in Headers : i < at' => i < at \/ i = at
  BY <1>2, <1>5, <1>7
<1>9. \A i \in Headers : i < at' => i + 1 + Blocks(archive[i].size) <= at'
  BY <1>2, <1>4, <1>5, <1>7, <1>8
<1>10. CASE nodes' = nodes /\ (status' = "ok" => Header.name = <<".">>)
  <2>1. FilesInv'
    BY <1>1, <1>10 DEF FilesInv
  <2>2. Header.name = <<".">> => Loads(nodes, Header)
    <3>1. IsDirectory(nodes, Root)
      BY <1>3, RootIs
    <3> DEFINE p == <<".">>
    <3>2. Len(p) = 1 /\ p[1] = "."
      OBVIOUS
    <3> HIDE DEF p
    <3>5. Meaning(nodes, Root, p) = Below(nodes, Root, ".")
      BY ONLY <3>2, MeaningOfOne
    <3>6. Below(nodes, Root, ".") = Root
      BY <3>1 DEF Below, IsDirectory, Child
    <3> QED BY <1>5, <3>1, <3>5, <3>6 DEF Loads, IsDirectory, p
  <2>3. status' = "ok" /\ used' = 0 /\ ParentsFirst' =>
          \A i \in Headers : i < at' => Loads(nodes', archive[i])
    BY <1>1, <1>2, <1>4, <1>6, <1>8, <1>10, <2>2
  <2>4. LoadInv'
    <3>1. at' \in Nat \ {0}
      BY <1>2, <1>5
    <3> QED BY <1>1, <1>2, <1>6, <1>9, <2>3, <3>1 DEF LoadInv
  <2> QED BY <2>1, <2>4
<1>11. ASSUME NEW result, NEW redirect, Creates(Header, result, redirect), status' = "ok"
       PROVE  FilesInv' /\ LoadInv'
  <2>1. /\ Extends(nodes, nodes') /\ \A i \in 1 .. Len(nodes) : nodes'[i].data = nodes[i].data
        /\ (\E d : ParentIs(Header, d)) => Loads(nodes', Header)
    BY <1>3, <1>5, <1>11, CreateStep
  <2>2. FilesInv'
    <3>1. /\ TreeInv(nodes') /\ Len(nodes') >= Len(nodes) /\ Len(nodes) \in Nat /\ Len(nodes') \in Nat
          /\ DOMAIN nodes = 1 .. Len(nodes) /\ DOMAIN nodes' = 1 .. Len(nodes')
          /\ \A i \in 1 .. Len(nodes) : SameNode(nodes'[i], nodes[i])
      BY <2>1, TreeShape DEF Extends
    <3>2. cwd \in 1 .. Len(nodes) /\ cwd \in 1 .. Len(nodes') /\ nodes[cwd].type = "DIRECTORY"
      BY <1>3, <3>1 DEF IsDirectory
    <3>3. IsDirectory(nodes', cwd)
      BY <3>1, <3>2 DEF IsDirectory, SameNode
    <3> QED BY <1>1, <1>3, <3>1, <3>3 DEF FilesInv
  <2>3. Header.name # << >>
    <3>1. ASSUME Header.name = << >> PROVE path_to_node(Header.name, Root).basename = NoBasename
      BY <3>1 DEF path_to_node, Failed, Result
    <3> QED BY <1>11, <3>1 DEF Creates
  <2>4. used = 0 /\ ParentsFirst => Loads(nodes', Header)
    BY <1>1, <2>1, <2>3, ParentIsThere
  <2>5. used = 0 /\ ParentsFirst => \A i \in Headers : i < at => Loads(nodes', archive[i])
    BY <1>2, <1>7, <2>1, LoadsKept
  <2>6. status' = "ok" /\ used' = 0 /\ ParentsFirst' =>
          \A i \in Headers : i < at' => Loads(nodes', archive[i])
    BY <1>1, <1>4, <1>6, <1>8, <2>4, <2>5
  <2>7. LoadInv'
    <3>1. at' \in Nat \ {0}
      BY <1>2, <1>5
    <3> QED BY <1>1, <1>2, <1>6, <1>9, <2>6, <3>1 DEF LoadInv
  <2> QED BY <2>2, <2>7
<1> QED BY <1>1, <1>10, <1>11

(* The loop of load_into ends behind the last header. *)
LEMMA LoadedStep ==
    ASSUME FilesInv, LoadInv, Loaded
    PROVE  FilesInv' /\ LoadInv'
<1>1. /\ stage' = "running" /\ status = "ok" /\ ~ IsHeader /\ nodes' = nodes /\ archive' = archive
      /\ at' = at /\ cwd' = cwd /\ used' = used /\ status' = status
  BY DEF Loaded
<1>2. /\ archive \in Archives /\ at \in Nat \ {0}
      /\ \A i \in Headers : i < at => i + 1 + Blocks(archive[i].size) <= at
  BY DEF LoadInv
<1>3. at \notin Headers
  <2>1. Len(archive) \in Nat /\ DOMAIN archive = 1 .. Len(archive)
    BY <1>2, ArchiveIs
  <2> QED BY <1>1, <1>2, <2>1 DEF Headers, IsHeader, Header
<1>4. \A i \in Headers : /\ i \in Nat \ {0} /\ Blocks(archive[i].size) \in Nat
                         /\ i = 1 \/ \E j \in Headers : j < i /\ i = j + 1 + Blocks(archive[j].size)
  BY <1>2, ArchiveIs
<1>5. \A i \in Headers : i < at
  <2> DEFINE S == {i \in Headers : i >= at}
  <2> SUFFICES ASSUME S # {} PROVE FALSE
    BY <1>2, <1>4
  <2>1. S \in SUBSET Nat
    BY <1>4
  <2>2. PICK x \in S : \A y \in S : x <= y
    BY <2>1, Least
  <2>3. x \in Headers /\ x >= at /\ x # at /\ x \in Nat
    BY <1>3, <1>4, <2>2
  <2>4. PICK j \in Headers : j < x /\ x = j + 1 + Blocks(archive[j].size)
    BY <1>2, <1>4, <2>3
  <2>5. j < at
    BY <1>2, <1>4, <2>2, <2>3, <2>4
  <2>6. x <= at
    BY <1>2, <2>4, <2>5
  <2> QED BY <1>2, <2>3, <2>6
<1>6. Headers' = Headers /\ ParentsFirst' = ParentsFirst
  BY <1>1 DEF Headers, ParentsFirst
<1> QED BY <1>1, <1>5, <1>6 DEF LoadInv, FilesInv

(* What the system calls do to the tree and the loader: at most they change    *)
(* the data of a file, and then they count, or go to another directory.        *)
Quiet ==
    /\ archive' = archive /\ at' = at /\ stage' = stage
    /\ \/ nodes' = nodes /\ (cwd' = cwd \/ IsDirectory(nodes, cwd'))
       \/ cwd' = cwd /\ used' = used + 1 /\ \E n, data : nodes' = Written(nodes, n, data)
    /\ used' = used \/ used' = used + 1
    /\ status' = status \/ status' # "ok"

LEMMA QuietStep ==
    ASSUME FilesInv, LoadInv, Quiet
    PROVE  FilesInv' /\ LoadInv'
<1>1. archive' = archive /\ at' = at /\ stage' = stage /\ (status' = "ok" => status = "ok")
  BY DEF Quiet
<1>2. used \in Nat /\ (used' = used \/ used' = used + 1)
  BY DEF Quiet, LoadInv
<1>3. Headers' = Headers /\ ParentsFirst' = ParentsFirst
  BY <1>1 DEF Headers, ParentsFirst
<1>4. used' \in Nat /\ (used' = 0 => used = 0)
  BY <1>2
<1>5. TreeInv(nodes) /\ Len(nodes) > 0 /\ IsDirectory(nodes, cwd)
  BY DEF FilesInv
<1>6. CASE nodes' = nodes /\ (cwd' = cwd \/ IsDirectory(nodes, cwd'))
  <2>1. FilesInv'
    BY <1>5, <1>6 DEF FilesInv
  <2>2. LoadInv'
    BY <1>1, <1>3, <1>4, <1>6 DEF LoadInv
  <2> QED BY <2>1, <2>2
<1>7. ASSUME cwd' = cwd, used' = used + 1, NEW n, NEW data, nodes' = Written(nodes, n, data)
      PROVE  FilesInv' /\ LoadInv'
  <2>1. DOMAIN nodes = 1 .. Len(nodes) /\ nodes = [i \in 1 .. Len(nodes) |-> nodes[i]]
    BY <1>5 DEF TreeInv
  <2>2. CASE n \notin 1 .. Len(nodes)
    <3>1. nodes' = nodes
      BY <1>7, <2>1, <2>2 DEF Written
    <3> QED BY <1>6, <1>7, <3>1
  <2>3. CASE n \in 1 .. Len(nodes)
    <3> DEFINE w == Written(nodes, n, data)
    <3>1. /\ TreeInv(w) /\ Len(w) = Len(nodes)
          /\ \A i \in 1 .. Len(nodes) : SameNode(w[i], nodes[i])
      BY <1>5, <2>3, SameTree
    <3>2. nodes' = w
      BY <1>7
    <3> HIDE DEF w
    <3>3. DOMAIN w = 1 .. Len(w)
      BY <3>1 DEF TreeInv
    <3>4. IsDirectory(w, cwd)
      BY <1>5, <2>1, <3>1, <3>3 DEF IsDirectory, SameNode
    <3>5. FilesInv'
      BY <1>5, <1>7, <3>1, <3>2, <3>4 DEF FilesInv
    <3>6. used' # 0
      BY <1>2, <1>7
    <3>7. LoadInv'
      BY <1>1, <1>3, <1>4, <3>6 DEF LoadInv
    <3> QED BY <3>5, <3>7
  <2> QED BY <2>2, <2>3
<1> QED BY <1>6, <1>7 DEF Quiet

LEMMA FailsQuiet ==
    ASSUME NEW how, how # "ok", Fails(how)
    PROVE  Quiet
  BY DEF Fails, loader, Quiet

LEMMA OpenQuiet ==
    ASSUME NEW dirfd, NEW path, openat(dirfd, path)
    PROVE  Quiet
<1>1. Fails("panic") \/ Fails("wild") \/ (Counted /\ UNCHANGED <<nodes, loader, cwd, status>>)
  BY Zenon DEF openat
<1>2. CASE Counted /\ UNCHANGED <<nodes, loader, cwd, status>>
  BY <1>2 DEF Counted, loader, Quiet
<1> QED BY <1>1, <1>2, FailsQuiet

LEMMA ReadQuiet ==
    ASSUME NEW fd, NEW count, NEW offset, NEW cursor, ReadAt(fd, count, offset, cursor)
    PROVE  Quiet
<1>1. Fails("panic") \/ Fails("wild") \/ (Counted /\ UNCHANGED <<nodes, loader, cwd, status>>)
  BY Zenon DEF ReadAt
<1>2. CASE Counted /\ UNCHANGED <<nodes, loader, cwd, status>>
  BY <1>2 DEF Counted, loader, Quiet
<1> QED BY <1>1, <1>2, FailsQuiet

LEMMA WriteQuiet ==
    ASSUME NEW fd, NEW bytes, NEW offset, NEW cursor, WriteAt(fd, bytes, offset, cursor)
    PROVE  Quiet
<1> DEFINE Ends == /\ Counted /\ UNCHANGED <<loader, cwd, status>>
                   /\ nodes' = nodes \/ \E n, data : nodes' = Written(nodes, n, data)
<1>1. Fails("panic") \/ (\E how : how # "ok" /\ Fails(how)) \/ Ends
  BY Zenon DEF WriteAt, Written
<1>2. CASE Ends
  BY <1>2 DEF Counted, loader, Quiet
<1> QED BY <1>1, <1>2, FailsQuiet

LEMMA ChdirQuiet ==
    ASSUME FilesInv, NEW path \in Paths, chdir(path)
    PROVE  Quiet
<1> DEFINE d == start(path, AT_FDCWD)
           r == path_to_node(path.components, d)
<1>1. /\ r.target # Null
      /\ \/ Fails("wild")
         \/ /\ r.target # Junk /\ nodes[r.target].type = "DIRECTORY" /\ cwd' = r.target
            /\ UNCHANGED <<nodes, loader, used, status>>
  BY Zenon DEF chdir
<1>2. TreeInv(nodes) /\ IsDirectory(nodes, Root) /\ IsDirectory(nodes, cwd)
  BY RootIs DEF FilesInv
<1>3. IsDirectory(nodes, d)
  BY <1>2 DEF start
<1>4. path.components \in Seq(Names)
  BY NamesAssumption
<1> HIDE DEF d
<1>5. path.components # << >>
  <2>1. ASSUME path.components = << >> PROVE r.target = Null
    BY <2>1 DEF path_to_node, Failed, Result
  <2> QED BY <1>1, <2>1
<1>6. Found(r, Meaning(nodes, d, path.components))
  BY <1>2, <1>3, <1>4, <1>5, PathIs
<1> HIDE DEF r
<1>7. r.target # Junk => r.target \in DOMAIN nodes
  BY <1>1, <1>6 DEF Found
<1>8. CASE /\ r.target # Junk /\ nodes[r.target].type = "DIRECTORY" /\ cwd' = r.target
           /\ UNCHANGED <<nodes, loader, used, status>>
  BY <1>7, <1>8 DEF Quiet, loader, IsDirectory
<1> QED BY <1>1, <1>8, FailsQuiet

LEMMA FileStep ==
    ASSUME FilesInv, LoadInv, [Next]_vars
    PROVE  FilesInv' /\ LoadInv'
<1>1. CASE load_into
  BY <1>1, LoadStep
<1>2. CASE Loaded
  BY <1>2, LoadedStep
<1> SUFFICES ASSUME [Next]_vars, ~ load_into, ~ Loaded PROVE Quiet
  BY <1>1, <1>2, QuietStep
<1>3. ASSUME NEW path \in Paths, NEW dirfd, openat(dirfd, path) PROVE Quiet
  BY <1>3, OpenQuiet
<1>4. ASSUME NEW path \in Paths, chdir(path) PROVE Quiet
  BY <1>4, ChdirQuiet
<1>5. ASSUME NEW fd, close(fd) PROVE Quiet
  BY <1>5 DEF close, Counted, loader, Quiet
<1>6. ASSUME NEW fd, NEW count, read(fd, count) PROVE Quiet
  BY <1>6, ReadQuiet DEF read
<1>7. ASSUME NEW fd, NEW count, NEW offset, pread(fd, count, offset) PROVE Quiet
  BY <1>7, ReadQuiet DEF pread
<1>8. ASSUME NEW fd, NEW bytes, write_fd(fd, bytes) PROVE Quiet
  BY <1>8, WriteQuiet DEF write_fd
<1>9. ASSUME NEW fd, NEW bytes, NEW offset, pwrite(fd, bytes, offset) PROVE Quiet
  BY <1>9, WriteQuiet DEF pwrite
<1>10. ASSUME NEW fd, NEW offset, seek(fd, offset) PROVE Quiet
  BY <1>10 DEF seek, Counted, loader, Quiet
<1>11. CASE UNCHANGED vars
  BY <1>11 DEF vars, Quiet
<1> QED BY <1>3, <1>4, <1>5, <1>6, <1>7, <1>8, <1>9, <1>10, <1>11, Zenon DEF Next

LEMMA FileInit ==
    ASSUME Init
    PROVE  FilesInv /\ LoadInv
<1> DEFINE e == << >>
<1>1. PICK redirect \in {Null, Junk} : nodes = create(e, Null, "", "DIRECTORY", redirect)
  BY DEF Init
<1>2. /\ archive \in Archives /\ at = 1 /\ stage = "loading" /\ cwd = Root /\ used = 0
  BY DEF Init
<1>3. Len(e) = 0 /\ e = [i \in 1 .. Len(e) |-> e[i]]
  OBVIOUS
<1> HIDE DEF e
<1>4. Len(e) \in Nat /\ TreeInv(e)
  BY <1>3 DEF TreeInv
<1>5. Created(e, nodes, Null, "", "DIRECTORY", redirect)
  BY <1>1, <1>3, <1>4, CreateIs
<1>6. Fits(e, Null, "", "DIRECTORY", redirect)
  BY <1>3, NamesAssumption DEF Fits
<1>7. TreeInv(nodes) /\ Len(nodes) > 0
  BY <1>3, <1>4, <1>5, <1>6, CreatedTree
<1>8. FilesInv
  BY <1>2, <1>7, RootIs DEF FilesInv
<1>9. \A i \in Headers : ~ (i < at)
  <2>1. \A i \in Headers : i \in Nat \ {0}
    BY <1>2, ArchiveIs
  <2> QED BY <1>2, <2>1
<1> QED BY <1>2, <1>8, <1>9 DEF LoadInv

(* getcwd writes a path by which it finds a node again. *)
Top(n) == nodes[n].parent = Null \/ nodes[nodes[n].parent].parent = Null
Spell(g, n) == IF Top(n) THEN <<nodes[n].name>> ELSE Append(g[nodes[n].parent], nodes[n].name)

LEMMA SpellExists ==
    ASSUME TreeInv(nodes)
    PROVE  \E g : g = [n \in DOMAIN nodes |-> Spell(g, n)]
<1> DEFINE L == Len(nodes)
           T == {k \in 0 .. L : \E g : g = [n \in 1 .. k |-> Spell(g, n)]}
<1>0. /\ L \in Nat /\ DOMAIN nodes = 1 .. L
      /\ \A i \in 1 .. L : nodes[i].parent \in 0 .. i - 1 /\ i \in Nat \ {0}
  BY TreeShape
<1> HIDE DEF L
<1>1. 0 \in T
  <2> DEFINE g == [n \in 1 .. 0 |-> 0]
  <2>1. g = [n \in 1 .. 0 |-> Spell(g, n)]
    OBVIOUS
  <2> HIDE DEF g
  <2>2. \E h : h = [n \in 1 .. 0 |-> Spell(h, n)]
    BY <2>1
  <2>3. 0 \in 0 .. L
    BY <1>0
  <2> QED BY <2>2, <2>3
<1>2. ASSUME NEW k \in Nat, k < L, k \in T PROVE k + 1 \in T
  <2>1. PICK g : g = [n \in 1 .. k |-> Spell(g, n)]
    BY <1>2
  <2> DEFINE e == [n \in 1 .. k + 1 |-> IF n = k + 1 THEN Spell(g, k + 1) ELSE g[n]]
  <2>2. \A n \in 1 .. k : e[n] = g[n]
    OBVIOUS
  <2>3. e[k + 1] = Spell(g, k + 1)
    OBVIOUS
  <2>4. e = [n \in 1 .. k + 1 |-> e[n]]
    OBVIOUS
  <2> HIDE DEF e
  <2>5. ASSUME NEW n \in 1 .. k + 1 PROVE Spell(e, n) = Spell(g, n)
    <3>1. n \in 1 .. L
      BY <1>0, <1>2
    <3>2. ~ Top(n) => nodes[n].parent \in 1 .. k
      BY <1>0, <1>2, <3>1 DEF Top, Null
    <3> QED BY <2>2, <3>2 DEF Spell
  <2>6. ASSUME NEW n \in 1 .. k + 1 PROVE e[n] = Spell(g, n)
    <3>1. CASE n = k + 1
      BY <2>3, <3>1
    <3>2. CASE n # k + 1
      <4>1. n \in 1 .. k
        BY <3>2
      <4> QED BY <2>1, <2>2, <4>1
    <3> QED BY <3>1, <3>2
  <2>7. e = [n \in 1 .. k + 1 |-> Spell(e, n)]
    BY <2>4, <2>5, <2>6
  <2>8. k + 1 \in 0 .. L
    BY <1>0, <1>2
  <2> QED BY <2>7, <2>8
<1>3. L \in T
  <2> HIDE DEF T
  <2> QED BY <1>0, <1>1, <1>2, InductTo
<1> QED BY <1>0, <1>3

LEMMA SpellMeans ==
    ASSUME TreeInv(nodes), NEW g, g = [n \in DOMAIN nodes |-> Spell(g, n)]
    PROVE  \A n \in DOMAIN nodes : nodes[n].type # "NONE" /\ n # Root =>
             g[n] \in Seq(Names) /\ g[n] # << >> /\ Meaning(nodes, Root, g[n]) = n
<1> DEFINE L == Len(nodes)
           Means(n) == g[n] \in Seq(Names) /\ g[n] # << >> /\ Meaning(nodes, Root, g[n]) = n
           K == {k \in 0 .. L : \A n \in 1 .. k : nodes[n].type # "NONE" /\ n # Root => Means(n)}
<1>0. /\ L \in Nat /\ DOMAIN nodes = 1 .. L /\ \A i \in 1 .. L : NodeInv(nodes, i)
  BY TreeShape
<1>1. \A n \in 1 .. L : g[n] = Spell(g, n)
  BY <1>0
<1> HIDE DEF L
<1>2. 0 \in K
  BY <1>0
<1>3. ASSUME NEW k \in Nat, k < L, k \in K PROVE k + 1 \in K
  <2> DEFINE n == k + 1
             p == nodes[n].parent
             name == nodes[n].name
  <2>1. n \in 1 .. L /\ n \in 0 .. L /\ \A i \in 1 .. n : i \in 1 .. k \/ i = n
    BY <1>0, <1>3
  <2> SUFFICES ASSUME nodes[n].type # "NONE", n # Root PROVE Means(n)
    BY <1>3, <2>1
  <2>2. /\ name \in Names /\ p \in 1 .. n - 1 /\ nodes[p].type = "DIRECTORY"
    BY <1>0, <2>1 DEF NodeInv
  <2>3. p \in 1 .. k /\ p \in 1 .. L /\ p # Null
    BY <1>0, <1>3, <2>2 DEF Null
  <2>4. IsDirectory(nodes, p) /\ n \in Kids(nodes, p)
    BY <1>0, <2>1, <2>2, <2>3 DEF IsDirectory, Kids, L
  <2>5. Below(nodes, p, name) = n
    <3>1. Child(nodes, p, name) = Target(nodes, n)
      BY <2>4, ChildIs
    <3> QED BY <2>4, <3>1 DEF Below, IsDirectory, Target
  <2>6. g[n] = Spell(g, n)
    BY <1>1, <2>1
  <2> HIDE DEF n, p, name
  <2>7. CASE p = Root
    <3>1. nodes[p].parent = Null
      BY <1>0, <2>3, <2>7 DEF NodeInv
    <3>2. g[n] = <<name>>
      BY <2>6, <3>1 DEF Spell, Top, p, name
    <3> DEFINE s == <<name>>
    <3>3. s \in Seq(Names) /\ s # << >> /\ Len(s) = 1 /\ s[1] = name
      BY <2>2
    <3> HIDE DEF s
    <3>4. Meaning(nodes, Root, s) = Below(nodes, Root, name)
      BY <3>3, MeaningOfOne
    <3> QED BY <2>5, <2>7, <3>2, <3>3, <3>4 DEF s
  <2>8. CASE p # Root
    <3>1. nodes[p].parent # Null
      BY <1>0, <2>3, <2>8 DEF NodeInv, Null
    <3>2. g[n] = Append(g[p], name)
      BY <2>3, <2>6, <3>1 DEF Spell, Top, p, name
    <3>3. Means(p)
      BY <1>3, <2>2, <2>3, <2>8
    <3> DEFINE q == g[p]
               s == Append(q, name)
    <3>4. q \in Seq(Names) /\ Meaning(nodes, Root, q) = p
      BY <3>3
    <3> HIDE DEF q
    <3>5. /\ s \in Seq(Names) /\ s # << >> /\ Len(s) = Len(q) + 1
          /\ \A i \in 1 .. Len(q) : s[i] = q[i]
          /\ s[Len(q) + 1] = name /\ Len(q) \in Nat
      BY <2>2, <3>4, AppendProperties, LenProperties
    <3> HIDE DEF s
    <3>6. Meaning(nodes, Root, s) = Below(nodes, Meaning(nodes, Root, q), s[Len(s)])
      BY <3>5, MeaningLast
    <3>7. Meaning(nodes, Root, s) = n
      BY <2>5, <3>4, <3>5, <3>6
    <3>8. g[n] = s
      BY <3>2 DEF s, q
    <3> QED BY <3>5, <3>7, <3>8
  <2> QED BY <2>7, <2>8
<1>4. L \in K
  <2> HIDE DEF K
  <2> QED BY <1>0, <1>2, <1>3, InductTo
<1> QED BY <1>0, <1>4

LEMMA GetcwdIs ==
    ASSUME FilesInv, cwd # Root
    PROVE  getcwd \in Seq(Names) /\ getcwd # << >> /\ Meaning(nodes, Root, getcwd) = cwd
<1> DEFINE g == CHOOSE g : g = [n \in DOMAIN nodes |-> Spell(g, n)]
<1>1. TreeInv(nodes) /\ IsDirectory(nodes, cwd)
  BY DEF FilesInv
<1>2. g = [n \in DOMAIN nodes |-> Spell(g, n)]
  BY <1>1, SpellExists
<1>3. getcwd = g[cwd]
  BY DEF getcwd, Spell, Top
<1> HIDE DEF g
<1>4. cwd \in DOMAIN nodes /\ nodes[cwd].type # "NONE"
  BY <1>1 DEF IsDirectory
<1> QED BY <1>1, <1>2, <1>3, <1>4, SpellMeans

-----------------------------------------------------------------------------
(* The table stays a sequence of free slots and open descriptors, whatever     *)
(* calls the program makes, in whatever order, on whatever numbers.            *)
THEOREM TableInvariance == Spec => []TableInv
<1>1. Init => TableInv
  BY InitTable
<1>2. TableInv /\ [Next]_vars => TableInv'
  BY TableStep
<1> QED BY <1>1, <1>2, PTL DEF Spec

(* num_file_descriptors, which open and close keep by adding and subtracting   *)
(* one, is the number of open descriptors.                                     *)
THEOREM CountsDescriptors == Spec => []CountIsActual
<1>1. TableInv => CountIsActual
  BY DEF TableInv
<1> QED BY <1>1, TableInvariance, PTL

(* allocate_fdnum gives no open descriptor away, although close and open set   *)
(* the hint it starts from without regard to the slots before it: until it is  *)
(* closed, a descriptor stays with the file it was opened for.                 *)
THEOREM KeepsFile == Spec => DescriptorsKeepFile
<1>1. TableInv /\ [Next]_vars => [Keeps]_vars
  BY TableStep
<1> QED BY <1>1, TableInvariance, PTL DEF Spec, DescriptorsKeepFile, Keeps

(* The nodes stay a tree with a map for each directory that holds just the     *)
(* nodes made in it, whatever its keys hash to and however often it grew; and  *)
(* load_into has made a node of every header it has passed.                    *)
THEOREM FileInvariance == Spec => [](FilesInv /\ LoadInv)
<1> QED BY FileInit, FileStep, PTL DEF Spec

(* path_to_node finds every node that was created and nothing else, through    *)
(* the hash maps of the directories, their dot entries and their redirects.    *)
THEOREM FindsNodes == Spec => []LookupIsResolve
<1>1. ASSUME FilesInv PROVE LookupIsResolve
  <2> SUFFICES ASSUME JunkNodes = {}, NEW d \in Directories,
                      NEW path \in {<<n>> : n \in Names} \cup (Names \X Names)
               PROVE  path_to_node(path, d).target = Meaning(nodes, d, path)
    BY DEF LookupIsResolve
  <2>1. path \in Seq(Names) /\ path # << >>
    <3>1. CASE path \in {<<n>> : n \in Names}
      <4>1. PICK n \in Names : path = <<n>>
        BY <3>1
      <4> QED BY ONLY <4>1
    <3>2. CASE path \in Names \X Names
      <4>1. PICK n \in Names, m \in Names : path = <<n, m>>
        BY ONLY <3>2
      <4> QED BY ONLY <4>1
    <3> QED BY <3>1, <3>2
  <2>2. TreeInv(nodes) /\ IsDirectory(nodes, d)
    BY <1>1 DEF FilesInv, Directories, IsDirectory
  <2>3. Found(path_to_node(path, d), Meaning(nodes, d, path))
    BY <2>1, <2>2, PathIs
  <2> QED BY <2>3 DEF Found
<1> QED BY <1>1, FileInvariance, PTL

(* load_into loads an archive that lists directories before what is in them    *)
(* whole, and each file has the bytes that follow its header.                  *)
THEOREM LoadsArchive == Spec => []ArchiveLoaded
<1>1. ASSUME FilesInv, LoadInv PROVE ArchiveLoaded
  <2> SUFFICES ASSUME stage = "running", used = 0, status = "ok", ParentsFirst, NEW i \in Headers
               PROVE  LET n == Meaning(nodes, Root, archive[i].name)
                      IN  /\ n # Null /\ nodes[n].type = archive[i].type
                          /\ archive[i].type = "FILE" =>
                               nodes[n].data = [b \in 1 .. archive[i].size |-> archive[i].byte]
    BY DEF ArchiveLoaded
  <2>1. Loads(nodes, archive[i])
    BY <1>1 DEF LoadInv
  <2>2. Null \notin DOMAIN nodes
    BY <1>1, Nowhere DEF FilesInv
  <2> QED BY <2>1, <2>2 DEF Loads
<1> QED BY <1>1, FileInvariance, PTL

(* The path that getcwd writes by going up from the working directory leads    *)
(* path_to_node back down to it.                                               *)
THEOREM SpellsCwd == Spec => []CwdSpelled
<1>1. ASSUME FilesInv PROVE CwdSpelled
  <2> SUFFICES ASSUME cwd # Root, JunkNodes = {} PROVE path_to_node(getcwd, Root).target = cwd
    BY DEF CwdSpelled
  <2>1. getcwd \in Seq(Names) /\ getcwd # << >> /\ Meaning(nodes, Root, getcwd) = cwd
    BY <1>1, GetcwdIs
  <2>2. TreeInv(nodes) /\ IsDirectory(nodes, Root)
    BY <1>1, RootIs DEF FilesInv
  <2> DEFINE s == getcwd
  <2> HIDE DEF s
  <2>3. s \in Seq(Names) /\ s # << >>
    BY <2>1 DEF s
  <2>4. Found(path_to_node(s, Root), Meaning(nodes, Root, s))
    BY <2>2, <2>3, PathIs
  <2> QED BY <2>1, <2>4 DEF Found, s
<1> QED BY <1>1, FileInvariance, PTL

=============================================================================
