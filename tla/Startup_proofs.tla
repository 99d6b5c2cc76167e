---------------------------- MODULE Startup_proofs ----------------------------
(* Proofs about the start of the kernel, for any number of processors, any     *)
(* list of tables and any program file.                                        *)
EXTENDS Startup, TLAPS

-----------------------------------------------------------------------------
(* The processors *)

InitSteps == {"parked", "gdt", "ltr", "stacks", "done", "halted", "fault"}
Finished(c) == init_at[c] \in {"done", "halted"}

(* A stack is one processor's. *)
StacksInv ==
    /\ bsp \in Cpus /\ listed \in 0 .. CpuCount /\ stacks \in Nat
    /\ init_at \in [Cpus -> InitSteps]
    /\ rsp0 \in [Cpus -> Nat]
    /\ task_register \in [Cpus -> Cpus \cup {NoCpu}]
    /\ gdt_tss \in Cpus \cup {NoCpu}
    /\ \A c \in listed + 1 .. CpuCount : init_at[c] = "parked"
    /\ \A c \in Cpus : IF Finished(c) THEN rsp0[c] \in 1 .. stacks ELSE rsp0[c] = 0
    /\ \A c, d \in Cpus : c # d /\ Finished(c) => rsp0[c] # rsp0[d]

(* The one that boots, when it is first, has the descriptor for itself until   *)
(* it has loaded it: nobody else is started before its init has returned.      *)
FirstInv ==
    bsp = 1 =>
        /\ (listed = 0) <=> (init_at[bsp] = "parked")
        /\ init_at[bsp] # "done" => \A c \in Cpus \ {bsp} : init_at[c] = "parked"
        /\ init_at[bsp] # "halted"
        /\ init_at[bsp] = "ltr" => gdt_tss = bsp /\ ~ gdt_busy
        /\ init_at[bsp] \in {"stacks", "done"} => task_register[bsp] = bsp

ProcessorInv == StacksInv /\ FirstInv

(* What Startup does to the processors' state. *)
LEMMA ProcessorSteps ==
    ASSUME [Next]_vars
    PROVE  \/ StartsNext
           \/ \E c \in Cpus : SetTss(c) \/ LoadTr(c) \/ SetStacks(c)
           \/ UNCHANGED processorVars
<1>1. CASE Boots
  BY <1>1 DEF Boots, CheckFeatures, StartProcessors, ParseRsdp, ParseTables, Timers, KeyboardInit,
              LoadProgram
<1>2. CASE Counts \/ TimerFires
  BY <1>2 DEF Counts, TimerFires
<1>3. CASE \E c \in Cpus : ProcessorRuns(c)
  BY <1>3 DEF ProcessorRuns, CpuStep
<1>4. CASE UNCHANGED vars
  BY <1>4 DEF vars
<1> QED
  BY <1>1, <1>2, <1>3, <1>4 DEF Next

LEMMA ProcessorStep == ProcessorInv /\ [Next]_vars => ProcessorInv'
<1> SUFFICES ASSUME ProcessorInv, [Next]_vars PROVE ProcessorInv'
  OBVIOUS
<1> USE CpuAssumption
<1>1. CASE StartsNext
  <2>1. StacksInv'
    BY <1>1 DEF ProcessorInv, StacksInv, StartsNext, Finished, Cpus, InitSteps
  <2>2. FirstInv'
    BY <1>1 DEF ProcessorInv, StacksInv, FirstInv, StartsNext, Cpus, InitSteps
  <2> QED
    BY <2>1, <2>2 DEF ProcessorInv
<1>2. ASSUME NEW c \in Cpus, SetTss(c) PROVE ProcessorInv'
  <2>1. StacksInv'
    BY <1>2 DEF ProcessorInv, StacksInv, SetTss, Finished, Cpus, InitSteps
  <2>2. FirstInv'
    BY <1>2 DEF ProcessorInv, StacksInv, FirstInv, SetTss, Cpus, InitSteps
  <2> QED
    BY <2>1, <2>2 DEF ProcessorInv
<1>3. ASSUME NEW c \in Cpus, LoadTr(c) PROVE ProcessorInv'
  <2>1. StacksInv'
    <3>1. /\ init_at[c] = "ltr"
          /\ init_at' \in {[init_at EXCEPT ![c] = "fault"], [init_at EXCEPT ![c] = "stacks"]}
          /\ task_register' \in {task_register, [task_register EXCEPT ![c] = gdt_tss]}
          /\ UNCHANGED <<bsp, listed, gdt_tss, rsp0, stacks>>
      BY <1>3 DEF LoadTr
    <3>2. /\ init_at' \in [Cpus -> InitSteps]
          /\ \A d \in Cpus : Finished(d)' <=> Finished(d)
          /\ \A d \in Cpus : init_at[d] = "parked" => init_at'[d] = "parked"
      BY <3>1 DEF ProcessorInv, StacksInv, Finished, InitSteps
    <3>3. task_register' \in [Cpus -> Cpus \cup {NoCpu}]
      BY <3>1 DEF ProcessorInv, StacksInv
    <3> QED
      BY <3>1, <3>2, <3>3 DEF ProcessorInv, StacksInv, Cpus
  <2>2. FirstInv'
    BY <1>3 DEF ProcessorInv, StacksInv, FirstInv, LoadTr, Cpus, InitSteps
  <2> QED
    BY <2>1, <2>2 DEF ProcessorInv
<1>4. ASSUME NEW c \in Cpus, SetStacks(c) PROVE ProcessorInv'
  <2>1. StacksInv'
    BY <1>4 DEF ProcessorInv, StacksInv, SetStacks, Finished, Cpus, InitSteps
  <2>2. FirstInv'
    BY <1>4 DEF ProcessorInv, StacksInv, FirstInv, SetStacks, Cpus, InitSteps
  <2> QED
    BY <2>1, <2>2 DEF ProcessorInv
<1>5. CASE UNCHANGED processorVars
  BY <1>5 DEF processorVars, ProcessorInv, StacksInv, FirstInv, Finished
<1> QED
  BY <1>1, <1>2, <1>3, <1>4, <1>5, ProcessorSteps

(* The invariant of the processors' start. *)
THEOREM ProcessorInvariance == Spec => []ProcessorInv
<1>1. Init => ProcessorInv
  BY CpuAssumption DEF Init, ProcessorsInit, ProcessorInv, StacksInv, FirstInv, Finished, Cpus, InitSteps
<1> QED
  BY <1>1, ProcessorStep, PTL DEF Spec

(* The processor that boots, when it is first in the list, ends with its own   *)
(* task state segment and a stack of its own, whatever the others do to the    *)
(* descriptor that all of them write in load_tss.                              *)
THEOREM TssIsOwn == Spec => []OwnTss
<1>1. ProcessorInv => OwnTss
  BY DEF ProcessorInv, StacksInv, FirstInv, OwnTss, Finished
<1> QED
  BY <1>1, ProcessorInvariance, PTL

-----------------------------------------------------------------------------
(* The loader: pages *)

(* Division by the page size. *)
LEMMA Division ==
    ASSUME NEW n \in Nat
    PROVE  /\ n \div PageSize \in Nat /\ n % PageSize \in 0 .. PageSize - 1
           /\ n = (n \div PageSize) * PageSize + (n % PageSize)
<1>0. PageSize \in Nat /\ PageSize > 0
  BY LoaderAssumption
<1>1. n \div PageSize \in Nat
  BY <1>0
<1>2. n % PageSize \in Nat /\ n % PageSize < PageSize
  BY <1>0
<1>3. n = PageSize * (n \div PageSize) + (n % PageSize)
  BY <1>0
<1>4. (n \div PageSize) * PageSize = PageSize * (n \div PageSize)
  BY <1>0, <1>1
<1> QED
  BY <1>0, <1>1, <1>2, <1>3, <1>4

(* Products with the page size are ordered as their factors are. *)
LEMMA Ordered ==
    ASSUME NEW m \in Nat, NEW n \in Nat
    PROVE  /\ m * PageSize \in Nat
           /\ m < n => m * PageSize + PageSize <= n * PageSize
           /\ m * PageSize < n * PageSize => m < n
<1> DEFINE p == PageSize
<1> p \in Nat \ {0}
  BY LoaderAssumption
<1>1. m * p \in Nat /\ n * p \in Nat
  OBVIOUS
<1>2. ASSUME NEW a \in Nat, NEW b \in Nat, a < b PROVE a * p + p <= b * p
  <2>1. PICK k \in Nat : b = a + 1 + k
    <3> b - a - 1 \in Nat /\ b = a + 1 + (b - a - 1)
      BY <1>2
    <3> QED OBVIOUS
  <2>2. b * p = a * p + p + k * p /\ k * p \in Nat /\ a * p \in Nat
    BY <2>1
  <2> QED
    BY <2>2
<1>3. m * p < n * p => m < n
  <2> SUFFICES ASSUME ~ (m < n) PROVE ~ (m * p < n * p)
    OBVIOUS
  <2>1. CASE m = n
    BY <2>1, <1>1
  <2>2. CASE n < m
    BY <2>2, <1>2, <1>1
  <2> QED
    BY <2>1, <2>2
<1> QED
  BY <1>1, <1>2, <1>3

(* A quotient and a remainder are those of the division. *)
LEMMA Quotient ==
    ASSUME NEW q \in Nat, NEW r \in 0 .. PageSize - 1
    PROVE  (q * PageSize + r) \div PageSize = q /\ (q * PageSize + r) % PageSize = r
<1> DEFINE n == q * PageSize + r
<1>0. PageSize \in Nat \ {0} /\ r \in Nat /\ r < PageSize
  BY LoaderAssumption
<1>1. n \in Nat
  BY <1>0
<1> DEFINE d == n \div PageSize
           e == n % PageSize
<1> HIDE DEF n
<1>2. d \in Nat /\ e \in 0 .. PageSize - 1 /\ n = d * PageSize + e
  BY <1>1, Division
<1>3. d * PageSize + e = q * PageSize + r
  BY <1>2 DEF n
<1> HIDE DEF d, e
<1>4. d * PageSize \in Nat /\ q * PageSize \in Nat
  BY <1>0, <1>2
<1>5. ~ (d < q)
  BY <1>0, <1>2, <1>3, <1>4, Ordered
<1>6. ~ (q < d)
  BY <1>0, <1>2, <1>3, <1>4, Ordered
<1>7. d = q
  BY <1>2, <1>5, <1>6
<1>8. e = r
  BY <1>0, <1>2, <1>3, <1>4, <1>7
<1> QED
  BY <1>7, <1>8 DEF n, d, e

(* PagesFor is the least number of pages that hold n bytes. *)
LEMMA PagesForFacts ==
    ASSUME NEW n \in Nat
    PROVE  /\ PagesFor(n) \in Nat
           /\ n <= PagesFor(n) * PageSize /\ PagesFor(n) * PageSize < n + PageSize
           /\ align_up(n) \in Nat
<1>0. PageSize \in Nat \ {0}
  BY LoaderAssumption
<1> DEFINE m == n + PageSize - 1
<1>1. m \in Nat
  BY <1>0
<1>2. /\ PagesFor(n) \in Nat
      /\ m % PageSize \in 0 .. PageSize - 1
      /\ m = PagesFor(n) * PageSize + (m % PageSize)
  BY <1>1, Division DEF PagesFor
<1>3. PagesFor(n) * PageSize \in Nat
  BY <1>0, <1>2
<1> DEFINE k == PagesFor(n) * PageSize
           e == m % PageSize
<1>4. k \in Nat /\ e \in Nat /\ e <= PageSize - 1 /\ n + PageSize - 1 = k + e
  BY <1>0, <1>2, <1>3
<1> HIDE DEF k, e
<1>5. n <= k /\ k < n + PageSize
  BY <1>0, <1>4
<1> QED
  BY <1>2, <1>3, <1>5 DEF align_up, k

-----------------------------------------------------------------------------
(* The loader: its invariant *)

Header(i) == program.headers[i]

(* The pages of a segment have what PageContents says of them. *)
InPlace(i) ==
    \A v \in PagesOf(Header(i)) :
        /\ v \in DOMAIN memory
        /\ memory[v] = PageContents(Header(i), v - (Header(i).virt_addr \div PageSize))

(* No page begins at first_free_virt or later, the segments handled are in     *)
(* place if no other has their pages, and the stack comes last.                *)
LoaderInv ==
    /\ program \in ProgramFiles
    /\ loaded \in 0 .. Len(program.headers)
    /\ first_free_virt \in Nat
    /\ \A v \in DOMAIN memory : v \in Nat /\ v * PageSize < first_free_virt
    /\ \A i \in 1 .. loaded : i \in Segments /\ Ordinary(i) => InPlace(i)
    /\ stack # {} => loaded = Len(program.headers) /\ stack \cap DOMAIN memory = {}

LEMMA LoaderSteps ==
    ASSUME [Next]_vars
    PROVE  LoadHeader \/ MakeStack \/ UNCHANGED loaderVars
<1>1. CASE Boots
  BY <1>1 DEF Boots, CheckFeatures, StartProcessors, ParseRsdp, ParseTables, Timers, KeyboardInit,
              LoadProgram
<1>2. CASE Counts \/ TimerFires
  BY <1>2 DEF Counts, TimerFires
<1>3. CASE \E c \in Cpus : ProcessorRuns(c)
  BY <1>3 DEF ProcessorRuns
<1>4. CASE UNCHANGED vars
  BY <1>4 DEF vars
<1> QED
  BY <1>1, <1>2, <1>3, <1>4 DEF Next

LEMMA SegmentTypes ==
    ASSUME NEW ph \in Headers, ph.type = "PT_LOAD"
    PROVE  /\ ph.virt_addr \in Nat /\ ph.offset \in Nat
           /\ ph.file_size \in Nat /\ ph.mem_size \in Nat
           /\ misalign(ph) \in 0 .. PageSize - 1
           /\ mem_page_count(ph) \in Nat /\ file_page_count(ph) \in Nat
           /\ page_virt(ph, mem_page_count(ph)) \in Nat
<1>0. PageSize \in Nat \ {0}
  BY LoaderAssumption
<1>1. /\ ph.virt_addr \in Nat /\ ph.offset \in Nat
      /\ ph.file_size \in Nat /\ ph.mem_size \in Nat
  BY DEF Headers
<1>2. misalign(ph) \in 0 .. PageSize - 1
  BY <1>1, Division DEF misalign
<1>3. ph.file_size + misalign(ph) \in Nat /\ ph.mem_size + misalign(ph) \in Nat
  BY <1>0, <1>1, <1>2
<1>4. mem_page_count(ph) \in Nat /\ file_page_count(ph) \in Nat
  BY <1>3, PagesForFacts DEF mem_page_count, file_page_count
<1>5. page_virt(ph, mem_page_count(ph)) \in Nat
  BY <1>0, <1>1, <1>4 DEF page_virt
<1> QED
  BY <1>1, <1>2, <1>4, <1>5

(* What is to be in a page does not change, as the file does not. *)
LEMMA InPlaceNext ==
    ASSUME NEW i, program' = program
    PROVE  InPlace(i)' =
             \A v \in PagesOf(Header(i)) :
                 /\ v \in DOMAIN memory'
                 /\ memory'[v] = PageContents(Header(i), v - (Header(i).virt_addr \div PageSize))
<1>1. Header(i)' = Header(i)
  BY DEF Header
<1>2. ASSUME NEW h, NEW j PROVE PageContents(h, j)' = PageContents(h, j)
  BY DEF PageContents, FileByte
<1> QED
  BY <1>1, <1>2 DEF InPlace

(* The pages of a segment: numbers, each of whose pages begins before the end. *)
LEMMA SegmentPages ==
    ASSUME NEW ph \in Headers, ph.type = "PT_LOAD", NEW v \in PagesOf(ph)
    PROVE  /\ v \in Nat
           /\ page_virt(ph, mem_page_count(ph)) \in Nat
           /\ v * PageSize + PageSize <= page_virt(ph, mem_page_count(ph))
<1>0. PageSize \in Nat \ {0}
  BY LoaderAssumption
<1> DEFINE a == ph.virt_addr
           n == mem_page_count(ph)
<1>1. a \in Nat
  BY SegmentTypes
<1>3. n \in Nat
  BY SegmentTypes
<1>4. PICK i \in 0 .. n - 1 : v = (a + i * PageSize) \div PageSize
  BY DEF PagesOf, page_virt
<1> a \in Nat
  BY <1>1
<1> HIDE DEF a, n
<1>5. i \in Nat /\ i < n
  BY <1>3, <1>4
<1>6. i * PageSize \in Nat /\ n * PageSize \in Nat /\ i * PageSize + PageSize <= n * PageSize
  BY <1>0, <1>3, <1>5, Ordered
<1> DEFINE b == a + i * PageSize
<1>7. b \in Nat
  BY <1>6
<1> HIDE DEF b
<1>8. v \in Nat /\ b % PageSize \in Nat /\ b = v * PageSize + (b % PageSize)
  BY <1>4, <1>7, Division DEF b
<1>9. v * PageSize \in Nat
  BY <1>0, <1>8
<1>10. v * PageSize + PageSize <= a + n * PageSize
  BY <1>0, <1>6, <1>8, <1>9 DEF b
<1> QED
  BY <1>6, <1>8, <1>10 DEF page_virt, a, n

LEMMA LoadHeaderStep == LoaderInv /\ LoadHeader => LoaderInv'
<1> SUFFICES ASSUME LoaderInv, LoadHeader PROVE LoaderInv'
  OBVIOUS
<1> DEFINE k == loaded + 1
           ph == Header(k)
           pages == PagesOf(ph)
           end == page_virt(ph, mem_page_count(ph))
<1>0. PageSize \in Nat \ {0}
  BY LoaderAssumption
<1>1. /\ program.headers \in Seq(Headers)
      /\ loaded < Len(program.headers) /\ loaded \in Nat
      /\ k \in DOMAIN program.headers
      /\ loaded' = k /\ program' = program /\ stack' = stack /\ stack = {}
  BY DEF LoaderInv, LoadHeader, ProgramFiles
<1>2. ph \in Headers /\ Len(program.headers) \in Nat
  BY <1>1 DEF Header
<1>3. CASE ph.type = "PT_LOAD" /\ mem_page_count(ph) > 0
  <2>1. /\ memory' = [v \in pages \cup DOMAIN memory |->
                       IF v \in pages THEN PageContents(ph, v - (ph.virt_addr \div PageSize))
                       ELSE memory[v]]
        /\ first_free_virt' = IF end - PageSize >= first_free_virt THEN end ELSE first_free_virt
    BY <1>3 DEF LoadHeader, Header, PagesOf
  <2>2. end \in Nat /\ \A v \in pages : v \in Nat /\ v * PageSize + PageSize <= end
    BY <1>2, <1>3, SegmentTypes, SegmentPages
  <2> HIDE DEF end, pages
  <2>3. first_free_virt \in Nat /\ \A v \in DOMAIN memory : v \in Nat /\ v * PageSize < first_free_virt
    BY DEF LoaderInv
  <2>4. first_free_virt' \in Nat /\ first_free_virt' >= first_free_virt
        /\ first_free_virt' > end - PageSize
    BY <1>0, <2>1, <2>2, <2>3
  <2>5. \A v \in DOMAIN memory' : v \in Nat /\ v * PageSize < first_free_virt'
    <3> SUFFICES ASSUME NEW v \in pages \cup DOMAIN memory
                 PROVE  v \in Nat /\ v * PageSize < first_free_virt'
      BY <2>1
    <3>1. v \in Nat /\ v * PageSize \in Nat
      BY <1>0, <2>2, <2>3
    <3>2. v \in pages => v * PageSize + PageSize <= end
      BY <2>2
    <3>3. v \in DOMAIN memory => v * PageSize < first_free_virt
      BY <2>3
    <3> QED
      BY <1>0, <2>2, <2>3, <2>4, <3>1, <3>2, <3>3
  <2>6. ASSUME NEW i \in 1 .. k, i \in Segments, Ordinary(i)
        PROVE  InPlace(i)'
    <3>1. CASE i = k
      BY <1>1, <2>1, <3>1, InPlaceNext DEF pages
    <3>2. CASE i # k
      <4>1. i \in 1 .. loaded
        BY <1>1, <3>2
      <4>2. InPlace(i)
        BY <4>1, <2>6 DEF LoaderInv
      <4>3. PagesOf(Header(i)) \cap pages = {}
        BY <1>1, <1>3, <2>6, <3>2 DEF Ordinary, Segments, Header, pages
      <4> QED
        BY <1>1, <2>1, <4>2, <4>3, InPlaceNext DEF InPlace
    <3> QED
      BY <3>1, <3>2
  <2>7. \A i \in DOMAIN program.headers :
          (i \in Segments)' = (i \in Segments) /\ Ordinary(i)' = Ordinary(i)
    BY <1>1 DEF Segments, Ordinary
  <2> QED
    BY <1>1, <1>2, <2>4, <2>5, <2>6, <2>7 DEF LoaderInv, Header, Segments
<1>4. CASE ~ (ph.type = "PT_LOAD" /\ mem_page_count(ph) > 0)
  <2>1. UNCHANGED <<memory, first_free_virt>>
    BY <1>4 DEF LoadHeader, Header
  <2>2. ASSUME NEW i \in 1 .. k, i \in Segments, Ordinary(i)
        PROVE  InPlace(i)'
    <3>1. CASE i # k
      <4>1. i \in 1 .. loaded
        BY <1>1, <3>1
      <4> QED
        BY <1>1, <2>1, <2>2, <4>1, InPlaceNext DEF LoaderInv, InPlace
    <3>2. CASE i = k
      <4>1. ph.type = "PT_LOAD"
        BY <2>2, <3>2 DEF Segments, Header
      <4>2. mem_page_count(ph) = 0
        BY <1>2, <1>4, <4>1, SegmentTypes
      <4>3. PagesOf(ph) = {}
        BY <4>2 DEF PagesOf
      <4> QED
        BY <1>1, <3>2, <4>3, InPlaceNext
    <3> QED
      BY <3>1, <3>2
  <2>3. \A i \in DOMAIN program.headers :
          (i \in Segments)' = (i \in Segments) /\ Ordinary(i)' = Ordinary(i)
    BY <1>1 DEF Segments, Ordinary
  <2> QED
    BY <1>1, <1>2, <2>1, <2>2, <2>3 DEF LoaderInv, Header, Segments
<1> QED
  BY <1>3, <1>4

LEMMA MakeStackStep == LoaderInv /\ MakeStack => LoaderInv'
<1> SUFFICES ASSUME LoaderInv, MakeStack PROVE LoaderInv'
  OBVIOUS
<1>0. PageSize \in Nat \ {0}
  BY LoaderAssumption
<1> DEFINE top == PagesFor(first_free_virt)
<1>1. /\ loaded = Len(program.headers)
      /\ first_free_virt' = top * PageSize
      /\ stack' = {(top * PageSize) \div PageSize + i : i \in 0 .. StackPages - 1}
      /\ UNCHANGED <<program, loaded, memory>>
  BY DEF MakeStack, align_up
<1>2. first_free_virt \in Nat /\ \A v \in DOMAIN memory : v \in Nat /\ v * PageSize < first_free_virt
  BY DEF LoaderInv
<1>3. top \in Nat /\ first_free_virt <= top * PageSize /\ top * PageSize \in Nat
  BY <1>2, PagesForFacts DEF align_up
<1>4. (top * PageSize) \div PageSize = top
  <2>1. top * PageSize + 0 = top * PageSize /\ 0 \in 0 .. PageSize - 1
    BY <1>0, <1>3
  <2> QED
    BY <1>3, <2>1, Quotient
<1> HIDE DEF top
<1>5. \A v \in DOMAIN memory : v \in Nat /\ v < top /\ v * PageSize < top * PageSize
  <2> TAKE v \in DOMAIN memory
  <2>1. v \in Nat /\ v * PageSize < first_free_virt /\ v * PageSize \in Nat
    BY <1>0, <1>2
  <2>2. v * PageSize < top * PageSize
    BY <1>2, <1>3, <2>1
  <2> QED
    BY <1>3, <2>1, <2>2, Ordered
<1>6. stack' \cap DOMAIN memory = {}
  BY <1>1, <1>3, <1>4, <1>5, LoaderAssumption
<1>7. ASSUME NEW i, InPlace(i) PROVE InPlace(i)'
  BY <1>1, <1>7, InPlaceNext DEF InPlace
<1>8. \A i \in DOMAIN program.headers :
        (i \in Segments)' = (i \in Segments) /\ Ordinary(i)' = Ordinary(i)
  BY <1>1 DEF Segments, Ordinary
<1>9. \A i \in 1 .. loaded : i \in DOMAIN program.headers
  BY <1>1 DEF LoaderInv, ProgramFiles
<1> QED
  BY <1>1, <1>3, <1>5, <1>6, <1>7, <1>8, <1>9 DEF LoaderInv, Header

(* The invariant of the loader. *)
THEOREM LoaderInvariance == Spec => []LoaderInv
<1>1. Init => LoaderInv
  BY LoaderAssumption DEF Init, LoaderInit, LoaderInv, ProgramFiles
<1>2. LoaderInv /\ [Next]_vars => LoaderInv'
  <2> SUFFICES ASSUME LoaderInv, [Next]_vars PROVE LoaderInv'
    OBVIOUS
  <2>1. CASE UNCHANGED loaderVars
    <3>1. UNCHANGED <<program, loaded, memory, first_free_virt, stack>>
      BY <2>1 DEF loaderVars
    <3>2. ASSUME NEW i, InPlace(i) PROVE InPlace(i)'
      BY <3>1, <3>2, InPlaceNext DEF InPlace
    <3>3. \A i \in DOMAIN program.headers :
            (i \in Segments)' = (i \in Segments) /\ Ordinary(i)' = Ordinary(i)
      BY <3>1 DEF Segments, Ordinary
    <3>4. \A i \in 1 .. loaded : i \in DOMAIN program.headers
      BY DEF LoaderInv, ProgramFiles
    <3> QED
      BY <3>1, <3>2, <3>3, <3>4 DEF LoaderInv, Header
  <2> QED
    BY <2>1, LoaderSteps, LoadHeaderStep, MakeStackStep
<1> QED
  BY <1>1, <1>2, PTL DEF Spec

(* Byte b of a segment that begins on a page is byte b % PageSize of its page  *)
(* number b \div PageSize.                                                     *)
LEMMA SegmentBytes ==
    ASSUME NEW ph \in Headers, ph.type = "PT_LOAD", misalign(ph) = 0,
           NEW b \in 0 .. ph.mem_size - 1
    PROVE  /\ b \div PageSize \in Nat
           /\ (ph.virt_addr + b) \div PageSize \in PagesOf(ph)
           /\ (ph.virt_addr + b) \div PageSize - (ph.virt_addr \div PageSize) = b \div PageSize
<1>0. PageSize \in Nat \ {0}
  BY LoaderAssumption
<1> DEFINE a == ph.virt_addr
           c == a \div PageSize
           d == b \div PageSize
           e == b % PageSize
           n == mem_page_count(ph)
<1>1. a \in Nat /\ ph.mem_size \in Nat /\ n \in Nat
  BY SegmentTypes
<1>2. b \in Nat /\ b < ph.mem_size
  BY <1>1
<1>3. c \in Nat /\ a = c * PageSize + 0
  <2>1. c \in Nat /\ a = c * PageSize + (a % PageSize)
    BY <1>1, Division
  <2> QED
    BY <2>1 DEF misalign
<1>4. d \in Nat /\ e \in 0 .. PageSize - 1 /\ b = d * PageSize + e
  BY <1>2, Division
<1>5. n = PagesFor(ph.mem_size)
  BY <1>1 DEF mem_page_count
<1> HIDE DEF a, c, d, e, n
<1>6. d < n
  <2>1. ph.mem_size <= n * PageSize
    BY <1>1, <1>5, PagesForFacts
  <2>2. d * PageSize \in Nat /\ n * PageSize \in Nat
    BY <1>0, <1>1, <1>4
  <2>3. d * PageSize < n * PageSize
    BY <1>0, <1>1, <1>2, <1>4, <2>1, <2>2
  <2> QED
    BY <1>1, <1>4, <2>3, Ordered
<1>7. /\ a + b = (c + d) * PageSize + e
      /\ a + d * PageSize = (c + d) * PageSize + 0
  <2>1. (c + d) * PageSize = c * PageSize + d * PageSize
        /\ c * PageSize \in Nat /\ d * PageSize \in Nat
    BY <1>0, <1>3, <1>4
  <2> QED
    BY <1>0, <1>3, <1>4, <2>1
<1>8. (a + b) \div PageSize = c + d
  BY <1>3, <1>4, <1>7, Quotient
<1>9. (a + d * PageSize) \div PageSize = c + d
  <2>1. 0 \in 0 .. PageSize - 1 /\ c + d \in Nat
    BY <1>0, <1>3, <1>4
  <2> QED
    BY <1>7, <2>1, Quotient
<1>10. d \in 0 .. n - 1
  BY <1>1, <1>4, <1>6
<1>11. (a + b) \div PageSize \in PagesOf(ph)
  BY <1>8, <1>9, <1>10 DEF PagesOf, page_virt, a, n
<1>12. (a + b) \div PageSize - c = d
  BY <1>3, <1>4, <1>8
<1> QED
  BY <1>4, <1>11, <1>12 DEF a, c, d

(* A size that ends within a page has one more page than whole ones. *)
LEMMA LastPage ==
    ASSUME NEW n \in Nat, n % PageSize # 0
    PROVE  PagesFor(n) = n \div PageSize + 1
<1>0. PageSize \in Nat \ {0}
  BY LoaderAssumption
<1> DEFINE q == n \div PageSize
           s == n % PageSize
           k == PagesFor(n)
<1>1. q \in Nat /\ s \in 0 .. PageSize - 1 /\ s # 0 /\ n = q * PageSize + s
  BY Division
<1>2. k \in Nat /\ n <= k * PageSize /\ k * PageSize < n + PageSize
  BY PagesForFacts
<1> HIDE DEF q, s, k
<1>3. q * PageSize \in Nat /\ k * PageSize \in Nat
      /\ (q + 2) * PageSize = q * PageSize + PageSize + PageSize
  BY <1>0, <1>1, <1>2
<1>4. q * PageSize < k * PageSize /\ k * PageSize < (q + 2) * PageSize
  BY <1>0, <1>1, <1>2, <1>3
<1>5. q < k /\ k < q + 2
  BY <1>1, <1>2, <1>4, Ordered
<1>6. k = q + 1
  BY <1>1, <1>2, <1>5
<1> QED
  BY <1>6 DEF k, q

(* The pages made for a segment hold the bytes of the file, and zero after     *)
(* them unless it has one page only.                                           *)
LEMMA SegmentContents ==
    ASSUME NEW ph \in Headers, ph.type = "PT_LOAD", misalign(ph) = 0,
           file_page_count(ph) > 1 => ph.file_size % PageSize # 0,
           NEW b \in Nat
    PROVE  LET byte == PageContents(ph, b \div PageSize)[b % PageSize]
           IN  /\ b < ph.file_size => byte = FileByte(ph.offset + b)
               /\ b >= ph.file_size /\ file_page_count(ph) # 1 => byte = Zero
<1>0. PageSize \in Nat \ {0}
  BY LoaderAssumption
<1> DEFINE i == b \div PageSize
           r == b % PageSize
           f == ph.file_size
           q == f \div PageSize
           s == f % PageSize
           k == file_page_count(ph)
           size == read_size(ph, i)
           byte == PageContents(ph, i)[r]
<1>1. i \in Nat /\ r \in 0 .. PageSize - 1 /\ b = i * PageSize + r
  BY Division
<1>2. f \in Nat /\ k \in Nat /\ ph.offset \in Nat /\ f + misalign(ph) = f
  BY SegmentTypes
<1>3. q \in Nat /\ s \in 0 .. PageSize - 1 /\ f = q * PageSize + s
  BY <1>2, Division
<1>4. k = PagesFor(f)
  BY <1>2 DEF file_page_count
<1>5. f <= k * PageSize /\ k > 1 => s # 0 /\ k = q + 1
  BY <1>2, <1>4, LastPage
<1>6. size = IF i = 0 THEN PageSize ELSE IF i = k - 1 THEN s ELSE PageSize
  BY <1>0, <1>2 DEF read_size
<1>7. byte = IF i < k /\ r \in 0 .. size - 1
             THEN FileByte(ph.offset + i * PageSize + r) ELSE Zero
  <2>1. byte = IF i < k /\ r \in 0 .. 0 + size - 1
               THEN FileByte(ph.offset + i * PageSize + 0 + r - 0) ELSE Zero
    BY <1>1 DEF PageContents
  <2>2. ph.offset + i * PageSize + 0 + r - 0 = ph.offset + i * PageSize + r
    BY <1>0, <1>1, <1>2
  <2>3. 0 + size - 1 = size - 1
    BY <1>0, <1>3, <1>6
  <2> QED
    BY <2>1, <2>2, <2>3
<1> HIDE DEF i, r, f, q, s, k, size, byte
<1>8. i * PageSize \in Nat /\ q * PageSize \in Nat /\ k * PageSize \in Nat
  BY <1>0, <1>1, <1>2, <1>3
<1>9. f <= k * PageSize
  BY <1>2, <1>4, PagesForFacts
<1>10. ASSUME b < f PROVE byte = FileByte(ph.offset + b)
  <2>1. i < k
    <3>1. i * PageSize < k * PageSize
      BY <1>0, <1>1, <1>2, <1>8, <1>9, <1>10
    <3> QED
      BY <1>1, <1>2, <3>1, Ordered
  <2>2. r \in 0 .. size - 1
    <3>1. CASE i # 0 /\ i = k - 1
      <4>1. i = q /\ s = size
        BY <1>1, <1>2, <1>3, <1>5, <1>6, <1>9, <3>1
      <4> QED
        BY <1>0, <1>1, <1>3, <1>8, <1>10, <4>1
    <3>2. CASE ~ (i # 0 /\ i = k - 1)
      BY <1>0, <1>1, <1>6, <3>2
    <3> QED
      BY <3>1, <3>2
  <2>3. ph.offset + i * PageSize + r = ph.offset + b
    BY <1>0, <1>1, <1>2, <1>8
  <2> QED
    BY <1>7, <2>1, <2>2, <2>3
<1>11. ASSUME b >= f, k # 1 PROVE byte = Zero
  <2> SUFFICES ASSUME i < k, r \in 0 .. size - 1 PROVE FALSE
    BY <1>7
  <2>1. k > 1 /\ k = q + 1
    BY <1>1, <1>2, <1>5, <1>9, <1>11
  <2>2. ~ (i < q)
    <3> SUFFICES ASSUME i < q PROVE FALSE
      OBVIOUS
    <3>1. i * PageSize + PageSize <= q * PageSize
      BY <1>1, <1>3, Ordered
    <3> QED
      BY <1>0, <1>1, <1>2, <1>3, <1>8, <1>11, <3>1
  <2>3. i = q /\ i # 0
    BY <1>1, <1>3, <2>1, <2>2
  <2>4. size = s
    BY <1>3, <1>6, <2>1, <2>3
  <2> QED
    BY <1>0, <1>1, <1>2, <1>3, <1>8, <1>11, <2>3, <2>4
<1> QED
  BY <1>1, <1>2, <1>10, <1>11 DEF i, r, f, k, byte

(* The program a task starts with is the one in the file, segment by segment,  *)
(* and its stack is on no page of it, for every file the loader accepts.       *)
THEOREM LoadsProgram == Spec => []ProgramIsLoaded
<1>1. LoaderInv => ProgramIsLoaded
  <2> SUFFICES ASSUME LoaderInv, stack # {},
                      NEW j \in Segments, Ordinary(j)
               PROVE  LET ph == program.headers[j]
                          at(b) == memory[(ph.virt_addr + b) \div PageSize][b % PageSize]
                      IN  /\ \A b \in 0 .. ph.file_size - 1 : at(b) = FileByte(ph.offset + b)
                          /\ file_page_count(ph) # 1 =>
                               \A b \in ph.file_size .. ph.mem_size - 1 : at(b) = Zero
    BY DEF ProgramIsLoaded, LoaderInv
  <2> DEFINE ph == program.headers[j]
             at(b) == memory[(ph.virt_addr + b) \div PageSize][b % PageSize]
  <2>1. /\ program.headers \in Seq(Headers) /\ j \in DOMAIN program.headers
        /\ loaded = Len(program.headers)
    BY DEF LoaderInv, ProgramFiles, Segments
  <2>2. ph \in Headers /\ ph.type = "PT_LOAD" /\ j \in 1 .. loaded
    BY <2>1 DEF Segments
  <2>3. /\ misalign(ph) = 0 /\ ph.file_size <= ph.mem_size
        /\ file_page_count(ph) > 1 => ph.file_size % PageSize # 0
    BY DEF Ordinary
  <2>4. ph.file_size \in Nat /\ ph.mem_size \in Nat
    BY <2>2, SegmentTypes
  <2>5. ASSUME NEW b \in 0 .. ph.mem_size - 1
        PROVE  at(b) = PageContents(ph, b \div PageSize)[b % PageSize]
    <3>2. InPlace(j)
      BY <2>2 DEF LoaderInv
    <3>3. /\ (ph.virt_addr + b) \div PageSize \in PagesOf(ph)
          /\ (ph.virt_addr + b) \div PageSize - (ph.virt_addr \div PageSize) = b \div PageSize
      BY <2>2, <2>3, SegmentBytes
    <3> HIDE DEF ph
    <3> QED
      BY <3>2, <3>3 DEF InPlace, Header, ph
  <2> HIDE DEF ph, at
  <2>6. ASSUME NEW b \in 0 .. ph.file_size - 1 PROVE at(b) = FileByte(ph.offset + b)
    <3>1. b \in 0 .. ph.mem_size - 1 /\ b \in Nat /\ b < ph.file_size
      BY <2>3, <2>4
    <3> QED
      BY <2>2, <2>3, <2>5, <3>1, SegmentContents
  <2>7. ASSUME file_page_count(ph) # 1, NEW b \in ph.file_size .. ph.mem_size - 1
        PROVE  at(b) = Zero
    <3>1. b \in 0 .. ph.mem_size - 1 /\ b \in Nat /\ b >= ph.file_size
      BY <2>3, <2>4
    <3> QED
      BY <2>2, <2>3, <2>5, <2>7, <3>1, SegmentContents
  <2> QED
    BY <2>6, <2>7 DEF ph, at
<1> QED
  BY <1>1, LoaderInvariance, PTL

-----------------------------------------------------------------------------
(* The interrupts *)

Ioapics == [gsi_base : Nat, max_entries : Nat]
LvtEntries == [vector : Nat, nmi : BOOLEAN, mask : BOOLEAN]

TablesInv ==
    /\ tables \in Seq(Sdts)
    /\ rsdp \in Rsdps
    /\ ioapics \in Seq(Ioapics)
    /\ irq_to_gsi \in [Irqs -> Nat]
    /\ lvt \in [Lvts -> LvtEntries]

(* Vectors are taken in order. *)
VectorsInv ==
    /\ DOMAIN idt_handlers = 0 .. LastVector
    /\ \E n \in FirstVector .. LastVector + 1 : bitmap = 0 .. n - 1

(* A vector in use, with its handler. *)
Served(vector, handler) == vector \in bitmap /\ HandlerOf(vector) = handler

(* What has been set up at each stage. *)
Prepared == {"calibration", "scheduler", "armed", "kernel_thread", "program", "running"}
StagesInv ==
    /\ lapic_prepared => Served(lvt["SPURIOUS"].vector, "spurious")
    /\ stage \in Prepared => lapic_prepared /\ Served(lvt["TIMER"].vector, "scheduler_isr")
    /\ stage \in {"armed", "kernel_thread", "program", "running"} => ~ lvt["TIMER"].mask
    /\ stage \in {"program", "running"} =>
         \A x \in KeyboardPin : /\ x \in DOMAIN redirection
                                /\ Served(redirection[x].vector, "kbd_irq")
                                /\ bsp_id = 0 => redirection[x].dest = bsp_id

RoutingInv == TablesInv /\ VectorsInv /\ StagesInv

(* The vector taken is a new one, and those in use keep their handlers. *)
LEMMA TakeVectorFacts ==
    ASSUME VectorsInv, NEW handler, TakeVector(handler)
    PROVE  /\ VectorsInv'
           /\ allocate_vector \in Nat
           /\ allocate_vector \in bitmap' /\ idt_handlers'[allocate_vector] = handler
           /\ \A v, h : Served(v, h) => Served(v, h)'
<1>1. FirstVector \in Nat /\ LastVector \in Nat
  BY RoutingAssumption
<1>2. PICK n \in FirstVector .. LastVector + 1 : bitmap = 0 .. n - 1
  BY DEF VectorsInv
<1>3. n \in Nat
  BY <1>1, <1>2
<1>4. FreeVectors = n .. LastVector
  BY <1>1, <1>2, <1>3 DEF FreeVectors
<1>5. n <= LastVector
  BY <1>1, <1>3, <1>4 DEF TakeVector
<1>6. allocate_vector = n
  <2>1. n \in FreeVectors /\ \A w \in FreeVectors : n <= w
    BY <1>1, <1>3, <1>4, <1>5
  <2>2. \A v \in FreeVectors : (\A w \in FreeVectors : v <= w) => v = n
    BY <1>1, <1>3, <1>4, <1>5
  <2> QED
    BY <2>1, <2>2 DEF allocate_vector
<1>7. bitmap' = 0 .. n + 1 - 1 /\ idt_handlers' = [idt_handlers EXCEPT ![n] = handler]
  BY <1>2, <1>3, <1>6 DEF TakeVector
<1>8. n \in 0 .. LastVector /\ n + 1 \in FirstVector .. LastVector + 1
  BY <1>1, <1>2, <1>3, <1>5
<1>9. DOMAIN idt_handlers' = 0 .. LastVector
  BY <1>7, <1>8 DEF VectorsInv
<1>10. VectorsInv'
  <2> DEFINE m == n + 1
  <2>1. m \in FirstVector .. LastVector + 1 /\ bitmap' = 0 .. m - 1
    BY <1>7, <1>8
  <2> HIDE DEF m
  <2> QED
    BY <1>9, <2>1 DEF VectorsInv
<1>11. n \in bitmap' /\ idt_handlers'[n] = handler
  BY <1>3, <1>7, <1>8 DEF VectorsInv
<1>12. ASSUME NEW v, NEW h, Served(v, h) PROVE Served(v, h)'
  <2>1. v \in 0 .. n - 1 /\ idt_handlers[v] = h
    BY <1>2, <1>12 DEF Served, HandlerOf
  <2>2. v \in 0 .. LastVector /\ v # n /\ v \in bitmap'
    BY <1>1, <1>3, <1>5, <1>7, <2>1
  <2> QED
    BY <1>7, <2>1, <2>2 DEF Served, HandlerOf, VectorsInv
<1> QED
  BY <1>3, <1>6, <1>10, <1>11, <1>12

(* A step that takes no vector. *)
LEMMA SameVectors ==
    ASSUME UNCHANGED <<bitmap, idt_handlers>>
    PROVE  /\ VectorsInv => VectorsInv'
           /\ \A v, h : Served(v, h)' = Served(v, h)
BY DEF VectorsInv, Served, HandlerOf

(* parse_rsdp takes the list of tables that its revision names. *)
LEMMA ParseRootStep ==
    ASSUME RoutingInv, ParseRoot, stage' = "tables"
    PROVE  RoutingInv'
<1>1. TablesInv /\ VectorsInv /\ StagesInv
  BY DEF RoutingInv
<1>2. /\ tables' = RootTables
      /\ UNCHANGED <<rsdp, bitmap, idt_handlers, ioapics, irq_to_gsi, lvt, lapic_prepared>>
  BY DEF ParseRoot
<1>3. RootTables \in Seq(Sdts)
  BY <1>1 DEF TablesInv, Rsdps, Roots, RootTables
<1> QED
  BY <1>1, <1>2, <1>3, SameVectors DEF RoutingInv, TablesInv, StagesInv, Prepared

(* parse_sdt in the stage of the tables. *)
LEMMA ParseTableStep ==
    ASSUME RoutingInv, stage = "tables", stage' = stage, ParseTable
    PROVE  RoutingInv'
<1>1. TablesInv /\ VectorsInv /\ StagesInv
  BY DEF RoutingInv
<1>2. tables # << >> => Table \in Sdts /\ Tail(tables) \in Seq(Sdts)
  BY <1>1 DEF TablesInv, Table
<1>3. CASE ParseEntry
  <2> DEFINE entry == Head(Table.entries)
  <2>1. /\ tables # << >> /\ Table.entries # << >> /\ Table.entries \in Seq(Entries)
        /\ Table.seen \in Seq(Entries)
    BY <1>2, <1>3 DEF ParseEntry, Sdts
  <2>2. entry \in Entries /\ Tail(Table.entries) \in Seq(Entries)
        /\ Append(Table.seen, entry) \in Seq(Entries)
    BY <2>1
  <2>3. tables' \in Seq(Sdts)
    <3> DEFINE new == [Table EXCEPT !.entries = Tail(Table.entries),
                                    !.seen = Append(Table.seen, entry)]
    <3>1. new \in Sdts
      BY <1>2, <2>1, <2>2 DEF Sdts
    <3>2. 1 \in DOMAIN tables /\ Table = tables[1]
      BY <1>1, <2>1 DEF TablesInv, Table
    <3>3. tables' = [tables EXCEPT ![1] = new]
      BY <1>1, <1>3, <3>2 DEF ParseEntry, TablesInv
    <3> HIDE DEF new
    <3> QED
      BY <1>1, <3>1, <3>2, <3>3 DEF TablesInv
  <2>4. ioapics' \in Seq(Ioapics)
    <3>1. entry.type = "IOAPIC" => [gsi_base |-> entry.gsi_base, max_entries |-> entry.max_entries] \in Ioapics
      BY <2>2 DEF Entries, Ioapics
    <3> QED
      BY <1>1, <1>3, <3>1 DEF ParseEntry, TablesInv
  <2>5. irq_to_gsi' \in [Irqs -> Nat]
    <3>1. entry.type = "OVERRIDE" => entry.irq \in Irqs /\ entry.gsi \in Nat
      BY <2>2 DEF Entries
    <3> QED
      BY <1>1, <1>3, <3>1 DEF ParseEntry, TablesInv
  <2>6. UNCHANGED <<rsdp, bitmap, idt_handlers, lvt, lapic_prepared>>
    BY <1>3 DEF ParseEntry
  <2> QED
    BY <1>1, <2>3, <2>4, <2>5, <2>6, SameVectors DEF RoutingInv, TablesInv, StagesInv, Prepared
<1>4. CASE FinishMadt
  <2>1. TakeVector("spurious") /\ lapic_prepared' = TRUE
        /\ tables' = Tail(tables) /\ tables # << >>
        /\ UNCHANGED <<rsdp, ioapics, irq_to_gsi>>
    BY <1>4 DEF FinishMadt, NextTable
  <2>2. /\ VectorsInv' /\ allocate_vector \in Nat
        /\ allocate_vector \in bitmap' /\ idt_handlers'[allocate_vector] = "spurious"
    BY <1>1, <2>1, TakeVectorFacts
  <2>3. /\ lvt' \in [Lvts -> LvtEntries]
        /\ lvt'["SPURIOUS"].vector = allocate_vector
    <3>1. Masked \in LvtEntries /\ Unmasked(allocate_vector) \in LvtEntries
          /\ [vector |-> 254, nmi |-> TRUE, mask |-> FALSE] \in LvtEntries
      BY <2>2 DEF Masked, Unmasked, LvtEntries
    <3>2. \A r \in Lvts : lvt[r] \in LvtEntries
      BY <1>1 DEF TablesInv
    <3>3. lvt' \in [Lvts -> LvtEntries]
      BY <1>4, <3>1, <3>2 DEF FinishMadt
    <3>4. lvt'["SPURIOUS"] = Unmasked(allocate_vector)
      BY <1>4 DEF FinishMadt, Lvts
    <3> QED
      BY <3>3, <3>4 DEF Unmasked
  <2>4. TablesInv'
    BY <1>1, <1>2, <2>1, <2>3 DEF TablesInv
  <2>5. StagesInv'
    BY <2>2, <2>3 DEF StagesInv, Prepared, Served, HandlerOf
  <2> QED
    BY <2>2, <2>4, <2>5 DEF RoutingInv
<1>5. CASE ParseHpet \/ SkipTable
  <2>1. UNCHANGED <<rsdp, bitmap, idt_handlers, ioapics, irq_to_gsi, lvt, lapic_prepared>>
        /\ tables' = Tail(tables) /\ tables # << >>
    BY <1>5 DEF ParseHpet, SkipTable, NextTable
  <2> QED
    BY <1>1, <1>2, <2>1, SameVectors DEF RoutingInv, TablesInv, StagesInv, Prepared
<1> QED
  BY <1>3, <1>4, <1>5 DEF ParseTable

(* apic_timer::init takes its vector in the stage of the tables. *)
LEMMA TimerInitStep ==
    ASSUME RoutingInv, lapic_prepared, TimerInit, stage' = "calibration"
    PROVE  RoutingInv'
<1>1. TablesInv /\ VectorsInv /\ StagesInv
  BY DEF RoutingInv
<1>2. TakeVector("scheduler_isr") /\ UNCHANGED <<tables, rsdp, ioapics, irq_to_gsi, lapic_prepared>>
      /\ lvt' = [lvt EXCEPT !["TIMER"] = [Masked EXCEPT !.vector = allocate_vector]]
  BY DEF TimerInit
<1>3. /\ VectorsInv' /\ allocate_vector \in Nat
      /\ allocate_vector \in bitmap' /\ idt_handlers'[allocate_vector] = "scheduler_isr"
      /\ \A v, h : Served(v, h) => Served(v, h)'
  BY <1>1, <1>2, TakeVectorFacts
<1>4. /\ lvt' \in [Lvts -> LvtEntries]
      /\ lvt'["TIMER"].vector = allocate_vector /\ lvt'["SPURIOUS"] = lvt["SPURIOUS"]
  <2> DEFINE new == [Masked EXCEPT !.vector = allocate_vector]
  <2>1. new \in LvtEntries /\ new.vector = allocate_vector
    BY <1>3 DEF Masked, LvtEntries
  <2> HIDE DEF new
  <2> QED
    BY <1>1, <1>2, <2>1 DEF TablesInv, Lvts, new
<1>5. TablesInv'
  BY <1>1, <1>2, <1>4 DEF TablesInv
<1>6. StagesInv'
  <2>1. Served(lvt["SPURIOUS"].vector, "spurious")
    BY <1>1 DEF StagesInv
  <2>2. lvt["SPURIOUS"].vector \in bitmap' /\ idt_handlers'[lvt["SPURIOUS"].vector] = "spurious"
    BY <1>3, <2>1 DEF Served, HandlerOf
  <2>3. Served(lvt["SPURIOUS"].vector, "spurious")'
    BY <1>4, <2>2 DEF Served, HandlerOf
  <2>4. Served(lvt["TIMER"].vector, "scheduler_isr")'
    BY <1>3, <1>4 DEF Served, HandlerOf
  <2>5. lapic_prepared'
    BY <1>2
  <2> QED
    BY <2>3, <2>4, <2>5 DEF StagesInv
<1> QED
  BY <1>3, <1>5, <1>6 DEF RoutingInv

(* A step that changes the mask of the timer's entry only. *)
LEMMA TimerMaskStep ==
    ASSUME RoutingInv, NEW m \in BOOLEAN,
           lvt' = [lvt EXCEPT !["TIMER"].mask = m],
           UNCHANGED <<tables, rsdp, bitmap, idt_handlers, ioapics, irq_to_gsi, lapic_prepared>>,
           \/ stage = "calibration" /\ stage' = "scheduler"
           \/ stage = "scheduler" /\ stage' = "armed" /\ ~ m
    PROVE  RoutingInv'
<1>1. TablesInv /\ VectorsInv /\ StagesInv
  BY DEF RoutingInv
<1> DEFINE new == [lvt["TIMER"] EXCEPT !.mask = m]
<1>2. lvt["TIMER"] \in LvtEntries
  BY <1>1 DEF TablesInv, Lvts
<1>3. new \in LvtEntries /\ new.vector = lvt["TIMER"].vector /\ new.mask = m
  BY <1>2 DEF LvtEntries
<1>4. lvt' = [lvt EXCEPT !["TIMER"] = new]
  OBVIOUS
<1> HIDE DEF new
<1>5. /\ lvt' \in [Lvts -> LvtEntries] /\ lvt'["SPURIOUS"] = lvt["SPURIOUS"]
      /\ lvt'["TIMER"].vector = lvt["TIMER"].vector /\ lvt'["TIMER"].mask = m
  BY <1>1, <1>3, <1>4 DEF TablesInv, Lvts
<1>6. VectorsInv' /\ \A v, h : Served(v, h)' = Served(v, h)
  BY <1>1, SameVectors
<1>7. TablesInv'
  BY <1>1, <1>5 DEF TablesInv
<1>8. StagesInv'
  BY <1>1, <1>5 DEF StagesInv, Served, HandlerOf, Prepared
<1> QED
  BY <1>6, <1>7, <1>8 DEF RoutingInv

(* register_irq of the keyboard sets the pin that the keyboard is wired to. *)
LEMMA KeyboardStep ==
    ASSUME RoutingInv, register_irq(1, "kbd_irq"), stage = "kernel_thread", stage' = "program"
    PROVE  RoutingInv'
<1>1. TablesInv /\ VectorsInv /\ StagesInv
  BY DEF RoutingInv
<1> DEFINE gsi == irq_to_gsi[1]
           serving == {i \in DOMAIN ioapics : gsi >= ioapics[i].gsi_base
                                              /\ gsi < ioapics[i].gsi_base + ioapics[i].max_entries}
           chosen == <<CHOOSE i \in serving : \A j \in serving : i <= j, gsi>>
           entry == [vector |-> allocate_vector, dest |-> destination]
<1>2. /\ TakeVector("kbd_irq")
      /\ redirection' = IF serving = {} THEN redirection
                        ELSE [x \in DOMAIN redirection \cup {chosen} |->
                                IF x = chosen THEN entry ELSE redirection[x]]
      /\ UNCHANGED <<tables, rsdp, bsp_id, ioapics, irq_to_gsi, lvt, lapic_prepared>>
  BY DEF register_irq
<1>3. /\ VectorsInv'
      /\ allocate_vector \in bitmap' /\ idt_handlers'[allocate_vector] = "kbd_irq"
      /\ \A v, h : Served(v, h) => Served(v, h)'
  BY <1>1, <1>2, TakeVectorFacts
<1>4. gsi \in Nat /\ ioapics \in Seq(Ioapics)
  BY <1>1 DEF TablesInv, Irqs
<1>5. \A i \in DOMAIN ioapics : /\ i \in Nat /\ ioapics[i] \in Ioapics
                                /\ ioapics[i].gsi_base \in Nat /\ ioapics[i].max_entries \in Nat
  <2> TAKE i \in DOMAIN ioapics
  <2>1. i \in Nat /\ ioapics[i] \in Ioapics
    BY <1>4
  <2> QED
    BY <2>1 DEF Ioapics
<1>6. Wired(1) = {<<i, gsi - ioapics[i].gsi_base>> : i \in serving}
  <2>1. \A i \in DOMAIN ioapics :
          gsi \in ioapics[i].gsi_base .. ioapics[i].gsi_base + ioapics[i].max_entries - 1
            <=> i \in serving
    BY <1>4, <1>5
  <2> HIDE DEF serving
  <2>2. serving \subseteq DOMAIN ioapics
    BY DEF serving
  <2> QED
    BY <2>1, <2>2 DEF Wired
<1>7. ASSUME NEW x \in KeyboardPin PROVE x = chosen /\ serving # {}
  <2>1. x \in Wired(1) /\ ioapics[x[1]].gsi_base = 0 /\ Wired(1) = {x}
    BY <1>7 DEF KeyboardPin
  <2>2. PICK i \in serving : x = <<i, gsi - ioapics[i].gsi_base>>
    BY <1>6, <2>1
  <2>3. i \in Nat /\ x = <<i, gsi>>
    BY <1>4, <1>5, <2>1, <2>2
  <2>4. \A j \in serving : j = i
    <3> TAKE j \in serving
    <3>1. <<j, gsi - ioapics[j].gsi_base>> = x
      BY <1>6, <2>1
    <3> QED
      BY <2>3, <3>1
  <2> HIDE DEF serving
  <2>5. serving = {i}
    BY <2>2, <2>4
  <2>6. (CHOOSE a \in serving : \A b \in serving : a <= b) = i
    BY <2>3, <2>5
  <2> QED
    BY <2>2, <2>3, <2>6
<1>8. KeyboardPin' = KeyboardPin
  BY <1>2 DEF KeyboardPin, Wired
<1>9. bsp_id = 0 => destination = bsp_id
  BY DEF destination, read_id
<1>10. entry.vector = allocate_vector /\ entry.dest = destination
  OBVIOUS
<1> HIDE DEF chosen, serving, entry
<1>11. \A x \in KeyboardPin :
         /\ x \in DOMAIN redirection'
         /\ redirection'[x].vector = allocate_vector
         /\ bsp_id = 0 => redirection'[x].dest = bsp_id
  BY <1>2, <1>7, <1>8, <1>9, <1>10
<1>12. TablesInv'
  BY <1>1, <1>2 DEF TablesInv
<1>13. StagesInv'
  <2>1. /\ lvt["SPURIOUS"].vector \in bitmap' /\ idt_handlers'[lvt["SPURIOUS"].vector] = "spurious"
        /\ lvt["TIMER"].vector \in bitmap' /\ idt_handlers'[lvt["TIMER"].vector] = "scheduler_isr"
        /\ lapic_prepared /\ ~ lvt["TIMER"].mask
    BY <1>1, <1>3 DEF StagesInv, Served, HandlerOf, Prepared
  <2>2. Served(lvt["SPURIOUS"].vector, "spurious")' /\ Served(lvt["TIMER"].vector, "scheduler_isr")'
    BY <1>2, <2>1 DEF Served, HandlerOf
  <2>3. lapic_prepared' /\ ~ lvt'["TIMER"].mask
    BY <1>2, <2>1
  <2>4. ASSUME NEW x \in KeyboardPin
        PROVE  /\ x \in DOMAIN redirection' /\ Served(redirection[x].vector, "kbd_irq")'
               /\ bsp_id' = 0 => redirection'[x].dest = bsp_id'
    <3>1. redirection'[x].vector = allocate_vector
      BY <1>11, <2>4
    <3>2. Served(redirection[x].vector, "kbd_irq")'
      BY <1>3, <3>1 DEF Served, HandlerOf
    <3>3. bsp_id' = 0 => redirection'[x].dest = bsp_id'
      BY <1>2, <1>11, <2>4
    <3> QED
      BY <1>11, <2>4, <3>2, <3>3
  <2> QED
    BY <1>8, <2>2, <2>3, <2>4 DEF StagesInv
<1> QED
  BY <1>3, <1>12, <1>13 DEF RoutingInv

(* The steps that leave the routing alone, and go no further than allowed. *)
LEMMA OtherRoutingStep ==
    ASSUME RoutingInv,
           UNCHANGED <<tables, rsdp, bsp_id, bitmap, idt_handlers, ioapics, irq_to_gsi, redirection, lvt,
                       lapic_prepared>>,
           \/ stage' = stage
           \/ stage' \notin Prepared
           \/ stage = "armed" /\ stage' = "kernel_thread"
           \/ stage = "program" /\ stage' = "running"
    PROVE  RoutingInv'
<1>1. TablesInv /\ VectorsInv /\ StagesInv
  BY DEF RoutingInv
<1>2. VectorsInv' /\ \A v, h : Served(v, h)' = Served(v, h)
  BY <1>1, SameVectors
<1>3. KeyboardPin' = KeyboardPin
  BY DEF KeyboardPin, Wired
<1>4. TablesInv'
  BY <1>1 DEF TablesInv
<1>5. StagesInv'
  BY <1>1, <1>3 DEF StagesInv, Served, HandlerOf, Prepared
<1> QED
  BY <1>2, <1>4, <1>5 DEF RoutingInv

(* The invariant of the routing. *)
THEOREM RoutingInvariance == Spec => []RoutingInv
<1>1. Init => RoutingInv
  <2> SUFFICES ASSUME Init PROVE RoutingInv
    OBVIOUS
  <2>1. FirstVector \in Nat /\ LastVector \in Nat /\ FirstVector < LastVector
        /\ Firmwares \subseteq Rsdps
    BY RoutingAssumption
  <2>2. TablesInv
    BY <2>1 DEF Init, RoutingInit, TablesInv, LvtEntries, Masked, Irqs
  <2>3. VectorsInv
    <3>1. FirstVector \in FirstVector .. LastVector + 1 /\ bitmap = 0 .. FirstVector - 1
          /\ DOMAIN idt_handlers = 0 .. LastVector
      BY <2>1 DEF Init, RoutingInit
    <3> QED
      BY <3>1 DEF VectorsInv
  <2>4. StagesInv
    BY DEF Init, RoutingInit, StagesInv, Prepared
  <2> QED
    BY <2>2, <2>3, <2>4 DEF RoutingInv
<1>2. RoutingInv /\ [Next]_vars => RoutingInv'
  <2> SUFFICES ASSUME RoutingInv, [Next]_vars PROVE RoutingInv'
    OBVIOUS
  <2>1. CASE CheckFeatures \/ StartProcessors
    BY <2>1, OtherRoutingStep DEF CheckFeatures, StartProcessors, Goes, routingVars, Prepared
  <2>2. CASE ParseTables
    BY <2>2, OtherRoutingStep, ParseTableStep, TimerInitStep DEF ParseTables, Goes, routingVars, Prepared
  <2>3. CASE Timers
    BY <2>3, TimerMaskStep DEF Timers, Goes, Calibrate, oneshot
  <2>4. CASE KeyboardInit
    BY <2>4, KeyboardStep DEF KeyboardInit, Goes
  <2>5. CASE LoadProgram \/ TimerFires
    BY <2>5, OtherRoutingStep DEF LoadProgram, TimerFires, Goes, routingVars, Prepared
  <2>6. CASE Counts
    BY <2>6, OtherRoutingStep DEF Counts, HpetCounts
  <2>7. CASE \E c \in Cpus : ProcessorRuns(c)
    BY <2>7, OtherRoutingStep DEF ProcessorRuns, routingVars, Prepared
  <2>8. CASE ParseRsdp
    BY <2>8, OtherRoutingStep, ParseRootStep DEF ParseRsdp, Goes, routingVars, Prepared
  <2>9. CASE UNCHANGED vars
    BY <2>9, OtherRoutingStep DEF vars, routingVars
  <2> QED
    BY <2>1, <2>2, <2>3, <2>4, <2>5, <2>6, <2>7, <2>8, <2>9 DEF Next, Boots
<1> QED
  BY <1>1, <1>2, PTL DEF Spec

(* Whatever the order of the firmware's tables and their entries, the          *)
(* interrupts the kernel uses get to their handlers.                           *)
THEOREM InterruptsArrive == Spec => []InterruptsReachHandlers
<1>1. RoutingInv => InterruptsReachHandlers
  BY DEF RoutingInv, StagesInv, Served, InterruptsReachHandlers, Prepared
<1> QED
  BY <1>1, RoutingInvariance, PTL
=============================================================================
