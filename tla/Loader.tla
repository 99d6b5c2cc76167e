-------------------------------- MODULE Loader --------------------------------
(* The loader of programs: load of src/userland/elf.cpp, and the stack that    *)
(* new_user_task of src/sched/sched.cpp puts above the program.                *)
EXTENDS Integers, Sequences

CONSTANTS
    PageSize,        \* bytes in a page (4096 in the code)
    Programs,        \* program files: headers, size and whether there is an ELF file
    StackPages       \* pages of a program's stack (16 in the code)

(* The fields of a file the loader uses. *)
Headers ==
    [type : {"PT_LOAD"}, virt_addr : Nat, offset : Nat, file_size : Nat, mem_size : Nat]
    \cup [type : {"other"}]
ProgramFiles == [elf : BOOLEAN, size : Nat, headers : Seq(Headers)]

ASSUME LoaderAssumption ==
    /\ PageSize \in Nat \ {0} /\ StackPages \in Nat \ {0}
    /\ Programs \subseteq ProgramFiles

VARIABLES
    program,         \* the file /bin/test
    loaded,          \* program headers that have been handled
    memory,          \* the pages of the program, each a sequence of bytes
    first_free_virt, \* then the stack's base
    stack            \* the pages of the stack

loaderVars == <<program, loaded, memory, first_free_virt, stack>>

(* Byte n of a file is n + 1, so that bytes tell where they come from. *)
Zero == 0
FileByte(offset) == IF offset < program.size THEN offset + 1 ELSE Zero

(* The file is an ELF file for this machine. *)
Loadable == program.elf

LoaderInit ==
    /\ program \in Programs
    /\ loaded = 0
    /\ memory = << >>
    /\ first_free_virt = 0
    /\ stack = {}

PagesFor(n) == (n + PageSize - 1) \div PageSize
align_up(n) == PagesFor(n) * PageSize
misalign(ph) == ph.virt_addr % PageSize
mem_page_count(ph) == PagesFor(ph.mem_size + misalign(ph))
file_page_count(ph) == PagesFor(ph.file_size + misalign(ph))
page_virt(ph, i) == ph.virt_addr + i * PageSize

(* How many bytes of page i are read from the file. *)
read_sizeWhole(ph, i) == IF i = 0 THEN PageSize - misalign(ph) ELSE PageSize

read_size(ph, i) ==
    IF i = 0 THEN PageSize - misalign(ph)
    ELSE IF i = file_page_count(ph) - 1 THEN (ph.file_size + misalign(ph)) % PageSize
    ELSE PageSize

PageContents(ph, i) ==
    LET skip == IF i = 0 THEN misalign(ph) ELSE 0
        offset == ph.offset + i * PageSize + skip
    IN  [p \in 0 .. PageSize - 1 |->
           IF i < file_page_count(ph) /\ p \in skip .. skip + read_size(ph, i) - 1
           THEN FileByte(offset + p - skip) ELSE Zero]

(* One program header. map_page puts the new page in place of an older one.    *)
LoadHeader ==
    LET ph == program.headers[loaded + 1]
        pages == {page_virt(ph, i) \div PageSize : i \in 0 .. mem_page_count(ph) - 1}
        number(v) == v - ph.virt_addr \div PageSize
        end == page_virt(ph, mem_page_count(ph))
    IN  /\ loaded < Len(program.headers)
        /\ loaded' = loaded + 1
        /\ IF ph.type = "PT_LOAD" /\ mem_page_count(ph) > 0
           THEN /\ memory' = [v \in pages \cup DOMAIN memory |->
                               IF v \in pages THEN PageContents(ph, number(v)) ELSE memory[v]]
                /\ first_free_virt' = IF end - PageSize >= first_free_virt THEN end ELSE first_free_virt
           ELSE UNCHANGED <<memory, first_free_virt>>
        /\ UNCHANGED <<program, stack>>

(* The end of load, and new_user_task's stack. *)
MakeStack ==
    /\ loaded = Len(program.headers) /\ stack = {}
    /\ first_free_virt' = align_up(first_free_virt)
    /\ stack' = {align_up(first_free_virt) \div PageSize + i : i \in 0 .. StackPages - 1}
    /\ UNCHANGED <<program, loaded, memory>>

-----------------------------------------------------------------------------
(* Segments as the test program's linker script makes them: they begin on a    *)
(* page, share none, are no longer in the file than in memory, and (see        *)
(* README) do not end on a page's end after the first.                         *)
Segments == {i \in DOMAIN program.headers : program.headers[i].type = "PT_LOAD"}
PagesOf(ph) == {page_virt(ph, i) \div PageSize : i \in 0 .. mem_page_count(ph) - 1}
Ordinary(i) ==
    LET ph == program.headers[i]
    IN  /\ misalign(ph) = 0
        /\ ph.file_size <= ph.mem_size
        /\ file_page_count(ph) > 1 => ph.file_size % PageSize # 0
        /\ \A j \in Segments \ {i} : PagesOf(ph) \cap PagesOf(program.headers[j]) = {}

(* The program a task starts with is the one in the file: the bytes of each    *)
(* segment are the file's, what follows on the last of several pages is zero,  *)
(* later segments leave it alone and the stack is on no page of the program.   *)
ProgramIsLoaded ==
    stack # {} =>
        /\ stack \cap DOMAIN memory = {}
        /\ \A i \in Segments : Ordinary(i) =>
             LET ph == program.headers[i]
                 at(b) == memory[(ph.virt_addr + b) \div PageSize][b % PageSize]
             IN  /\ \A b \in 0 .. ph.file_size - 1 : at(b) = FileByte(ph.offset + b)
                 /\ file_page_count(ph) # 1 =>
                      \A b \in ph.file_size .. ph.mem_size - 1 : at(b) = Zero
=============================================================================
