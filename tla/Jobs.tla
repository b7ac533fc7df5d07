-------------------------------- MODULE Jobs --------------------------------
(***************************************************************************)
(* The commands that access the memory of a process, from the line to the  *)
(* bytes: ui_app.c takes the line apart, app_util.c makes a message of it, *)
(* compose_mail puts it in the mailbox, the process takes it out           *)
(* (process_func), the decoder of pcb_util.c makes it a call of sim_read,  *)
(* sim_write or sim_loop_write, and these call mmu_read and mmu_write once *)
(* for every byte.                                                         *)
(*                                                                         *)
(* An access is one step here: Vmm shows what it does of many, and         *)
(* Processes when the interpreter takes the next line; here it takes one   *)
(* whenever it likes.  A token that is meant as a number is one, or else   *)
(* sscanf finds none in it.  An address and a number of a process are      *)
(* unsigned wherever they are looked at, a step and an amount are ints.    *)
(***************************************************************************)
EXTENDS VirtAddr, Words, Sequences

CONSTANTS
    NProcs,     \* max_num_of_proc
    BlockSize,  \* process_block_size, in pages
    Bytes,
    Lines,      \* the command lines that are given
    MaxLines,   \* bound: how many of them
    NoJob       \* the process waits for mail

ASSUME JobsAssumption ==
    NProcs \in Nat /\ BlockSize \in Nat \ {0} /\ MaxLines \in Nat /\ Bytes # {}

(* A token is a number, or else a text.                                     *)
Texts == Seq(Bytes)
Tokens == [num : Int] \cup [text : Texts]

(* The place of the argument that is not meant as a number: whatever stands *)
(* there is a text.                                                         *)
TextArg == [readToFile |-> 4, loopReadToFile |-> 5, write |-> 3, loopWrite |-> 3]

ASSUME LinesAssumption ==
    \A l \in Lines :
        /\ l.cmd \in {"read", "loopRead"} \cup DOMAIN TextArg
        /\ l.args \in Seq(Tokens)
        /\ l.cmd \in DOMAIN TextArg /\ Len(l.args) >= TextArg[l.cmd] =>
            LET token == l.args[TextArg[l.cmd]]
            IN token \in [text : Texts] /\ Len(token.text) < SignBit

VARIABLES
    given,      \* the number of lines so far
    line,       \* history: the last one that became a message
    reply,      \* what the handler of the last one returned
    active,     \* the processes that exist
    mailbox,    \* the messages to each process
    job,        \* the call of sim_read, sim_write or sim_loop_write it is in
    buf,        \* buf of sim_read
    content,    \* the bytes of each page
    printed,    \* what sim_read printed last, and where
    status      \* of the program

jobsVars == <<given, line, reply, active, mailbox, job, buf, content, printed,
              status>>

Pids == 0 .. NProcs - 1
PageIds == 0 .. BlockSize - 1
Offsets == 0 .. PageSize - 1
VirtAddrs == [page : Nat, offset : Offsets]

(* What sim_read, sim_write and sim_loop_write are called with, how far     *)
(* their loops are, and how many bytes of buf sim_read has allocated.       *)
Calls == [sim : {"read", "write", "loopWrite"}, vAddr : VirtAddrs, off : Ints,
          amount : Ints, data : Texts, file : Texts, room : Nat,
          multiplier : Nat]

ASSUME NoJobAssumption == NoJob \notin Calls

(* The processes exist already and hold whatever was there before.          *)
JobsInit ==
    /\ given = 0 /\ line = <<>> /\ reply = TRUE
    /\ active \in SUBSET Pids
    /\ mailbox = [c \in Pids |-> <<>>]
    /\ job = [c \in Pids |-> NoJob]
    /\ buf = [c \in Pids |-> <<>>]
    /\ \E b \in Bytes :
        content = [c \in Pids |-> [i \in PageIds |-> [o \in Offsets |-> b]]]
    /\ printed = <<>>
    /\ status = "running"

-----------------------------------------------------------------------------
(* The messages.                                                            *)

ReadProcess(vaddr, id, amount) ==
    [func |-> "fcRead", pid |-> id, args |-> <<MakeVirtAddr(vaddr), amount>>]
LoopReadProcess(vaddr, id, off, amount) ==
    [func |-> "fcLoopRead", pid |-> id,
     args |-> <<MakeVirtAddr(vaddr), off, amount>>]
ReadToFileProcess(vaddr, id, amount, file) ==
    [func |-> "fcReadToFile", pid |-> id,
     args |-> <<MakeVirtAddr(vaddr), amount, file>>]
LoopReadToFileProcess(vaddr, id, off, amount, file) ==
    [func |-> "fcLoopReadToFile", pid |-> id,
     args |-> <<MakeVirtAddr(vaddr), off, amount, file>>]
WriteProcess(vaddr, id, s) ==
    [func |-> "fcWrite", pid |-> id, args |-> <<MakeVirtAddr(vaddr), s, Len(s)>>]
LoopWriteProcess(vaddr, id, c, off, amount) ==
    [func |-> "fcLoopWrite", pid |-> id,
     args |-> <<MakeVirtAddr(vaddr), c, off, amount>>]

-----------------------------------------------------------------------------
(* The lines.  What follows the arguments a command takes is not looked at. *)
(* The arguments are unsigned in ui_app.c and ints in app_util.c; an int    *)
(* that goes into a virt_addr_t or to compose_mail is unsigned again.       *)

Illegal == [func |-> "none"]

IsNum(token) == DOMAIN token = {"num"}
Given(a, n) == Len(a) >= n
Numbers(a, S) == \A i \in S : IsNum(a[i])
Unsigned(token) == Scan(token.num)
AsInt(token) == Signed(Scan(token.num))

DoRead(a) ==
    IF Given(a, 3) /\ Numbers(a, 1 .. 3)
    THEN ReadProcess(Unsigned(a[1]), Unsigned(a[2]), AsInt(a[3])) ELSE Illegal
DoLoopRead(a) ==
    IF Given(a, 4) /\ Numbers(a, 1 .. 4)
    THEN LoopReadProcess(Unsigned(a[1]), Unsigned(a[2]), AsInt(a[3]), AsInt(a[4]))
    ELSE Illegal
DoReadToFile(a) ==
    IF Given(a, 4) /\ Numbers(a, 1 .. 3)
    THEN ReadToFileProcess(Unsigned(a[1]), Unsigned(a[2]), AsInt(a[3]), a[4].text)
    ELSE Illegal
DoLoopReadToFile(a) ==
    IF Given(a, 5) /\ Numbers(a, 1 .. 4)
    THEN LoopReadToFileProcess(Unsigned(a[1]), Unsigned(a[2]), AsInt(a[3]),
                               AsInt(a[4]), a[5].text)
    ELSE Illegal
DoWrite(a) ==
    IF Given(a, 3) /\ Numbers(a, 1 .. 2)
    THEN WriteProcess(Unsigned(a[1]), Unsigned(a[2]), a[3].text) ELSE Illegal
(* The third argument is one character.                                     *)
DoLoopWrite(a) ==
    IF Given(a, 5) /\ Numbers(a, {1, 2, 4, 5}) /\ Len(a[3].text) = 1
    THEN LoopWriteProcess(Unsigned(a[1]), Unsigned(a[2]), a[3].text[1],
                          AsInt(a[4]), AsInt(a[5]))
    ELSE Illegal

PostOf(l) ==
    CASE l.cmd = "read" -> DoRead(l.args)
      [] l.cmd = "loopRead" -> DoLoopRead(l.args)
      [] l.cmd = "readToFile" -> DoReadToFile(l.args)
      [] l.cmd = "loopReadToFile" -> DoLoopReadToFile(l.args)
      [] l.cmd = "write" -> DoWrite(l.args)
      [] l.cmd = "loopWrite" -> DoLoopWrite(l.args)

(* command_handler, for one of these commands: ...                          *)
TakeLine ==
    /\ given < MaxLines /\ given' = given + 1
    /\ UNCHANGED <<active, job, buf, content, printed>>

(* ... the line is malformed, or compose_mail finds no such process, ...    *)
Reject(l) ==
    LET post == PostOf(l) IN
    /\ TakeLine
    /\ IF post = Illegal THEN TRUE
       ELSE post.pid > NProcs \/ post.pid \in Pids \ active
    /\ reply' = FALSE
    /\ UNCHANGED <<line, mailbox, status>>

(* ... or it becomes a message, ...                                         *)
Send(l) ==
    LET post == PostOf(l) IN
    /\ TakeLine
    /\ post # Illegal /\ post.pid \in active
    /\ mailbox' = [mailbox EXCEPT ![post.pid] = Append(@, post)]
    /\ line' = l
    /\ reply' = TRUE
    /\ UNCHANGED status

(* ... or compose_mail looks at the slot behind the last one: it may find   *)
(* it unused, or lock and use what is there.                                *)
SendBehind(l) ==
    LET post == PostOf(l) IN
    /\ TakeLine
    /\ post # Illegal /\ post.pid = NProcs
    /\ \/ reply' = FALSE /\ UNCHANGED status
       \/ status' = "undefined" /\ UNCHANGED reply
    /\ UNCHANGED <<line, mailbox>>

-----------------------------------------------------------------------------
(* The calls, and the decoders that make them of the messages.              *)

(* The size of buf is an int and wraps; malloc finds no room for one that   *)
(* became negative.                                                         *)
Room(off, amount) ==
    LET size == Signed((amount * off + 1) % Word)
    IN IF size > 0 THEN size ELSE 0

(* Faulty variant of SimRead: buf has room for one step.                    *)
SimReadShort(vAddr, off, amount, file) ==
    [sim |-> "read", vAddr |-> vAddr, off |-> off, amount |-> amount,
     data |-> <<>>, file |-> file, room |-> Room(off, 1), multiplier |-> 0]
SimRead(vAddr, off, amount, file) ==
    [sim |-> "read", vAddr |-> vAddr, off |-> off, amount |-> amount,
     data |-> <<>>, file |-> file, room |-> Room(off, amount), multiplier |-> 0]
SimWrite(vAddr, s, amount) ==
    [sim |-> "write", vAddr |-> vAddr, off |-> 1, amount |-> amount,
     data |-> s, file |-> <<>>, room |-> 0, multiplier |-> 0]
SimLoopWrite(vAddr, c, offset, amount) ==
    [sim |-> "loopWrite", vAddr |-> vAddr, off |-> offset, amount |-> amount,
     data |-> <<c>>, file |-> <<>>, room |-> 0, multiplier |-> 0]

Stdout == <<>>  \* file_name = NULL

ReadDecoder(args) == SimRead(args[1], 1, args[2], Stdout)
(* Faulty variant of LoopReadDecoder: the arguments are swapped.            *)
LoopReadDecoderSwapped(args) == SimRead(args[1], args[3], args[2], Stdout)
LoopReadDecoder(args) == SimRead(args[1], args[2], args[3], Stdout)
ReadFileDecoder(args) == SimRead(args[1], 1, args[2], args[3])
LoopReadFileDecoder(args) == SimRead(args[1], args[2], args[3], args[4])
WriteDecoder(args) == SimWrite(args[1], args[2], args[3])
LoopWriteDecoder(args) == SimLoopWrite(args[1], args[2], args[3], args[4])

CallOf(post) ==
    CASE post.func = "fcRead" -> ReadDecoder(post.args)
      [] post.func = "fcLoopRead" -> LoopReadDecoder(post.args)
      [] post.func = "fcReadToFile" -> ReadFileDecoder(post.args)
      [] post.func = "fcLoopReadToFile" -> LoopReadFileDecoder(post.args)
      [] post.func = "fcWrite" -> WriteDecoder(post.args)
      [] post.func = "fcLoopWrite" -> LoopWriteDecoder(post.args)

(* The assertions at the head of each: sim_loop_write takes a step of 0.    *)
AssertsHold(j) ==
    /\ j.amount > 0
    /\ j.sim = "read" => j.off > 0
    /\ j.sim = "loopWrite" => j.off >= 0

(* process_func takes a message, and the call begins with the assertions.   *)
StartJob(c) ==
    /\ job[c] = NoJob /\ mailbox[c] # <<>>
    /\ LET call == CallOf(Head(mailbox[c])) IN
        /\ job' = [job EXCEPT ![c] = call]
        /\ status' = IF AssertsHold(call) THEN status ELSE "aborted"
    /\ mailbox' = [mailbox EXCEPT ![c] = Tail(@)]
    /\ UNCHANGED <<given, line, reply, active, buf, content, printed>>

(* Faulty variant of More: sim_write does not stop after a page.            *)
MoreThanAPage(j) == j.multiplier < j.amount
(* The conditions of the loops; sim_write stops after a page of bytes.      *)
More(j) ==
    j.multiplier < j.amount /\ (j.sim = "write" => j.multiplier < PageSize)

(* The offset of an address and a step that passed its assertion are below  *)
(* the sign bit: their sum is no more than an unsigned holds.               *)
Advanced(j) ==
    [j EXCEPT !.multiplier = @ + 1, !.vAddr = AdvanceVirtAddr(@, j.off)]

(* A turn of the loop of sim_read, ...                                      *)
ReadByte(c) ==
    LET j == job[c] IN
    /\ j # NoJob /\ j.sim = "read" /\ More(j) /\ j.vAddr.page < BlockSize
    /\ j.multiplier < j.room
    /\ buf' = [buf EXCEPT ![c] = Append(@, content[c][j.vAddr.page][j.vAddr.offset])]
    /\ job' = [job EXCEPT ![c] = Advanced(j)]
    /\ UNCHANGED <<given, line, reply, active, mailbox, content, printed, status>>

(* ... which writes behind buf when that has no room left: what happens     *)
(* then is undefined, ...                                                   *)
OverrunBuffer(c) ==
    LET j == job[c] IN
    /\ j # NoJob /\ j.sim = "read" /\ More(j) /\ j.vAddr.page < BlockSize
    /\ j.multiplier >= j.room
    /\ status' = "overrun"
    /\ UNCHANGED <<given, line, reply, active, mailbox, job, buf, content, printed>>

(* ... of sim_write, ...                                                    *)
WriteByte(c) ==
    LET j == job[c] IN
    /\ j # NoJob /\ j.sim = "write" /\ More(j) /\ j.vAddr.page < BlockSize
    /\ content' = [content EXCEPT
        ![c][j.vAddr.page][j.vAddr.offset] = j.data[j.multiplier + 1]]
    /\ job' = [job EXCEPT ![c] = Advanced(j)]
    /\ UNCHANGED <<given, line, reply, active, mailbox, buf, printed, status>>

(* Faulty variant of LoopWriteByte: the turns are not counted.              *)
LoopWriteByteUncounted(c) ==
    LET j == job[c] IN
    /\ j # NoJob /\ j.sim = "loopWrite" /\ More(j) /\ j.vAddr.page < BlockSize
    /\ content' = [content EXCEPT ![c][j.vAddr.page][j.vAddr.offset] = j.data[1]]
    /\ job' = [job EXCEPT ![c].vAddr = AdvanceVirtAddr(@, j.off)]
    /\ UNCHANGED <<given, line, reply, active, mailbox, buf, printed, status>>

(* ... and of sim_loop_write.                                               *)
LoopWriteByte(c) ==
    LET j == job[c] IN
    /\ j # NoJob /\ j.sim = "loopWrite" /\ More(j) /\ j.vAddr.page < BlockSize
    /\ content' = [content EXCEPT ![c][j.vAddr.page][j.vAddr.offset] = j.data[1]]
    /\ job' = [job EXCEPT ![c] = Advanced(j)]
    /\ UNCHANGED <<given, line, reply, active, mailbox, buf, printed, status>>

(* Behind the last page mmu_sync_from_backing_page finds no backing page,   *)
(* and asserts that there is one.                                           *)
AccessPastEnd(c) ==
    LET j == job[c] IN
    /\ j # NoJob /\ More(j) /\ j.vAddr.page >= BlockSize
    /\ status' = "aborted"
    /\ UNCHANGED <<given, line, reply, active, mailbox, job, buf, content, printed>>

(* The end of the call: sim_read prints.                                    *)
EndJob(c) ==
    LET j == job[c] IN
    /\ j # NoJob /\ ~ More(j)
    /\ printed' = IF j.sim = "read" THEN <<j.file, buf[c]>> ELSE printed
    /\ buf' = [buf EXCEPT ![c] = <<>>]
    /\ job' = [job EXCEPT ![c] = NoJob]
    /\ UNCHANGED <<given, line, reply, active, mailbox, content, status>>

RunJob(c) ==
    \/ StartJob(c) \/ ReadByte(c) \/ OverrunBuffer(c) \/ WriteByte(c)
    \/ LoopWriteByte(c) \/ AccessPastEnd(c) \/ EndJob(c)

JobsNext ==
    /\ status = "running"
    /\ \/ \E l \in Lines : Reject(l) \/ Send(l) \/ SendBehind(l)
       \/ \E c \in Pids : RunJob(c)

(* The threads of the processes run while the program does.                 *)
JobsFairness == \A c \in Pids : WF_jobsVars(status = "running" /\ RunJob(c))

JobsSpec == JobsInit /\ [][JobsNext]_jobsVars /\ JobsFairness

-----------------------------------------------------------------------------
(* The types of the arguments of a message, which travel as untyped         *)
(* pointers; the decoders cast them to these.                               *)
ArgTypes ==
    [fcRead           |-> VirtAddrs \X Ints,
     fcLoopRead       |-> VirtAddrs \X Ints \X Ints,
     fcReadToFile     |-> VirtAddrs \X Ints \X Texts,
     fcLoopReadToFile |-> VirtAddrs \X Ints \X Ints \X Texts,
     fcWrite          |-> VirtAddrs \X Texts \X Ints,
     fcLoopWrite      |-> VirtAddrs \X Bytes \X Ints \X Ints]

WellTyped(post) ==
    post.func \in DOMAIN ArgTypes /\ post.args \in ArgTypes[post.func]

(* Every variable keeps its type, and what travels in a message is what the *)
(* decoder of pcb_util.c casts it to.                                       *)
JobsTypeOK ==
    /\ given \in 0 .. MaxLines
    /\ line \in Lines \cup {<<>>}
    /\ reply \in BOOLEAN
    /\ active \subseteq Pids
    /\ DOMAIN mailbox = Pids
    /\ \A c \in Pids : \A i \in 1 .. Len(mailbox[c]) : WellTyped(mailbox[c][i])
    /\ job \in [Pids -> Calls \cup {NoJob}]
    /\ buf \in [Pids -> Texts]
    /\ content \in [Pids -> [PageIds -> [Offsets -> Bytes]]]
    /\ printed \in {<<>>} \cup (Texts \X Texts)
    /\ status \in {"running", "aborted", "overrun", "undefined"}

(* How many turns a loop takes in all.                                      *)
Turns(j) == IF j.sim = "write" /\ j.amount > PageSize THEN PageSize ELSE j.amount

(* The mailbox, the call and the buffer of a process agree.                 *)
InStep(c) ==
    /\ \A i \in 1 .. Len(mailbox[c]) : mailbox[c][i].pid = c /\ c \in active
    /\ IF job[c] = NoJob THEN buf[c] = <<>>
       ELSE LET j == job[c] IN
        /\ c \in active
        /\ j.multiplier > 0 => j.multiplier <= Turns(j)
        /\ Len(buf[c]) = IF j.sim = "read" THEN j.multiplier ELSE 0
        /\ j.sim = "read" => j.room = Room(j.off, j.amount)
        /\ Len(buf[c]) <= j.room
        /\ j.sim = "write" => Len(j.data) = j.amount /\ j.off = 1
        /\ j.sim = "loopWrite" => Len(j.data) = 1
        /\ status = "running" => AssertsHold(j)

(* A process that exists works off what it was sent.  Its call has passed   *)
(* its assertions unless the program ended with it, takes no turn too many  *)
(* and none without a byte to write, and buf holds one byte of each turn of *)
(* sim_read that ended with the program intact.                             *)
JobInv == \A c \in Pids : InStep(c)

(* buf has room for every byte sim_read reads ("malloc((amount * off + 1)   *)
(* * sizeof(BYTE))"), as long as its size fits an int: it has a byte for    *)
(* each place between the first and the last that are read.                 *)
RoomInv ==
    status = "overrun" =>
        \E c \in Pids :
            /\ job[c] # NoJob /\ job[c].sim = "read"
            /\ job[c].amount * job[c].off + 1 >= SignBit

-----------------------------------------------------------------------------
(* The commands do what their lines say to memories that are plain arrays   *)
(* of bytes: the split into pages and offsets and the carry from page to    *)
(* page (make_virt_addr, advance_virt_addr) are never seen, nor the order   *)
(* of the arguments in the messages, and the program is aborted only by a   *)
(* line that is senseless, once its numbers are cut to the width of an int, *)
(* or leaves the memory.                                                    *)
Request(j, k) ==
    [op |-> IF j.sim = "read" THEN "read" ELSE "write",
     addr |-> Linear(j.vAddr) - k * j.off, step |-> j.off, count |-> Turns(j),
     data |-> CASE j.sim = "read" -> <<>>
                [] j.sim = "write" -> [i \in 1 .. Turns(j) |-> j.data[i]]
                [] j.sim = "loopWrite" -> [i \in 1 .. Turns(j) |-> j.data[1]],
     file |-> j.file]

Waiting(mail) == [i \in 1 .. Len(mail) |-> Request(CallOf(mail[i]), 0)]

Asked(c) ==
    IF job[c] = NoJob THEN Waiting(mailbox[c])
    ELSE <<Request(job[c], job[c].multiplier)>> \o Waiting(mailbox[c])

(* Each process has its pages in a row, and still to be done what its call  *)
(* is about and what is in its mailbox.                                     *)
Memory ==
    [c \in Pids |-> [i \in 0 .. BlockSize * PageSize - 1 |->
        content[c][i \div PageSize][i % PageSize]]]
Todo == [c \in Pids |-> Asked(c)]
At == [c \in Pids |-> IF job[c] = NoJob THEN 0 ELSE job[c].multiplier]
Up == status # "aborted"

BM == INSTANCE ByteMemory WITH
    Size <- BlockSize * PageSize, MaxString <- PageSize, Commands <- Lines,
    memory <- Memory, todo <- Todo, at <- At, got <- buf, up <- Up

BytesRefined == BM!BMSpec

(* A job comes to its end, or the program does: the loops count down even   *)
(* where the address stands still (sim_loop_write with a step of 0).        *)
JobsEnd == \A c \in Pids : job[c] # NoJob ~> job[c] = NoJob \/ status # "running"

(* "will read until the end of the memory" (pcb_util.h:156), "will write    *)
(* untill the end of pcb" (pcb_util.h:168): a job that comes to the end of  *)
(* the memory with accesses left stops there, and the program goes on.      *)
AtEnd(j) == j.multiplier > 0 /\ More(j) /\ j.vAddr.page >= BlockSize

StopsAtEnd ==
    status = "aborted" => \A c \in Pids : job[c] = NoJob \/ ~ AtEnd(job[c])
=============================================================================
