----------------------------- MODULE ByteMemory -----------------------------
(***************************************************************************)
(* What the commands read, loopRead, readToFile, loopReadToFile, write and *)
(* loopWrite promise: each process has a memory of Size bytes that only    *)
(* its own commands change, does them in the order they were given, and    *)
(* prints the bytes it read.  A command that is senseless, or leaves the   *)
(* memory, ends the program.  A number that does not fit is cut to an      *)
(* unsigned, and a step or a count to an int: a large one is negative.     *)
(***************************************************************************)
EXTENDS Sequences, Words

CONSTANTS
    Pids,       \* the processes
    Size,       \* bytes per process
    MaxString,  \* write stops after so many bytes
    Bytes,
    Commands    \* the command lines: a command and its arguments

VARIABLES
    line,       \* the last command line that was accepted, or <<>>
    memory,     \* [Pids -> [0 .. Size - 1 -> Bytes]]
    todo,       \* what each process has been asked for, in order
    at,         \* how often it has accessed its memory for the first of these
    got,        \* the bytes it has read for it
    printed,    \* what was printed last
    up          \* the program runs

bmVars == <<line, memory, todo, at, got, printed, up>>

FirstPart(s) == IF Len(s) <= MaxString THEN s ELSE SubSeq(s, 1, MaxString)

(* What a command line asks for: count accesses, the k-th (from 0) at       *)
(* addr + k * step, to read and print or to write the bytes of data.        *)
Reading(addr, step, count, file) ==
    [op |-> "read", addr |-> addr, step |-> step, count |-> count,
     data |-> <<>>, file |-> file]
Writing(addr, step, count, data) ==
    [op |-> "write", addr |-> addr, step |-> step, count |-> count,
     data |-> data, file |-> <<>>]

Meaning(l) ==
    LET u(i) == Scan(l.args[i].num)
        n(i) == Signed(u(i))
        t(i) == l.args[i].text
    IN CASE l.cmd = "read" -> Reading(u(1), 1, n(3), <<>>)
         [] l.cmd = "loopRead" -> Reading(u(1), n(3), n(4), <<>>)
         [] l.cmd = "readToFile" -> Reading(u(1), 1, n(3), t(4))
         [] l.cmd = "loopReadToFile" -> Reading(u(1), n(3), n(4), t(5))
         [] l.cmd = "write" -> Writing(u(1), 1, Len(FirstPart(t(3))), FirstPart(t(3)))
         [] l.cmd = "loopWrite" ->
                Writing(u(1), n(4), n(5), [k \in 1 .. n(5) |-> t(3)[1]])

Senseless(r) == r.count <= 0 \/ r.step < 0 \/ (r.op = "read" /\ r.step = 0)
Place(r, k) == r.addr + k * r.step

BMInit ==
    /\ line = <<>>
    /\ \E b \in Bytes : memory = [c \in Pids |-> [i \in 0 .. Size - 1 |-> b]]
    /\ todo = [c \in Pids |-> <<>>]
    /\ at = [c \in Pids |-> 0] /\ got = [c \in Pids |-> <<>>]
    /\ printed = <<>>
    /\ up = TRUE

Accept ==
    /\ line' \in Commands
    /\ LET c == Scan(line'.args[2].num)
       IN c \in Pids /\ todo' = [todo EXCEPT ![c] = Append(@, Meaning(line'))]
    /\ UNCHANGED <<memory, at, got, printed, up>>

(* One access of the first request.                                         *)
Access(c) ==
    /\ todo[c] # <<>>
    /\ LET r == Head(todo[c])
           i == Place(r, at[c])
       IN /\ ~ Senseless(r) /\ at[c] < r.count /\ i < Size
          /\ IF r.op = "read"
             THEN got' = [got EXCEPT ![c] = Append(@, memory[c][i])] /\ UNCHANGED memory
             ELSE memory' = [memory EXCEPT ![c][i] = r.data[at[c] + 1]] /\ UNCHANGED got
    /\ at' = [at EXCEPT ![c] = @ + 1]
    /\ UNCHANGED <<line, todo, printed, up>>

Finish(c) ==
    /\ todo[c] # <<>>
    /\ LET r == Head(todo[c])
       IN /\ ~ Senseless(r) /\ at[c] = r.count
          /\ printed' = IF r.op = "read" THEN <<r.file, got[c]>> ELSE printed
    /\ todo' = [todo EXCEPT ![c] = Tail(@)]
    /\ at' = [at EXCEPT ![c] = 0] /\ got' = [got EXCEPT ![c] = <<>>]
    /\ UNCHANGED <<line, memory, up>>

(* A request that is senseless or leaves the memory.                        *)
Die(c) ==
    /\ todo[c] # <<>>
    /\ LET r == Head(todo[c])
       IN Senseless(r) \/ (at[c] < r.count /\ Place(r, at[c]) >= Size)
    /\ up' = FALSE
    /\ UNCHANGED <<line, memory, todo, at, got, printed>>

BMNext ==
    \/ Accept
    \/ \E c \in Pids : Access(c) \/ Finish(c) \/ Die(c)

BMSpec == BMInit /\ [][BMNext]_bmVars
=============================================================================
