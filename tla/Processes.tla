----------------------------- MODULE Processes -----------------------------
(***************************************************************************)
(* The life of the simulated processes: the user interface                 *)
(* (vmsim/ui_app.c) that creates them, sends them work and deletes them,   *)
(* the container of their slots (vmsim/pcb.c), their mailboxes and threads *)
(* (util/pcb_util.c, util/worker_thread.c), and the job_done handshake by  *)
(* which the interface waits for work (util/app_util.c).                   *)
(*                                                                         *)
(* The interface is one thread, each process another, and two services run *)
(* from the load of the configuration to the exit: the page replacement    *)
(* manager (vmsim/prm.c) and the aging daemon (vmsim/aging_daemon.c).  What a job does to  *)
(* memory is module Vmm; here it ends, if it does, in signal_job_done.      *)
(* job_done_mutex is locked by wait_job_done, which returns without        *)
(* unlocking it, and unlocked by signal_job_done, in any thread: it is a   *)
(* flag that jobHeld keeps.                                                *)
(***************************************************************************)
EXTENDS Integers, Sequences

CONSTANTS
    NProcs,      \* MaxNumOfProcesses
    MaxJobs,     \* bound: the jobs sent to one process
    MaxCreates,  \* bound: the processes created
    Spurious     \* whether pthread_cond_wait may return without a signal

ASSUME ProcessesAssumption ==
    /\ NProcs \in Nat \ {0}
    /\ MaxJobs \in Nat
    /\ MaxCreates \in Nat
    /\ Spurious \in BOOLEAN

Slots == 0 .. NProcs - 1
Services == {"prm", "daemon"}
fcDel == 0      \* the message that ends a process; a job is its number, from 1

VARIABLES
    ui,         \* where the interface is
    target,     \* the slot that it creates or deletes, or comes to at the exit
    exiting,    \* it is in free_app_data
    junk, del,  \* PROC_JUNK and PROC_DEL of each slot
    mail,       \* PROC_MAIL
    running,    \* the flag of the worker thread in the slot
    pc,         \* where the thread of the process in the slot is
    msg,        \* the message it works on
    leaving,    \* the threads that have freed the slot and not yet ended
    jobDone,    \* job_done
    jobHeld,    \* job_done_mutex is locked
    turn,       \* the service that the interface starts or stops
    svcRunning, \* the flags of the worker threads of the services
    svcStop,
    svcPc,      \* where these threads are
    svcGone,    \* the services whose mutexes and conditions are destroyed
    sent, ran,  \* history: the last job sent to the process and run by it
    creates,    \* history: the processes created
    early       \* history: process_destroy has returned before the process ended

uiVars == <<ui, target, exiting>>
slotVars == <<junk, del, mail, sent>>
threadVars == <<running, pc, msg, leaving, ran>>
jobVars == <<jobDone, jobHeld>>
svcThreadVars == <<svcRunning, svcPc>>
svcVars == <<turn, svcThreadVars, svcStop, svcGone>>
histVars == <<creates, early>>
procVars == <<uiVars, slotVars, threadVars, jobVars, svcVars, histVars>>

UiPcs == {"boot", "bootspin", "cmd", "lock", "clear", "enqueue", "condwait",
          "spin", "delwait", "exit", "stop", "stopspin", "down", "aborted"}
ThreadPcs == {"none", "start", "wait", "job", "unlock", "del"}
SvcPcs == {"none", "start", "work", "gone"}

ProcTypeOK ==
    /\ ui \in UiPcs /\ target \in 0 .. NProcs /\ exiting \in BOOLEAN
    /\ junk \in [Slots -> BOOLEAN] /\ del \in [Slots -> BOOLEAN]
    /\ mail \in [Slots -> Seq(0 .. MaxJobs)]
    /\ running \in [Slots -> BOOLEAN]
    /\ pc \in [Slots -> ThreadPcs]
    /\ msg \in [Slots -> 0 .. MaxJobs]
    /\ leaving \in [Slots -> 0 .. MaxCreates]
    /\ jobDone \in BOOLEAN /\ jobHeld \in BOOLEAN
    /\ sent \in [Slots -> 0 .. MaxJobs] /\ ran \in [Slots -> 0 .. MaxJobs]
    /\ turn \in Services
    /\ svcRunning \in [Services -> BOOLEAN] /\ svcStop \in [Services -> BOOLEAN]
    /\ svcPc \in [Services -> SvcPcs] /\ svcGone \subseteq Services
    /\ creates \in 0 .. MaxCreates /\ early \in BOOLEAN

(* init_proc_cont and init_job_done, which leaves job_done set.             *)
ProcInit ==
    /\ ui = "boot" /\ target = 0 /\ exiting = FALSE
    /\ junk = [p \in Slots |-> TRUE] /\ del = [p \in Slots |-> FALSE]
    /\ mail = [p \in Slots |-> <<>>]
    /\ running = [p \in Slots |-> FALSE]
    /\ pc = [p \in Slots |-> "none"] /\ msg = [p \in Slots |-> fcDel]
    /\ leaving = [p \in Slots |-> 0]
    /\ jobDone = TRUE /\ jobHeld = FALSE
    /\ sent = [p \in Slots |-> 0] /\ ran = [p \in Slots |-> 0]
    /\ turn = "prm"
    /\ svcRunning = [s \in Services |-> FALSE]
    /\ svcStop = [s \in Services |-> FALSE]
    /\ svcPc = [s \in Services |-> "none"] /\ svcGone = {}
    /\ creates = 0 /\ early = FALSE

-----------------------------------------------------------------------------
(* The job_done handshake.                                                  *)

(* signal_job_done by the interface itself, which is not in wait_job_done.  *)
SelfSignal == jobDone' = TRUE /\ jobHeld' = FALSE

(* wait_job_done: the mutex is taken and job_done looked at, ...            *)
LockJobDone ==
    /\ ui = "lock" /\ ~ jobHeld
    /\ jobHeld' = TRUE
    /\ ui' = IF jobDone THEN "clear" ELSE "enqueue"
    /\ UNCHANGED <<target, exiting, slotVars, threadVars, jobDone,
                   svcVars, histVars>>

(* ... and job_done is reset and the mutex kept, ...                        *)
ClearJobDone ==
    /\ ui = "clear" /\ ui' = "cmd"
    /\ jobDone' = FALSE
    /\ UNCHANGED <<target, exiting, slotVars, threadVars, jobHeld, svcVars, histVars>>

(* ... or cond_wait releases the mutex until it is signalled, and the mutex *)
(* is taken again.                                                          *)
EnqueueJobDone ==
    /\ ui = "enqueue" /\ ui' = "condwait"
    /\ jobHeld' = FALSE
    /\ UNCHANGED <<target, exiting, slotVars, threadVars, jobDone,
                   svcVars, histVars>>

-----------------------------------------------------------------------------
(* Commands of the interface: command_handler, from the prompt or a batch.  *)

(* Faulty variant of Accepts: PROC_DEL is not looked at.                    *)
AcceptsAny(p) == ~ junk[p]

(* What compose_mail asks of the process that the message is for.           *)
Accepts(p) == ~ junk[p] /\ ~ del[p]

(* read, loopRead, readToFile, loopReadToFile, write and loopWrite: the     *)
(* message is accepted by compose_mail, and the interface waits.            *)
SendJob(p) ==
    /\ ui = "cmd" /\ ui' = "lock"
    /\ sent[p] < MaxJobs
    /\ Accepts(p)
    /\ sent' = [sent EXCEPT ![p] = @ + 1]
    /\ mail' = [mail EXCEPT ![p] = Append(@, sent[p] + 1)]
    /\ UNCHANGED <<target, exiting, junk, del, threadVars, jobVars, svcVars, histVars>>

(* Faulty variant of Answer: a command that forgets to signal.              *)
AnswerSilent ==
    /\ ui = "cmd" /\ ui' = "lock"
    /\ UNCHANGED <<target, exiting, slotVars, threadVars, jobVars, svcVars, histVars>>

(* The commands that the interface answers itself, those that are refused   *)
(* by compose_mail or for their arguments, and the end of a batch file: the *)
(* interface signals that the job is done and waits for it.                 *)
Answer ==
    /\ ui = "cmd" /\ ui' = "lock"
    /\ SelfSignal
    /\ UNCHANGED <<target, exiting, slotVars, threadVars, svcVars, histVars>>

(* createProcess without a free slot, delProcess without a number: a signal *)
(* and no wait.                                                             *)
Fail ==
    /\ ui = "cmd"
    /\ SelfSignal
    /\ UNCHANGED <<uiVars, slotVars, threadVars, svcVars, histVars>>

(* Faulty variant of Create: the slot is not zeroed.                        *)
CreateDirty(p) ==
    /\ ui = "cmd" /\ ui' = "spin"
    /\ creates < MaxCreates /\ creates' = creates + 1
    /\ junk[p] /\ \A q \in 0 .. p - 1 : ~ junk[q]
    /\ target' = p
    /\ junk' = [junk EXCEPT ![p] = FALSE]
    /\ mail' = [mail EXCEPT ![p] = <<>>]
    /\ pc' = [pc EXCEPT ![p] = "start"]
    /\ sent' = [sent EXCEPT ![p] = 0] /\ ran' = [ran EXCEPT ![p] = 0]
    /\ UNCHANGED <<exiting, del, running, msg, leaving, jobVars, svcVars, early>>

(* createProcess: init_process zeroes the first free slot and               *)
(* worker_thread_start starts its thread.                                   *)
Create(p) ==
    /\ ui = "cmd" /\ ui' = "spin"
    /\ creates < MaxCreates /\ creates' = creates + 1
    /\ junk[p] /\ \A q \in 0 .. p - 1 : ~ junk[q]
    /\ target' = p
    /\ junk' = [junk EXCEPT ![p] = FALSE]
    /\ del' = [del EXCEPT ![p] = FALSE]
    /\ mail' = [mail EXCEPT ![p] = <<>>]
    /\ running' = [running EXCEPT ![p] = FALSE]
    /\ pc' = [pc EXCEPT ![p] = "start"]
    /\ sent' = [sent EXCEPT ![p] = 0] /\ ran' = [ran EXCEPT ![p] = 0]
    /\ UNCHANGED <<exiting, msg, leaving, jobVars, svcVars, early>>

(* The loop of worker_thread_start.                                         *)
Started ==
    /\ ui = "spin" /\ running[target]
    /\ ui' = "cmd" /\ target' = 0
    /\ UNCHANGED <<exiting, slotVars, threadVars, jobVars, svcVars, histVars>>

(* process_destroy, for delProcess and for each slot at the exit: fcDel is  *)
(* sent unless PROC_DEL is set, and the interface waits on the condition of *)
(* the container.                                                           *)
Destroy(p) ==
    /\ ui \in {"cmd", "exit"} /\ (ui = "exit" => target = p)
    /\ ~ junk[p]
    /\ ui' = "delwait" /\ target' = p
    /\ mail' = IF Accepts(p) THEN [mail EXCEPT ![p] = Append(@, fcDel)] ELSE mail
    /\ del' = [del EXCEPT ![p] = TRUE]
    /\ UNCHANGED <<exiting, junk, sent, threadVars, jobVars, svcVars, histVars>>

(* exit: free_app_data comes to the first slot.  From a batch file this is  *)
(* preceded by the Answer of batchFile.                                     *)
Exit ==
    /\ ui = "cmd" /\ ui' = "exit"
    /\ target' = 0 /\ exiting' = TRUE
    /\ UNCHANGED <<slotVars, threadVars, jobVars, svcVars, histVars>>

(* Faulty variant of ExitNext: one slot too many.                           *)
ExitNextLate ==
    /\ ui = "exit"
    /\ IF target <= NProcs THEN target = NProcs \/ junk[target] ELSE TRUE
    /\ IF target > NProcs THEN ui' = "stop" /\ UNCHANGED target
       ELSE target' = target + 1 /\ UNCHANGED ui
    /\ UNCHANGED <<exiting, slotVars, threadVars, jobVars, svcVars, histVars>>

(* The next slot, after one that is junk, or on to the services.            *)
ExitNext ==
    /\ ui = "exit"
    /\ \/ target = NProcs /\ ui' = "stop" /\ UNCHANGED target
       \/ target < NProcs /\ junk[target] /\ target' = target + 1 /\ UNCHANGED ui
    /\ UNCHANGED <<exiting, slotVars, threadVars, jobVars, svcVars, histVars>>

(* The interface returns from the wait in process_destroy, which looks at   *)
(* no predicate, to the prompt or to the next slot of free_app_data.        *)
DelReturn ==
    /\ IF exiting THEN ui' = "exit" /\ target' = target + 1
       ELSE ui' = "cmd" /\ target' = 0
    /\ early' = (early \/ ~ junk'[target])

(* pthread_cond_wait may also return for no reason.                         *)
WakeUp ==
    /\ Spurious
    /\ UNCHANGED <<exiting, slotVars, threadVars, jobVars, svcVars, creates>>
    /\ \/ ui = "condwait" /\ ui' = "lock" /\ UNCHANGED <<target, early>>
       \/ ui = "delwait" /\ DelReturn

-----------------------------------------------------------------------------
(* The services: load_app_data starts them, prm_init and aging_daemon_start *)
(* one after the other, ...                                                 *)
StartService ==
    /\ ui = "boot" /\ ui' = "bootspin"
    /\ svcPc' = [svcPc EXCEPT ![turn] = "start"]
    /\ UNCHANGED <<target, exiting, slotVars, threadVars, jobVars, turn,
                   svcRunning, svcStop, svcGone, histVars>>

Other == CHOOSE s \in Services : s # turn

(* ... each with the loop of worker_thread_start; then the prompt comes.    *)
ServiceStarted ==
    /\ ui = "bootspin" /\ svcRunning[turn]
    /\ \/ turn = "prm" /\ ui' = "boot"
       \/ turn = "daemon" /\ ui' = "cmd"
    /\ turn' = Other
    /\ UNCHANGED <<target, exiting, slotVars, threadVars, jobVars, svcThreadVars,
                   svcStop, svcGone, histVars>>

(* Faulty variant of StopService: the flag is not set.                      *)
StopServiceUnasked ==
    /\ ui = "stop" /\ ui' = "stopspin"
    /\ UNCHANGED <<target, exiting, slotVars, threadVars, jobVars, svcVars,
                   histVars>>

(* prm_destroy and aging_daemon_stop, when the slots are done: they ask the *)
(* thread to stop (worker_thread_stop), ...                                 *)
StopService ==
    /\ ui = "stop" /\ ui' = "stopspin"
    /\ svcStop' = [svcStop EXCEPT ![turn] = TRUE]
    /\ UNCHANGED <<target, exiting, slotVars, threadVars, jobVars, turn,
                   svcThreadVars, svcGone, histVars>>

(* Faulty variant of ServiceStopped: the thread is not waited for.          *)
ServiceStoppedAtOnce ==
    /\ ui = "stopspin"
    /\ svcGone' = svcGone \cup {turn}
    /\ \/ turn = "prm" /\ ui' = "stop"
       \/ turn = "daemon" /\ ui' = "down"
    /\ turn' = Other
    /\ UNCHANGED <<target, exiting, slotVars, threadVars, jobVars, svcThreadVars,
                   svcStop, histVars>>

(* ... wait until it has cleared its flag, and destroy what it used.  After *)
(* the second the rest is freed and the program ends, with every thread.    *)
ServiceStopped ==
    /\ ui = "stopspin" /\ ~ svcRunning[turn]
    /\ svcGone' = svcGone \cup {turn}
    /\ \/ turn = "prm" /\ ui' = "stop"
       \/ turn = "daemon" /\ ui' = "down"
    /\ turn' = Other
    /\ UNCHANGED <<target, exiting, slotVars, threadVars, jobVars, svcThreadVars,
                   svcStop, histVars>>

(* The thread of a service: worker_thread_func, around prm_thread_func and  *)
(* daemon_func, which return within a second when there is nothing to do.   *)
ServiceBegin(s) ==
    /\ svcPc[s] = "start" /\ svcPc' = [svcPc EXCEPT ![s] = "work"]
    /\ svcRunning' = [svcRunning EXCEPT ![s] = TRUE]
    /\ UNCHANGED <<uiVars, slotVars, threadVars, jobVars, turn, svcStop, svcGone,
                   histVars>>

ServiceEnd(s) ==
    /\ svcPc[s] = "work" /\ svcStop[s] /\ svcPc' = [svcPc EXCEPT ![s] = "gone"]
    /\ svcRunning' = [svcRunning EXCEPT ![s] = FALSE]
    /\ UNCHANGED <<uiVars, slotVars, threadVars, jobVars, turn, svcStop, svcGone,
                   histVars>>

-----------------------------------------------------------------------------
(* The thread of a process: worker_thread_func and process_func.            *)

ThreadStart(p) ==
    /\ pc[p] = "start" /\ pc' = [pc EXCEPT ![p] = "wait"]
    /\ running' = [running EXCEPT ![p] = TRUE]
    /\ UNCHANGED <<uiVars, slotVars, msg, leaving, ran, jobVars, svcVars, histVars>>

TakeMail(p) ==
    /\ pc[p] = "wait" /\ mail[p] # <<>>
    /\ msg' = [msg EXCEPT ![p] = Head(mail[p])]
    /\ mail' = [mail EXCEPT ![p] = Tail(@)]
    /\ pc' = [pc EXCEPT ![p] = IF Head(mail[p]) = fcDel THEN "del" ELSE "job"]
    /\ UNCHANGED <<uiVars, junk, del, sent, running, leaving, ran, jobVars,
                   svcVars, histVars>>

(* A job, and signal_job_done up to its signal, ...                         *)
RunJob(p) ==
    /\ pc[p] = "job" /\ pc' = [pc EXCEPT ![p] = "unlock"]
    /\ ran' = [ran EXCEPT ![p] = msg[p]]
    /\ jobDone' = TRUE
    /\ ui' = IF ui = "condwait" THEN "lock" ELSE ui
    /\ UNCHANGED <<target, exiting, slotVars, running, msg, leaving, jobHeld,
                   svcVars, histVars>>

(* ... unless it needs a service that is no longer there: prm_pagefault and *)
(* aging_daemon_update_pages assert that it runs, and the program ends.     *)
JobAborts(p) ==
    /\ pc[p] = "job"
    /\ \E s \in Services : svcStop[s]
    /\ ui' = "aborted"
    /\ UNCHANGED <<target, exiting, slotVars, threadVars, jobVars, svcVars,
                   histVars>>

(* Faulty variant of UnlockJob: the thread ends with its first job.         *)
UnlockJobEnds(p) ==
    /\ pc[p] = "unlock" /\ pc' = [pc EXCEPT ![p] = "none"]
    /\ jobHeld' = FALSE
    /\ UNCHANGED <<uiVars, slotVars, running, msg, leaving, ran, jobDone,
                   svcVars, histVars>>

(* ... and its unlock.                                                      *)
UnlockJob(p) ==
    /\ pc[p] = "unlock" /\ pc' = [pc EXCEPT ![p] = "wait"]
    /\ jobHeld' = FALSE
    /\ UNCHANGED <<uiVars, slotVars, running, msg, leaving, ran, jobDone,
                   svcVars, histVars>>

(* Faulty variant of Dealloc: the interface is not told.                    *)
DeallocSilent(p) ==
    /\ pc[p] = "del" /\ pc' = [pc EXCEPT ![p] = "none"]
    /\ junk' = [junk EXCEPT ![p] = TRUE]
    /\ mail' = [mail EXCEPT ![p] = <<>>]
    /\ leaving' = [leaving EXCEPT ![p] = @ + 1]
    /\ UNCHANGED <<uiVars, del, sent, running, msg, ran, jobVars, svcVars, histVars>>

(* process_dealloc: the slot is junk, and the interface is signalled.       *)
Dealloc(p) ==
    /\ pc[p] = "del" /\ pc' = [pc EXCEPT ![p] = "none"]
    /\ junk' = [junk EXCEPT ![p] = TRUE]
    /\ mail' = [mail EXCEPT ![p] = <<>>]
    /\ leaving' = [leaving EXCEPT ![p] = @ + 1]
    /\ IF ui = "delwait" THEN DelReturn ELSE UNCHANGED <<ui, target, early>>
    /\ UNCHANGED <<exiting, del, sent, running, msg, ran, jobVars, svcVars,
                   creates>>

(* The end of worker_thread_func, in a slot that may have been given to     *)
(* another process.                                                         *)
Leave(p) ==
    /\ leaving[p] > 0
    /\ leaving' = [leaving EXCEPT ![p] = @ - 1]
    /\ running' = [running EXCEPT ![p] = FALSE]
    /\ UNCHANGED <<uiVars, slotVars, pc, msg, ran, jobVars, svcVars, histVars>>

-----------------------------------------------------------------------------
Command ==
    \/ \E p \in Slots : SendJob(p) \/ Create(p) \/ (ui = "cmd" /\ Destroy(p))
    \/ Answer \/ Fail \/ Exit

UiContinue ==
    \/ LockJobDone \/ ClearJobDone \/ EnqueueJobDone \/ Started \/ ExitNext
    \/ StartService \/ ServiceStarted \/ StopService \/ ServiceStopped
    \/ \E p \in Slots : ui = "exit" /\ Destroy(p)

Up == ui \notin {"down", "aborted"}

Thread(p) ==
    Up /\ (ThreadStart(p) \/ TakeMail(p) \/ UnlockJob(p) \/ Dealloc(p))

JobEnds(p) == Up /\ (RunJob(p) \/ JobAborts(p))

OldThread(p) == Up /\ Leave(p)

Service(s) == Up /\ (ServiceBegin(s) \/ ServiceEnd(s))

ProcNext ==
    \/ Command \/ UiContinue \/ WakeUp
    \/ \E p \in Slots : Thread(p) \/ JobEnds(p) \/ OldThread(p)
    \/ \E s \in Services : Service(s)

ProcSpec == ProcInit /\ [][ProcNext]_procVars

(* Every thread that can go on does, but nobody has to type a command and   *)
(* no job has to end: mmu_pin_page may fault for ever (AccessCompletes in   *)
(* Vmm).                                                                    *)
ProcFairness ==
    /\ WF_procVars(UiContinue)
    /\ \A p \in Slots : WF_procVars(Thread(p)) /\ WF_procVars(OldThread(p))
    /\ \A s \in Services : WF_procVars(Service(s))

ProcFairSpec == ProcSpec /\ ProcFairness

-----------------------------------------------------------------------------
(* A mailbox loses, repeats and reorders nothing: what the process has in   *)
(* hand and in its mailbox are the jobs sent to it and not run, in order,   *)
(* and then fcDel if it is being deleted; so process_dealloc drops no job   *)
(* that the interface waits for, though PROC_DEL and PROC_JUNK are read     *)
(* without the mutex of the container (compose_mail).                       *)
MailInv ==
    \A p \in Slots : ~ junk[p] =>
        (IF pc[p] \in {"job", "del"} THEN <<msg[p]>> ELSE <<>>) \o mail[p]
          = [i \in 1 .. sent[p] - ran[p] |-> ran[p] + i]
            \o (IF del[p] THEN <<fcDel>> ELSE <<>>)

(* A slot has a thread exactly while it is not junk, and one that is        *)
(* deleted only when PROC_DEL is set (the assertions of process_dealloc).   *)
(* The running flag is never set in a slot whose new thread has not begun,  *)
(* though the thread of its last process may still be about to clear it, so *)
(* that worker_thread_start does not return too early.                      *)
SlotInv ==
    \A p \in Slots :
        /\ junk[p] <=> pc[p] = "none"
        /\ pc[p] = "del" => del[p]
        /\ running[p] => pc[p] # "start" /\ (junk[p] => leaving[p] > 0)

(* The interface never waits for a mutex that only it would release: when   *)
(* wait_job_done finds job_done_mutex locked, some job is still to signal.  *)
HandshakeInv ==
    ui = "lock" /\ jobHeld =>
        \E p \in Slots : pc[p] = "unlock" \/ sent[p] > ran[p]

(* The services outlive their users: the processes are deleted before the   *)
(* services are asked to stop, so that no job finds one gone (the           *)
(* assertions of prm_pagefault and aging_daemon_update_pages), unless       *)
(* process_destroy did not wait; and what a service uses is destroyed only  *)
(* when its thread has left it, though worker_thread_stop and the thread    *)
(* share two flags that the interface uses without their lock.              *)
ServiceInv ==
    /\ \A s \in svcGone : svcPc[s] = "gone"
    /\ ~ early =>
        /\ ui # "aborted"
        /\ (\E p \in Slots : pc[p] # "none") => \A s \in Services :
            svcRunning[s] /\ ~ svcStop[s]

(* No job of the process lasts for ever.                                    *)
JobsEnd(p) == []<>(pc[p] # "job")

(* Every job that compose_mail accepted is run, unless the program ends, if *)
(* no job of the same process lasts for ever; those of others do not count. *)
JobsServed ==
    \A p \in Slots : JobsEnd(p) =>
        \A n \in 1 .. MaxJobs : sent[p] = n ~> ran[p] = n \/ ~ Up

(* process_destroy returns, if no job of the process it deletes lasts for   *)
(* ever.                                                                    *)
DeleteServed ==
    \A p \in Slots : JobsEnd(p) =>
        (ui = "delwait" /\ target = p ~> ~ (ui = "delwait" /\ target = p))

(* The exit comes to its end, if no job lasts for ever: every process ends  *)
(* that is sent fcDel, and every service that is asked to stop              *)
(* (free_app_data).                                                         *)
ExitServed == (\A p \in Slots : JobsEnd(p)) => (exiting ~> ~ Up)

(* The interface comes back from waiting for a job, if no job lasts for     *)
(* ever ("UI will not wait until operation has finished", ui_app.h, of the  *)
(* commands that send one).                                                 *)
CommandReturns == (\A p \in Slots : JobsEnd(p)) => (ui = "lock" ~> ui = "cmd")

(* "UI waits untill deleting is done" (ui_app.h:47): when the interface is  *)
(* back at the prompt, the process that it has deleted is gone.             *)
DeletionWaits == ui = "cmd" => \A p \in Slots : del[p] => junk[p]

(* process_start returns ("@return ecSuccess on success or some other code  *)
(* on failure", pcb.h), also for a slot that is used again.                 *)
CreateReturns == ui = "spin" ~> ui = "cmd"
=============================================================================
