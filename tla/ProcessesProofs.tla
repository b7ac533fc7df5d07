-------------------------- MODULE ProcessesProofs --------------------------
(***************************************************************************)
(* Proof of the safety properties of Processes, for any number of slots,   *)
(* jobs and creations.  Each part of the inductive invariant has a lemma,  *)
(* with a step per group of actions.                                       *)
(***************************************************************************)
EXTENDS Processes, SequenceTheorems, TLAPS

(* MailInv, message by message: how many there are and which comes where.   *)
Held(p) == IF pc[p] \in {"job", "del"} THEN 1 ELSE 0
Due(p) == sent[p] - ran[p]

OrderIn(p) ==
    ~ junk[p] =>
        /\ Len(mail[p]) + Held(p) = Due(p) + (IF del[p] THEN 1 ELSE 0)
        /\ Held(p) = 1 => msg[p] = IF Due(p) >= 1 THEN ran[p] + 1 ELSE fcDel
        /\ \A i \in 1 .. Len(mail[p]) :
            mail[p][i] = IF i + Held(p) <= Due(p) THEN ran[p] + i + Held(p)
                         ELSE fcDel

OrderInv == \A p \in Slots : OrderIn(p)

(* The numbers of the jobs, and of the processes created in a slot, agree   *)
(* with where its thread is.                                                *)
CountInv ==
    \A p \in Slots :
        /\ ran[p] <= sent[p]
        /\ pc[p] = "job" => msg[p] # fcDel
        /\ leaving[p] + (IF junk[p] THEN 0 ELSE 1) <= creates

(* What the interface waits for, and how far the exit is.                   *)
WaitInv ==
    /\ ui \in {"spin", "delwait"} => target \in Slots
    /\ ui = "condwait" => ~ jobHeld
    /\ ui \in {"exit", "stop", "stopspin", "down", "aborted"} => exiting
    /\ exiting => ui \in {"exit", "delwait", "stop", "stopspin", "down", "aborted"}
    /\ ui \in {"boot", "bootspin"} => \A p \in Slots : junk[p]
    /\ ~ early /\ exiting /\ ui \in {"exit", "delwait"} =>
        \A p \in Slots : p < target => junk[p]
    /\ ~ early /\ ui \in {"stop", "stopspin", "down"} => \A p \in Slots : junk[p]

(* The services are started before the first command and asked to stop      *)
(* after the last.                                                          *)
SvcInv ==
    /\ \A s \in Services :
        /\ svcRunning[s] <=> svcPc[s] = "work"
        /\ svcPc[s] = "gone" => svcStop[s]
        /\ svcStop[s] => ui \in {"stop", "stopspin", "down", "aborted"}
        /\ ui \notin {"boot", "bootspin"} => svcPc[s] \in {"work", "gone"}
    /\ ui \notin {"boot", "bootspin", "stop", "stopspin", "down", "aborted"} =>
        turn = "prm"
    /\ ui \in {"boot", "bootspin"} /\ turn = "daemon" => svcPc["prm"] = "work"
    /\ ui \in {"boot", "bootspin"} /\ turn = "prm" => svcPc["daemon"] = "none"
    /\ ui = "bootspin" <=> ui \in {"boot", "bootspin"} /\ svcPc[turn] # "none"

ProcIInv ==
    /\ ProcTypeOK
    /\ SlotInv
    /\ CountInv
    /\ OrderInv
    /\ WaitInv
    /\ SvcInv
    /\ HandshakeInv
    /\ ServiceInv

-----------------------------------------------------------------------------
(* What the concatenation of two sequences of numbers holds.                *)
LEMMA ConcatInt ==
    ASSUME NEW s \in Seq(Int), NEW t \in Seq(Int)
    PROVE  /\ s \o t \in Seq(Int) /\ Len(s \o t) = Len(s) + Len(t)
           /\ \A i \in 1 .. Len(s) + Len(t) :
                (s \o t)[i] = IF i <= Len(s) THEN s[i] ELSE t[i - Len(s)]
BY ConcatProperties

LEMMA FunctionIsSeq ==
    ASSUME NEW n \in Nat, NEW s \in [1 .. n -> Int]
    PROVE  s \in Seq(Int) /\ Len(s) = n
OBVIOUS

(* A mailbox that has the right messages at the right places is the one     *)
(* that MailInv describes.                                                  *)
LEMMA OrderOfMail ==
    ASSUME ProcTypeOK, CountInv, OrderInv
    PROVE  MailInv
<1> SUFFICES ASSUME NEW p \in Slots, ~ junk[p]
             PROVE  (IF pc[p] \in {"job", "del"} THEN <<msg[p]>> ELSE <<>>) \o mail[p]
                      = [i \in 1 .. sent[p] - ran[p] |-> ran[p] + i]
                        \o (IF del[p] THEN <<fcDel>> ELSE <<>>)
  BY DEF MailInv
<1> DEFINE hand == IF pc[p] \in {"job", "del"} THEN <<msg[p]>> ELSE <<>>
           jobs == [i \in 1 .. sent[p] - ran[p] |-> ran[p] + i]
           end == IF del[p] THEN <<fcDel>> ELSE <<>>
<1>1. /\ mail[p] \in Seq(Int) /\ msg[p] \in Int /\ Len(mail[p]) \in Nat
      /\ sent[p] \in Nat /\ ran[p] \in Nat /\ sent[p] - ran[p] \in Nat
  <2>1. mail[p] \in Seq(0 .. MaxJobs)
    BY DEF ProcTypeOK
  <2>2. mail[p] \in Seq(Int)
    <3>1. 0 .. MaxJobs \subseteq Int
      OBVIOUS
    <3> QED BY <2>1, <3>1, SeqMonotonic
  <2>3. Len(mail[p]) \in Nat
    BY <2>1, LenProperties
  <2>4. msg[p] \in 0 .. MaxJobs /\ sent[p] \in 0 .. MaxJobs /\ ran[p] \in 0 .. MaxJobs
    BY DEF ProcTypeOK
  <2>5. ran[p] <= sent[p]
    BY DEF CountInv
  <2> QED BY <2>2, <2>3, <2>4, <2>5, ProcessesAssumption
<1>2. /\ hand \in Seq(Int) /\ Len(hand) = Held(p)
      /\ Held(p) = 1 => hand[1] = msg[p]
  BY <1>1 DEF Held
<1>3. /\ end \in Seq(Int) /\ Len(end) = IF del[p] THEN 1 ELSE 0
      /\ del[p] => end[1] = fcDel
  BY DEF fcDel
<1>4. /\ jobs \in Seq(Int) /\ Len(jobs) = Due(p)
      /\ \A i \in 1 .. Due(p) : jobs[i] = ran[p] + i
  <2>1. jobs \in [1 .. Due(p) -> Int]
    BY <1>1 DEF Due
  <2>2. Due(p) \in Nat
    BY <1>1 DEF Due
  <2>3. jobs \in Seq(Int) /\ Len(jobs) = Due(p)
    BY <2>1, <2>2, FunctionIsSeq
  <2> QED BY <1>1, <2>3 DEF Due
<1> HIDE DEF hand, jobs, end
<1>5. /\ hand \o mail[p] \in Seq(Int)
      /\ Len(hand \o mail[p]) = Held(p) + Len(mail[p])
      /\ \A i \in 1 .. Held(p) + Len(mail[p]) : (hand \o mail[p])[i] =
            IF i <= Held(p) THEN hand[i] ELSE mail[p][i - Held(p)]
  <2>1. hand \o mail[p] \in Seq(Int)
    BY <1>1, <1>2, ConcatInt
  <2>2. Len(hand \o mail[p]) = Len(hand) + Len(mail[p])
    BY <1>1, <1>2, ConcatInt
  <2>3. \A i \in 1 .. Len(hand) + Len(mail[p]) : (hand \o mail[p])[i] =
            IF i <= Len(hand) THEN hand[i] ELSE mail[p][i - Len(hand)]
    BY <1>1, <1>2, ConcatInt
  <2> QED BY <1>2, <2>1, <2>2, <2>3
<1>6. /\ jobs \o end \in Seq(Int)
      /\ Len(jobs \o end) = Due(p) + (IF del[p] THEN 1 ELSE 0)
      /\ \A i \in 1 .. Due(p) + (IF del[p] THEN 1 ELSE 0) : (jobs \o end)[i] =
            IF i <= Due(p) THEN jobs[i] ELSE end[i - Due(p)]
  <2>1. jobs \o end \in Seq(Int)
    BY <1>3, <1>4, ConcatInt
  <2>2. Len(jobs \o end) = Len(jobs) + Len(end)
    BY <1>3, <1>4, ConcatInt
  <2>3. \A i \in 1 .. Len(jobs) + Len(end) : (jobs \o end)[i] =
            IF i <= Len(jobs) THEN jobs[i] ELSE end[i - Len(jobs)]
    BY <1>3, <1>4, ConcatInt
  <2> QED BY <1>3, <1>4, <2>1, <2>2, <2>3
<1>7. /\ Len(mail[p]) + Held(p) = Due(p) + (IF del[p] THEN 1 ELSE 0)
      /\ Held(p) = 1 => msg[p] = IF Due(p) >= 1 THEN ran[p] + 1 ELSE fcDel
      /\ \A i \in 1 .. Len(mail[p]) :
            mail[p][i] = IF i + Held(p) <= Due(p) THEN ran[p] + i + Held(p)
                         ELSE fcDel
  BY DEF OrderInv, OrderIn
<1>8. Held(p) \in {0, 1} /\ Due(p) \in Nat
  BY <1>1 DEF Held, Due
<1>9. ASSUME NEW i \in 1 .. Len(hand \o mail[p])
      PROVE  (hand \o mail[p])[i] = (jobs \o end)[i]
  <2>1. i \in 1 .. Due(p) + (IF del[p] THEN 1 ELSE 0)
    BY <1>1, <1>5, <1>7, <1>8
  <2>2. (jobs \o end)[i] = IF i <= Due(p) THEN ran[p] + i ELSE fcDel
    BY <1>3, <1>4, <1>6, <1>8, <2>1
  <2>3. CASE i <= Held(p)
    BY <1>1, <1>2, <1>5, <1>7, <1>8, <2>1, <2>2, <2>3
  <2>4. CASE i > Held(p)
    <3>1. i - Held(p) \in 1 .. Len(mail[p])
      BY <1>1, <1>5, <1>8, <2>4, SMTT(30)
    <3>2. (hand \o mail[p])[i] = mail[p][i - Held(p)]
      BY <1>1, <1>5, <1>8, <2>4, SMTT(30)
    <3>3. i - Held(p) + Held(p) = i /\ ran[p] + (i - Held(p)) + Held(p) = ran[p] + i
      BY <1>1, <1>8
    <3> QED BY <1>7, <2>2, <3>1, <3>2, <3>3
  <2>5. i \in Int /\ Held(p) \in Int
    BY <1>5, <1>8, LenProperties
  <2>6. i <= Held(p) \/ i > Held(p)
    BY <2>5
  <2> QED BY <2>3, <2>4, <2>6
<1>10. hand \o mail[p] = jobs \o end
  <2>1. Len(hand \o mail[p]) = Len(jobs \o end)
    BY <1>1, <1>5, <1>6, <1>7, <1>8
  <2> QED BY <1>5, <1>6, <1>9, <2>1, SeqEqual
<1> QED BY <1>10 DEF hand, jobs, end
-----------------------------------------------------------------------------
(* The initial state.                                                       *)
LEMMA InitProcIInv == ProcInit => ProcIInv
<1> SUFFICES ASSUME ProcInit PROVE ProcIInv
  OBVIOUS
<1> USE ProcessesAssumption DEF ProcInit
<1>1. ProcTypeOK
  <2>1. mail \in [Slots -> Seq(0 .. MaxJobs)]
    BY EmptySeq
  <2>2. /\ ui \in UiPcs /\ target \in 0 .. NProcs /\ creates \in 0 .. MaxCreates
    BY DEF UiPcs
  <2>3. /\ exiting \in BOOLEAN /\ jobDone \in BOOLEAN /\ jobHeld \in BOOLEAN
        /\ early \in BOOLEAN
    OBVIOUS
  <2>4. /\ junk \in [Slots -> BOOLEAN] /\ del \in [Slots -> BOOLEAN]
        /\ running \in [Slots -> BOOLEAN] /\ pc \in [Slots -> ThreadPcs]
    BY DEF ThreadPcs
  <2>5. /\ msg \in [Slots -> 0 .. MaxJobs] /\ leaving \in [Slots -> 0 .. MaxCreates]
        /\ sent \in [Slots -> 0 .. MaxJobs] /\ ran \in [Slots -> 0 .. MaxJobs]
    BY DEF fcDel
  <2>6. /\ turn \in Services /\ svcGone \subseteq Services
        /\ svcRunning \in [Services -> BOOLEAN]
        /\ svcStop \in [Services -> BOOLEAN] /\ svcPc \in [Services -> SvcPcs]
    BY DEF Services, SvcPcs
  <2> QED BY <2>1, <2>2, <2>3, <2>4, <2>5, <2>6 DEF ProcTypeOK
<1>2. SlotInv /\ CountInv /\ OrderInv /\ WaitInv
  BY DEF SlotInv, CountInv, OrderInv, OrderIn, WaitInv
<1>3. SvcInv /\ HandshakeInv /\ ServiceInv
  BY DEF SvcInv, HandshakeInv, ServiceInv, Services
<1> QED BY <1>1, <1>2, <1>3 DEF ProcIInv

-----------------------------------------------------------------------------
(* Where the interface comes to from process_destroy.                       *)
LEMMA DelReturnTarget ==
    ASSUME ProcTypeOK, target \in Slots, DelReturn
    PROVE  target' \in 0 .. NProcs /\ ui' \in {"exit", "cmd"} /\ early' \in BOOLEAN
<1>1. early \in BOOLEAN
  BY DEF ProcTypeOK
<1>2. early' \in BOOLEAN
  BY <1>1 DEF DelReturn
<1>3. target \in 0 .. NProcs - 1 /\ NProcs \in Nat
  BY ProcessesAssumption DEF Slots
<1>4. target' \in {target + 1, 0} /\ ui' \in {"exit", "cmd"}
  BY DEF DelReturn
<1> QED BY <1>2, <1>3, <1>4

(* The types.                                                               *)
LEMMA TypeStep ==
    ASSUME ProcIInv, [ProcNext]_procVars
    PROVE  ProcTypeOK'
<1> USE ProcessesAssumption
    DEF ProcIInv, ProcTypeOK, uiVars, slotVars, threadVars, jobVars, svcVars,
        svcThreadVars, histVars, UiPcs, ThreadPcs, SvcPcs
<1>1. CASE UNCHANGED procVars
  BY <1>1 DEF procVars
<1>2. CASE LockJobDone \/ ClearJobDone \/ EnqueueJobDone
  BY <1>2 DEF LockJobDone, ClearJobDone, EnqueueJobDone
<1>3. CASE Started \/ ExitNext \/ Exit
  <2>1. target' \in 0 .. NProcs
    BY <1>3 DEF Started, ExitNext, Exit
  <2> QED BY <1>3, <2>1 DEF Started, ExitNext, Exit
<1>4. CASE StartService \/ ServiceStarted \/ StopService \/ ServiceStopped
  <2>1. Other \in Services
    BY DEF Other, Services
  <2> QED BY <1>4, <2>1
          DEF StartService, ServiceStarted, StopService, ServiceStopped
<1>5. CASE Answer \/ Fail
  BY <1>5 DEF Answer, Fail, SelfSignal
<1>6. CASE WakeUp
  BY <1>6, DelReturnTarget DEF WakeUp, WaitInv
<1>7. ASSUME NEW p \in Slots, SendJob(p) PROVE ProcTypeOK'
  <2>1. sent[p] + 1 \in 0 .. MaxJobs
    BY <1>7 DEF SendJob
  <2>2. Append(mail[p], sent[p] + 1) \in Seq(0 .. MaxJobs)
    BY <2>1, AppendProperties
  <2> QED BY <1>7, <2>1, <2>2 DEF SendJob
<1>8. ASSUME NEW p \in Slots, Create(p) PROVE ProcTypeOK'
  <2>1. mail' \in [Slots -> Seq(0 .. MaxJobs)]
    BY <1>8, EmptySeq DEF Create
  <2>2. target' \in 0 .. NProcs /\ creates' \in 0 .. MaxCreates
    BY <1>8 DEF Create, Slots
  <2> QED BY <1>8, <2>1, <2>2, SMTT(30) DEF Create
<1>9. ASSUME NEW p \in Slots, Destroy(p) PROVE ProcTypeOK'
  <2>1. Append(mail[p], fcDel) \in Seq(0 .. MaxJobs)
    <3>1. fcDel \in 0 .. MaxJobs
      BY DEF fcDel
    <3> QED BY <3>1, AppendProperties
  <2>2. mail' \in [Slots -> Seq(0 .. MaxJobs)]
    BY <1>9, <2>1 DEF Destroy
  <2>3. target' \in 0 .. NProcs
    BY <1>9 DEF Destroy, Slots
  <2> QED BY <1>9, <2>2, <2>3 DEF Destroy
<1>10. ASSUME NEW p \in Slots, ThreadStart(p) \/ JobAborts(p) \/ UnlockJob(p)
       PROVE  ProcTypeOK'
  BY <1>10, ZenonT(60) DEF ThreadStart, JobAborts, UnlockJob
<1>11. ASSUME NEW p \in Slots, TakeMail(p) PROVE ProcTypeOK'
  <2>1. Head(mail[p]) \in 0 .. MaxJobs /\ Tail(mail[p]) \in Seq(0 .. MaxJobs)
    BY <1>11, HeadTailProperties DEF TakeMail
  <2> QED BY <1>11, <2>1 DEF TakeMail
<1>12. ASSUME NEW p \in Slots, RunJob(p) PROVE ProcTypeOK'
  BY <1>12 DEF RunJob
<1>13. ASSUME NEW p \in Slots, Dealloc(p) PROVE ProcTypeOK'
  <2>1. leaving[p] + 1 \in 0 .. MaxCreates
    BY <1>13 DEF Dealloc, SlotInv, CountInv
  <2>2. ui' \in UiPcs /\ target' \in 0 .. NProcs /\ early' \in BOOLEAN
    BY <1>13, DelReturnTarget DEF Dealloc, WaitInv
  <2> QED BY <1>13, <2>1, <2>2, EmptySeq DEF Dealloc
<1>14. ASSUME NEW p \in Slots, Leave(p) PROVE ProcTypeOK'
  BY <1>14 DEF Leave
<1>15. ASSUME NEW s \in Services, ServiceBegin(s) \/ ServiceEnd(s)
       PROVE  ProcTypeOK'
  BY <1>15, ZenonT(60) DEF ServiceBegin, ServiceEnd
<1> QED BY <1>1, <1>2, <1>3, <1>4, <1>5, <1>6, <1>7, <1>8, <1>9, <1>10, <1>11,
           <1>12, <1>13, <1>14, <1>15
        DEF ProcNext, Command, UiContinue, Thread, JobEnds, OldThread, Service
-----------------------------------------------------------------------------
(* The numbers that the proofs calculate with.                              *)
LEMMA SlotTypes ==
    ASSUME ProcTypeOK, NEW p \in Slots
    PROVE  /\ mail[p] \in Seq(0 .. MaxJobs) /\ Len(mail[p]) \in Nat
           /\ sent[p] \in Nat /\ ran[p] \in Nat /\ msg[p] \in Nat
           /\ leaving[p] \in Nat /\ creates \in Nat
           /\ Held(p) \in {0, 1} /\ Due(p) \in Int
<1>1. mail[p] \in Seq(0 .. MaxJobs)
  BY DEF ProcTypeOK
<1> QED BY <1>1, LenProperties, ProcessesAssumption DEF ProcTypeOK, Held, Due

(* The next message of a process is its next job, and after the last of     *)
(* them fcDel, which is only there when PROC_DEL is set.                    *)
LEMMA NextMessage ==
    ASSUME ProcIInv, NEW p \in Slots, pc[p] = "wait", mail[p] # <<>>
    PROVE  /\ Head(mail[p]) = mail[p][1] /\ Len(mail[p]) >= 1
           /\ Head(mail[p]) = IF Due(p) >= 1 THEN ran[p] + 1 ELSE fcDel
           /\ Head(mail[p]) = fcDel => del[p] /\ Due(p) = 0
<1>1. ~ junk[p] /\ Held(p) = 0
  BY DEF ProcIInv, SlotInv, Held
<1>2. Head(mail[p]) = mail[p][1] /\ Len(mail[p]) >= 1
  <2>1. mail[p] \in Seq(0 .. MaxJobs)
    BY SlotTypes DEF ProcIInv
  <2> QED BY <2>1, EmptySeq
<1>3. /\ Len(mail[p]) = Due(p) + (IF del[p] THEN 1 ELSE 0)
      /\ mail[p][1] = IF 1 <= Due(p) THEN ran[p] + 1 ELSE fcDel
  BY <1>1, <1>2, SlotTypes DEF ProcIInv, OrderInv, OrderIn
<1>4. ran[p] \in Nat /\ Due(p) \in Int /\ Due(p) >= 0
  BY SlotTypes DEF ProcIInv, CountInv, Due
<1> QED BY <1>2, <1>3, <1>4 DEF fcDel

(* In a slot that is not junk the process has a thread, and no other.       *)
LEMMA SlotStep ==
    ASSUME ProcIInv, [ProcNext]_procVars
    PROVE  SlotInv' /\ CountInv'
<1> USE DEF SlotInv, CountInv, uiVars, slotVars, threadVars
<1>1. \A p \in Slots :
        /\ mail[p] \in Seq(0 .. MaxJobs)
        /\ sent[p] \in Nat /\ ran[p] \in Nat
        /\ leaving[p] \in Nat /\ creates \in Nat
  BY SlotTypes DEF ProcIInv
<1>2. /\ junk \in [Slots -> BOOLEAN] /\ del \in [Slots -> BOOLEAN]
      /\ mail \in [Slots -> Seq(0 .. MaxJobs)]
      /\ running \in [Slots -> BOOLEAN] /\ pc \in [Slots -> ThreadPcs]
      /\ msg \in [Slots -> 0 .. MaxJobs] /\ leaving \in [Slots -> 0 .. MaxCreates]
      /\ sent \in [Slots -> 0 .. MaxJobs] /\ ran \in [Slots -> 0 .. MaxJobs]
  BY DEF ProcIInv, ProcTypeOK
<1>3. SlotInv /\ CountInv
  BY DEF ProcIInv
<1>4. CASE \/ UNCHANGED procVars \/ LockJobDone \/ ClearJobDone \/ EnqueueJobDone
           \/ Started \/ ExitNext \/ Exit \/ StartService \/ ServiceStarted
           \/ StopService \/ ServiceStopped \/ Answer \/ Fail \/ WakeUp
           \/ \E p \in Slots : JobAborts(p)
           \/ \E s \in Services : ServiceBegin(s) \/ ServiceEnd(s)
  <2>1. UNCHANGED <<junk, del, running, pc, msg, leaving, sent, ran, creates>>
    BY <1>4
       DEF procVars, histVars, LockJobDone, ClearJobDone, EnqueueJobDone,
           Started, ExitNext, Exit, StartService, ServiceStarted, StopService,
           ServiceStopped, Answer, Fail, WakeUp, JobAborts, ServiceBegin,
           ServiceEnd
  <2> QED BY <1>3, <2>1
<1>5. ASSUME NEW p \in Slots, SendJob(p) PROVE SlotInv' /\ CountInv'
  BY <1>1, <1>2, <1>3, <1>5 DEF SendJob, histVars
<1>6. ASSUME NEW p \in Slots, Create(p) PROVE SlotInv' /\ CountInv'
  <2>1. SlotInv'
    BY <1>2, <1>3, <1>6 DEF Create
  <2>2. CountInv'
    BY <1>1, <1>2, <1>3, <1>6 DEF Create
  <2> QED BY <2>1, <2>2
<1>7. ASSUME NEW p \in Slots, Destroy(p) PROVE SlotInv' /\ CountInv'
  BY <1>1, <1>2, <1>3, <1>7 DEF Destroy, histVars
<1>8. ASSUME NEW p \in Slots, ThreadStart(p) \/ UnlockJob(p)
      PROVE  SlotInv' /\ CountInv'
  BY <1>1, <1>2, <1>3, <1>8, ZenonT(60) DEF ThreadStart, UnlockJob, histVars
<1>9. ASSUME NEW p \in Slots, TakeMail(p) PROVE SlotInv' /\ CountInv'
  <2>1. Head(mail[p]) = fcDel => del[p]
    BY <1>9, NextMessage DEF TakeMail
  <2>2. SlotInv'
    BY <1>2, <1>3, <1>9, <2>1 DEF TakeMail
  <2>3. CountInv'
    BY <1>1, <1>2, <1>3, <1>9 DEF TakeMail, histVars
  <2> QED BY <2>2, <2>3
<1>10. ASSUME NEW p \in Slots, RunJob(p) PROVE SlotInv' /\ CountInv'
  <2>1. msg[p] <= sent[p]
    <3>1. ~ junk[p] /\ Held(p) = 1 /\ msg[p] # fcDel
      BY <1>3, <1>10 DEF RunJob, Held
    <3>2. Due(p) >= 1 /\ msg[p] = ran[p] + 1
      BY <3>1 DEF ProcIInv, OrderInv, OrderIn
    <3> QED BY <1>1, <3>2 DEF Due
  <2>2. SlotInv'
    BY <1>2, <1>3, <1>10 DEF RunJob
  <2>3. CountInv'
    BY <1>1, <1>2, <1>3, <1>10, <2>1 DEF RunJob, histVars
  <2> QED BY <2>2, <2>3
<1>11. ASSUME NEW p \in Slots, Dealloc(p) PROVE SlotInv' /\ CountInv'
  <2>1. SlotInv'
    BY <1>1, <1>2, <1>3, <1>11 DEF Dealloc
  <2>2. CountInv'
    BY <1>1, <1>2, <1>3, <1>11 DEF Dealloc
  <2> QED BY <2>1, <2>2
<1>12. ASSUME NEW p \in Slots, Leave(p) PROVE SlotInv' /\ CountInv'
  BY <1>1, <1>2, <1>3, <1>12 DEF Leave, histVars
<1> QED BY <1>4, <1>5, <1>6, <1>7, <1>8, <1>9, <1>10, <1>11, <1>12
        DEF ProcNext, Command, UiContinue, Thread, JobEnds, OldThread, Service
-----------------------------------------------------------------------------
(* A step is looked at in the slot where it happens.                         *)
LEMMA OrderKept ==
    ASSUME NEW q \in Slots, OrderIn(q),
           junk'[q] = junk[q], del'[q] = del[q], mail'[q] = mail[q],
           msg'[q] = msg[q], sent'[q] = sent[q], ran'[q] = ran[q],
           pc'[q] \in {"job", "del"} <=> pc[q] \in {"job", "del"}
    PROVE  OrderIn(q)'
BY DEF OrderIn, Held, Due

LEMMA OrderStep ==
    ASSUME ProcIInv, [ProcNext]_procVars
    PROVE  OrderInv'
<1> USE DEF uiVars, slotVars, threadVars
<1>1. /\ junk \in [Slots -> BOOLEAN] /\ del \in [Slots -> BOOLEAN]
      /\ mail \in [Slots -> Seq(0 .. MaxJobs)]
      /\ pc \in [Slots -> ThreadPcs]
      /\ msg \in [Slots -> 0 .. MaxJobs]
      /\ sent \in [Slots -> 0 .. MaxJobs] /\ ran \in [Slots -> 0 .. MaxJobs]
  BY DEF ProcIInv, ProcTypeOK
<1>2. \A p \in Slots : OrderIn(p)
  BY DEF ProcIInv, OrderInv, OrderIn
<1> SUFFICES ASSUME NEW q \in Slots PROVE OrderIn(q)'
  BY DEF OrderInv, OrderIn
<1>4. CASE \/ UNCHANGED procVars \/ LockJobDone \/ ClearJobDone \/ EnqueueJobDone
           \/ Started \/ ExitNext \/ Exit \/ StartService \/ ServiceStarted
           \/ StopService \/ ServiceStopped \/ Answer \/ Fail \/ WakeUp
           \/ \E p \in Slots : JobAborts(p) \/ Leave(p)
           \/ \E s \in Services : ServiceBegin(s) \/ ServiceEnd(s)
  <2>1. UNCHANGED <<junk, del, mail, pc, msg, sent, ran>>
    BY <1>4
       DEF procVars, LockJobDone, ClearJobDone, EnqueueJobDone, Started,
           ExitNext, Exit, StartService, ServiceStarted, StopService,
           ServiceStopped, Answer, Fail, WakeUp, JobAborts, Leave, ServiceBegin,
           ServiceEnd
  <2> QED BY <1>2, <2>1, OrderKept
<1>5. ASSUME NEW p \in Slots, p # q,
             \/ SendJob(p) \/ Create(p) \/ Destroy(p) \/ ThreadStart(p)
             \/ TakeMail(p) \/ RunJob(p) \/ UnlockJob(p) \/ Dealloc(p)
      PROVE  OrderIn(q)'
  <2>1. CASE SendJob(p) \/ Create(p)
    BY <1>1, <1>2, <1>5, <2>1, OrderKept DEF SendJob, Create
  <2>2. CASE Destroy(p) \/ ThreadStart(p) \/ TakeMail(p)
    BY <1>1, <1>2, <1>5, <2>2, OrderKept DEF Destroy, ThreadStart, TakeMail
  <2>3. CASE RunJob(p) \/ UnlockJob(p) \/ Dealloc(p)
    BY <1>1, <1>2, <1>5, <2>3, OrderKept DEF RunJob, UnlockJob, Dealloc
  <2> QED BY <1>5, <2>1, <2>2, <2>3
<1>6. /\ mail[q] \in Seq(0 .. MaxJobs) /\ Len(mail[q]) \in Nat
      /\ sent[q] \in Nat /\ ran[q] \in Nat /\ Due(q) \in Nat /\ Held(q) \in {0, 1}
      /\ Due(q) = sent[q] - ran[q]
  BY SlotTypes DEF ProcIInv, CountInv, Due
<1>7. CASE SendJob(q)
  <2>1. /\ ~ junk[q] /\ ~ del[q] /\ Held(q)' = Held(q) /\ Due(q)' = Due(q) + 1
        /\ sent[q] + 1 \in 0 .. MaxJobs
        /\ mail'[q] = Append(mail[q], sent[q] + 1)
        /\ UNCHANGED <<junk, del, msg, ran>>
    <3>1. /\ ~ junk[q] /\ ~ del[q] /\ sent'[q] = sent[q] + 1 /\ sent[q] < MaxJobs
          /\ mail'[q] = Append(mail[q], sent[q] + 1)
          /\ UNCHANGED <<junk, del, pc, msg, ran>>
      BY <1>1, <1>7 DEF SendJob, Accepts
    <3>2. Held(q)' = Held(q)
      BY <3>1 DEF Held
    <3>3. Due(q)' = Due(q) + 1
      BY <1>6, <3>1 DEF Due
    <3>4. sent[q] + 1 \in 0 .. MaxJobs
      BY <1>6, <3>1, ProcessesAssumption
    <3> QED BY <3>1, <3>2, <3>3, <3>4
  <2>2. /\ Len(mail'[q]) = Len(mail[q]) + 1
        /\ \A i \in 1 .. Len(mail[q]) : mail'[q][i] = mail[q][i]
        /\ mail'[q][Len(mail[q]) + 1] = sent[q] + 1
    BY <1>6, <2>1, AppendProperties
  <2>3. Len(mail[q]) + Held(q) = Due(q)
    BY <1>2, <1>6, <2>1 DEF OrderIn
  <2>4. ASSUME NEW i \in 1 .. Len(mail'[q])
        PROVE  mail'[q][i] = ran[q] + i + Held(q) /\ i + Held(q) <= Due(q) + 1
    <3>1. CASE i = Len(mail[q]) + 1
      <4>1. mail'[q][i] = sent[q] + 1
        BY <2>2, <3>1
      <4>2. i + Held(q) = Due(q) + 1
        BY <1>6, <2>3, <3>1
      <4>3. ran[q] + i + Held(q) = sent[q] + 1
        <5>1. i \in Int /\ Held(q) \in Int /\ ran[q] \in Int /\ sent[q] \in Int
          BY <1>6, <3>1
        <5>2. i + Held(q) = sent[q] - ran[q] + 1
          BY <1>6, <4>2
        <5> QED BY <5>1, <5>2
      <4> QED BY <1>6, <4>1, <4>2, <4>3
    <3>2. CASE i \in 1 .. Len(mail[q])
      <4>1. i + Held(q) <= Due(q)
        BY <1>6, <2>3, <3>2
      <4> QED BY <1>2, <1>6, <2>1, <2>2, <3>2, <4>1 DEF OrderIn
    <3> QED BY <1>6, <2>2, <3>1, <3>2
  <2>5. Held(q) = 1 => Due(q) >= 1 /\ msg[q] = ran[q] + 1
    BY <1>2, <1>6, <2>1, <2>3 DEF OrderIn
  <2> QED BY <1>6, <2>1, <2>2, <2>3, <2>4, <2>5 DEF OrderIn
<1>8. CASE Create(q)
  <2>1. /\ mail'[q] = <<>> /\ sent'[q] = 0 /\ ran'[q] = 0 /\ ~ del'[q]
        /\ pc'[q] = "start"
    BY <1>1, <1>8 DEF Create
  <2> QED BY <2>1 DEF OrderIn, Held, Due
<1>9. CASE Destroy(q)
  <2>1. /\ del'[q] /\ Held(q)' = Held(q) /\ Due(q)' = Due(q)
        /\ UNCHANGED <<junk, msg, ran>> /\ ~ junk[q]
    BY <1>1, <1>9 DEF Destroy, Held, Due
  <2>2. CASE del[q]
    <3>1. mail' = mail
      BY <1>9, <2>2 DEF Destroy, Accepts
    <3> QED BY <1>2, <2>1, <2>2, <3>1 DEF OrderIn
  <2>3. CASE ~ del[q]
    <3>1. mail'[q] = Append(mail[q], fcDel)
      BY <1>1, <1>9, <2>3 DEF Destroy, Accepts
    <3>2. fcDel \in 0 .. MaxJobs
      BY ProcessesAssumption DEF fcDel
    <3>3. /\ Len(mail'[q]) = Len(mail[q]) + 1
          /\ \A i \in 1 .. Len(mail[q]) : mail'[q][i] = mail[q][i]
          /\ mail'[q][Len(mail[q]) + 1] = fcDel
      BY <1>6, <3>1, <3>2, AppendProperties
    <3>4. Len(mail[q]) + Held(q) = Due(q)
      BY <1>2, <1>6, <2>1, <2>3 DEF OrderIn
    <3>5. ASSUME NEW i \in 1 .. Len(mail'[q])
          PROVE  mail'[q][i] = IF i + Held(q) <= Due(q) THEN ran[q] + i + Held(q)
                               ELSE fcDel
      <4>1. CASE i = Len(mail[q]) + 1
        BY <1>6, <3>3, <3>4, <4>1
      <4>2. CASE i \in 1 .. Len(mail[q])
        BY <1>2, <2>1, <3>3, <4>2 DEF OrderIn
      <4> QED BY <1>6, <3>3, <4>1, <4>2
    <3> QED BY <1>2, <1>6, <2>1, <2>3, <3>3, <3>4, <3>5 DEF OrderIn
  <2> QED BY <2>2, <2>3
<1>10. CASE ThreadStart(q) \/ UnlockJob(q)
  BY <1>1, <1>2, <1>10, OrderKept DEF ThreadStart, UnlockJob
<1>11. CASE TakeMail(q)
  <2>1. /\ pc[q] = "wait" /\ pc'[q] \in {"job", "del"}
        /\ msg'[q] = Head(mail[q]) /\ mail'[q] = Tail(mail[q]) /\ mail[q] # <<>>
        /\ UNCHANGED <<junk, del, sent, ran>>
    BY <1>1, <1>11 DEF TakeMail
  <2>2. ~ junk[q] /\ Held(q) = 0 /\ Held(q)' = 1 /\ Due(q)' = Due(q)
    BY <2>1 DEF ProcIInv, SlotInv, Held, Due
  <2>3. /\ Len(mail'[q]) = Len(mail[q]) - 1
        /\ \A i \in 1 .. Len(mail'[q]) : mail'[q][i] = mail[q][i + 1]
    BY <1>6, <2>1, HeadTailProperties
  <2>4. msg'[q] = IF Due(q) >= 1 THEN ran[q] + 1 ELSE fcDel
    BY <2>1, NextMessage
  <2>5. ASSUME NEW i \in 1 .. Len(mail'[q])
        PROVE  mail'[q][i] = IF i + 1 <= Due(q) THEN ran[q] + i + 1 ELSE fcDel
    <3>1. i + 1 \in 1 .. Len(mail[q]) /\ ran[q] + (i + 1) = ran[q] + i + 1
      BY <1>6, <2>3
    <3>2. ASSUME NEW j \in 1 .. Len(mail[q])
          PROVE  mail[q][j] = IF j <= Due(q) THEN ran[q] + j ELSE fcDel
      BY <1>2, <1>6, <2>2 DEF OrderIn
    <3>3. mail'[q][i] = mail[q][i + 1]
      BY <2>3
    <3> QED BY <3>1, <3>2, <3>3
  <2>6. Len(mail[q]) = Due(q) + (IF del[q] THEN 1 ELSE 0)
    BY <1>2, <1>6, <2>2 DEF OrderIn
  <2>7. Len(mail'[q]) + 1 = Due(q)' + (IF del'[q] THEN 1 ELSE 0)
    BY <1>6, <2>1, <2>2, <2>3, <2>6
  <2>8. \A i \in 1 .. Len(mail'[q]) :
            mail'[q][i] = IF i + Held(q)' <= Due(q)' THEN ran'[q] + i + Held(q)'
                          ELSE fcDel
    BY <2>1, <2>2, <2>5
  <2>9. /\ Len(mail'[q]) + Held(q)' = Due(q)' + (IF del'[q] THEN 1 ELSE 0)
        /\ msg'[q] = IF Due(q)' >= 1 THEN ran'[q] + 1 ELSE fcDel
    BY <2>1, <2>2, <2>4, <2>7
  <2> QED BY <2>8, <2>9 DEF OrderIn
<1>12. CASE RunJob(q)
  <2>1. /\ pc[q] = "job" /\ pc'[q] = "unlock" /\ ran'[q] = msg[q]
        /\ UNCHANGED <<junk, del, mail, sent>>
    BY <1>1, <1>12 DEF RunJob
  <2>2. ~ junk[q] /\ Held(q) = 1 /\ Held(q)' = 0 /\ msg[q] # fcDel
    BY <2>1 DEF ProcIInv, SlotInv, CountInv, Held
  <2>3. Due(q) >= 1 /\ ran'[q] = ran[q] + 1
    BY <1>2, <2>1, <2>2 DEF OrderIn
  <2>4. Due(q)' = Due(q) - 1
    BY <1>6, <2>1, <2>3 DEF Due
  <2>5. Len(mail[q]) + 1 = Due(q) + (IF del[q] THEN 1 ELSE 0)
    BY <1>2, <1>6, <2>2 DEF OrderIn
  <2>6. ASSUME NEW i \in 1 .. Len(mail[q])
        PROVE  mail[q][i] = IF i <= Due(q) - 1 THEN ran[q] + 1 + i ELSE fcDel
    <3>1. i \in Nat /\ ran[q] + i + 1 = ran[q] + 1 + i
      BY <1>6
    <3> QED BY <1>2, <1>6, <2>2, <3>1 DEF OrderIn
  <2> QED BY <1>6, <2>1, <2>2, <2>3, <2>4, <2>5, <2>6 DEF OrderIn
<1>13. CASE Dealloc(q)
  BY <1>1, <1>13 DEF Dealloc, OrderIn
<1> QED BY <1>4, <1>5, <1>7, <1>8, <1>9, <1>10, <1>11, <1>12, <1>13
        DEF ProcNext, Command, UiContinue, Thread, JobEnds, OldThread, Service
-----------------------------------------------------------------------------
(* At the exit the interface goes on to the next slot, and when it has not  *)
(* waited for the process in this one it says so.                           *)
LEMMA DelReturnWaits ==
    ASSUME WaitInv, ui = "delwait", DelReturn, exiting' = exiting,
           target \in 0 .. NProcs, \A p \in Slots : junk[p] => junk'[p]
    PROVE  WaitInv'
<1>1. ui' \in {"exit", "cmd"} /\ (exiting <=> ui' = "exit")
  BY DEF DelReturn
<1>2. ~ early' => ~ early /\ junk'[target]
  BY DEF DelReturn
<1>3. ASSUME ~ early', exiting, NEW p \in Slots, p < target' PROVE junk'[p]
  <2>1. target' = target + 1
    BY <1>3 DEF DelReturn
  <2>2. p < target \/ p = target
    BY <1>3, <2>1 DEF Slots
  <2>3. p < target => junk[p]
    BY <1>2, <1>3 DEF WaitInv
  <2> QED BY <1>2, <1>3, <2>2, <2>3
<1> QED BY <1>1, <1>3 DEF WaitInv

(* What the interface waits for.                                            *)
LEMMA WaitStep ==
    ASSUME ProcIInv, [ProcNext]_procVars
    PROVE  WaitInv'
<1> USE DEF WaitInv, uiVars, slotVars, threadVars, jobVars
<1>1. /\ junk \in [Slots -> BOOLEAN] /\ target \in 0 .. NProcs
      /\ WaitInv /\ \A p \in Slots : junk[p] => pc[p] = "none"
  BY DEF ProcIInv, ProcTypeOK, SlotInv
<1>2. CASE UNCHANGED procVars
  BY <1>1, <1>2 DEF procVars, histVars
<1>3. CASE LockJobDone \/ ClearJobDone \/ EnqueueJobDone
  BY <1>1, <1>3 DEF LockJobDone, ClearJobDone, EnqueueJobDone, histVars
<1>4. CASE Started \/ ExitNext \/ Exit
  <2>1. CASE Started \/ Exit
    BY <1>1, <2>1 DEF Started, Exit, histVars, Slots
  <2>2. CASE ExitNext
    <3>1. /\ ui = "exit" /\ exiting /\ UNCHANGED <<exiting, junk, jobHeld, early>>
          /\ \/ target = NProcs /\ ui' = "stop" /\ target' = target
             \/ /\ target < NProcs /\ junk[target] /\ target' = target + 1
                /\ ui' = ui
      BY <1>1, <2>2 DEF ExitNext, histVars
    <3>2. \A p \in Slots : p < NProcs /\ (p < target + 1 => p < target \/ p = target)
      BY <1>1, ProcessesAssumption DEF Slots
    <3> QED BY <1>1, <3>1, <3>2
  <2> QED BY <1>4, <2>1, <2>2
<1>5. CASE StartService \/ ServiceStarted \/ StopService \/ ServiceStopped
  BY <1>1, <1>5
     DEF StartService, ServiceStarted, StopService, ServiceStopped, histVars
<1>6. CASE Answer \/ Fail
  BY <1>1, <1>6 DEF Answer, Fail, SelfSignal, histVars
<1>7. CASE WakeUp
  <2>1. CASE ui = "condwait"
    BY <1>1, <1>7, <2>1 DEF WakeUp
  <2>2. CASE ui = "delwait"
    BY <1>1, <1>7, <2>2, DelReturnWaits DEF WakeUp
  <2> QED BY <1>7, <2>1, <2>2 DEF WakeUp
<1>8. ASSUME NEW p \in Slots, SendJob(p) \/ Create(p) \/ Destroy(p)
      PROVE  WaitInv'
  <2>1. CASE SendJob(p)
    BY <1>1, <2>1 DEF SendJob, histVars
  <2>2. CASE Create(p)
    BY <1>1, <2>2 DEF Create
  <2>3. CASE Destroy(p)
    <3>1. UNCHANGED <<exiting, junk, jobHeld, early>> /\ target' = p /\ ui' = "delwait"
      BY <2>3 DEF Destroy, histVars
    <3>2. exiting => target' = target
      BY <1>1, <2>3 DEF Destroy
    <3>3. exiting => ui = "exit"
      BY <1>1, <2>3 DEF Destroy
    <3> QED BY <1>1, <3>1, <3>2, <3>3
  <2> QED BY <1>8, <2>1, <2>2, <2>3
<1>9. ASSUME NEW p \in Slots, ThreadStart(p) \/ TakeMail(p) \/ Leave(p)
      PROVE  WaitInv'
  BY <1>1, <1>9 DEF ThreadStart, TakeMail, Leave, histVars
<1>10. ASSUME NEW p \in Slots, RunJob(p) \/ UnlockJob(p) PROVE WaitInv'
  BY <1>1, <1>10 DEF RunJob, UnlockJob, histVars
<1>11. ASSUME NEW p \in Slots, JobAborts(p) PROVE WaitInv'
  BY <1>1, <1>11 DEF JobAborts, ProcIInv, SvcInv, histVars
<1>12. ASSUME NEW p \in Slots, Dealloc(p) PROVE WaitInv'
  <2>1. junk' = [junk EXCEPT ![p] = TRUE] /\ exiting' = exiting /\ jobHeld' = jobHeld
    BY <1>12 DEF Dealloc
  <2>2. CASE ui = "delwait"
    BY <1>1, <1>12, <2>1, <2>2, DelReturnWaits DEF Dealloc
  <2>3. CASE ui # "delwait"
    BY <1>1, <1>12, <2>1, <2>3 DEF Dealloc
  <2> QED BY <2>2, <2>3
<1>13. ASSUME NEW s \in Services, ServiceBegin(s) \/ ServiceEnd(s)
       PROVE  WaitInv'
  BY <1>1, <1>13 DEF ServiceBegin, ServiceEnd, histVars
<1> QED BY <1>2, <1>3, <1>4, <1>5, <1>6, <1>7, <1>8, <1>9, <1>10, <1>11, <1>12,
           <1>13
        DEF ProcNext, Command, UiContinue, Thread, JobEnds, OldThread, Service

(* The interface finds no mutex locked that nobody will unlock.             *)
LEMMA HandshakeStep ==
    ASSUME ProcIInv, [ProcNext]_procVars
    PROVE  HandshakeInv'
<1> USE DEF HandshakeInv, uiVars, slotVars, threadVars, jobVars
<1>1. /\ pc \in [Slots -> ThreadPcs] /\ sent \in [Slots -> 0 .. MaxJobs]
      /\ ran \in [Slots -> 0 .. MaxJobs]
      /\ \A p \in Slots : sent[p] \in Nat /\ ran[p] \in Nat /\ ran[p] <= sent[p]
      /\ HandshakeInv /\ (ui = "condwait" => ~ jobHeld)
  BY SlotTypes DEF ProcIInv, ProcTypeOK, CountInv, WaitInv
<1>2. CASE UNCHANGED procVars
  BY <1>1, <1>2 DEF procVars
<1>3. CASE \/ LockJobDone \/ ClearJobDone \/ EnqueueJobDone \/ Started
           \/ ExitNext \/ Exit
  BY <1>3 DEF LockJobDone, ClearJobDone, EnqueueJobDone, Started, ExitNext, Exit
<1>4. CASE StartService \/ ServiceStarted \/ StopService \/ ServiceStopped
  BY <1>4 DEF StartService, ServiceStarted, StopService, ServiceStopped
<1>5. CASE Answer \/ Fail
  BY <1>5 DEF Answer, Fail, SelfSignal
<1>6. CASE WakeUp
  BY <1>1, <1>6 DEF WakeUp, DelReturn
<1>7. ASSUME NEW p \in Slots, SendJob(p) \/ Create(p) \/ Destroy(p)
      PROVE  HandshakeInv'
  <2>1. CASE SendJob(p)
    BY <1>1, <2>1 DEF SendJob
  <2>2. CASE Create(p) \/ Destroy(p)
    BY <2>2 DEF Create, Destroy
  <2> QED BY <1>7, <2>1, <2>2
<1>8. ASSUME NEW p \in Slots, ThreadStart(p) \/ TakeMail(p) \/ Leave(p)
      PROVE  HandshakeInv'
  BY <1>1, <1>8 DEF ThreadStart, TakeMail, Leave
<1>9. ASSUME NEW p \in Slots, RunJob(p) \/ UnlockJob(p) \/ JobAborts(p)
      PROVE  HandshakeInv'
  <2>1. CASE RunJob(p)
    BY <1>1, <2>1 DEF RunJob
  <2>2. CASE UnlockJob(p) \/ JobAborts(p)
    BY <2>2 DEF UnlockJob, JobAborts
  <2> QED BY <1>9, <2>1, <2>2
<1>10. ASSUME NEW p \in Slots, Dealloc(p) PROVE HandshakeInv'
  <2>1. ui' = "lock" => ui = "lock"
    BY <1>10 DEF Dealloc, DelReturn
  <2>2. UNCHANGED <<sent, ran, jobHeld>> /\ pc[p] = "del"
        /\ pc' = [pc EXCEPT ![p] = "none"]
    BY <1>10 DEF Dealloc
  <2> QED BY <1>1, <2>1, <2>2
<1>11. ASSUME NEW s \in Services, ServiceBegin(s) \/ ServiceEnd(s)
       PROVE  HandshakeInv'
  BY <1>1, <1>11 DEF ServiceBegin, ServiceEnd
<1> QED BY <1>2, <1>3, <1>4, <1>5, <1>6, <1>7, <1>8, <1>9, <1>10, <1>11
        DEF ProcNext, Command, UiContinue, Thread, JobEnds, OldThread, Service
-----------------------------------------------------------------------------
(* Where the interface goes outside the services.                           *)
LEMMA UiBetweenServices ==
    ASSUME ui \notin {"boot", "bootspin", "stop", "stopspin", "down", "aborted"},
           \/ LockJobDone \/ ClearJobDone \/ EnqueueJobDone \/ Started
           \/ ExitNext \/ Exit \/ Answer \/ Fail \/ WakeUp
           \/ \E p \in Slots :
                \/ SendJob(p) \/ Create(p) \/ Destroy(p) \/ ThreadStart(p)
                \/ TakeMail(p) \/ RunJob(p) \/ UnlockJob(p) \/ Dealloc(p)
                \/ Leave(p)
    PROVE  ui' \notin {"boot", "bootspin", "stopspin", "down", "aborted"}
<1> USE DEF uiVars
<1>1. CASE \/ LockJobDone \/ ClearJobDone \/ EnqueueJobDone \/ Started
           \/ ExitNext \/ Exit \/ Answer \/ Fail \/ WakeUp
  BY <1>1 DEF LockJobDone, ClearJobDone, EnqueueJobDone, Started, ExitNext,
              Exit, Answer, Fail, WakeUp, DelReturn
<1>2. ASSUME NEW p \in Slots,
             \/ SendJob(p) \/ Create(p) \/ Destroy(p) \/ ThreadStart(p)
             \/ TakeMail(p) \/ RunJob(p) \/ UnlockJob(p) \/ Dealloc(p) \/ Leave(p)
      PROVE  ui' \notin {"boot", "bootspin", "stopspin", "down", "aborted"}
  BY <1>2 DEF SendJob, Create, Destroy, ThreadStart, TakeMail, RunJob,
              UnlockJob, Dealloc, Leave, DelReturn
<1> QED BY <1>1, <1>2

(* At the start and at the end of the program the threads of the processes  *)
(* do not move the interface.                                               *)
LEMMA UiInServices ==
    ASSUME ui \in {"boot", "bootspin", "stop", "stopspin", "down", "aborted"},
           \/ LockJobDone \/ ClearJobDone \/ EnqueueJobDone \/ Started
           \/ ExitNext \/ Exit \/ Answer \/ Fail \/ WakeUp
           \/ \E p \in Slots :
                \/ SendJob(p) \/ Create(p) \/ Destroy(p) \/ ThreadStart(p)
                \/ TakeMail(p) \/ RunJob(p) \/ UnlockJob(p) \/ Dealloc(p)
                \/ Leave(p)
    PROVE  ui' = ui
<1> USE DEF uiVars
<1>1. CASE \/ LockJobDone \/ ClearJobDone \/ EnqueueJobDone \/ Started
           \/ ExitNext \/ Exit \/ Answer \/ Fail \/ WakeUp
  BY <1>1 DEF LockJobDone, ClearJobDone, EnqueueJobDone, Started, ExitNext,
              Exit, Answer, Fail, WakeUp
<1>2. ASSUME NEW p \in Slots,
             \/ SendJob(p) \/ Create(p) \/ Destroy(p) \/ ThreadStart(p)
             \/ TakeMail(p) \/ RunJob(p) \/ UnlockJob(p) \/ Dealloc(p) \/ Leave(p)
      PROVE  ui' = ui
  BY <1>2 DEF SendJob, Create, Destroy, ThreadStart, TakeMail, RunJob,
              UnlockJob, Dealloc, Leave
<1> QED BY <1>1, <1>2

(* Only their own steps change the services.                                *)
LEMMA ServicesKept ==
    ASSUME \/ LockJobDone \/ ClearJobDone \/ EnqueueJobDone \/ Started
           \/ ExitNext \/ Exit \/ Answer \/ Fail \/ WakeUp
           \/ \E p \in Slots :
                \/ SendJob(p) \/ Create(p) \/ Destroy(p) \/ ThreadStart(p)
                \/ TakeMail(p) \/ RunJob(p) \/ UnlockJob(p) \/ Dealloc(p)
                \/ Leave(p)
    PROVE  UNCHANGED <<turn, svcRunning, svcPc, svcStop, svcGone>>
<1> USE DEF svcVars, svcThreadVars
<1>1. CASE \/ LockJobDone \/ ClearJobDone \/ EnqueueJobDone \/ Started
           \/ ExitNext \/ Exit \/ Answer \/ Fail \/ WakeUp
  BY <1>1 DEF LockJobDone, ClearJobDone, EnqueueJobDone, Started, ExitNext,
              Exit, Answer, Fail, WakeUp
<1>2. ASSUME NEW p \in Slots,
             \/ SendJob(p) \/ Create(p) \/ Destroy(p) \/ ThreadStart(p)
             \/ TakeMail(p) \/ RunJob(p) \/ UnlockJob(p) \/ Dealloc(p) \/ Leave(p)
      PROVE  UNCHANGED <<turn, svcRunning, svcPc, svcStop, svcGone>>
  BY <1>2 DEF SendJob, Create, Destroy, ThreadStart, TakeMail, RunJob,
              UnlockJob, Dealloc, Leave
<1> QED BY <1>1, <1>2

(* The services are started and stopped one after the other.                *)
LEMMA SvcStep ==
    ASSUME ProcIInv, [ProcNext]_procVars
    PROVE  SvcInv'
<1> USE DEF SvcInv, uiVars, svcThreadVars
<1>1. /\ turn \in Services /\ svcPc \in [Services -> SvcPcs]
      /\ svcRunning \in [Services -> BOOLEAN] /\ svcStop \in [Services -> BOOLEAN]
      /\ SvcInv
  BY DEF ProcIInv, ProcTypeOK
<1>2. Services = {"prm", "daemon"} /\ Other \in Services /\ Other # turn
  BY <1>1 DEF Services, Other
<1>3. CASE UNCHANGED procVars
  BY <1>1, <1>3 DEF procVars, svcVars
<1>4. CASE StartService
  BY <1>1, <1>2, <1>4 DEF StartService, SvcPcs
<1>5. CASE ServiceStarted
  BY <1>1, <1>2, <1>5 DEF ServiceStarted, SvcPcs
<1>6. CASE StopService
  BY <1>1, <1>2, <1>6 DEF StopService
<1>7. CASE ServiceStopped
  BY <1>1, <1>2, <1>7 DEF ServiceStopped
<1>8. CASE \/ LockJobDone \/ ClearJobDone \/ EnqueueJobDone \/ Started
           \/ ExitNext \/ Exit \/ Answer \/ Fail \/ WakeUp
           \/ \E p \in Slots :
                \/ SendJob(p) \/ Create(p) \/ Destroy(p) \/ ThreadStart(p)
                \/ TakeMail(p) \/ RunJob(p) \/ UnlockJob(p) \/ Dealloc(p)
                \/ Leave(p)
  <2>1. UNCHANGED <<turn, svcRunning, svcPc, svcStop, svcGone>>
    BY <1>8, ServicesKept
  <2>2. CASE ui \in {"boot", "bootspin", "stop", "stopspin", "down", "aborted"}
    BY <1>1, <1>8, <2>1, <2>2, UiInServices
  <2>3. CASE ui \notin {"boot", "bootspin", "stop", "stopspin", "down", "aborted"}
    BY <1>1, <1>8, <2>1, <2>3, UiBetweenServices
  <2> QED BY <2>2, <2>3
<1>9. ASSUME NEW p \in Slots, JobAborts(p) PROVE SvcInv'
  <2>1. /\ ui' = "aborted" /\ UNCHANGED <<turn, svcRunning, svcPc, svcStop>>
        /\ ui \in {"stop", "stopspin", "down", "aborted"}
    BY <1>1, <1>9 DEF JobAborts, svcVars
  <2> QED BY <1>1, <2>1
<1>10. ASSUME NEW s \in Services, ServiceBegin(s) PROVE SvcInv'
  BY <1>1, <1>2, <1>10 DEF ServiceBegin
<1>11. ASSUME NEW s \in Services, ServiceEnd(s) PROVE SvcInv'
  BY <1>1, <1>2, <1>11 DEF ServiceEnd
<1> QED BY <1>3, <1>4, <1>5, <1>6, <1>7, <1>8, <1>9, <1>10, <1>11
        DEF ProcNext, Command, UiContinue, Thread, JobEnds, OldThread, Service
(* The services outlive the processes.                                      *)
LEMMA ServiceStep ==
    ASSUME ProcIInv, [ProcNext]_procVars
    PROVE  ServiceInv'
<1> USE DEF ServiceInv, uiVars, threadVars, svcThreadVars, histVars
<1>1. /\ turn \in Services /\ svcPc \in [Services -> SvcPcs]
      /\ svcRunning \in [Services -> BOOLEAN] /\ svcStop \in [Services -> BOOLEAN]
      /\ pc \in [Slots -> ThreadPcs] /\ ServiceInv
  BY DEF ProcIInv, ProcTypeOK
<1>2. \A s \in Services : svcRunning[s] <=> svcPc[s] = "work"
  BY DEF ProcIInv, SvcInv
<1>3. ~ early /\ ui \in {"stop", "stopspin", "down"} => \A p \in Slots : pc[p] = "none"
  BY DEF ProcIInv, WaitInv, SlotInv
<1>4. CASE UNCHANGED procVars
  BY <1>1, <1>4 DEF procVars, svcVars
<1>5. CASE StartService
  <2>1. \A p \in Slots : pc[p] = "none"
    BY <1>5 DEF StartService, ProcIInv, WaitInv, SlotInv
  <2>2. svcPc[turn] = "none"
    BY <1>5 DEF StartService, ProcIInv, SvcInv
  <2> QED BY <1>1, <1>5, <2>1, <2>2 DEF StartService
<1>6. CASE ServiceStarted
  BY <1>1, <1>6 DEF ServiceStarted
<1>7. CASE StopService
  BY <1>1, <1>3, <1>7 DEF StopService
<1>8. CASE ServiceStopped
  <2>1. svcPc[turn] = "gone"
    BY <1>1, <1>2, <1>8 DEF ServiceStopped, ProcIInv, SvcInv
  <2> QED BY <1>1, <1>3, <1>8, <2>1 DEF ServiceStopped
<1>9. ASSUME \/ LockJobDone \/ ClearJobDone \/ EnqueueJobDone \/ Started
             \/ ExitNext \/ Exit \/ Answer \/ Fail \/ WakeUp
             \/ \E p \in Slots :
                  \/ SendJob(p) \/ Create(p) \/ Destroy(p) \/ ThreadStart(p)
                  \/ TakeMail(p) \/ RunJob(p) \/ UnlockJob(p) \/ Dealloc(p)
                  \/ Leave(p)
      PROVE  ServiceInv'
  <2>1. UNCHANGED <<turn, svcRunning, svcPc, svcStop, svcGone>>
    BY <1>9, ServicesKept
  <2>2. ui' # "aborted" \/ ui = "aborted"
    BY <1>9, UiBetweenServices, UiInServices
  <2>3. early => early'
    BY <1>9 DEF LockJobDone, ClearJobDone, EnqueueJobDone, Started, ExitNext,
                Exit, Answer, Fail, WakeUp, DelReturn, SendJob, Create, Destroy,
                ThreadStart, TakeMail, RunJob, UnlockJob, Dealloc, Leave
  <2>4. CASE \E p \in Slots : Create(p)
    <3>1. \A s \in Services : svcRunning[s] /\ ~ svcStop[s]
      <4>1. ui = "cmd"
        BY <2>4 DEF Create
      <4> QED BY <4>1 DEF ProcIInv, SvcInv
    <3> QED BY <1>1, <2>1, <2>2, <2>3, <3>1
  <2>5. ASSUME ~ \E p \in Slots : Create(p), NEW q \in Slots, pc'[q] # "none"
        PROVE  pc[q] # "none"
    BY <1>1, <1>9, <2>5
       DEF LockJobDone, ClearJobDone, EnqueueJobDone, Started, ExitNext, Exit,
           Answer, Fail, WakeUp, SendJob, Destroy, ThreadStart, TakeMail,
           RunJob, UnlockJob, Dealloc, Leave
  <2> QED BY <1>1, <2>1, <2>2, <2>3, <2>4, <2>5
<1>10. ASSUME NEW p \in Slots, JobAborts(p) PROVE ServiceInv'
  <2>1. early /\ early' = early /\ svcGone' = svcGone /\ svcPc' = svcPc
    BY <1>1, <1>10 DEF JobAborts, svcVars
  <2> QED BY <1>1, <2>1
<1>11. ASSUME NEW s \in Services, ServiceBegin(s) PROVE ServiceInv'
  BY <1>1, <1>2, <1>11 DEF ServiceBegin
<1>12. ASSUME NEW s \in Services, ServiceEnd(s) PROVE ServiceInv'
  <2>1. ~ early => \A p \in Slots : pc[p] = "none"
    BY <1>1, <1>12 DEF ServiceEnd
  <2> QED BY <1>1, <1>12, <2>1 DEF ServiceEnd
<1> QED BY <1>4, <1>5, <1>6, <1>7, <1>8, <1>9, <1>10, <1>11, <1>12
        DEF ProcNext, Command, UiContinue, Thread, JobEnds, OldThread, Service

-----------------------------------------------------------------------------
LEMMA NextProcIInv == ProcIInv /\ [ProcNext]_procVars => ProcIInv'
BY TypeStep, SlotStep, OrderStep, WaitStep, SvcStep, HandshakeStep, ServiceStep
   DEF ProcIInv

LEMMA ProcInvariance == ProcSpec => []ProcIInv
BY InitProcIInv, NextProcIInv, PTL DEF ProcSpec

(* The slots, the mailboxes and the numbers stay in their types (pcb.h).    *)
THEOREM ProcTypeCorrect == ProcSpec => []ProcTypeOK
BY ProcInvariance, PTL DEF ProcIInv

(* A slot has a thread exactly while it is not junk, and worker_thread_start *)
(* sees no flag that the last thread of the slot has left set.              *)
THEOREM SlotsSafe == ProcSpec => []SlotInv
BY ProcInvariance, PTL DEF ProcIInv

(* The jobs that compose_mail accepts are run once and in order, and        *)
(* process_dealloc drops none of them.                                      *)
THEOREM MailSafe == ProcSpec => []MailInv
<1>1. ProcIInv => MailInv
  BY OrderOfMail DEF ProcIInv
<1> QED BY <1>1, ProcInvariance, PTL

(* wait_job_done never finds job_done_mutex locked with nobody left to      *)
(* unlock it, though it is locked in one thread and unlocked in another.    *)
THEOREM HandshakeSafe == ProcSpec => []HandshakeInv
BY ProcInvariance, PTL DEF ProcIInv

(* No job finds the page replacement manager or the aging daemon stopped,   *)
(* and neither is destroyed under its thread (free_app_data).               *)
THEOREM ServicesSafe == ProcSpec => []ServiceInv
BY ProcInvariance, PTL DEF ProcIInv
=============================================================================
