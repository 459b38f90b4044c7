------------------------------ MODULE TshProofs ------------------------------
(***************************************************************************)
(* Theorems about Tsh, for any number of children and jobs: first under    *)
(* any user (Spec), then under a careful one (CarefulSpec), who names jobs *)
(* that exist and leaves room in the job list.                             *)
(***************************************************************************)
EXTENDS Tsh, SequenceTheorems, FiniteSetTheorems, WellFoundedInduction, TLAPS

(***************************************************************************)
(* Searches in the job list find what they look for.                       *)
(***************************************************************************)
LEMMA LeastExists ==
  ASSUME NEW S \in SUBSET Nat, S # {}
  PROVE  \E x \in S : \A y \in S : x <= y
<1> DEFINE Less == {ss \in Nat \X Nat : ss[1] < ss[2]}
<1>1. IsWellFoundedOn(Less, Nat)
  BY NatLessThanWellFounded DEF OpToRel
<1>2. PICK x \in S : \A y \in S : ~ (<<y, x>> \in Less)
  <2> HIDE DEF Less
  <2> QED BY <1>1, WFMin
<1>3. ASSUME NEW y \in S PROVE x <= y
  <2>1. <<y, x>> \notin Less /\ x \in Nat /\ y \in Nat
    BY <1>2
  <2> QED BY <2>1
<1> QED BY <1>3

LEMMA JidFacts == MaxJobs \in Nat /\ \A j \in Jid : j \in Nat /\ j # 0
BY TshAssumption DEF Jid

LEMMA FirstOfFacts ==
  ASSUME NEW S \in SUBSET Jid
  PROVE  /\ FirstOf(S) \in S \cup {0}
         /\ FirstOf(S) = 0 <=> S = {}
<1>1. CASE S = {}
  BY <1>1 DEF FirstOf
<1>2. CASE S # {}
  <2>1. \E x \in S : \A y \in S : x <= y
    BY <1>2, JidFacts, LeastExists
  <2>2. FirstOf(S) \in S
    BY <1>2, <2>1 DEF FirstOf
  <2> QED BY <1>2, <2>2, JidFacts
<1> QED BY <1>1, <1>2

\* The largest is where the distance to MaxJobs is least.
LEMMA MaxJidFacts ==
  ASSUME NEW S \in SUBSET Jid
  PROVE  /\ MaxJid(S) \in S \cup {0}
         /\ \A k \in S : k <= MaxJid(S)
<1>1. CASE S = {}
  BY <1>1 DEF MaxJid
<1>2. CASE S # {}
  <2> DEFINE D == {MaxJobs - k : k \in S}
  <2>1. \A k \in S : k \in Nat /\ MaxJobs - k \in Nat
    BY JidFacts DEF Jid
  <2>2. D \in SUBSET Nat /\ D # {}
    BY <1>2, <2>1
  <2>3. PICK d \in D : \A y \in D : d <= y
    <3> HIDE DEF D
    <3> QED BY <2>2, LeastExists
  <2>4. PICK j \in S : d = MaxJobs - j
    BY <2>3
  <2>5. ASSUME NEW k \in S PROVE k <= j
    <3>1. MaxJobs - k \in D
      OBVIOUS
    <3>2. MaxJobs - j <= MaxJobs - k
      BY <2>3, <2>4, <3>1
    <3> QED BY <2>1, <2>4, <3>2, JidFacts
  <2>6. MaxJid(S) \in S /\ \A k \in S : k <= MaxJid(S)
    BY <1>2, <2>5 DEF MaxJid
  <2> QED BY <2>6
<1> QED BY <1>1, <1>2

LEMMA MaxJidIs ==
  ASSUME NEW S \in SUBSET Jid, NEW j \in S, \A k \in S : k <= j
  PROVE  MaxJid(S) = j
<1>1. j <= MaxJid(S) /\ MaxJid(S) \in S \cup {0}
  BY MaxJidFacts
<1>2. j \in Nat /\ j # 0 /\ \A k \in S : k \in Nat
  BY JidFacts
<1>3. MaxJid(S) \in S
  BY <1>1, <1>2
<1>4. MaxJid(S) <= j /\ MaxJid(S) \in Nat
  BY <1>2, <1>3
<1> QED BY <1>1, <1>2, <1>4

-----------------------------------------------------------------------------
(***************************************************************************)
(* The inductive invariant.  waitpid reports changes of processes only     *)
(* that are there: each iteration of sigchld_handler's loop meets one of   *)
(* its three cases.                                                        *)
(***************************************************************************)
ReportsReal == \A p \in Pid : proc[p].unreported => proc[p].life # "none"

IInv == TypeOK /\ OneForeground /\ NextJidExact /\ ReportsReal

\* The parts of it, as the actions change them.
RealProcess == {q \in Process : q.unreported => q.life # "none"}

ListOK ==
  /\ jobs \in [Jid -> Job]
  /\ nextjid \in 1 .. MaxJobs + 1
  /\ NextJidExact

ProcOK    == proc \in [Pid -> RealProcess]
SignalsOK == mask \in SUBSET Signals /\ pending \in SUBSET Signals
StackOK   == stack \in Seq(Frame)
LoopOK    == /\ pc \in {"prompt", "forked", "test", "suspended"} \cup Ended
             /\ cmd \in Command

LEMMA IInvParts ==
  IInv <=> ListOK /\ ProcOK /\ SignalsOK /\ StackOK /\ LoopOK /\ OneForeground
BY DEF IInv, TypeOK, ReportsReal, ListOK, ProcOK, RealProcess, SignalsOK, StackOK,
       LoopOK

LEMMA IInvPartsNext ==
  IInv' <=> /\ ListOK' /\ ProcOK' /\ SignalsOK' /\ StackOK' /\ LoopOK'
            /\ OneForeground'
BY DEF IInv, TypeOK, ReportsReal, ListOK, ProcOK, RealProcess, SignalsOK, StackOK,
       LoopOK

LEMMA UsedJids == Used \subseteq Jid
BY DEF Used

LEMMA ListUnchanged ==
  ASSUME ListOK, UNCHANGED <<jobs, nextjid>>
  PROVE  ListOK'
BY DEF ListOK, NextJidExact, Used

\* delete_job
LEMMA DeleteJobOK ==
  ASSUME ListOK, NEW j \in Jid \cup {0}, DeleteJob(j)
  PROVE  /\ ListOK'
         /\ \A k \in Jid : jobs'[k].state = "FG" => jobs[k].state = "FG"
         /\ j \in Used => /\ Used' = Used \ {j}
                          /\ \A k \in Used \ {j} : jobs'[k] = jobs[k]
<1>1. CASE j \notin Used
  <2>1. UNCHANGED <<jobs, nextjid>>
    BY <1>1 DEF DeleteJob
  <2> QED BY <1>1, <2>1, ListUnchanged
<1>2. CASE j \in Used
  <2>1. jobs' = [jobs EXCEPT ![j] = NoJob] /\ nextjid' = MaxJid(Used \ {j}) + 1
    BY <1>2 DEF DeleteJob
  <2>2. j \in Jid /\ NoJob \in Job /\ NoJob.state = "UNDEF"
    BY <1>2, UsedJids DEF NoJob, Job
  <2>3. jobs' \in [Jid -> Job]
    BY <2>1, <2>2 DEF ListOK
  <2>4. Used' = Used \ {j}
    BY <2>1, <2>2 DEF Used, ListOK
  <2>5. MaxJid(Used \ {j}) \in Jid \cup {0}
    BY MaxJidFacts, UsedJids
  <2>6. nextjid' \in 1 .. MaxJobs + 1
    BY <2>1, <2>5, TshAssumption DEF Jid
  <2>7. \A k \in Jid : jobs'[k].state = "FG" => jobs[k].state = "FG"
    BY <2>1, <2>2 DEF ListOK
  <2>8. \A k \in Used \ {j} : jobs'[k] = jobs[k]
    BY <2>1, UsedJids DEF ListOK
  <2> QED BY <2>1, <2>3, <2>4, <2>6, <2>7, <2>8 DEF ListOK, NextJidExact
<1> QED BY <1>1, <1>2

\* The state of a job that is in the list changes.
LEMMA RestateOK ==
  ASSUME ListOK, NEW j \in Used, NEW s \in {"FG", "BG", "ST"},
         jobs' = [jobs EXCEPT ![j].state = s], UNCHANGED nextjid
  PROVE  /\ ListOK'
         /\ \A k \in Jid : k # j => jobs'[k] = jobs[k]
         /\ jobs'[j].state = s
         /\ Used' = Used /\ \A k \in Used : jobs'[k].pid = jobs[k].pid
<1>1. j \in Jid /\ jobs[j] \in Job /\ jobs[j].state # "UNDEF"
  BY UsedJids DEF ListOK, Used
<1>2. [jobs[j] EXCEPT !.state = s] \in Job
  BY <1>1 DEF Job
<1>3. jobs' = [jobs EXCEPT ![j] = [jobs[j] EXCEPT !.state = s]]
  OBVIOUS
<1>4. /\ jobs' \in [Jid -> Job]
      /\ jobs'[j] = [jobs[j] EXCEPT !.state = s]
      /\ \A k \in Jid : k # j => jobs'[k] = jobs[k]
  BY <1>1, <1>2, <1>3 DEF ListOK
<1>5. jobs'[j].state = s
  BY <1>1, <1>4 DEF Job
<1>6. Used' = Used
  BY <1>1, <1>4, <1>5 DEF Used
<1>7. jobs'[j].pid = jobs[j].pid
  BY <1>1, <1>4 DEF Job
<1>8. \A k \in Used : jobs'[k].pid = jobs[k].pid
  BY <1>4, <1>7, UsedJids
<1> QED BY <1>4, <1>5, <1>6, <1>8 DEF ListOK, NextJidExact

\* add_job takes the slot after the last one.
LEMMA AppendOK ==
  ASSUME ListOK, nextjid \in Jid, NEW new \in Job, new.state # "UNDEF",
         jobs' = [jobs EXCEPT ![nextjid] = new], nextjid' = nextjid + 1
  PROVE  /\ ListOK'
         /\ \A k \in Jid : k # nextjid => jobs'[k] = jobs[k]
         /\ jobs'[nextjid] = new
         /\ Used' = Used \cup {nextjid} /\ nextjid \notin Used
<1>1. /\ jobs' \in [Jid -> Job]
      /\ \A k \in Jid : k # nextjid => jobs'[k] = jobs[k]
      /\ jobs'[nextjid] = new
  BY DEF ListOK
<1>2. Used' = Used \cup {nextjid} /\ Used' \in SUBSET Jid
  BY <1>1 DEF Used
<1>3. \A k \in Used : k <= MaxJid(Used) /\ k \in Nat
  BY MaxJidFacts, UsedJids, JidFacts
<1>4. MaxJid(Used) \in Nat /\ nextjid = MaxJid(Used) + 1
  <2>1. MaxJid(Used) \in Used \cup {0}
    BY MaxJidFacts, UsedJids
  <2>2. MaxJid(Used) \in Jid \cup {0}
    BY <2>1, UsedJids
  <2>3. MaxJid(Used) \in Nat
    BY <2>2, JidFacts
  <2>4. nextjid = MaxJid(Used) + 1
    BY DEF ListOK, NextJidExact
  <2> QED BY <2>3, <2>4
<1>5. \A k \in Used' : k <= nextjid
  BY <1>2, <1>3, <1>4
<1>6. MaxJid(Used') = nextjid
  BY <1>2, <1>5, MaxJidIs
<1>7. nextjid' \in 1 .. MaxJobs + 1
  BY TshAssumption DEF Jid
<1>8. nextjid \notin Used
  BY <1>3, <1>4
<1> QED BY <1>1, <1>2, <1>6, <1>7, <1>8 DEF ListOK, NextJidExact

-----------------------------------------------------------------------------
(***************************************************************************)
(* Foreground jobs.                                                        *)
(***************************************************************************)
LEMMA FgJobFacts ==
  ASSUME ListOK
  PROVE  /\ FgJob \in Jid \cup {0}
         /\ FgJob = 0 <=> \A j \in Jid : jobs[j].state # "FG"
         /\ FgJob # 0 => FgJob \in Used
<1>1. {j \in Jid : jobs[j].state = "FG"} \in SUBSET Jid
  OBVIOUS
<1>2. /\ FgJob \in {j \in Jid : jobs[j].state = "FG"} \cup {0}
      /\ FgJob = 0 <=> {j \in Jid : jobs[j].state = "FG"} = {}
  BY <1>1, FirstOfFacts DEF FgJob
<1> QED BY <1>2 DEF Used

LEMMA NoForeground ==
  ASSUME OneForeground, LoopOK, pc \in {"prompt", "forked"}
  PROVE  \A j \in Jid : jobs[j].state # "FG"
BY DEF OneForeground, Ended

\* A step that makes no job the foreground job, and keeps the main loop
\* waiting if it waits.
LEMMA ForegroundKept ==
  ASSUME OneForeground,
         \A k \in Jid : jobs'[k].state = "FG" => jobs[k].state = "FG",
         \/ pc' = pc
         \/ pc' \in {"test", "suspended"} \cup Ended
  PROVE  OneForeground'
BY DEF OneForeground

LEMMA NoneKept ==
  ASSUME \A k \in Jid : jobs'[k].state # "FG"
  PROVE  OneForeground'
BY DEF OneForeground

\* An action that leaves the job list alone.
LEMMA SameList ==
  ASSUME IInv, UNCHANGED <<jobs, nextjid>>
  PROVE  ListOK' /\ \A k \in Jid : jobs'[k].state = "FG" => jobs[k].state = "FG"
BY IInvParts, ListUnchanged

-----------------------------------------------------------------------------
(***************************************************************************)
(* Processes.                                                              *)
(***************************************************************************)
LEMMA ProcessChange ==
  ASSUME ProcOK, NEW p \in Pid, NEW new \in RealProcess, proc' = [proc EXCEPT ![p] = new]
  PROVE  ProcOK'
BY DEF ProcOK

LEMMA NoProcessType == NoProcess \in RealProcess
BY DEF NoProcess, RealProcess, Process

LEMMA SendGroupOK ==
  ASSUME ProcOK, NEW p, NEW s \in {"INT", "TSTP"}
  PROVE  SendGroup(p, s) \in [Pid -> RealProcess]
<1>1. CASE p \in Pid
  <2>1. [proc[p] EXCEPT !.sigs = @ \cup {s}] \in RealProcess
    BY <1>1 DEF ProcOK, RealProcess, Process
  <2> QED BY <1>1, <2>1 DEF SendGroup, ProcOK
<1>2. CASE p \notin Pid
  BY <1>2 DEF SendGroup, ProcOK
<1> QED BY <1>1, <1>2

LEMMA ContinueGroupOK ==
  ASSUME ProcOK, NEW p
  PROVE  ContinueGroup(p) \in [Pid -> RealProcess]
<1>1. CASE p \in Pid
  <2> DEFINE q == [proc[p] EXCEPT !.life = "running", !.sigs = @ \ {"TSTP"},
                     !.unreported = @ \/ proc[p].life = "stopped"]
  <2>1. q \in RealProcess
    BY <1>1 DEF ProcOK, RealProcess, Process
  <2>2. [proc EXCEPT ![p].life = "running", ![p].sigs = @ \ {"TSTP"},
           ![p].unreported = @ \/ proc[p].life = "stopped"]
          = [proc EXCEPT ![p] = q]
    BY <1>1 DEF ProcOK
  <2> QED BY <1>1, <2>1, <2>2 DEF ContinueGroup, ProcOK
<1>2. CASE p \notin Pid
  BY <1>2 DEF ContinueGroup, ProcOK
<1> QED BY <1>1, <1>2

LEMMA NotifyOK ==
  ASSUME SignalsOK, NEW p
  PROVE  NotifyIfStopped(p) \in SUBSET Signals
BY DEF NotifyIfStopped, SignalsOK, Signals

-----------------------------------------------------------------------------
(***************************************************************************)
(* The main loop.                                                          *)
(***************************************************************************)
LEMMA CommandTypes == NoCommand \in Command
BY DEF NoCommand, Command

LEMMA EvalOK ==
  ASSUME IInv, NEW state \in {"FG", "BG"}, Eval(state)
  PROVE  IInv'
<1>1. PICK p \in Pid :
        /\ proc' = [proc EXCEPT ![p] = [NoProcess EXCEPT !.life = "running",
                                                         !.mask = mask]]
        /\ cmd' = [pid |-> p, state |-> state, saved |-> mask, susp |-> mask]
  BY DEF Eval
<1>2. /\ pc = "prompt" /\ pc' = "forked" /\ mask' = Signals
      /\ UNCHANGED <<jobs, nextjid, pending, stack>>
  BY DEF Eval
<1>3. mask \in SUBSET Signals
  BY IInvParts DEF SignalsOK
<1>4. ProcOK'
  <2>1. [NoProcess EXCEPT !.life = "running", !.mask = mask] \in RealProcess
    BY <1>3 DEF NoProcess, RealProcess, Process
  <2> QED BY <1>1, <2>1, IInvParts, ProcessChange
<1>5. LoopOK'
  BY <1>1, <1>2, <1>3 DEF LoopOK, Command
<1>6. OneForeground'
  BY <1>2, IInvParts, NoForeground, NoneKept
<1>7. SignalsOK' /\ StackOK'
  BY <1>2, IInvParts DEF SignalsOK, StackOK
<1> QED BY <1>2, <1>4, <1>5, <1>6, <1>7, SameList, IInvPartsNext

LEMMA AddJobKeeps ==
  ASSUME IInv, AddJob
  PROVE  IInv'
<1>1. /\ pc = "forked" /\ LoopOK /\ SignalsOK /\ ListOK
      /\ \A j \in Jid : jobs[j].state # "FG"
  BY IInvParts, NoForeground DEF AddJob
<1>2. cmd \in Command /\ NoCommand \in Command /\ mask \in SUBSET Signals
  BY <1>1, CommandTypes DEF LoopOK, SignalsOK
<1>3. LoopOK'
  BY <1>1, <1>2 DEF AddJob, LoopOK, Ended
<1>4. ProcOK' /\ StackOK'
  BY IInvParts DEF AddJob, ProcOK, StackOK
<1>5. SignalsOK'
  BY <1>1, <1>2 DEF AddJob, SignalsOK, Command
<1>6. ListOK' /\ OneForeground'
  <2>1. CASE ~(AddJobAccepts /\ nextjid \in Jid)
    BY <1>1, <2>1, SameList, NoneKept DEF AddJob
  <2>2. CASE AddJobAccepts /\ nextjid \in Jid
    <3> DEFINE new == [pid |-> cmd.pid, state |-> cmd.state]
    <3>1. new \in Job /\ new.state # "UNDEF" /\ new.state \in {"FG", "BG"}
      BY <1>2 DEF Command, Job
    <3>2. jobs' = [jobs EXCEPT ![nextjid] = new] /\ nextjid' = nextjid + 1
      BY <2>2 DEF AddJob
    <3>3. /\ ListOK' /\ jobs'[nextjid] = new
          /\ \A k \in Jid : k # nextjid => jobs'[k] = jobs[k]
      BY <1>1, <2>2, <3>1, <3>2, AppendOK
    <3>4. CASE cmd.state = "BG"
      BY <1>1, <3>3, <3>4, NoneKept
    <3>5. CASE cmd.state # "BG"
      <4>1. pc' = "test"
        BY <2>2, <3>5 DEF AddJob
      <4> QED BY <1>1, <3>3, <4>1 DEF OneForeground
    <3> QED BY <3>3, <3>4, <3>5
  <2> QED BY <2>1, <2>2
<1> QED BY <1>3, <1>4, <1>5, <1>6, IInvPartsNext

LEMMA BgFgOK ==
  ASSUME IInv, NEW j \in Jid, NEW state \in {"FG", "BG"}, BgFg(j, state)
  PROVE  IInv'
<1>1. /\ pc = "prompt" /\ j \in Used /\ UNCHANGED <<nextjid, stack>>
      /\ proc' = ContinueGroup(jobs[j].pid)
      /\ pending' = NotifyIfStopped(jobs[j].pid)
  BY DEF BgFg
<1>2. /\ ListOK /\ LoopOK /\ SignalsOK
      /\ \A k \in Jid : jobs[k].state # "FG"
  BY <1>1, IInvParts, NoForeground
<1>3. FgJob = 0
  BY <1>2, FgJobFacts
<1>4. jobs' = [jobs EXCEPT ![j].state = state]
  BY <1>3 DEF BgFg
<1>5. ProcOK' /\ StackOK'
  <2>1. ProcOK'
    BY <1>1, IInvParts, ContinueGroupOK DEF ProcOK
  <2> QED BY <1>1, <2>1, IInvParts DEF StackOK
<1>6. SignalsOK'
  <2>1. pending' \in SUBSET Signals
    BY <1>1, <1>2, NotifyOK
  <2>2. mask' \in SUBSET Signals
    BY <1>2, <1>3 DEF BgFg, SignalsOK
  <2> QED BY <2>1, <2>2 DEF SignalsOK
<1>7. LoopOK'
  <2>1. CASE state = "FG"
    <3>1. /\ pc' = "test"
          /\ cmd' = [pid |-> jobs[j].pid, state |-> "FG", saved |-> mask, susp |-> {}]
      BY <1>3, <2>1 DEF BgFg
    <3>2. jobs[j].pid \in Pid \cup {NoPid} /\ mask \in SUBSET Signals
      BY <1>2 DEF ListOK, Job, SignalsOK
    <3> QED BY <3>1, <3>2 DEF LoopOK, Command
  <2>2. CASE state # "FG"
    BY <1>2, <2>2 DEF BgFg, LoopOK
  <2> QED BY <2>1, <2>2
<1>8. /\ ListOK' /\ jobs'[j].state = state
      /\ \A k \in Jid : k # j => jobs'[k] = jobs[k]
  BY <1>1, <1>2, <1>4, RestateOK
<1>9. OneForeground'
  <2>1. CASE state = "FG"
    <3>1. pc' = "test"
      BY <1>3, <2>1 DEF BgFg
    <3> QED BY <1>2, <1>8, <3>1 DEF OneForeground
  <2>2. CASE state # "FG"
    BY <1>2, <1>8, <2>2, NoneKept
  <2> QED BY <2>1, <2>2
<1> QED BY <1>5, <1>6, <1>7, <1>8, <1>9, IInvPartsNext

LEMMA WaitOK ==
  ASSUME IInv, Suspend \/ StopWaiting
  PROVE  IInv'
<1>1. /\ ListOK /\ LoopOK /\ SignalsOK /\ OneForeground
      /\ UNCHANGED <<jobs, nextjid, proc, pending, stack>>
  BY IInvParts DEF Suspend, StopWaiting
<1>2. cmd \in Command /\ NoCommand \in Command
  BY <1>1, CommandTypes DEF LoopOK
<1>3. LoopOK'
  BY <1>1, <1>2 DEF LoopOK, Suspend, StopWaiting
<1>4. SignalsOK'
  BY <1>1, <1>2 DEF SignalsOK, Suspend, StopWaiting, Command
<1>5. OneForeground'
  <2>1. CASE Suspend
    BY <1>1, <2>1, ForegroundKept DEF Suspend
  <2>2. CASE StopWaiting
    BY <1>1, <2>2, FgJobFacts, NoneKept DEF StopWaiting
  <2> QED BY <2>1, <2>2
<1>6. ProcOK' /\ StackOK'
  BY <1>1, IInvParts DEF ProcOK, StackOK
<1> QED BY <1>1, <1>3, <1>4, <1>5, <1>6, SameList, IInvPartsNext

\* The steps of the main loop that leave jobs and processes alone.
LEMMA OtherMainOK ==
  ASSUME IInv, ForkFails \/ BgFgUnknown \/ Quit \/ Sigquit
  PROVE  IInv'
<1>1. /\ ListOK /\ LoopOK /\ SignalsOK /\ OneForeground
      /\ UNCHANGED <<jobs, nextjid, proc, pending, stack, cmd>>
  BY IInvParts DEF ForkFails, BgFgUnknown, Quit, Sigquit
<1>2. pc' = pc \/ pc' \in Ended
  BY DEF ForkFails, BgFgUnknown, Quit, Sigquit, Ended
<1>3. mask' = mask \/ mask' = Signals
  BY DEF ForkFails, BgFgUnknown, Quit, Sigquit
<1>4. LoopOK' /\ SignalsOK'
  BY <1>1, <1>2, <1>3 DEF LoopOK, SignalsOK
<1>5. OneForeground'
  BY <1>1, <1>2, ForegroundKept
<1>6. ProcOK' /\ StackOK'
  BY <1>1, IInvParts DEF ProcOK, StackOK
<1> QED BY <1>1, <1>4, <1>5, <1>6, SameList, IInvPartsNext

-----------------------------------------------------------------------------
(***************************************************************************)
(* The handlers.                                                           *)
(***************************************************************************)
LEMMA HeadFrame ==
  ASSUME StackOK, stack # <<>>
  PROVE  Head(stack) \in Frame /\ Tail(stack) \in Seq(Frame)
BY HeadTailProperties DEF StackOK

\* A handler is entered, or has restored its mask.
LEMMA PushFrame ==
  ASSUME NEW f \in Frame, NEW rest \in Seq(Frame)
  PROVE  <<f>> \o rest \in Seq(Frame)
<1>1. <<f>> \in Seq(Frame)
  OBVIOUS
<1> QED BY <1>1, ConcatProperties

LEMMA DeliverOK ==
  ASSUME IInv, NEW s \in Signals, Deliver(s)
  PROVE  IInv'
<1> DEFINE f == [sig |-> s, inner |-> mask \cup {s}, left |-> FALSE,
                 outer |-> IF pc = "suspended" THEN Signals ELSE mask]
<1>1. /\ ListOK /\ LoopOK /\ SignalsOK /\ StackOK /\ OneForeground
      /\ UNCHANGED <<jobs, nextjid, proc, cmd>>
  BY IInvParts DEF Deliver
<1>2. stack' = <<f>> \o stack /\ mask' = Signals /\ pending' = pending \ {s}
  BY DEF Deliver
<1>3. f \in Frame
  BY <1>1 DEF SignalsOK, Frame
<1>4. StackOK'
  <2>1. <<f>> \o stack \in Seq(Frame)
    <3> HIDE DEF f
    <3> QED BY <1>1, <1>3, PushFrame DEF StackOK
  <2> QED BY <1>2, <2>1 DEF StackOK
<1>5. SignalsOK'
  BY <1>1, <1>2 DEF SignalsOK
<1>6. pc' = pc \/ pc' = "test"
  BY DEF Deliver
<1>7. LoopOK' /\ OneForeground'
  BY <1>1, <1>6, ForegroundKept DEF LoopOK
<1>8. ProcOK'
  BY <1>1, IInvParts DEF ProcOK
<1> QED BY <1>1, <1>4, <1>5, <1>7, <1>8, SameList, IInvPartsNext

LEMMA ReapOK ==
  ASSUME IInv, NEW p \in Pid, Reap(p)
  PROVE  IInv'
<1> DEFINE j == JobOf(p)
<1>1. /\ ListOK /\ LoopOK /\ SignalsOK /\ StackOK /\ ProcOK /\ OneForeground
      /\ UNCHANGED <<mask, pending, stack, cmd>>
  BY IInvParts DEF Reap
<1>2. j \in Jid \cup {0} /\ (j # 0 => j \in Used)
  <2>1. {k \in Used : jobs[k].pid = p} \in SUBSET Jid
    BY UsedJids
  <2>2. FirstOf({k \in Used : jobs[k].pid = p})
          \in {k \in Used : jobs[k].pid = p} \cup {0}
    BY <2>1, FirstOfFacts
  <2> QED BY <2>2, UsedJids DEF JobOf
<1>3. proc[p] \in RealProcess
  BY <1>1 DEF ProcOK
<1>4. proc[p].life \in {"dead", "stopped", "running"}
      => /\ ListOK' /\ ProcOK'
         /\ \A k \in Jid : jobs'[k].state = "FG" => jobs[k].state = "FG"
         /\ pc' = pc \/ pc' = "aborted"
  <2>1. CASE proc[p].life = "dead"
    <3>1. DeleteJob(j) /\ proc' = [proc EXCEPT ![p] = NoProcess] /\ UNCHANGED pc
      BY <2>1 DEF Reap
    <3> HIDE DEF j
    <3> QED BY <1>1, <1>2, <3>1, DeleteJobOK, NoProcessType, ProcessChange
  <2>2. CASE proc[p].life = "stopped"
    <3>1. /\ jobs' = IF j = 0 THEN jobs ELSE [jobs EXCEPT ![j].state = "ST"]
          /\ pc' = IF j = 0 THEN "aborted" ELSE pc
          /\ proc' = [proc EXCEPT ![p].unreported = FALSE]
          /\ UNCHANGED nextjid
      BY <2>2 DEF Reap
    <3>2. ProcOK'
      BY <1>1, <1>3, <3>1 DEF ProcOK, RealProcess, Process
    <3> HIDE DEF j
    <3>3. CASE j = 0
      BY <1>1, <3>1, <3>2, <3>3, SameList
    <3>4. CASE j # 0
      <4>1. /\ ListOK' /\ jobs'[j].state = "ST"
            /\ \A k \in Jid : k # j => jobs'[k] = jobs[k]
        BY <1>1, <1>2, <3>1, <3>4, RestateOK
      <4> QED BY <3>1, <3>2, <4>1
    <3> QED BY <3>3, <3>4
  <2>3. CASE proc[p].life = "running"
    <3>1. /\ proc' = [proc EXCEPT ![p].unreported = FALSE]
          /\ UNCHANGED <<jobs, nextjid, pc>>
      BY <2>3 DEF Reap
    <3>2. ProcOK'
      BY <1>1, <1>3, <3>1 DEF ProcOK, RealProcess, Process
    <3> QED BY <3>1, <3>2, SameList
  <2> QED BY <2>1, <2>2, <2>3
<1>5. proc[p].life \in {"dead", "stopped", "running"}
  BY <1>3 DEF Reap, RealProcess, Process
<1>6. LoopOK' /\ OneForeground'
  BY <1>1, <1>4, <1>5, ForegroundKept DEF LoopOK, Ended
<1>7. SignalsOK' /\ StackOK'
  BY <1>1 DEF SignalsOK, StackOK
<1> QED BY <1>4, <1>5, <1>6, <1>7, IInvPartsNext

\* ReapedAll and Forward end with unblock_signals.
LEMMA UnblockOK ==
  ASSUME StackOK, SignalsOK, stack # <<>>, Unblock, UNCHANGED pending
  PROVE  StackOK' /\ SignalsOK'
<1>1. Head(stack) \in Frame /\ Tail(stack) \in Seq(Frame)
  BY HeadFrame
<1>2. [Head(stack) EXCEPT !.left = TRUE] \in Frame
  BY <1>1 DEF Frame
<1>3. StackOK'
  BY <1>1, <1>2, PushFrame DEF Unblock, StackOK
<1>4. mask' \in SUBSET Signals
  BY <1>1 DEF Unblock, Frame
<1> QED BY <1>3, <1>4 DEF SignalsOK

LEMMA LeaveOK ==
  ASSUME IInv, ReapedAll \/ Forward \/ Return
  PROVE  IInv'
<1>1. /\ ListOK /\ LoopOK /\ SignalsOK /\ StackOK /\ ProcOK /\ OneForeground
      /\ stack # <<>> /\ UNCHANGED <<jobs, nextjid, pending, pc, cmd>>
  BY IInvParts DEF ReapedAll, Forward, Return, InBody, HandlerRuns
<1>2. Head(stack) \in Frame /\ Tail(stack) \in Seq(Frame)
  BY <1>1, HeadFrame
<1>3. StackOK' /\ SignalsOK'
  <2>1. CASE ReapedAll \/ Forward
    BY <1>1, <2>1, UnblockOK DEF ReapedAll, Forward
  <2>2. CASE Return
    BY <1>1, <1>2, <2>2 DEF Return, StackOK, SignalsOK, Frame
  <2> QED BY <2>1, <2>2
<1>4. ProcOK'
  <2>1. CASE ReapedAll \/ Return
    BY <1>1, <2>1 DEF ReapedAll, Return, ProcOK
  <2>2. CASE Forward
    <3>1. CASE FgJob = 0
      BY <1>1, <2>2, <3>1 DEF Forward, ProcOK
    <3>2. CASE FgJob # 0
      <4>1. Head(stack).sig \in {"INT", "TSTP"}
        BY <2>2 DEF Forward, InBody
      <4>2. proc' = SendGroup(jobs[FgJob].pid, Head(stack).sig)
        BY <2>2, <3>2 DEF Forward
      <4> QED BY <1>1, <4>1, <4>2, SendGroupOK DEF ProcOK
    <3> QED BY <3>1, <3>2
  <2> QED BY <2>1, <2>2
<1>5. LoopOK' /\ OneForeground'
  BY <1>1, ForegroundKept DEF LoopOK
<1> QED BY <1>1, <1>3, <1>4, <1>5, SameList, IInvPartsNext

-----------------------------------------------------------------------------
(***************************************************************************)
(* Children and the terminal: the shell's own variables do not change.     *)
(***************************************************************************)
LEMMA ShellSame ==
  ASSUME IInv, UNCHANGED shellVars, ProcOK', pending' \in SUBSET Signals
  PROVE  IInv'
<1>1. UNCHANGED <<jobs, nextjid, mask, stack, pc, cmd>>
  BY DEF shellVars
<1>2. SignalsOK' /\ StackOK' /\ LoopOK' /\ OneForeground'
  BY <1>1, IInvParts DEF SignalsOK, StackOK, LoopOK, OneForeground
<1> QED BY <1>1, <1>2, SameList, IInvPartsNext

LEMMA ChildOK ==
  ASSUME IInv, NEW p \in Pid, ChildStep(p) \/ ForeignContinue(p)
  PROVE  IInv'
<1>1. ProcOK /\ SignalsOK /\ proc[p] \in RealProcess
  BY IInvParts DEF ProcOK
<1>2. UNCHANGED shellVars
  BY DEF ChildStep, Setpgid, Exec, ExecFails, TakeSignal, IgnoreSignal,
         Terminate, StopSelf, ForeignContinue
<1>3. pending' \in SUBSET Signals
  <2>1. pending \in SUBSET Signals /\ pending \cup {"CHLD"} \in SUBSET Signals
    BY <1>1 DEF SignalsOK, Signals
  <2> QED BY <1>1, <2>1, NotifyOK
      DEF ChildStep, Setpgid, Exec, ExecFails, TakeSignal, IgnoreSignal,
          Terminate, StopSelf, ForeignContinue, Die, Stop, Notify
<1>4. ProcOK'
  <2>1. CASE Setpgid(p)
    BY <1>1, <2>1 DEF Setpgid, ProcOK, RealProcess, Process
  <2>2. CASE Exec(p)
    BY <1>1, <2>2 DEF Exec, ProcOK, RealProcess, Process
  <2>3. CASE ExecFails(p)
    BY <1>1, <2>3 DEF ExecFails, ProcOK, RealProcess, Process
  <2>4. CASE Die(p)
    BY <1>1, <2>4 DEF Die, ProcOK, RealProcess, Process
  <2>5. CASE Stop(p)
    BY <1>1, <2>5 DEF Stop, ProcOK, RealProcess, Process
  <2>6. CASE IgnoreSignal(p)
    BY <1>1, <2>6 DEF IgnoreSignal, ProcOK, RealProcess, Process
  <2>7. CASE ForeignContinue(p)
    BY <1>1, <2>7, ContinueGroupOK DEF ForeignContinue, ProcOK
  <2> QED BY <2>1, <2>2, <2>3, <2>4, <2>5, <2>6, <2>7
      DEF ChildStep, TakeSignal, Terminate, StopSelf
<1> QED BY <1>2, <1>3, <1>4, ShellSame

LEMMA TypingOK ==
  ASSUME IInv, Typing
  PROVE  IInv'
<1>1. PICK s \in Keys : Type(s)
  BY DEF Typing
<1>2. s \in Signals /\ pending \in SUBSET Signals
  BY IInvParts, TshAssumption DEF SignalsOK, Signals
<1>3. pending' \in SUBSET Signals /\ UNCHANGED shellVars /\ UNCHANGED proc
  BY <1>1, <1>2 DEF Type
<1>4. ProcOK'
  BY <1>3, IInvParts DEF ProcOK
<1> QED BY <1>3, <1>4, ShellSame

LEMMA StutterOK ==
  ASSUME IInv, UNCHANGED vars
  PROVE  IInv'
<1>1. UNCHANGED shellVars /\ UNCHANGED <<proc, pending>>
  BY DEF vars
<1>2. ProcOK' /\ pending' \in SUBSET Signals
  BY <1>1, IInvParts DEF ProcOK, SignalsOK
<1> QED BY <1>1, <1>2, ShellSame

-----------------------------------------------------------------------------
LEMMA InitIInv == Init => IInv
<1> SUFFICES ASSUME Init PROVE IInv
  OBVIOUS
<1>1. jobs \in [Jid -> Job] /\ \A j \in Jid : jobs[j].state = "UNDEF"
  BY DEF Init, NoJob, Job
<1>2. Used = {} /\ nextjid = 1
  BY <1>1 DEF Used, Init
<1>3. ListOK
  BY <1>1, <1>2, TshAssumption DEF ListOK, NextJidExact, MaxJid
<1>4. ProcOK
  BY NoProcessType DEF Init, ProcOK
<1>5. SignalsOK /\ StackOK /\ LoopOK
  BY CommandTypes DEF Init, SignalsOK, StackOK, LoopOK
<1>6. OneForeground
  BY <1>1 DEF OneForeground
<1> QED BY <1>3, <1>4, <1>5, <1>6, IInvParts

LEMMA StepIInv == IInv /\ [Next]_vars => IInv'
<1> SUFFICES ASSUME IInv, [Next]_vars PROVE IInv'
  OBVIOUS
<1>1. CASE \E state \in {"FG", "BG"} : Eval(state) \/ \E j \in Jid : BgFg(j, state)
  BY <1>1, EvalOK, BgFgOK
<1>2. CASE ForkFails \/ BgFgUnknown \/ Quit \/ Sigquit
  BY <1>2, OtherMainOK
<1>3. CASE ShellStep
  BY <1>3, AddJobKeeps, WaitOK, DeliverOK, ReapOK, LeaveOK DEF ShellStep
<1>4. CASE \E p \in Pid : ChildStep(p) \/ ForeignContinue(p)
  BY <1>4, ChildOK
<1>5. CASE Typing
  BY <1>5, TypingOK
<1>6. CASE Over \/ UNCHANGED vars
  BY <1>6, StutterOK DEF Over
<1> QED BY <1>1, <1>2, <1>3, <1>4, <1>5, <1>6 DEF Next, Environment

LEMMA SpecInv == Spec => []IInv
BY InitIInv, StepIInv, PTL DEF Spec

(***************************************************************************)
(* The job list, the mask, the frames of nested handlers and the children  *)
(* keep their types, for any user (tsh.c, tsh_helper.c).                   *)
(***************************************************************************)
THEOREM TypeCorrect == Spec => []TypeOK
<1>1. IInv => TypeOK
  BY DEF IInv
<1> QED BY <1>1, SpecInv, PTL

(***************************************************************************)
(* However many jobs and children there are, there is one foreground job   *)
(* at most, and the main loop waits while there is one (fg_job, eval,      *)
(* bg_fg and the handlers).                                                *)
(***************************************************************************)
THEOREM ForegroundIsUnique == Spec => []OneForeground
<1>1. IInv => OneForeground
  BY DEF IInv
<1> QED BY <1>1, SpecInv, PTL

(***************************************************************************)
(* For a job list of any length, add_job always finds the slot of nextjid  *)
(* free, in whichever order jobs are deleted (add_job, delete_job).        *)
(***************************************************************************)
THEOREM NextJidStaysExact == Spec => []NextJidExact
<1>1. IInv => NextJidExact
  BY DEF IInv
<1> QED BY <1>1, SpecInv, PTL

-----------------------------------------------------------------------------
\* add_job's assertions hold whenever eval reaches them.
LEMMA AddJobIsAccepted ==
  ASSUME IInv, pc = "forked"
  PROVE  AddJobAccepts
<1>1. FgJob = 0
  BY IInvParts, NoForeground, FgJobFacts
<1>2. ASSUME nextjid \in Jid, jobs[nextjid].state # "UNDEF" PROVE FALSE
  <2>1. nextjid \in Used /\ Used \in SUBSET Jid
    BY <1>2 DEF Used
  <2>2. nextjid <= MaxJid(Used) /\ MaxJid(Used) \in Used \cup {0}
    BY <2>1, MaxJidFacts
  <2>3. nextjid = MaxJid(Used) + 1
    BY DEF IInv, NextJidExact
  <2>4. MaxJid(Used) \in Nat
    <3>1. \A k \in Used \cup {0} : k \in Nat
      BY <2>1, JidFacts
    <3> QED BY <2>2, <3>1
  <2> QED BY <2>2, <2>3, <2>4
<1> QED BY <1>1, <1>2 DEF AddJobAccepts

\* The main loop reaches the prompt only without a foreground job.
LEMMA NoForegroundAtPrompt ==
  ASSUME IInv, pc = "prompt"
  PROVE  FgJob = 0
BY IInvParts, NoForeground, FgJobFacts

LEMMA StepAbortCause ==
  ASSUME IInv, [Next]_vars, pc' = "aborted", Alive
  PROVE  AbortCause
<1>1. ASSUME NEW state \in {"FG", "BG"}, Eval(state) PROVE FALSE
  BY <1>1 DEF Eval
<1>2. CASE pc = "prompt" /\ stack = <<>>
  BY <1>2, NoForegroundAtPrompt DEF AbortCause
<1>3. ASSUME NEW j \in Jid, NEW state \in {"FG", "BG"}, BgFg(j, state)
      PROVE  AbortCause
  BY <1>2, <1>3 DEF BgFg, MainRuns
<1>4. CASE ForkFails \/ BgFgUnknown \/ Quit
  BY <1>2, <1>4 DEF ForkFails, BgFgUnknown, Quit, MainRuns
<1>5. CASE AddJob
  BY <1>5, AddJobIsAccepted DEF AddJob
<1>6. ASSUME NEW p \in Pid, Reap(p) PROVE AbortCause
  <2>1. proc[p].unreported /\ proc[p] \in RealProcess /\ pc # "aborted"
    BY <1>6, IInvParts DEF Reap, ProcOK, Alive, Ended
  <2>2. proc[p].life \in {"dead", "stopped", "running"}
    BY <2>1 DEF RealProcess, Process
  <2>3. proc[p].life = "stopped" /\ JobOf(p) = 0
    BY <1>6, <2>1, <2>2 DEF Reap
  <2> QED BY <2>1, <2>3 DEF AbortCause
<1>7. CASE \/ Suspend \/ StopWaiting \/ (\E s \in Signals : Deliver(s))
           \/ ReapedAll \/ Forward \/ Return
  BY <1>7 DEF Suspend, StopWaiting, Deliver, ReapedAll, Forward, Return, Alive, Ended
<1>8. CASE \E p \in Pid : ChildStep(p) \/ ForeignContinue(p)
  BY <1>8 DEF ChildStep, Setpgid, Exec, ExecFails, TakeSignal, IgnoreSignal,
              Terminate, StopSelf, ForeignContinue, shellVars, Alive, Ended
<1>9. CASE Typing \/ Sigquit \/ Over \/ UNCHANGED vars
  BY <1>9 DEF Typing, Type, Sigquit, Over, shellVars, vars, Alive, Ended
<1> QED BY <1>1, <1>3, <1>4, <1>5, <1>6, <1>7, <1>8, <1>9
        DEF Next, ShellStep, Environment

(***************************************************************************)
(* For any user and any number of children and jobs, the shell aborts only *)
(* because fork failed or because a child stopped that add_job had no slot *)
(* for: no other assertion of tsh_helper.c is ever reached (add_job, bg_fg,*)
(* sigchld_handler).                                                       *)
(***************************************************************************)
THEOREM AbortsHaveCauses == Spec => AbortCauses
<1>1. IInv /\ [Next]_vars => [pc' = "aborted" /\ Alive => AbortCause]_vars
  BY StepAbortCause
<1> QED BY <1>1, SpecInv, PTL DEF Spec, AbortCauses

------------------------------------------------------------------------------
(***************************************************************************)
(* Theorems about Tsh under a careful user (CarefulSpec), who names jobs   *)
(* that exist and leaves room in the job list, for any number of children  *)
(* and jobs.                                                               *)
(***************************************************************************)
(***************************************************************************)
(* The inductive invariant: IInv and the following.                        *)
(***************************************************************************)
\* Between fork and add_job nothing is delivered, so nothing is reaped, and
\* the slot of the new job stays free.
ForkedApart ==
  pc = "forked" =>
    /\ mask = Signals /\ stack = <<>>
    /\ nextjid \in Jid
    /\ cmd.pid \in Pid /\ proc[cmd.pid].life # "none"

\* Each child has one job at most, and one from add_job to waitpid.
Listed(p) == \E j \in Used : jobs[j].pid = p

Awaited(p) == proc[p].life # "none" /\ ~(pc = "forked" /\ cmd.pid = p)

JobsLinked ==
  /\ \A j \in Used : jobs[j].pid \in Pid
  /\ \A j, k \in Used : jobs[j].pid = jobs[k].pid => j = k
  /\ Alive => \A p \in Pid : Listed(p) <=> Awaited(p)

\* What a job in state ST, or not in it, says of its process.
JobFits(state, q) ==
  /\ state = "ST" => q.life \in {"stopped", "dead"}
  /\ state # "ST" /\ q.life = "stopped" => q.unreported

ProcessFits(q) ==
  /\ q.life = "dead" => q.unreported
  /\ q.life = "stopped" => q.phase # "forked"

StatesFit ==
  /\ \A p \in Pid : ProcessFits(proc[p])
  /\ \A j \in Used : JobFits(jobs[j].state, proc[jobs[j].pid])
  /\ pc = "forked" => JobFits(cmd.state, proc[cmd.pid])

\* The frame at the bottom returns to the mask of the place in the main loop.
Bottom(s) == s[Len(s)]

MaskAt(place) == IF place = "prompt" THEN {} ELSE Signals

FramesReturn ==
  stack # <<>> =>
    /\ pc \notin {"forked", "suspended"}
    /\ Alive => Bottom(stack).outer = MaskAt(pc)

SavedClear ==
  pc \in {"forked", "test", "suspended"} => cmd.saved = {} /\ cmd.susp = {}

MasksOK == MaskRestored /\ FramesReturn /\ SavedClear

CInv == /\ ForkedApart /\ JobsLinked /\ StatesFit /\ MasksOK
        /\ pc # "aborted"

-----------------------------------------------------------------------------
(***************************************************************************)
(* Frames.                                                                 *)
(***************************************************************************)
LEMMA BottomPush ==
  ASSUME NEW f \in Frame, NEW s \in Seq(Frame)
  PROVE  /\ <<f>> \o s # <<>>
         /\ Bottom(<<f>> \o s) = IF s = <<>> THEN f ELSE Bottom(s)
<1>1. <<f>> \in Seq(Frame) /\ Len(<<f>>) = 1 /\ <<f>>[1] = f
  OBVIOUS
<1>2. /\ Len(<<f>> \o s) = 1 + Len(s)
      /\ \A i \in 1 .. 1 + Len(s) :
           (<<f>> \o s)[i] = IF i <= 1 THEN <<f>>[i] ELSE s[i - 1]
  BY <1>1, ConcatProperties
<1>3. Len(s) \in Nat /\ (s = <<>> <=> Len(s) = 0)
  BY EmptySeq, LenProperties
<1>4. <<f>> \o s # <<>>
  BY <1>1, <1>2, <1>3
<1>5. (<<f>> \o s)[1 + Len(s)] = IF s = <<>> THEN f ELSE s[Len(s)]
  BY <1>1, <1>2, <1>3
<1> QED BY <1>2, <1>4, <1>5 DEF Bottom

LEMMA BottomTail ==
  ASSUME NEW s \in Seq(Frame), s # <<>>
  PROVE  Bottom(s) = IF Tail(s) = <<>> THEN Head(s) ELSE Bottom(Tail(s))
<1>1. /\ Tail(s) \in Seq(Frame) /\ Len(Tail(s)) = Len(s) - 1
      /\ \A i \in 1 .. Len(Tail(s)) : Tail(s)[i] = s[i + 1]
  BY HeadTailProperties
<1>2. Head(s) = s[1] /\ Len(s) \in Nat \ {0}
  BY EmptySeq, LenProperties
<1>3. Tail(s) = <<>> <=> Len(Tail(s)) = 0
  BY <1>1, EmptySeq
<1>4. CASE Tail(s) = <<>>
  <2>1. Len(s) = 1
    BY <1>1, <1>2, <1>3, <1>4
  <2> QED BY <1>2, <1>4, <2>1 DEF Bottom
<1>5. CASE Tail(s) # <<>>
  <2>1. Len(Tail(s)) \in 1 .. Len(Tail(s)) /\ Len(Tail(s)) + 1 = Len(s)
    BY <1>1, <1>2, <1>3, <1>5
  <2>2. Tail(s)[Len(Tail(s))] = s[Len(s)]
    BY <1>1, <2>1
  <2> QED BY <1>5, <2>2 DEF Bottom
<1> QED BY <1>4, <1>5

-----------------------------------------------------------------------------
(***************************************************************************)
(* Jobs.                                                                   *)
(***************************************************************************)
LEMMA ListedJob ==
  ASSUME ListOK, JobsLinked, NEW p \in Pid
  PROVE  /\ Listed(p) => JobOf(p) \in Used /\ jobs[JobOf(p)].pid = p
         /\ ~Listed(p) => JobOf(p) = 0
         /\ JobOf(p) \in Jid \cup {0}
<1> DEFINE S == {j \in Used : jobs[j].pid = p}
<1>1. S \in SUBSET Jid
  BY UsedJids
<1>2. FirstOf(S) \in S \cup {0} /\ (FirstOf(S) = 0 <=> S = {})
  BY <1>1, FirstOfFacts
<1>3. Listed(p) <=> S # {}
  BY DEF Listed
<1> QED BY <1>1, <1>2, <1>3 DEF JobOf

LEMMA SlotFree ==
  ASSUME ListOK
  PROVE  nextjid \notin Used
<1>1. \A k \in Used : k <= MaxJid(Used) /\ k \in Nat
  BY MaxJidFacts, UsedJids, JidFacts
<1>2. MaxJid(Used) \in Jid \cup {0}
  BY MaxJidFacts, UsedJids
<1>3. MaxJid(Used) \in Nat
  BY <1>2, JidFacts
<1>4. nextjid = MaxJid(Used) + 1
  BY DEF ListOK, NextJidExact
<1> QED BY <1>1, <1>3, <1>4

\* Jobs keep their slots and processes: only states of jobs change.
LEMMA SameJobs ==
  ASSUME JobsLinked, Used' = Used, \A k \in Used : jobs'[k].pid = jobs[k].pid,
         Alive' => Alive,
         \A p \in Pid : Alive' => (Awaited(p)' <=> Awaited(p))
  PROVE  JobsLinked'
<1>1. \A p \in Pid : Listed(p)' <=> Listed(p)
  BY DEF Listed
<1> QED BY <1>1 DEF JobsLinked

-----------------------------------------------------------------------------
(***************************************************************************)
(* The main loop.                                                          *)
(***************************************************************************)
\* The main loop runs where it is not interrupted.
LEMMA AtPrompt ==
  ASSUME CInv, pc = "prompt", stack = <<>>
  PROVE  mask = {} /\ Alive /\ \A p \in Pid : Awaited(p) <=> proc[p].life # "none"
BY DEF CInv, MasksOK, MaskRestored, Alive, Ended, Awaited

LEMMA EvalCareful ==
  ASSUME IInv, CInv, nextjid \in Jid, NEW state \in {"FG", "BG"}, Eval(state)
  PROVE  CInv'
<1>1. PICK p \in Pid :
        /\ proc[p].life = "none"
        /\ proc' = [proc EXCEPT ![p] = [NoProcess EXCEPT !.life = "running",
                                                         !.mask = mask]]
        /\ cmd' = [pid |-> p, state |-> state, saved |-> mask, susp |-> mask]
  BY DEF Eval
<1>2. /\ pc = "prompt" /\ pc' = "forked" /\ mask' = Signals /\ stack = <<>>
      /\ UNCHANGED <<jobs, nextjid, pending, stack>>
  BY DEF Eval, MainRuns
<1>3. mask = {} /\ Alive /\ \A r \in Pid : Awaited(r) <=> proc[r].life # "none"
  BY <1>2, AtPrompt
<1>4. /\ JobsLinked /\ StatesFit
      /\ \A r \in Pid : r # p => proc'[r] = proc[r]
      /\ proc'[p].life = "running" /\ cmd'.pid = p /\ cmd'.state = state
      /\ cmd'.saved = {} /\ cmd'.susp = {}
  BY <1>1, <1>3, IInvParts DEF CInv, ProcOK, NoProcess
<1>5. Used' = Used /\ \A j \in Used : jobs'[j] = jobs[j]
  BY <1>2 DEF Used
<1>6. JobsLinked'
  <2>1. \A r \in Pid : Awaited(r)' <=> Awaited(r)
    BY <1>1, <1>2, <1>3, <1>4 DEF Awaited
  <2> QED BY <1>3, <1>4, <1>5, <2>1, SameJobs
<1>7. StatesFit'
  <2>1. \A r \in Pid : ProcessFits(proc'[r])
    BY <1>4 DEF StatesFit, ProcessFits
  <2>2. ~Listed(p)
    BY <1>1, <1>3, <1>4 DEF JobsLinked
  <2>3. ASSUME NEW j \in Used' PROVE JobFits(jobs'[j].state, proc'[jobs'[j].pid])
    BY <1>4, <1>5, <2>2, <2>3 DEF Listed, StatesFit, JobsLinked
  <2>4. JobFits(cmd'.state, proc'[cmd'.pid])
    BY <1>4 DEF JobFits
  <2> QED BY <2>1, <2>3, <2>4 DEF StatesFit
<1>8. ForkedApart'
  BY <1>2, <1>4 DEF ForkedApart
<1>9. MasksOK'
  BY <1>2, <1>4 DEF MasksOK, MaskRestored, FramesReturn, SavedClear
<1> QED BY <1>2, <1>6, <1>7, <1>8, <1>9 DEF CInv

LEMMA AddJobCareful ==
  ASSUME IInv, CInv, AddJob
  PROVE  CInv'
<1> DEFINE new == [pid |-> cmd.pid, state |-> cmd.state]
<1>1. /\ pc = "forked" /\ ListOK /\ LoopOK /\ ForkedApart /\ JobsLinked
      /\ StatesFit /\ MasksOK /\ UNCHANGED <<proc, pending, stack>>
      /\ \A j \in Jid : jobs[j].state # "FG"
  BY IInvParts, NoForeground DEF AddJob, CInv
<1>2. /\ mask = Signals /\ stack = <<>> /\ nextjid \in Jid
      /\ cmd.pid \in Pid /\ proc[cmd.pid].life # "none"
      /\ cmd.saved = {} /\ cmd.susp = {} /\ Alive
  BY <1>1 DEF ForkedApart, MasksOK, SavedClear, Alive, Ended
<1>3. cmd.state \in {"FG", "BG"} /\ new \in Job /\ new.state # "UNDEF"
  BY <1>1 DEF LoopOK, Command, Job
<1>4. jobs[nextjid].state = "UNDEF"
  <2>1. nextjid \notin Used
    BY <1>1, SlotFree
  <2> QED BY <1>2, <2>1 DEF Used
<1>5. AddJobAccepts
  BY <1>1, <1>4, FgJobFacts DEF AddJobAccepts
<1>6. jobs' = [jobs EXCEPT ![nextjid] = new] /\ nextjid' = nextjid + 1
  BY <1>2, <1>5 DEF AddJob
<1>7. /\ \A k \in Jid : k # nextjid => jobs'[k] = jobs[k]
      /\ jobs'[nextjid] = new
      /\ Used' = Used \cup {nextjid} /\ nextjid \notin Used
  <2> HIDE DEF new
  <2> QED BY <1>1, <1>2, <1>3, <1>6, AppendOK
<1>8. \/ cmd.state = "BG" /\ pc' = "prompt" /\ mask' = {}
      \/ /\ cmd.state = "FG" /\ pc' = "test" /\ mask' = Signals
         /\ cmd' = cmd
  BY <1>2, <1>3, <1>5 DEF AddJob
<1>9. \A k \in Used : jobs'[k] = jobs[k]
  BY <1>7, UsedJids
<1>10. JobsLinked'
  <2>1. ~Listed(cmd.pid)
    BY <1>1, <1>2 DEF JobsLinked, Awaited
  <2>2. \A j \in Used' : jobs'[j].pid \in Pid
    BY <1>1, <1>2, <1>7, <1>9 DEF JobsLinked
  <2>3. \A j, k \in Used' : jobs'[j].pid = jobs'[k].pid => j = k
    BY <1>1, <1>7, <1>9, <2>1 DEF JobsLinked, Listed
  <2>4. ASSUME NEW p \in Pid PROVE Listed(p)' <=> Awaited(p)'
    <3>1. Listed(p)' <=> Listed(p) \/ p = cmd.pid
      BY <1>7, <1>9 DEF Listed
    <3>2. Awaited(p)' <=> proc[p].life # "none"
      BY <1>1, <1>8 DEF Awaited
    <3>3. Listed(p) <=> Awaited(p)
      BY <1>1, <1>2 DEF JobsLinked
    <3> QED BY <1>1, <1>2, <3>1, <3>2, <3>3 DEF Awaited
  <2> QED BY <2>2, <2>3, <2>4 DEF JobsLinked
<1>11. StatesFit'
  BY <1>1, <1>7, <1>8, <1>9 DEF StatesFit
<1>12. ForkedApart' /\ MasksOK' /\ pc' # "aborted"
  BY <1>1, <1>2, <1>8
     DEF ForkedApart, MasksOK, MaskRestored, FramesReturn, SavedClear
<1> QED BY <1>10, <1>11, <1>12 DEF CInv

\* kill(-p, SIGCONT) changes no other process, and leaves p running unless it
\* has no effect.
LEMMA ContinueFacts ==
  ASSUME ProcOK, NEW p \in Pid
  PROVE  LET C == ContinueGroup(p)
         IN  /\ \A r \in Pid : r # p => C[r] = proc[r]
             /\ C[p].life = "none" <=> proc[p].life = "none"
             /\ \/ C[p].life = "running"
                \/ C[p] = proc[p] /\ (proc[p].life = "stopped" => proc[p].phase = "forked")
<1> DEFINE q == [proc[p] EXCEPT !.life = "running", !.sigs = @ \ {"TSTP"},
                   !.unreported = @ \/ proc[p].life = "stopped"]
<1>1. [proc EXCEPT ![p].life = "running", ![p].sigs = @ \ {"TSTP"},
         ![p].unreported = @ \/ proc[p].life = "stopped"]
        = [proc EXCEPT ![p] = q]
  BY DEF ProcOK
<1>2. q.life = "running"
  BY DEF ProcOK, RealProcess, Process
<1>3. CASE proc[p].life \in {"running", "stopped"} /\ proc[p].phase # "forked"
  <2>1. ContinueGroup(p) = [proc EXCEPT ![p] = q]
    BY <1>1, <1>3 DEF ContinueGroup
  <2> HIDE DEF q
  <2> QED BY <1>2, <1>3, <2>1 DEF ProcOK
<1>4. CASE ~(proc[p].life \in {"running", "stopped"} /\ proc[p].phase # "forked")
  <2>1. ContinueGroup(p) = proc
    BY <1>4 DEF ContinueGroup
  <2> QED BY <1>4, <2>1
<1> QED BY <1>3, <1>4

LEMMA BgFgCareful ==
  ASSUME IInv, CInv, NEW j \in Jid, NEW state \in {"FG", "BG"}, BgFg(j, state)
  PROVE  CInv'
<1> DEFINE p == jobs[j].pid
<1>1. /\ pc = "prompt" /\ stack = <<>> /\ j \in Used
      /\ UNCHANGED <<nextjid, stack>>
      /\ proc' = ContinueGroup(p)
  BY DEF BgFg, MainRuns
<1>2. /\ ListOK /\ LoopOK /\ ProcOK /\ JobsLinked /\ StatesFit /\ MasksOK
      /\ \A k \in Jid : jobs[k].state # "FG"
  BY <1>1, IInvParts, NoForeground DEF CInv
<1>3. mask = {} /\ Alive /\ \A r \in Pid : Awaited(r) <=> proc[r].life # "none"
  BY <1>1, AtPrompt
<1>4. FgJob = 0
  BY <1>2, FgJobFacts
<1>5. jobs' = [jobs EXCEPT ![j].state = state]
  BY <1>4 DEF BgFg
<1>6. \/ state = "BG" /\ pc' = "prompt" /\ mask' = {}
      \/ /\ state = "FG" /\ pc' = "test" /\ mask' = Signals
         /\ cmd'.saved = {} /\ cmd'.susp = {}
  BY <1>3, <1>4 DEF BgFg
<1>7. /\ jobs'[j].state = state /\ Used' = Used
      /\ \A k \in Used : jobs'[k].pid = jobs[k].pid
      /\ \A k \in Used : k # j => jobs'[k] = jobs[k]
  BY <1>1, <1>2, <1>5, RestateOK, UsedJids
<1>8. p \in Pid /\ \A k \in Used : k # j => jobs[k].pid \in Pid /\ jobs[k].pid # p
  BY <1>1, <1>2 DEF JobsLinked
<1>9. /\ \A r \in Pid : r # p => proc'[r] = proc[r]
      /\ proc'[p].life = "none" <=> proc[p].life = "none"
      /\ \/ proc'[p].life = "running"
         \/ proc'[p] = proc[p] /\ (proc[p].life = "stopped" => proc[p].phase = "forked")
  <2> HIDE DEF p
  <2> QED BY <1>1, <1>2, <1>8, ContinueFacts
<1>10. JobsLinked'
  <2>1. \A r \in Pid : Awaited(r)' <=> Awaited(r)
    BY <1>3, <1>6, <1>9 DEF Awaited
  <2> QED BY <1>2, <1>3, <1>7, <2>1, SameJobs
<1>11. StatesFit'
  <2>1. \A r \in Pid : ProcessFits(proc'[r])
    BY <1>2, <1>9 DEF StatesFit, ProcessFits
  <2>2. JobFits(state, proc'[p])
    BY <1>2, <1>8, <1>9 DEF StatesFit, ProcessFits, JobFits
  <2>3. ASSUME NEW k \in Used, k # j PROVE JobFits(jobs'[k].state, proc'[jobs'[k].pid])
    BY <1>2, <1>7, <1>8, <1>9, <2>3 DEF StatesFit
  <2> QED BY <1>1, <1>6, <1>7, <2>1, <2>2, <2>3 DEF StatesFit
<1>12. ForkedApart' /\ MasksOK' /\ pc' # "aborted"
  BY <1>1, <1>6 DEF ForkedApart, MasksOK, MaskRestored, FramesReturn, SavedClear
<1> QED BY <1>10, <1>11, <1>12 DEF CInv

\* Steps of the main loop that leave jobs and processes alone.
LEMMA OtherMainCareful ==
  ASSUME IInv, CInv, Suspend \/ StopWaiting \/ Quit \/ Sigquit
  PROVE  CInv'
<1>1. /\ JobsLinked /\ StatesFit /\ MasksOK /\ UNCHANGED <<jobs, proc, stack>>
      /\ pc' \in {"suspended", "prompt", "exited"}
      /\ pc' # "exited" => pc = "test" /\ stack = <<>>
      /\ pc' = "suspended" => mask' = cmd.susp /\ cmd' = cmd
      /\ pc' = "prompt" => mask' = cmd.saved
  BY DEF Suspend, StopWaiting, Quit, Sigquit, MainRuns, CInv
<1>2. JobsLinked'
  <2>1. Used' = Used /\ (Alive' => Alive /\ \A p \in Pid : Awaited(p)' <=> Awaited(p))
    BY <1>1 DEF Used, Alive, Ended, Awaited
  <2> QED BY <1>1, <2>1, SameJobs
<1>3. StatesFit'
  BY <1>1 DEF StatesFit, Used
<1>4. MasksOK'
  BY <1>1 DEF MasksOK, MaskRestored, FramesReturn, SavedClear, Alive, Ended
<1> QED BY <1>1, <1>2, <1>3, <1>4 DEF CInv, ForkedApart

-----------------------------------------------------------------------------
(***************************************************************************)
(* The handlers.                                                           *)
(***************************************************************************)
LEMMA DeliverCareful ==
  ASSUME IInv, CInv, NEW s \in Signals, Deliver(s)
  PROVE  CInv'
<1> DEFINE f == [sig |-> s, inner |-> mask \cup {s}, left |-> FALSE,
                 outer |-> IF pc = "suspended" THEN Signals ELSE mask]
<1>1. /\ JobsLinked /\ StatesFit /\ MasksOK /\ ForkedApart /\ StackOK /\ SignalsOK
      /\ UNCHANGED <<jobs, nextjid, proc, cmd>>
      /\ Alive /\ s \notin mask
      /\ mask' = Signals /\ stack' = <<f>> \o stack
      /\ pc' = IF pc = "suspended" THEN "test" ELSE pc
  BY IInvParts DEF Deliver, CInv
<1>2. pc # "forked"
  BY <1>1 DEF ForkedApart
<1>3. pc \in {"prompt", "test", "suspended"}
  BY <1>1, <1>2, IInvParts DEF LoopOK, Alive
<1>4. f \in Frame
  BY <1>1 DEF SignalsOK, Frame
<1>5. stack' # <<>> /\ Bottom(stack') = IF stack = <<>> THEN f ELSE Bottom(stack)
  <2> HIDE DEF f
  <2> QED BY <1>1, <1>4, BottomPush DEF StackOK
<1>6. Bottom(stack').outer = MaskAt(pc')
  <2>1. CASE stack = <<>>
    <3>1. f.outer = IF pc = "suspended" THEN Signals ELSE mask
      OBVIOUS
    <3>2. pc = "prompt" => mask = {}
      BY <1>1, <2>1 DEF MasksOK, MaskRestored
    <3>3. pc = "test" => mask = Signals
      BY <1>1, <2>1 DEF MasksOK, MaskRestored
    <3> HIDE DEF f
    <3> QED BY <1>1, <1>3, <1>5, <2>1, <3>1, <3>2, <3>3 DEF MaskAt
  <2>2. CASE stack # <<>>
    <3> HIDE DEF f
    <3> QED BY <1>1, <1>5, <2>2 DEF MasksOK, FramesReturn
  <2> QED BY <2>1, <2>2
<1>7. MasksOK'
  BY <1>1, <1>3, <1>5, <1>6
     DEF MasksOK, MaskRestored, FramesReturn, SavedClear
<1>8. JobsLinked'
  <2>1. Used' = Used /\ \A p \in Pid : Awaited(p)' <=> Awaited(p)
    BY <1>1, <1>3 DEF Used, Awaited
  <2> QED BY <1>1, <2>1, SameJobs
<1>9. StatesFit' /\ ForkedApart' /\ pc' # "aborted"
  BY <1>1, <1>3 DEF StatesFit, Used, ForkedApart
<1> QED BY <1>7, <1>8, <1>9 DEF CInv

LEMMA ReapCareful ==
  ASSUME IInv, CInv, NEW p \in Pid, Reap(p)
  PROVE  CInv'
<1> DEFINE j == JobOf(p)
<1>1. /\ ListOK /\ ProcOK /\ JobsLinked /\ StatesFit /\ MasksOK
      /\ UNCHANGED <<mask, pending, stack, cmd>>
      /\ stack # <<>> /\ Alive /\ proc[p].unreported
  BY IInvParts DEF Reap, InBody, HandlerRuns, CInv
<1>2. pc \in {"prompt", "test"}
  BY <1>1, IInvParts DEF MasksOK, FramesReturn, LoopOK, Alive
<1>3. proc[p] \in Process /\ proc[p].life \in {"dead", "stopped", "running"}
  BY <1>1 DEF ProcOK, RealProcess, Process
<1>4. j \in Used /\ jobs[j].pid = p
  <2>1. Awaited(p)
    BY <1>2, <1>3 DEF Awaited
  <2> QED BY <1>1, <2>1, ListedJob DEF JobsLinked
<1>5. \A k \in Used : k # j => jobs[k].pid \in Pid /\ jobs[k].pid # p
  BY <1>1, <1>4 DEF JobsLinked
<1>6. j # 0 /\ j \in Jid
  BY <1>4, UsedJids, JidFacts
<1> HIDE DEF j
<1>7. JobsLinked' /\ StatesFit' /\ pc' = pc
  <2>1. CASE proc[p].life = "dead"
    <3>1. DeleteJob(j) /\ proc' = [proc EXCEPT ![p] = NoProcess] /\ pc' = pc
      BY <2>1 DEF Reap, j
    <3>2. Used' = Used \ {j} /\ \A k \in Used \ {j} : jobs'[k] = jobs[k]
      BY <1>1, <1>4, <1>6, <3>1, DeleteJobOK
    <3>3. /\ proc'[p].life = "none" /\ \A r \in Pid : r # p => proc'[r] = proc[r]
      BY <1>1, <3>1 DEF ProcOK, NoProcess
    <3>4. \A r \in Pid : Listed(r)' <=> Listed(r) /\ r # p
      BY <1>4, <1>5, <3>2 DEF Listed
    <3>5. \A r \in Pid : Awaited(r)' <=> Awaited(r) /\ r # p
      BY <1>1, <1>2, <3>1, <3>3 DEF Awaited
    <3>6. JobsLinked'
      BY <1>1, <3>2, <3>4, <3>5 DEF JobsLinked
    <3>7. \A r \in Pid : ProcessFits(proc'[r])
      BY <1>1, <3>3 DEF StatesFit, ProcessFits
    <3>8. StatesFit'
      BY <1>1, <1>2, <1>5, <3>1, <3>2, <3>3, <3>7 DEF StatesFit
    <3> QED BY <3>1, <3>6, <3>8
  <2>2. CASE proc[p].life = "stopped"
    <3>1. /\ jobs' = [jobs EXCEPT ![j].state = "ST"] /\ pc' = pc
          /\ proc' = [proc EXCEPT ![p].unreported = FALSE]
          /\ nextjid' = nextjid
      BY <1>6, <2>2 DEF Reap, j
    <3>2. /\ jobs'[j].state = "ST" /\ Used' = Used
          /\ \A k \in Used : jobs'[k].pid = jobs[k].pid
          /\ \A k \in Used : k # j => jobs'[k] = jobs[k]
      BY <1>1, <1>4, <3>1, RestateOK, UsedJids
    <3>3. /\ proc'[p].life = proc[p].life /\ proc'[p].phase = proc[p].phase
          /\ \A r \in Pid : r # p => proc'[r] = proc[r]
      BY <1>1, <1>3, <3>1 DEF ProcOK, Process
    <3>4. \A r \in Pid : Awaited(r)' <=> Awaited(r)
      BY <1>1, <3>1, <3>3 DEF Awaited
    <3>5. JobsLinked'
      BY <1>1, <3>2, <3>4, SameJobs
    <3>6. \A r \in Pid : ProcessFits(proc'[r])
      BY <1>1, <2>2, <3>3 DEF StatesFit, ProcessFits
    <3>7. \A k \in Used : JobFits(jobs'[k].state, proc'[jobs'[k].pid])
      BY <1>1, <1>4, <1>5, <2>2, <3>2, <3>3 DEF StatesFit, JobFits
    <3>8. StatesFit'
      BY <1>2, <3>1, <3>2, <3>6, <3>7 DEF StatesFit
    <3> QED BY <3>1, <3>5, <3>8
  <2>3. CASE proc[p].life = "running"
    <3>1. /\ proc' = [proc EXCEPT ![p].unreported = FALSE]
          /\ UNCHANGED <<jobs, nextjid, pc>>
      BY <2>3 DEF Reap
    <3>2. /\ proc'[p].life = "running"
          /\ \A r \in Pid : r # p => proc'[r] = proc[r]
      BY <1>1, <1>3, <2>3, <3>1 DEF ProcOK, Process
    <3>3. \A r \in Pid : Awaited(r)' <=> Awaited(r)
      BY <1>1, <2>3, <3>1, <3>2 DEF Awaited
    <3>4. Used' = Used /\ Alive' = Alive
      BY <3>1 DEF Used, Alive
    <3>5. JobsLinked'
      BY <1>1, <3>1, <3>3, <3>4, SameJobs
    <3>6. \A r \in Pid : ProcessFits(proc'[r])
      BY <1>1, <3>2 DEF StatesFit, ProcessFits
    <3>7. \A k \in Used : JobFits(jobs[k].state, proc'[jobs[k].pid])
      BY <1>1, <1>4, <1>5, <2>3, <3>2 DEF StatesFit, JobFits
    <3>8. StatesFit'
      BY <1>2, <3>1, <3>4, <3>6, <3>7 DEF StatesFit
    <3> QED BY <3>1, <3>5, <3>8
  <2> QED BY <1>3, <2>1, <2>2, <2>3
<1>8. MasksOK' /\ ForkedApart'
  BY <1>1, <1>2, <1>7
     DEF MasksOK, MaskRestored, FramesReturn, SavedClear, ForkedApart, Alive
<1> QED BY <1>2, <1>7, <1>8 DEF CInv

\* Signals sent change neither lives nor reports.
LEMMA SameLives ==
  ASSUME JobsLinked, StatesFit, UNCHANGED <<jobs, pc, cmd>>,
         pc = "forked" => cmd.pid \in Pid,
         \A r \in Pid : /\ proc'[r].life = proc[r].life
                        /\ proc'[r].phase = proc[r].phase
                        /\ proc'[r].unreported = proc[r].unreported
  PROVE  JobsLinked' /\ StatesFit'
<1>1. Used' = Used /\ Alive' = Alive /\ \A p \in Pid : Awaited(p)' <=> Awaited(p)
  BY DEF Used, Alive, Awaited
<1>2. JobsLinked'
  BY <1>1, SameJobs
<1>3. \A r \in Pid : ProcessFits(proc'[r])
  BY DEF StatesFit, ProcessFits
<1>4. \A j \in Used : JobFits(jobs[j].state, proc'[jobs[j].pid])
  BY DEF StatesFit, JobFits, JobsLinked
<1>5. pc = "forked" => JobFits(cmd.state, proc'[cmd.pid])
  BY DEF StatesFit, JobFits
<1> QED BY <1>1, <1>2, <1>3, <1>4, <1>5 DEF StatesFit

LEMMA LeaveCareful ==
  ASSUME IInv, CInv, ReapedAll \/ Forward \/ Return
  PROVE  CInv'
<1>1. /\ ListOK /\ ProcOK /\ StackOK /\ JobsLinked /\ StatesFit /\ MasksOK
      /\ stack # <<>> /\ Alive /\ UNCHANGED <<jobs, nextjid, pc, cmd>>
  BY IInvParts DEF ReapedAll, Forward, Return, InBody, HandlerRuns, CInv
<1>2. pc \in {"prompt", "test"} /\ Bottom(stack).outer = MaskAt(pc)
  BY <1>1, IInvParts DEF MasksOK, FramesReturn, LoopOK, Alive
<1>3. Head(stack) \in Frame /\ Tail(stack) \in Seq(Frame)
  BY <1>1, HeadFrame
<1>4. Bottom(stack) = IF Tail(stack) = <<>> THEN Head(stack) ELSE Bottom(Tail(stack))
  BY <1>1, BottomTail DEF StackOK
<1>5. MasksOK'
  <2>1. CASE Unblock
    <3> DEFINE g == [Head(stack) EXCEPT !.left = TRUE]
    <3>1. g \in Frame /\ g.outer = Head(stack).outer
      BY <1>3 DEF Frame
    <3>2. stack' = <<g>> \o Tail(stack)
      BY <2>1 DEF Unblock
    <3>3. /\ stack' # <<>>
          /\ Bottom(stack') = IF Tail(stack) = <<>> THEN g ELSE Bottom(Tail(stack))
      <4> HIDE DEF g
      <4> QED BY <1>3, <3>1, <3>2, BottomPush
    <3>4. Bottom(stack').outer = MaskAt(pc)
      <4> HIDE DEF g
      <4> QED BY <1>2, <1>4, <3>1, <3>3
    <3> QED BY <1>1, <1>2, <3>3, <3>4
        DEF MasksOK, MaskRestored, FramesReturn, SavedClear
  <2>2. CASE Return
    <3>1. mask' = Head(stack).outer /\ stack' = Tail(stack)
      BY <2>2 DEF Return
    <3>2. CASE Tail(stack) = <<>>
      BY <1>1, <1>2, <1>4, <3>1, <3>2
         DEF MasksOK, MaskRestored, FramesReturn, SavedClear, MaskAt
    <3>3. CASE Tail(stack) # <<>>
      BY <1>1, <1>2, <1>4, <3>1, <3>3
         DEF MasksOK, MaskRestored, FramesReturn, SavedClear
    <3> QED BY <3>2, <3>3
  <2> QED BY <2>1, <2>2 DEF ReapedAll, Forward
<1>6. \A r \in Pid : /\ proc'[r].life = proc[r].life
                     /\ proc'[r].phase = proc[r].phase
                     /\ proc'[r].unreported = proc[r].unreported
  <2>1. CASE proc' = proc
    BY <2>1
  <2>2. CASE Forward /\ FgJob # 0
    <3>1. proc' = SendGroup(jobs[FgJob].pid, Head(stack).sig)
      BY <2>2 DEF Forward
    <3>2. jobs[FgJob].pid \in Pid
      BY <1>1, <2>2, FgJobFacts DEF JobsLinked
    <3>3. \/ proc' = proc
          \/ proc' = [proc EXCEPT ![jobs[FgJob].pid].sigs = @ \cup {Head(stack).sig}]
      BY <3>1 DEF SendGroup
    <3> QED BY <1>1, <3>2, <3>3 DEF ProcOK, RealProcess, Process
  <2> QED BY <2>1, <2>2 DEF ReapedAll, Forward, Return
<1>7. JobsLinked' /\ StatesFit'
  BY <1>1, <1>2, <1>6, SameLives
<1> QED BY <1>1, <1>2, <1>5, <1>7 DEF CInv, ForkedApart

-----------------------------------------------------------------------------
(***************************************************************************)
(* Children.                                                               *)
(***************************************************************************)
\* What a step of a child may do to its process.
ChildChange(q, new) ==
  /\ q.life \in {"running", "stopped"} /\ new.life # "none"
  /\ q.life = "stopped" => new.life \in {"stopped", "dead"}
  /\ ProcessFits(new)
  /\ new.life = "stopped" => q.life = "stopped" \/ new.unreported
  /\ q.unreported => new.unreported

LEMMA ChildChanges ==
  ASSUME IInv, CInv, NEW p \in Pid, ChildStep(p)
  PROVE  /\ UNCHANGED shellVars
         /\ \A r \in Pid : r # p => proc'[r] = proc[r]
         /\ ChildChange(proc[p], proc'[p])
<1>1. ProcOK /\ proc[p] \in Process /\ ProcessFits(proc[p])
  BY IInvParts DEF ProcOK, RealProcess, CInv, StatesFit
<1>2. CASE Setpgid(p)
  BY <1>1, <1>2 DEF Setpgid, ProcOK, Process, ChildChange, ProcessFits
<1>3. CASE Exec(p)
  BY <1>1, <1>3 DEF Exec, ProcOK, Process, ChildChange, ProcessFits
<1>4. CASE ExecFails(p)
  BY <1>1, <1>4 DEF ExecFails, ProcOK, Process, ChildChange, ProcessFits
<1>5. CASE Die(p) /\ proc[p].life \in {"running", "stopped"} /\ UNCHANGED shellVars
  BY <1>1, <1>5 DEF Die, ProcOK, Process, ChildChange, ProcessFits
<1>6. CASE /\ Stop(p) /\ proc[p].life = "running" /\ proc[p].phase = "program"
           /\ UNCHANGED shellVars
  BY <1>1, <1>6 DEF Stop, ProcOK, Process, ChildChange, ProcessFits
<1>7. CASE IgnoreSignal(p)
  BY <1>1, <1>7 DEF IgnoreSignal, ProcOK, Process, ChildChange, ProcessFits
<1> QED BY <1>2, <1>3, <1>4, <1>5, <1>6, <1>7
    DEF ChildStep, TakeSignal, Terminate, StopSelf

LEMMA ChildCareful ==
  ASSUME IInv, CInv, NEW p \in Pid, ChildStep(p)
  PROVE  CInv'
<1>1. /\ UNCHANGED <<jobs, nextjid, mask, stack, pc, cmd>>
      /\ \A r \in Pid : r # p => proc'[r] = proc[r]
      /\ ChildChange(proc[p], proc'[p])
  BY ChildChanges DEF shellVars
<1>2. JobsLinked /\ StatesFit /\ MasksOK /\ ForkedApart
  BY DEF CInv
<1>3. Used' = Used /\ Alive' = Alive /\ \A r \in Pid : Awaited(r)' <=> Awaited(r)
  BY <1>1 DEF Used, Alive, Awaited, ChildChange
<1>4. JobsLinked'
  BY <1>1, <1>2, <1>3, SameJobs
<1>5. \A r \in Pid : ProcessFits(proc'[r])
  BY <1>1, <1>2 DEF StatesFit, ChildChange
<1>6. \A s : JobFits(s, proc[p]) => JobFits(s, proc'[p])
  BY <1>1 DEF ChildChange, JobFits
<1>7. \A j \in Used : JobFits(jobs[j].state, proc'[jobs[j].pid])
  BY <1>1, <1>2, <1>6 DEF StatesFit, JobsLinked
<1>8. pc = "forked" => JobFits(cmd.state, proc'[cmd.pid])
  BY <1>1, <1>2, <1>6 DEF StatesFit, ForkedApart
<1>9. StatesFit'
  BY <1>1, <1>3, <1>5, <1>7, <1>8 DEF StatesFit
<1>10. ForkedApart'
  BY <1>1, <1>2 DEF ForkedApart, ChildChange
<1>11. MasksOK'
  BY <1>1, <1>2 DEF MasksOK, MaskRestored, FramesReturn, SavedClear, Alive
<1> QED BY <1>1, <1>4, <1>9, <1>10, <1>11 DEF CInv

LEMMA SameCareful ==
  ASSUME CInv, UNCHANGED shellVars, UNCHANGED proc
  PROVE  CInv'
<1>1. UNCHANGED <<jobs, nextjid, mask, stack, pc, cmd>>
  BY DEF shellVars
<1>2. JobsLinked' /\ StatesFit'
  BY <1>1, SameLives DEF CInv, ForkedApart
<1>3. ForkedApart' /\ MasksOK'
  BY <1>1 DEF CInv, ForkedApart, MasksOK, MaskRestored, FramesReturn, SavedClear, Alive
<1> QED BY <1>1, <1>2, <1>3 DEF CInv

-----------------------------------------------------------------------------
LEMMA InitCareful == Init => CInv
<1> SUFFICES ASSUME Init PROVE CInv
  OBVIOUS
<1>1. Used = {}
  BY DEF Init, Used, NoJob
<1>2. \A p \in Pid : proc[p] = NoProcess
  BY DEF Init
<1>3. JobsLinked /\ StatesFit
  BY <1>1, <1>2
     DEF JobsLinked, Listed, Awaited, StatesFit, ProcessFits, NoProcess, Init
<1>4. ForkedApart /\ MasksOK /\ pc # "aborted"
  BY DEF Init, ForkedApart, MasksOK, MaskRestored, FramesReturn, SavedClear
<1> QED BY <1>3, <1>4 DEF CInv

LEMMA StepCareful == IInv /\ CInv /\ [CarefulNext]_vars => IInv' /\ CInv'
<1> SUFFICES ASSUME IInv, CInv, [CarefulNext]_vars PROVE IInv' /\ CInv'
  OBVIOUS
<1>1. IInv'
  <2>1. [Next]_vars
    BY DEF CarefulNext, Next
  <2> QED BY <2>1, StepIInv
<1>2. CASE \E state \in {"FG", "BG"} : \/ nextjid \in Jid /\ Eval(state)
                                      \/ \E j \in Jid : BgFg(j, state)
  BY <1>1, <1>2, EvalCareful, BgFgCareful
<1>3. CASE Quit \/ Sigquit
  BY <1>1, <1>3, OtherMainCareful
<1>4. CASE ShellStep
  BY <1>1, <1>4, AddJobCareful, OtherMainCareful, DeliverCareful, ReapCareful,
     LeaveCareful DEF ShellStep
<1>5. CASE \E p \in Pid : ChildStep(p)
  BY <1>1, <1>5, ChildCareful
<1>6. CASE Typing \/ Over \/ UNCHANGED vars
  BY <1>1, <1>6, SameCareful DEF Typing, Type, Over, vars
<1> QED BY <1>2, <1>3, <1>4, <1>5, <1>6 DEF CarefulNext, Environment

LEMMA CarefulInv == CarefulSpec => [](IInv /\ CInv)
BY InitIInv, InitCareful, StepCareful, PTL DEF CarefulSpec

(***************************************************************************)
(* For any number of children and jobs, the job list holds a child exactly *)
(* once from add_job until waitpid has returned its end (eval, add_job,    *)
(* sigchld_handler, delete_job).                                           *)
(***************************************************************************)
THEOREM JobListStaysExact == CarefulSpec => []JobListExact
<1>1. CInv => JobListExact
  <2> SUFFICES ASSUME CInv, Alive, NEW p \in Pid
               PROVE  Cardinality({j \in Used : jobs[j].pid = p}) =
                        IF proc[p].life = "none" \/ (pc = "forked" /\ cmd.pid = p)
                        THEN 0 ELSE 1
    BY DEF JobListExact
  <2>1. JobsLinked /\ (Listed(p) <=> Awaited(p))
    BY DEF CInv, JobsLinked
  <2>2. CASE Listed(p)
    <3>1. PICK j \in Used : jobs[j].pid = p
      BY <2>2 DEF Listed
    <3>2. {k \in Used : jobs[k].pid = p} = {j}
      BY <2>1, <3>1 DEF JobsLinked
    <3> QED BY <2>1, <2>2, <3>2, FS_Singleton DEF Awaited
  <2>3. CASE ~Listed(p)
    <3>1. {k \in Used : jobs[k].pid = p} = {}
      BY <2>3 DEF Listed
    <3> QED BY <2>1, <2>3, <3>1, FS_EmptySet DEF Awaited
  <2> QED BY <2>2, <2>3
<1> QED BY <1>1, CarefulInv, PTL

(***************************************************************************)
(* For any number of children and jobs, a job is in state ST exactly when  *)
(* its process is stopped, once the last change is reported (bg_fg,        *)
(* sigchld_handler, job_set_state).                                        *)
(***************************************************************************)
THEOREM JobStatesStayTrue == CarefulSpec => []JobStatesTrack
<1>1. CInv => JobStatesTrack
  BY DEF CInv, StatesFit, JobsLinked, JobFits, ProcessFits, JobStatesTrack
<1> QED BY <1>1, CarefulInv, PTL

(***************************************************************************)
(* However deep handlers nest, the main loop goes on with the mask it had  *)
(* (block_signals, unblock_signals, sigsuspend).                           *)
(***************************************************************************)
THEOREM MasksAreRestored == CarefulSpec => []MaskRestored
<1>1. CInv => MaskRestored
  BY DEF CInv, MasksOK
<1> QED BY <1>1, CarefulInv, PTL

(***************************************************************************)
(* No assertion of the job list fails, for any number of children and jobs *)
(* (add_job, job_set_state).                                               *)
(***************************************************************************)
THEOREM JobListNeverAborts == CarefulSpec => []NeverAborts
<1>1. CInv => NeverAborts
  BY DEF CInv, NeverAborts
<1> QED BY <1>1, CarefulInv, PTL
==============================================================================
