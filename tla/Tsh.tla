--------------------------------- MODULE Tsh ---------------------------------
(***************************************************************************)
(* The shell (tsh.c, with the job list of tsh_helper.c), its children, and *)
(* the signals between them.  The main loop, a handler and every child     *)
(* interleave; a signal that is pending and not blocked is delivered       *)
(* before the next step of the shell, and may interrupt a handler that has *)
(* already restored its mask.                                              *)
(*                                                                         *)
(* A handler is entered with everything blocked: the step that delivers a  *)
(* signal includes block_signals, the first call of every handler.         *)
(***************************************************************************)
EXTENDS Integers, Sequences, FiniteSets

CONSTANTS
  Pid,      \* process ids of children; an id is reused once it is reaped
  NoPid,    \* pid 0, that of an unused slot
  MaxJobs,  \* MAXJOBS
  Keys      \* signals the user types: INT by Ctrl-C, TSTP by Ctrl-Z

ASSUME TshAssumption ==
  /\ MaxJobs \in Nat \ {0}
  /\ NoPid \notin Pid
  /\ Keys \subseteq {"INT", "TSTP"}

Jid     == 1 .. MaxJobs
Signals == {"CHLD", "INT", "TSTP"}   \* the ones block_signals blocks

VARIABLES
  jobs,     \* job_list
  nextjid,  \* nextjid
  proc,     \* the children as the kernel knows them
  mask,     \* signal mask of the shell
  pending,  \* signals pending for the shell; one bit each
  stack,    \* frames of the handlers that run, innermost first
  pc,       \* where the main loop is
  cmd       \* locals of the eval or bg_fg that runs

shellVars == <<jobs, nextjid, mask, stack, pc, cmd>>
vars      == <<shellVars, proc, pending>>

Job   == [pid : Pid \cup {NoPid}, state : {"UNDEF", "FG", "BG", "ST"}]
NoJob == [pid |-> NoPid, state |-> "UNDEF"]

(***************************************************************************)
(* unreported: the process has a change of state that waitpid has yet to   *)
(* return; the change it returns is to the state the process has by then.  *)
(***************************************************************************)
Process == [life : {"none", "running", "stopped", "dead"},
            phase : {"forked", "grouped", "program", "subshell"},
            mask : SUBSET Signals, sigs : SUBSET {"INT", "TSTP"},
            unreported : BOOLEAN]
NoProcess == [life |-> "none", phase |-> "forked", mask |-> {}, sigs |-> {},
              unreported |-> FALSE]

(***************************************************************************)
(* inner is the mask the handler's block_signals saves, outer the mask the *)
(* kernel restores when the handler returns; left says that the handler    *)
(* has called unblock_signals and not returned.                            *)
(***************************************************************************)
Frame == [sig : Signals, inner : SUBSET Signals, outer : SUBSET Signals,
          left : BOOLEAN]

Command   == [pid : Pid \cup {NoPid}, state : {"FG", "BG"},
              saved : SUBSET Signals, susp : SUBSET Signals]
NoCommand == [pid |-> NoPid, state |-> "BG", saved |-> {}, susp |-> {}]

Ended == {"exited", "aborted"}

TypeOK ==
  /\ jobs \in [Jid -> Job]
  /\ nextjid \in 1 .. MaxJobs + 1
  /\ proc \in [Pid -> Process]
  /\ mask \in SUBSET Signals
  /\ pending \in SUBSET Signals
  /\ stack \in Seq(Frame)
  /\ pc \in {"prompt", "forked", "test", "suspended"} \cup Ended
  /\ cmd \in Command

-----------------------------------------------------------------------------
(* The job list. *)

Used == {j \in Jid : jobs[j].state # "UNDEF"}

\* The job found by a search from job 1 on; 0 if there is none.
FirstOf(S) == IF S = {} THEN 0 ELSE CHOOSE j \in S : \A k \in S : j <= k

JobOf(p) == FirstOf({j \in Used : jobs[j].pid = p})
FgJob    == FirstOf({j \in Jid : jobs[j].state = "FG"})

MaxJid(S) == IF S = {} THEN 0 ELSE CHOOSE j \in S : \A k \in S : k <= j

\* Mutant: the freed id is the next one.
DeleteJob_NextIsFreed(j) ==
  IF j \in Used
  THEN jobs' = [jobs EXCEPT ![j] = NoJob] /\ nextjid' = j
  ELSE UNCHANGED <<jobs, nextjid>>

DeleteJob(j) ==
  IF j \in Used
  THEN /\ jobs' = [jobs EXCEPT ![j] = NoJob]
       /\ nextjid' = MaxJid(Used \ {j}) + 1
  ELSE UNCHANGED <<jobs, nextjid>>

-----------------------------------------------------------------------------
(* What signals do to children. *)

\* kill(-p, s): there is no group p before the child's setpgid.
SendGroup(p, s) ==
  IF proc[p].life \in {"running", "stopped"} /\ proc[p].phase # "forked"
  THEN [proc EXCEPT ![p].sigs = @ \cup {s}]
  ELSE proc

\* kill(-p, SIGCONT); it also discards a pending stop.
ContinueGroup(p) ==
  IF proc[p].life \in {"running", "stopped"} /\ proc[p].phase # "forked"
  THEN [proc EXCEPT ![p].life = "running",
                    ![p].sigs = @ \ {"TSTP"},
                    ![p].unreported = @ \/ proc[p].life = "stopped"]
  ELSE proc

\* The SIGCHLD for a stopped child that runs again.
NotifyIfStopped(p) ==
  IF proc[p].life = "stopped" THEN pending \cup {"CHLD"} ELSE pending

-----------------------------------------------------------------------------
(* The main loop: eval and the builtin commands. *)

Alive       == pc \notin Ended
Delivered   == pending \subseteq mask
MainRuns    == stack = <<>> /\ Delivered
HandlerRuns == Alive /\ stack # <<>> /\ Delivered

\* Mutant: no block_signals before fork.
Eval_NotBlocked(state) ==
  /\ pc = "prompt" /\ MainRuns
  /\ \E p \in Pid :
       /\ proc[p].life = "none"
       /\ proc' = [proc EXCEPT ![p] = [NoProcess EXCEPT !.life = "running"]]
       /\ cmd' = [pid |-> p, state |-> state, saved |-> mask, susp |-> mask]
  /\ pc' = "forked"
  /\ UNCHANGED <<jobs, nextjid, mask, pending, stack>>

\* eval up to fork: the child gets a copy of prev_mask and of the handlers.
Eval(state) ==
  /\ pc = "prompt" /\ MainRuns
  /\ \E p \in Pid :
       /\ proc[p].life = "none"
       /\ proc' = [proc EXCEPT ![p] = [NoProcess EXCEPT !.life = "running",
                                                        !.mask = mask]]
       /\ cmd' = [pid |-> p, state |-> state, saved |-> mask, susp |-> mask]
  /\ mask' = Signals
  /\ pc' = "forked"
  /\ UNCHANGED <<jobs, nextjid, pending, stack>>

\* fork returns -1, and add_job aborts on it.
ForkFails ==
  /\ pc = "prompt" /\ MainRuns
  /\ pc' = "aborted"
  /\ UNCHANGED <<jobs, nextjid, proc, mask, pending, stack, cmd>>

\* The assertions of add_job.
AddJobAccepts ==
  /\ cmd.state = "FG" => FgJob = 0
  /\ nextjid \in Jid => jobs[nextjid].state = "UNDEF"

\* add_job, and what eval does before it tests for a foreground job.
AddJob ==
  /\ pc = "forked" /\ MainRuns
  /\ IF AddJobAccepts /\ nextjid \in Jid
     THEN /\ jobs' = [jobs EXCEPT ![nextjid] =
                                    [pid |-> cmd.pid, state |-> cmd.state]]
          /\ nextjid' = nextjid + 1
     ELSE UNCHANGED <<jobs, nextjid>>
  /\ pc' = IF ~AddJobAccepts THEN "aborted"
           ELSE IF cmd.state = "BG" THEN "prompt" ELSE "test"
  /\ mask' = IF cmd.state = "BG" THEN cmd.saved ELSE mask
  /\ cmd'  = IF cmd.state = "BG" THEN NoCommand ELSE cmd
  /\ UNCHANGED <<proc, pending, stack>>

\* Mutant: it sleeps without replacing the mask.
Suspend_StillBlocked ==
  /\ pc = "test" /\ MainRuns /\ FgJob # 0
  /\ pc' = "suspended"
  /\ UNCHANGED <<jobs, nextjid, mask, proc, pending, stack, cmd>>

\* while (fg_job() != 0) sigsuspend(...): the mask is replaced as it sleeps.
Suspend ==
  /\ pc = "test" /\ MainRuns /\ FgJob # 0
  /\ mask' = cmd.susp
  /\ pc' = "suspended"
  /\ UNCHANGED <<jobs, nextjid, proc, pending, stack, cmd>>

\* Mutant: no unblock_signals at the end of eval and bg_fg.
StopWaiting_StillBlocked ==
  /\ pc = "test" /\ MainRuns /\ FgJob = 0
  /\ pc' = "prompt"
  /\ cmd' = NoCommand
  /\ UNCHANGED <<jobs, nextjid, mask, proc, pending, stack>>

\* The loop ends, unblock_signals, and the next prompt.
StopWaiting ==
  /\ pc = "test" /\ MainRuns /\ FgJob = 0
  /\ mask' = cmd.saved
  /\ pc' = "prompt"
  /\ cmd' = NoCommand
  /\ UNCHANGED <<jobs, nextjid, proc, pending, stack>>

\* Mutant: fg does not wait.
BgFg_NoWait(j, state) ==
  /\ pc = "prompt" /\ MainRuns
  /\ j \in Used
  /\ proc' = ContinueGroup(jobs[j].pid)
  /\ pending' = NotifyIfStopped(jobs[j].pid)
  /\ jobs' = [jobs EXCEPT ![j].state = state]
  /\ UNCHANGED <<nextjid, mask, stack, pc, cmd>>

\* bg_fg on job j; the argument may also be its pid.
BgFg(j, state) ==
  /\ pc = "prompt" /\ MainRuns
  /\ j \in Used
  /\ proc' = ContinueGroup(jobs[j].pid)
  /\ pending' = NotifyIfStopped(jobs[j].pid)
  /\ IF state = "FG" /\ FgJob # 0
     THEN /\ pc' = "aborted"                  \* require_valid_state
          /\ UNCHANGED <<jobs, mask, cmd>>
     ELSE /\ jobs' = [jobs EXCEPT ![j].state = state]
          /\ pc' = IF state = "FG" THEN "test" ELSE "prompt"
          /\ mask' = IF state = "FG" THEN Signals ELSE mask
          /\ cmd' = IF state = "FG"
                    THEN [pid |-> jobs[j].pid, state |-> "FG",
                          saved |-> mask, susp |-> {}]
                    ELSE cmd
  /\ UNCHANGED <<nextjid, stack>>

\* bg_fg without a job: it returns between block_signals and unblock_signals.
BgFgUnknown ==
  /\ pc = "prompt" /\ MainRuns
  /\ mask' = Signals
  /\ UNCHANGED <<jobs, nextjid, proc, pending, stack, pc, cmd>>

\* quit, end of input, or jobs with a file that cannot be opened.
Quit ==
  /\ pc = "prompt" /\ MainRuns
  /\ pc' = "exited"
  /\ UNCHANGED <<jobs, nextjid, proc, mask, pending, stack, cmd>>

-----------------------------------------------------------------------------
(* The handlers. *)

\* Delivery ends a sigsuspend; the mask from before it is the one restored.
Deliver(s) ==
  /\ Alive /\ s \in pending \ mask
  /\ pending' = pending \ {s}
  /\ stack' = <<[sig |-> s, inner |-> mask \cup {s}, left |-> FALSE,
                 outer |-> IF pc = "suspended" THEN Signals ELSE mask]>>
              \o stack
  /\ mask' = Signals
  /\ pc' = IF pc = "suspended" THEN "test" ELSE pc
  /\ UNCHANGED <<jobs, nextjid, proc, cmd>>

InBody(sigs) == HandlerRuns /\ Head(stack).sig \in sigs /\ ~Head(stack).left

\* Mutant: a stop is reported and the job keeps its state.
Reap_StopsIgnored(p) ==
  /\ InBody({"CHLD"}) /\ proc[p].unreported
  /\ IF proc[p].life = "dead"
     THEN DeleteJob(JobOf(p)) /\ proc' = [proc EXCEPT ![p] = NoProcess]
     ELSE /\ proc' = [proc EXCEPT ![p].unreported = FALSE]
          /\ UNCHANGED <<jobs, nextjid>>
  /\ UNCHANGED <<mask, pending, stack, pc, cmd>>

\* One iteration of the loop of sigchld_handler: waitpid returns p.
Reap(p) ==
  /\ InBody({"CHLD"}) /\ proc[p].unreported
  /\ LET j == JobOf(p)
     IN CASE proc[p].life = "dead" ->
               /\ DeleteJob(j)
               /\ proc' = [proc EXCEPT ![p] = NoProcess]
               /\ UNCHANGED pc
          [] proc[p].life = "stopped" ->
               /\ jobs' = IF j = 0 THEN jobs ELSE [jobs EXCEPT ![j].state = "ST"]
               /\ pc' = IF j = 0 THEN "aborted" ELSE pc  \* require_job_exists
               /\ proc' = [proc EXCEPT ![p].unreported = FALSE]
               /\ UNCHANGED nextjid
          [] proc[p].life = "running" ->
               /\ proc' = [proc EXCEPT ![p].unreported = FALSE]
               /\ UNCHANGED <<jobs, nextjid, pc>>
  /\ UNCHANGED <<mask, pending, stack, cmd>>

Unblock ==
  /\ mask' = Head(stack).inner
  /\ stack' = <<[Head(stack) EXCEPT !.left = TRUE]>> \o Tail(stack)

\* Mutant: one waitpid per SIGCHLD.
ReapedAll_One ==
  /\ InBody({"CHLD"}) /\ \E p \in Pid : ~proc[p].unreported
  /\ Unblock
  /\ UNCHANGED <<jobs, nextjid, proc, pending, pc, cmd>>

\* waitpid has nothing to report, and sigchld_handler restores its mask.
ReapedAll ==
  /\ InBody({"CHLD"}) /\ \A p \in Pid : ~proc[p].unreported
  /\ Unblock
  /\ UNCHANGED <<jobs, nextjid, proc, pending, pc, cmd>>

\* sigint_handler and sigtstp_handler.
Forward ==
  /\ InBody({"INT", "TSTP"})
  /\ proc' = IF FgJob = 0 THEN proc
             ELSE SendGroup(jobs[FgJob].pid, Head(stack).sig)
  /\ Unblock
  /\ UNCHANGED <<jobs, nextjid, pending, pc, cmd>>

Return ==
  /\ HandlerRuns /\ Head(stack).left
  /\ mask' = Head(stack).outer
  /\ stack' = Tail(stack)
  /\ UNCHANGED <<jobs, nextjid, proc, pending, pc, cmd>>

-----------------------------------------------------------------------------
(* Children, and the terminal. *)

Notify == pending' = pending \cup {"CHLD"}

\* setpgid, then unblock_signals with the child's copy of prev_mask.
Setpgid(p) ==
  /\ Alive /\ proc[p].life = "running" /\ proc[p].phase = "forked"
  /\ proc' = [proc EXCEPT ![p].phase = "grouped"]
  /\ UNCHANGED <<shellVars, pending>>

\* Until execve the child has the shell's handlers: they eat INT and TSTP.
Exec(p) ==
  /\ Alive /\ proc[p].life = "running" /\ proc[p].phase = "grouped"
  /\ proc' = [proc EXCEPT ![p].phase = "program",
                          ![p].sigs = @ \cap proc[p].mask]
  /\ UNCHANGED <<shellVars, pending>>

\* ENOENT or EACCES: the child returns from eval and reads commands itself.
ExecFails(p) ==
  /\ Alive /\ proc[p].life = "running" /\ proc[p].phase = "grouped"
  /\ proc' = [proc EXCEPT ![p].phase = "subshell"]
  /\ UNCHANGED <<shellVars, pending>>

Die(p) ==
  /\ proc' = [proc EXCEPT ![p].life = "dead", ![p].unreported = TRUE]
  /\ Notify

Stop(p) ==
  /\ proc' = [proc EXCEPT ![p].life = "stopped", ![p].unreported = TRUE,
                          ![p].sigs = @ \ {"TSTP"}]
  /\ Notify

\* A program takes a signal: by default it dies or stops.
TakeSignal(p) ==
  /\ Alive /\ proc[p].life = "running" /\ proc[p].phase = "program"
  /\ \/ "INT" \in proc[p].sigs \ proc[p].mask /\ Die(p)
     \/ "TSTP" \in proc[p].sigs \ proc[p].mask /\ Stop(p)
  /\ UNCHANGED shellVars

\* Or it has a handler of its own, or ignores it.
IgnoreSignal(p) ==
  /\ Alive /\ proc[p].life = "running" /\ proc[p].phase = "program"
  /\ \E s \in proc[p].sigs \ proc[p].mask :
       proc' = [proc EXCEPT ![p].sigs = @ \ {s}]
  /\ UNCHANGED <<shellVars, pending>>

\* It exits, or a signal of somebody else kills it.
Terminate(p) ==
  /\ Alive /\ proc[p].life \in {"running", "stopped"}
  /\ proc[p].phase # "forked"
  /\ Die(p)
  /\ UNCHANGED shellVars

\* It stops itself.
StopSelf(p) ==
  /\ Alive /\ proc[p].life = "running" /\ proc[p].phase = "program"
  /\ Stop(p)
  /\ UNCHANGED shellVars

\* Somebody else continues it.
ForeignContinue(p) ==
  /\ Alive /\ proc[p].life = "stopped"
  /\ proc' = ContinueGroup(p)
  /\ pending' = NotifyIfStopped(p)
  /\ UNCHANGED shellVars

Type(s) ==
  /\ Alive
  /\ pending' = pending \cup {s}
  /\ UNCHANGED <<shellVars, proc>>

\* SIGQUIT, which nothing blocks.
Sigquit ==
  /\ Alive
  /\ pc' = "exited"
  /\ UNCHANGED <<jobs, nextjid, proc, mask, pending, stack, cmd>>

Over == ~Alive /\ UNCHANGED vars

-----------------------------------------------------------------------------
Init ==
  /\ jobs = [j \in Jid |-> NoJob]
  /\ nextjid = 1
  /\ proc = [p \in Pid |-> NoProcess]
  /\ mask = {} /\ pending = {}
  /\ stack = <<>>
  /\ pc = "prompt"
  /\ cmd = NoCommand

\* What the shell does on its own, without a command of the user.
ShellStep ==
  \/ AddJob \/ Suspend \/ StopWaiting
  \/ \E s \in Signals : Deliver(s)
  \/ \E p \in Pid : Reap(p)
  \/ ReapedAll \/ Forward \/ Return

ChildStep(p) ==
  \/ Setpgid(p) \/ Exec(p) \/ ExecFails(p) \/ TakeSignal(p) \/ IgnoreSignal(p)
  \/ Terminate(p) \/ StopSelf(p)

Typing == \E s \in Keys : Type(s)

Environment ==
  \/ \E p \in Pid : ChildStep(p)
  \/ Typing
  \/ Sigquit \/ Over

(***************************************************************************)
(* Any user: unknown jobs, failing forks, more than MAXJOBS jobs, and      *)
(* somebody who continues the children from outside.                       *)
(***************************************************************************)
Next ==
  \/ \E state \in {"FG", "BG"} : Eval(state) \/ \E j \in Jid : BgFg(j, state)
  \/ ForkFails \/ BgFgUnknown \/ Quit
  \/ ShellStep \/ Environment
  \/ \E p \in Pid : ForeignContinue(p)

Spec == Init /\ [][Next]_vars

(***************************************************************************)
(* A careful user names only jobs that exist and leaves room in the list.  *)
(* Left out with him are two things that are not the user's: forks that    *)
(* fail, and a child that is continued from outside, for which the handler *)
(* does nothing, so that its job stays ST while it runs (tsh.c:449).       *)
(***************************************************************************)
CarefulNext ==
  \/ \E state \in {"FG", "BG"} : \/ nextjid \in Jid /\ Eval(state)
                                \/ \E j \in Jid : BgFg(j, state)
  \/ Quit
  \/ ShellStep \/ Environment

CarefulSpec == Init /\ [][CarefulNext]_vars

(***************************************************************************)
(* The kernel runs the shell whenever it can run, and the user does not    *)
(* type Ctrl-C and Ctrl-Z for ever: faster than a handler returns, they    *)
(* would keep the main loop from running.                                  *)
(***************************************************************************)
FairSpec == CarefulSpec /\ WF_vars(ShellStep) /\ <>[][~Typing]_vars

-----------------------------------------------------------------------------
(***************************************************************************)
(* What fg_job, add_job and the loops of eval and bg_fg rely on: there is  *)
(* one foreground job at most, and while there is one the main loop waits  *)
(* for it, whatever handler runs meanwhile.                                *)
(***************************************************************************)
OneForeground ==
  \A j \in Jid : jobs[j].state = "FG"
    => /\ pc \in {"test", "suspended"} \cup Ended
       /\ \A k \in Jid : jobs[k].state = "FG" => k = j

(***************************************************************************)
(* nextjid is one more than the largest job id in use, so the slot add_job *)
(* takes is free, whichever jobs ended in whichever order.                 *)
(***************************************************************************)
NextJidExact == nextjid = MaxJid(Used) + 1

(***************************************************************************)
(* The job list holds each child exactly once from add_job until waitpid   *)
(* has returned its end: block_signals keeps a child that ends at once     *)
(* from being reaped before it is listed, and coalesced SIGCHLDs lose none.*)
(***************************************************************************)
JobListExact ==
  Alive => \A p \in Pid :
    Cardinality({j \in Used : jobs[j].pid = p}) =
      IF proc[p].life = "none" \/ (pc = "forked" /\ cmd.pid = p) THEN 0 ELSE 1

(***************************************************************************)
(* Once its last change is reported, a job is in state ST exactly when its *)
(* process is stopped, however bg, fg, Ctrl-Z and stops cross.             *)
(***************************************************************************)
JobStatesTrack ==
  \A j \in Used :
    LET p == proc[jobs[j].pid]
    IN ~p.unreported => (jobs[j].state = "ST" <=> p.life = "stopped")

(***************************************************************************)
(* Whenever the main loop goes on after handlers, nested ones included, it *)
(* finds the mask it had: nothing blocked at the prompt, everything inside *)
(* its critical sections.                                                  *)
(***************************************************************************)
MaskRestored ==
  stack = <<>> =>
    /\ pc = "prompt" => mask = {}
    /\ pc \in {"forked", "test"} => mask = Signals
    /\ pc = "suspended" => mask = {}

(***************************************************************************)
(* Whatever the user does, the shell aborts for two reasons only: fork     *)
(* failed at a prompt without a foreground job, or a child stopped that    *)
(* add_job had no slot for.  No other assertion of the job list fails:     *)
(* add_job never finds a foreground job or an occupied slot, nor bg_fg     *)
(* another foreground job.                                                 *)
(***************************************************************************)
AbortCause ==
  \/ pc = "prompt" /\ stack = <<>> /\ FgJob = 0
  \/ \E p \in Pid : /\ proc[p].unreported /\ proc[p].life = "stopped"
                   /\ JobOf(p) = 0

AbortCauses == [][pc' = "aborted" /\ Alive => AbortCause]_vars

\* No abort() of the job list is reached by a user who leaves room in it.
NeverAborts == pc # "aborted"

(***************************************************************************)
(* When the foreground job ends or stops, the prompt comes back: no SIGCHLD*)
(* is lost between fg_job and sigsuspend, whatever signals nest around it. *)
(***************************************************************************)
ForegroundEnds ==
  \A p \in Pid :
    (pc \in {"test", "suspended"} /\ cmd.pid = p /\ proc[p].life \in {"dead", "stopped"})
      ~> pc \in {"prompt"} \cup Ended

(***************************************************************************)
(* Every child that ends is reaped, also when several end while one        *)
(* SIGCHLD is pending.                                                     *)
(***************************************************************************)
ZombiesReaped ==
  \A p \in Pid : proc[p].life = "dead" ~> (proc[p].life # "dead" \/ ~Alive)
=============================================================================
