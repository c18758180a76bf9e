---------------------------- MODULE CommandTool ----------------------------
(***************************************************************************)
(* One call of the bash tool (tools.py): the shell in a process group of   *)
(* its own, the processes it starts, the pipe they share, and the task     *)
(* that waits for the output, for the timeout, for the cancellation token  *)
(* and may itself be cancelled.                                            *)
(***************************************************************************)
EXTENDS Integers, FiniteSets

CONSTANT Kids   \* processes the command may start besides its shell

VARIABLES
  call,     \* "none" (no command), "idle", "waiting", "killed", "returned", "raised"
  options,  \* has the call a timeout, has it a token
  shell,    \* "none", "running", "gone"
  kids,     \* per process: "none", "running" or "gone", and which of group and pipe it kept
  token,    \* the cancellation token is set
  seen,     \* _wait_for_cancel is over
  timer,    \* "off", "armed", "fired"
  stopped   \* what the result says: [timedOut, cancelled]

cmdVars == <<call, options, shell, kids, token, seen, timer, stopped>>

\* A child keeps the group unless it calls setsid, the pipe unless it redirects.
Kinds == [is : {"running"}, group : BOOLEAN, pipe : BOOLEAN]
Running(k) == kids[k].is = "running"

CmdIdle(c, o) ==
  /\ call = c /\ shell = "none" /\ kids = [k \in Kids |-> [is |-> "none", group |-> FALSE, pipe |-> FALSE]]
  /\ options = o
  /\ token = FALSE /\ seen = FALSE /\ timer = "off"
  /\ stopped = [timedOut |-> FALSE, cancelled |-> FALSE]
CmdInit == \E o \in [timeout : BOOLEAN, token : BOOLEAN] : CmdIdle("idle", o)

\* The executor refuses a call whose token is set already, else starts the shell
\* in a new session; start_new_session makes it the leader of the group.
Start ==
  /\ call = "idle"
  /\ IF options.token /\ token
       THEN call' = "raised" /\ UNCHANGED <<shell, timer>>
       ELSE call' = "waiting" /\ shell' = "running"
            /\ timer' = IF options.timeout THEN "armed" ELSE "off"
  /\ UNCHANGED <<options, kids, token, seen, stopped>>

\* A process gets from its parent what the parent still has of the two.
ParentOf(kind) ==
  \/ shell = "running"
  \/ \E j \in Kids : Running(j) /\ (kind.pipe => kids[j].pipe) /\ (kind.group => kids[j].group)
Fork(k) ==
  /\ kids[k].is = "none"
  /\ \E kind \in Kinds : ParentOf(kind) /\ kids' = [kids EXCEPT ![k] = kind]
  /\ UNCHANGED <<call, options, shell, token, seen, timer, stopped>>
ShellExits == shell = "running" /\ shell' = "gone"
              /\ UNCHANGED <<call, options, kids, token, seen, timer, stopped>>
KidExits(k) == Running(k) /\ kids' = [kids EXCEPT ![k].is = "gone"]
               /\ UNCHANGED <<call, options, shell, token, seen, timer, stopped>>

\* process.communicate() is over: the pipe is at its end and the shell reaped.
Communicated == shell = "gone" /\ \A k \in Kids : Running(k) => ~kids[k].pipe

SetToken == options.token /\ ~token /\ token' = TRUE
            /\ UNCHANGED <<call, options, shell, kids, seen, timer, stopped>>
\* _wait_for_cancel looks every 50 ms.
WatchSees == call = "waiting" /\ options.token /\ token /\ ~seen /\ seen' = TRUE
             /\ UNCHANGED <<call, options, shell, kids, token, timer, stopped>>
TimerFires == call = "waiting" /\ timer = "armed" /\ timer' = "fired"
              /\ UNCHANGED <<call, options, shell, kids, token, seen, stopped>>

\* Seeded fault: the shell alone is killed, as where there are no groups.
KillShell == shell' = "gone" /\ UNCHANGED kids

\* _kill_process_tree: killpg reaches what is left of the group.
KillTree ==
  /\ shell' = "gone"
  /\ kids' = [k \in Kids |-> IF Running(k) /\ kids[k].group THEN [kids[k] EXCEPT !.is = "gone"]
                          ELSE kids[k]]

\* asyncio.wait returns at the first of the three; finished output comes first.
Wake ==
  /\ call = "waiting" /\ (Communicated \/ seen \/ timer = "fired")
  /\ IF Communicated
       THEN call' = "returned" /\ UNCHANGED <<shell, kids, stopped>>
       ELSE /\ KillTree
            /\ call' = "killed" /\ stopped' = [timedOut |-> ~seen, cancelled |-> seen]
  /\ UNCHANGED <<options, token, seen, timer>>

\* await communicate, after the kill.
Drained ==
  /\ call = "killed" /\ Communicated /\ call' = "returned"
  /\ UNCHANGED <<options, shell, kids, token, seen, timer, stopped>>

\* The task is cancelled: before the kill it kills and raises; after it the
\* inner except takes the cancellation for that of communicate, and returns.
TaskCancelled ==
  /\ \/ /\ call = "waiting" /\ call' = "raised" /\ KillTree
     \/ /\ call = "killed" /\ call' = "returned"
        /\ UNCHANGED <<shell, kids>>
  /\ UNCHANGED <<options, token, seen, timer, stopped>>

CmdNext ==
  \/ Start \/ ShellExits \/ SetToken \/ WatchSees \/ TimerFires \/ Wake \/ Drained \/ TaskCancelled
  \/ \E k \in Kids : Fork(k) \/ KidExits(k)

\* The event loop runs its timers and wakes its tasks.
CmdFairness == WF_cmdVars(Start) /\ WF_cmdVars(WatchSees) /\ WF_cmdVars(TimerFires)
               /\ WF_cmdVars(Wake) /\ WF_cmdVars(Drained)

\* "The entire process group is killed so shell children from pipelines or
\* compound commands do not continue running": once a call that was stopped is
\* over nothing of its group runs, whatever the children did before and however
\* the end, the timeout and both cancellations met.
NoSurvivors ==
  (call = "raised" \/ (call = "returned" /\ (stopped.timedOut \/ stopped.cancelled)))
    => shell # "running" /\ \A k \in Kids : Running(k) => ~kids[k].group

\* A call whose time is over or whose token is set comes back, or waits for a
\* process that left the group and kept the pipe: nothing else can hold it.
StopsWhenTold ==
  (call = "waiting" /\ (timer = "fired" \/ seen))
    ~> (call \in {"returned", "raised"} \/ \E k \in Kids : Running(k) /\ kids[k].pipe /\ ~kids[k].group)
=============================================================================
