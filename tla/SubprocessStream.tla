--------------------------- MODULE SubprocessStream ---------------------------
(***************************************************************************)
(* check_call_streamed_async (pipeline/subprocess_stream.py): a child that *)
(* leads its own process group runs with its output piped to the caller,   *)
(* who pumps it on.  Completion is keyed on the child's exit and not on    *)
(* the end of the pipe, which descendants of the child may hold open.  A   *)
(* child over its time limit is sent TERM and, after a grace, KILL; at the *)
(* end the group is swept with TERM, on a cancellation as well.            *)
(*                                                                         *)
(* Timers are steps that may come at any time after they were set.  The    *)
(* pipe has room for a few chunks: a child whose output nobody reads       *)
(* blocks.                                                                 *)
(***************************************************************************)
EXTENDS Naturals

CONSTANTS
  Helpers,     \* descendants in the child's group
  Escapees,    \* descendants in a session of their own
  MaxChunks,   \* bound: chunks the child writes before it exits
  PipeRoom     \* chunks the pipe holds

ASSUME StreamAssumption ==
  Helpers \cap Escapees = {} /\ MaxChunks \in Nat /\ PipeRoom \in Nat \ {0}

VARIABLES
  call,       \* the caller
  leader,     \* the child
  members,    \* its descendants, who hold the pipe open as long as they live
  told,       \* members of the group that were sent TERM
  pipeFill    \* chunks in the pipe

streamVars == <<call, leader, members, told, pipeFill>>

Descendants == Helpers \cup Escapees

\* timed says whether the call has a timeout; tee whether the wrapped stream
\* still takes text.
Call == [phase : {"wait", "grace", "killed", "drain", "sweep", "returned"},
         timed : BOOLEAN, tee : BOOLEAN, pump : {"running", "ended", "cancelled"},
         outcome : {"none", "ok", "failed", "timeout", "cancelled"}]

\* hangs and stubborn: the child never exits by itself; TERM does not end it.
Leader == [alive : BOOLEAN, failed : BOOLEAN, wrote : 0 .. MaxChunks,
           hangs : BOOLEAN, stubborn : BOOLEAN, termed : BOOLEAN]

StreamTypeOK ==
  /\ call \in Call
  /\ leader \in Leader
  /\ members \in [Descendants -> {"unborn", "alive", "dead"}]
  /\ told \subseteq Helpers
  /\ pipeFill \in 0 .. PipeRoom

StreamInit ==
  /\ \E t \in BOOLEAN :
       call = [phase |-> "wait", timed |-> t, tee |-> TRUE, pump |-> "running",
               outcome |-> "none"]
  /\ \E h, s \in BOOLEAN :
       leader = [alive |-> TRUE, failed |-> FALSE, wrote |-> 0, hangs |-> h,
                 stubborn |-> s, termed |-> FALSE]
  /\ members = [d \in Descendants |-> "unborn"]
  /\ told = {}
  /\ pipeFill = 0

Living(S) == {d \in S : members[d] = "alive"}

-----------------------------------------------------------------------------
(***************************************************************************)
(* The child and its descendants.                                          *)
(***************************************************************************)

ChildOnly == UNCHANGED <<call, told>>

ChildWrites ==
  /\ leader.alive /\ leader.wrote < MaxChunks
  /\ pipeFill < PipeRoom
  /\ pipeFill' = pipeFill + 1
  /\ leader' = [leader EXCEPT !.wrote = @ + 1]
  /\ ChildOnly /\ UNCHANGED members

ChildExits ==
  /\ leader.alive
  /\ \/ ~leader.hangs /\ leader.wrote = MaxChunks
     \/ leader.termed /\ ~leader.stubborn
  /\ \E f \in BOOLEAN : leader' = [leader EXCEPT !.alive = FALSE, !.failed = f]
  /\ ChildOnly /\ UNCHANGED <<members, pipeFill>>

Fork(d) ==
  /\ leader.alive
  /\ members[d] = "unborn"
  /\ members' = [members EXCEPT ![d] = "alive"]
  /\ ChildOnly /\ UNCHANGED <<leader, pipeFill>>

\* A descendant ends when it likes, told to or not.
DescendantEnds(d) ==
  /\ members[d] = "alive"
  /\ members' = [members EXCEPT ![d] = "dead"]
  /\ ChildOnly /\ UNCHANGED <<leader, pipeFill>>

-----------------------------------------------------------------------------
(***************************************************************************)
(* The caller.                                                             *)
(***************************************************************************)

Awaiting == {"wait", "grace", "killed", "drain"}
Phase(p) == call' = [call EXCEPT !.phase = p]

\* _pump reads a chunk and forwards it; a broken stream is given up.
PumpChunk ==
  /\ call.phase \in Awaiting /\ call.pump = "running"
  /\ pipeFill > 0
  /\ pipeFill' = pipeFill - 1
  /\ \E tee \in {call.tee, FALSE} : call' = [call EXCEPT !.tee = tee]
  /\ UNCHANGED <<leader, members, told>>

PumpEnds ==
  /\ call.phase \in Awaiting /\ call.pump = "running"
  /\ pipeFill = 0 /\ ~leader.alive /\ Living(Descendants) = {}
  /\ call' = [call EXCEPT !.pump = "ended"]
  /\ UNCHANGED <<leader, members, told, pipeFill>>

\* The outcome a call has when nothing cancels it.
Outcome ==
  IF call.outcome = "timeout" THEN "timeout" ELSE IF leader.failed THEN "failed" ELSE "ok"

\* _wait_exit polls the reaped status, in each of the three waits.
SeeExit ==
  /\ call.phase \in {"wait", "grace", "killed"}
  /\ ~leader.alive
  /\ call' = [call EXCEPT !.phase = "drain", !.outcome = Outcome]
  /\ UNCHANGED <<leader, members, told, pipeFill>>

\* SIGTERM of _signal_group
TermGroup ==
  /\ told' = told \cup Living(Helpers)
  /\ leader' = [leader EXCEPT !.termed = leader.termed \/ leader.alive]

\* The timeout passes, maybe within a poll's tick of the exit.
TimeOut ==
  /\ call.phase = "wait" /\ call.timed
  /\ call' = [call EXCEPT !.phase = "grace", !.outcome = "timeout"]
  /\ TermGroup
  /\ UNCHANGED <<members, pipeFill>>

\* The grace passes: SIGKILL to whoever is left.
GraceEnds ==
  /\ call.phase = "grace"
  /\ leader' = [leader EXCEPT !.alive = FALSE, !.failed = leader.failed \/ leader.alive]
  /\ members' = [d \in Descendants |->
                   IF d \in Living(Helpers) THEN "dead" ELSE members[d]]
  /\ Phase("killed")
  /\ UNCHANGED <<told, pipeFill>>

\* Mutant of Drain: the end of the pipe is waited for.
DrainToTheEnd ==
  /\ call.phase = "drain" /\ call.pump = "ended"
  /\ Phase("sweep")
  /\ UNCHANGED <<leader, members, told, pipeFill>>

\* The pipe has ended, or the drain's two seconds have.
Drain ==
  /\ call.phase = "drain"
  /\ Phase("sweep")
  /\ UNCHANGED <<leader, members, told, pipeFill>>

\* The coroutine is cancelled at one of its awaits.
Cancelled ==
  /\ call.phase \in Awaiting
  /\ call' = [call EXCEPT !.phase = "sweep", !.outcome = "cancelled"]
  /\ UNCHANGED <<leader, members, told, pipeFill>>

\* finally: the pump is cancelled and the group swept.
Sweep ==
  /\ call.phase = "sweep"
  /\ call' = [call EXCEPT !.phase = "returned",
                !.pump = IF call.pump = "ended" THEN "ended" ELSE "cancelled"]
  /\ TermGroup
  /\ UNCHANGED <<members, pipeFill>>

ChildStep == ChildWrites \/ ChildExits
CallStep == PumpChunk \/ PumpEnds \/ SeeExit \/ TimeOut \/ GraceEnds \/ Drain \/ Sweep

StreamNext ==
  \/ ChildStep \/ CallStep \/ Cancelled
  \/ \E d \in Descendants : Fork(d) \/ DescendantEnds(d)

\* The child runs and timers expire.
StreamSpec ==
  StreamInit /\ [][StreamNext]_streamVars /\ WF_streamVars(ChildStep) /\ WF_streamVars(CallStep)

-----------------------------------------------------------------------------
\* A child that hangs without a timeout holds the call up.
Returned == (leader.hangs => call.timed) => call.phase = "returned"

\* Under StreamSpec the call returns although descendants hold the pipe, the
\* child ignores TERM or the wrapped stream breaks while the pipe is full.
CallReturns == <>[]Returned
=============================================================================
