------------------------------ MODULE SystemCalls ------------------------------
(***************************************************************************)
(* do_system, do_exec and do_exec_redirect                                 *)
(* (examples/systemcalls/systemcalls.c): the caller, and the child process *)
(* of each call, which runs beside it and outlives the call when waitpid   *)
(* fails.  Call n is the n-th one, and n also stands for its child.  What  *)
(* the kernel and system(3) do is external; any of it may fail.            *)
(***************************************************************************)
EXTENDS Integers, FiniteSets

CONSTANTS MaxCalls,  \* bound: the calls made
          MaxFiles   \* the descriptors the caller may have open

Calls == 1 .. MaxCalls

VARIABLES
  calls,      \* how many calls there have been
  function,   \* the function of each call
  caller,     \* where the caller is: "idle", "fork" or "wait"
  result,     \* what each call has returned, "none" before that
  unwaited,   \* the calls whose waitpid has failed
  opened,     \* the calls that have opened the output file; none closes it
  child,      \* where the child of each call is
  status,     \* how each child has ended: "zero", "failure" or "signal"
  redirected, \* the children whose standard output is the file
  ran,        \* the calls whose command was executed
  file,       \* the calls whose commands wrote to the file as it is now
  terminal    \* the calls whose commands wrote to the caller's own output

parent   == <<calls, function, caller, result, unwaited, opened>>
children == <<child, status, redirected, ran, file, terminal>>
vars     == <<parent, children>>

Init ==
  /\ calls = 0 /\ caller = "idle"
  /\ function = [n \in Calls |-> "none"]
  /\ result = [n \in Calls |-> "none"]
  /\ child = [n \in Calls |-> "none"]
  /\ status = [n \in Calls |-> "zero"]
  /\ unwaited = {} /\ opened = {} /\ redirected = {} /\ ran = {}
  /\ file = {} /\ terminal = {}

Redirects(n) == function[n] = "do_exec_redirect"

-----------------------------------------------------------------------------
(* Bug: the file is opened without O_TRUNC.                                *)
CallNoTruncate(f) ==
  /\ caller = "idle" /\ calls < MaxCalls
  /\ calls' = calls + 1 /\ caller' = "fork"
  /\ function' = [function EXCEPT ![calls + 1] = f]
  /\ \/ UNCHANGED opened
     \/ /\ f = "do_exec_redirect" /\ Cardinality(opened) < MaxFiles
        /\ opened' = opened \cup {calls + 1}
  /\ UNCHANGED <<result, unwaited, child, status, redirected, ran, file, terminal>>

(* The caller.  do_exec_redirect opens the file (all calls name the same   *)
(* one here) before it forks, and does not look whether that has failed.   *)
Call(f) ==
  /\ caller = "idle" /\ calls < MaxCalls
  /\ calls' = calls + 1 /\ caller' = "fork"
  /\ function' = [function EXCEPT ![calls + 1] = f]
  /\ \/ UNCHANGED <<opened, file>>
     \/ /\ f = "do_exec_redirect" /\ Cardinality(opened) < MaxFiles
        /\ opened' = opened \cup {calls + 1} /\ file' = {}
  /\ UNCHANGED <<result, unwaited, child, status, redirected, ran, terminal>>

Return(value) ==
  /\ caller' = "idle"
  /\ result' = [result EXCEPT ![calls] = value]

ForkFails ==
  /\ caller = "fork"
  /\ Return("false")
  /\ UNCHANGED <<calls, function, unwaited, opened, children>>

Fork ==
  /\ caller = "fork" /\ caller' = "wait"
  /\ child' = [child EXCEPT ![calls] = IF Redirects(calls) THEN "dup2" ELSE "exec"]
  /\ UNCHANGED <<calls, function, result, unwaited, opened,
                 status, redirected, ran, file, terminal>>

(* Bug: WIFEXITED instead of WEXITSTATUS, as in do_system.                 *)
SuccessIfExited(n) == status[n] # "signal"

(* do_system returns WIFEXITED(ret), the others WEXITSTATUS(status) == 0,  *)
(* which is also so after a signal.                                        *)
Success(n) == IF function[n] = "do_system" THEN status[n] # "signal" ELSE status[n] # "failure"

Wait ==
  /\ caller = "wait" /\ child[calls] = "exited"
  /\ Return(IF Success(calls) THEN "true" ELSE "false")
  /\ child' = [child EXCEPT ![calls] = "reaped"]
  /\ UNCHANGED <<calls, function, unwaited, opened, status, redirected, ran, file, terminal>>

(* waitpid fails because a signal interrupts it, with the child still      *)
(* running (system goes on waiting then), or because the child was reaped  *)
(* elsewhere.                                                              *)
WaitFails ==
  /\ caller = "wait"
  /\ function[calls] = "do_system" => child[calls] = "exited"
  /\ Return("false")
  /\ unwaited' = unwaited \cup {calls}
  /\ UNCHANGED <<calls, function, opened, children>>

-----------------------------------------------------------------------------
(* The child of call n, with the caller's descriptors as they were at fork.*)

Exit(n, s) ==
  /\ child' = [child EXCEPT ![n] = "exited"]
  /\ status' = [status EXCEPT ![n] = s]

(* Bug: it is not looked whether dup2 has failed.                          *)
Dup2Unchecked(n) ==
  /\ child[n] = "dup2"
  /\ \/ n \in opened /\ redirected' = redirected \cup {n}
     \/ UNCHANGED redirected
  /\ child' = [child EXCEPT ![n] = "exec"]
  /\ UNCHANGED <<parent, status, ran, file, terminal>>

Dup2(n) ==
  /\ child[n] = "dup2"
  /\ \/ /\ n \in opened /\ redirected' = redirected \cup {n}
        /\ child' = [child EXCEPT ![n] = "exec"]
        /\ UNCHANGED status
     \/ Exit(n, "failure") /\ UNCHANGED redirected
  /\ UNCHANGED <<parent, ran, file, terminal>>

Exec(n) ==
  /\ child[n] = "exec"
  /\ child' = [child EXCEPT ![n] = "command"]
  /\ ran' = ran \cup {n}
  /\ UNCHANGED <<parent, status, redirected, file, terminal>>


(* exit(EXIT_FAILURE); the shell of system exits likewise.                 *)
ExecFails(n) ==
  /\ child[n] = "exec"
  /\ Exit(n, "failure")
  /\ UNCHANGED <<parent, redirected, ran, file, terminal>>

(* The command may write, and it may end.                                  *)
CommandWrites(n) ==
  /\ child[n] = "command"
  /\ IF n \in redirected
       THEN file' = file \cup {n} /\ UNCHANGED terminal
       ELSE terminal' = terminal \cup {n} /\ UNCHANGED file
  /\ UNCHANGED <<parent, child, status, redirected, ran>>

CommandEnds(n) ==
  /\ child[n] = "command"
  /\ \E s \in {"zero", "failure", "signal"} : Exit(n, s)
  /\ UNCHANGED <<parent, redirected, ran, file, terminal>>

-----------------------------------------------------------------------------
Functions == {"do_system", "do_exec", "do_exec_redirect"}

Caller   == (\E f \in Functions : Call(f)) \/ Fork \/ ForkFails \/ Wait \/ WaitFails
Child(n) == Dup2(n) \/ Exec(n) \/ ExecFails(n)
Command(n) == CommandWrites(n) \/ CommandEnds(n)

Next == Caller \/ \E n \in Calls : Child(n) \/ Command(n)

(* The caller and the children are scheduled; a command may run for ever.  *)
Fairness ==
  /\ WF_vars(Fork \/ ForkFails \/ Wait \/ WaitFails)
  /\ \A n \in Calls : WF_vars(Child(n))

Spec == Init /\ [][Next]_vars /\ Fairness

-----------------------------------------------------------------------------
(* do_exec and do_exec_redirect return true only if their command was      *)
(* executed and ended with 0 (or by a signal), whichever process failed    *)
(* at whichever step; they return false after a command that ended with 0  *)
(* only if waitpid failed (lines 95-116, 168-193).                         *)
ResultIsOfCommand == \A n \in Calls : function[n] # "do_system" =>
  /\ result[n] = "true" => n \in ran /\ child[n] = "reaped" /\ status[n] # "failure"
  /\ result[n] = "false" /\ n \in ran \ unwaited => status[n] = "failure"

(* A redirected command never writes to the caller's own output, also when *)
(* the file was not opened or dup2 failed (lines 155-176).                 *)
OutputRedirected == \A n \in terminal : ~Redirects(n)

(* The file holds no output of an earlier call than the last one that      *)
(* opened it, unless that call's waitpid failed and its command ran on     *)
(* beside the later one (lines 155-193).                                   *)
FileHoldsLastCall ==
  \A n \in opened : (\A k \in opened : k <= n) => file \subseteq {n} \cup unwaited

(* A call returns, unless its command runs for ever: no child is left that *)
(* neither executes the command nor exits.                                 *)
CallsReturn == caller # "idle" ~>
  caller = "idle" \/ \E n \in Calls : n = calls /\ child[n] = "command"
=============================================================================
