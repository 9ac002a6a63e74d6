------------------------------ MODULE MCAgentLoop ------------------------------
(***************************************************************************)
(* AgentLoop with two calls of the harness, one of the shell, a wait, a    *)
(* wake that is accepted and one that is not, and the end: every rule of   *)
(* the breaker, every cap and every carried wake within a few calls.       *)
(***************************************************************************)
EXTENDS AgentLoop

Call(tool, sig) == [tool |-> tool, sig |-> sig, valid |-> TRUE]
BadWake == [tool |-> "set_next_wake", sig |-> "bad", valid |-> FALSE]

\* A call of the same tool with other arguments, and these refused.
BadAct == [tool |-> "act", sig |-> "a2", valid |-> FALSE]

AllIntents ==
  {Call("act", "a1"), BadAct, Call("shell", "s"), Call("wait", "w"),
   Call("set_next_wake", "soon"), BadWake, Call("end_session", "end")}

\* For the breaker alone: what its rules tell apart.
BreakerIntents ==
  {Call("act", "a1"), Call("act", "a2"), Call("shell", "s"), Call("wait", "w")}

===============================================================================
