----------------------------- MODULE MCCompletion -----------------------------
(* A small instance of the completion daemon: one or two sessions, an event  *)
(* of a session and one without, a file and a process of the session.        *)
EXTENDS CompletionDaemon

CONSTANTS s1, e1, e2, a1, a2, p1, p2, g1

Idle(id, session) ==
    [event_id |-> id, session_id |-> session, task_id |-> NoSession,
     tool_name |-> "none", source |-> "idle"]

MCOneEvent   == {Idle(e1, s1)}

\* "a:b" of session "s1", and "a" of session "b:s1": one key, of which the
\* second resolves to nothing.
MCCollidingEvents == {Idle(e1, s1), Idle(e2, NoSession)}

\* One that is cleaned up, a tool part that is not a task, a disabled source.
MCThreeEvents ==
    {Idle(e1, s1),
     [Idle(e2, s1) EXCEPT !.source = "tool_part_completed",
                          !.tool_name = "bash"],
     [Idle(e2, s1) EXCEPT !.source = "deleted"]}

Parts == {<<e.event_id, e.session_id, e.task_id>> : e \in Events}

MCJoinedText == [parts \in Parts |-> IF parts[1] \in {e1, e2} THEN e1 ELSE parts[1]]

MCSources == {"idle", "tool_part_completed", "inferred"}

MCArtifactSessions == [a \in Artifacts |-> {s1}]
MCArtifactRoot     == [a \in Artifacts |-> IF a = a2 THEN 3 ELSE 1]
MCProcessSessions  == [p \in Processes |-> IF p = p1 THEN {s1} ELSE {}]
MCProcessGroup     == [p \in Processes |-> g1]
=============================================================================
