-------------------------- MODULE MCKernelRuntime --------------------------
(* Small client programs for TLC.  A call is a record of its number, the    *)
(* command id it carries and its operation.                                 *)
EXTENDS KernelRuntime

CallId(c) == c.id
CallOperation(c) == c.operation

A(n, id, operation) == [n |-> n, id |-> id, operation |-> operation]

\* Restores among registrations, invocations and checkpoints.
RestoreCalls == {A(1, "r", "registerApplication"), A(2, "i", "invokeApplication"),
                 A(3, "k", "checkpoint"), A(4, "t", "restore"),
                 A(5, "l", "checkpoint")}

\* Checkpoints on both sides of a restore and of a new environment.
LineageCalls == {A(3, "k", "checkpoint"), A(4, "t", "restore"),
                 A(5, "l", "checkpoint"), A(6, "p", "install"),
                 A(7, "m", "checkpoint")}

\* Calls that share a command id: a repetition, and a conflict of operations.
RepeatedCalls == {A(4, "t", "restore"), A(8, "e", "execute"),
                  A(9, "e", "execute"), A(10, "e", "checkpoint")}

AllCalls == RestoreCalls \cup LineageCalls \cup RepeatedCalls

Program(program, apart, failing, unsealing) ==
    [calls |-> program, apart |-> apart, maxFailures |-> failing,
     maxSealFailures |-> unsealing]

Programs == {Program(RestoreCalls, TRUE, 1, 0), Program(LineageCalls, TRUE, 0, 0),
             Program(RepeatedCalls, FALSE, 1, 1)}

\* A command behind a restore.
PipelinedProgram ==
    {Program({A(3, "k", "checkpoint"), A(4, "t", "restore"),
              A(8, "e", "execute")}, FALSE, 0, 0)}

\* DeltaMatchesParent does not hold of this one: the artifact store refuses a checkpoint.
UnsealedProgram ==
    {Program({A(3, "k", "checkpoint"), A(5, "l", "checkpoint"),
              A(7, "m", "checkpoint")}, TRUE, 0, 1)}
=============================================================================
