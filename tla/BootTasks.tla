----------------------------- MODULE BootTasks -----------------------------
(***************************************************************************)
(* initramfs/pid1/main.go: the table of tasks, as Run leaves it.  A row    *)
(* has the worker and the tasks it comes after.                            *)
(***************************************************************************)
EXTENDS Sequences, TLC

Row(do, after) == [do |-> do, after |-> after]

\* NewTask
NewTask(tasks, t, do, after) == (t :> Row(do, after)) @@ tasks

\* NewTaskConfig: the new task is also appended to the rows of the tasks it
\* comes before
NewTaskConfig(tasks, t, do, after, before) ==
    NewTask([n \in DOMAIN tasks |->
                IF n \in before THEN [tasks[n] EXCEPT !.after = Append(@, t)] ELSE tasks[n]],
            t, do, after)

\* The variable `tasks'
InitialTasks ==
    [mount   |-> Row("mount", <<>>),
     random  |-> Row("random", <<"mount">>),
     modules |-> Row("modules", <<"mount">>),
     network |-> Row("network", <<"modules", "random">>),
     switch  |-> Row("nil", <<>>)]

\* Run, up to RunUntil(Target)
RunTasks ==
    LET dummies == NewTask(NewTask(NewTask(NewTask(InitialTasks,
                       "foo", "wait", <<>>),
                       "bar", "wait", <<>>),
                       "baz", "wait", <<"foo", "bar">>),
                       "failure", "fail", <<>>)
    IN NewTaskConfig(dummies, "shell", "shell", <<"baz", "network">>, {"switch"})
=============================================================================
