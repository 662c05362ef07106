---------------------------- MODULE ChildProcess ----------------------------
(***************************************************************************)
(* Quickshell's Process as OmaDex.qml uses it: `running = false` signals   *)
(* the child, which still ends in its own time; `running = true` before    *)
(* that starts another one, with the command set meanwhile, when it has    *)
(* ended.  What a child wrote is handed over when it ends.                 *)
(***************************************************************************)
CONSTANT None

\* job: the command the live child was started with; command: the property.
NotStarted == [job |-> None, killed |-> FALSE, command |-> None, again |-> FALSE]

ProcessOver(Commands) ==
    [job : Commands \cup {None}, killed : BOOLEAN,
     command : Commands \cup {None}, again : BOOLEAN]

Running(p) == p.job # None

\* if (p.running) p.running = false; p.command = cmd; p.running = true
Launch(p, cmd) ==
    IF Running(p) THEN [p EXCEPT !.killed = TRUE, !.command = cmd, !.again = TRUE]
    ELSE [p EXCEPT !.job = cmd, !.command = cmd]

\* The child has ended; a start that waited for it happens now.
Ended(p) ==
    [p EXCEPT !.job = IF p.again THEN p.command ELSE None,
              !.killed = FALSE, !.again = FALSE]
=============================================================================
