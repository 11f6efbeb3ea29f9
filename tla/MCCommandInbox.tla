---------------------------- MODULE MCCommandInbox ----------------------------
(* Instances of CommandInbox for TLC.                                          *)
EXTENDS CommandInbox

CONSTANTS p1, a2, p3, a3, x, y

\* Two patches of a key around an action, and an action with the seq of the second
\* patch (two CLIs read the same status).
AllCommands == {p1, a2, p3, a3}
PatchAndActions == {p1, a2, a3}

SeqOfMC == [c \in Commands |-> IF c = p1 THEN 1 ELSE IF c = a2 THEN 2 ELSE 3]
TypeOfMC ==
  [c \in Commands |-> IF c \in {p1, p3} THEN "config-patch" ELSE "action"]
ExpiryMC == [c \in Commands |-> IF c = p3 THEN 1 ELSE 2]
KeysOfMC == [c \in Commands |-> IF c = p1 THEN {x} ELSE {x, y}]
BothKeys == {x, y}

\* Nothing goes wrong; the process is killed; writes stop half way.
OneKindOfTrouble == {{}, {"crash"}, {"torn"}}
TornFiles == {{"crash", "torn"}}

\* "a one-shot action is never executed twice -- we drop on any doubt" (agent.ts
\* 309-311), without the condition that writes are whole.
AtMostOnce == \A c \in Commands : runs[c] <= 1
=============================================================================
