---------------------------- MODULE MCEngineLife ----------------------------
(* Utility calls for the instances of EngineLife: clients make any of     *)
(* AllCalls, or race a sleep with a wake-up.                               *)
EXTENDS EngineLife

Pause(mode, clear) == [op |-> "pause", mode |-> mode, clear |-> clear]
Sleep(mode)        == [op |-> "sleep", mode |-> mode, clear |-> TRUE]
Wake(tags)         == [op |-> "wake", tags |-> tags]
Resume             == [op |-> "resume"]

AllCalls ==
    {Pause(m, FALSE) : m \in {"abort", "wait", "keep"}}
        \cup {Pause("keep", TRUE), Sleep("keep"), Sleep("wait")}
        \cup {Wake({"weights"}), Wake(Memory), Resume}

SleepCalls == {Sleep("wait"), Wake(Memory)}
=============================================================================
