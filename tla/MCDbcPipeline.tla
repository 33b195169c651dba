---------------------------- MODULE MCDbcPipeline ----------------------------
(* Instances of DbcPipeline for TLC.                                         *)
EXTENDS DbcPipeline

\* Two messages of the DBC file, 16 and 34, and an id it does not have.
MCDbc == [id \in CanId |-> CASE id = 16 -> "evse_state" [] id = 34 -> "remote_cmd"
                             [] OTHER -> NoMessage]

MCCanFrame == { [device |-> 1, id |-> 16, intact |-> TRUE],
                [device |-> 1, id |-> 16, intact |-> FALSE],
                [device |-> 1, id |-> 99, intact |-> TRUE] }

\* The frame by which a test asks for an unknown message; its checksum is wrong too.
MCBadFrame == { [device |-> 1, id |-> 99, intact |-> FALSE] }
=============================================================================
