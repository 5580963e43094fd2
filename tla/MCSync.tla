------------------------------- MODULE MCSync -------------------------------
(***************************************************************************)
(* Instances of SyncParts for TLC.                                         *)
(***************************************************************************)
EXTENDS SyncParts

\* Two messages, a call without an id, a receipt, and a typing notice of a state that is
\* not forwarded; a channel of one place.
MCEvents == {"m1", "m2", "call", "r1", "t1"}
MCKind == [e \in MCEvents |-> CASE e \in {"m1", "m2", "call"} -> "message"
                                [] e = "r1" -> "receipt"
                                [] OTHER -> "chat_presence"]
MCSelections == {{}, {"receipt"}, {"message", "receipt", "chat_presence"}}

\* A chat with two names of which the phone uses the second, and a group.
MCChats == {"dm", "group"}
MCNames == [c \in MCChats |-> IF c = "dm" THEN <<"lid", "pn">> ELSE <<"group">>]
MCFiled == [c \in MCChats |-> IF c = "dm" THEN "pn" ELSE "group"]
=============================================================================
