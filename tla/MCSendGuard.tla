---------------------------- MODULE MCSendGuard ----------------------------
(* Small instances of SendGuard for TLC. *)
EXTENDS SendGuard, TLC

Text(t)    == [kind |-> "text", text |-> t]
File(t)    == [kind |-> "file", text |-> t]
Forward(t) == [kind |-> "forward", text |-> t]

Symmetry == Permutations(Attempts)

MCTexts == {"", "hi"}
TextAndFile == {Text("hi"), File("")}
Forwards == {Forward("hi")}
=============================================================================
