------------------------------ MODULE MCGenerate ----------------------------
(***************************************************************************)
(* The instance of Generate for TLC: every conversation of up to two       *)
(* messages and the ones of three that mix speakers, every stream of up to *)
(* three lines.                                                            *)
(***************************************************************************)
EXTENDS Generate, SequencesExt

M(role) == [role |-> role, name |-> "", blank |-> FALSE]

Blank(role) == [M(role) EXCEPT !.blank = TRUE]

Left == [M("hemisphere") EXCEPT !.name = "left"]

Right == [M("hemisphere") EXCEPT !.name = "right"]

Speakers == {M("system"), Blank("system"), M("user"), M("assistant"), Left}

UpToTwo == BoundedSeq(Speakers, 2)

Mixed == {<<M("user"), M("system"), Left>>, <<Right, Left, M("hemisphere")>>,
          <<Blank("system"), M("assistant"), Blank("system")>>,
          <<Blank("system"), M("user"), M("system")>>}

AllConversations == UpToTwo \union Mixed
OneConversation == {<<M("user")>>}

AllStreams == BoundedSeq(Line, 3)
OneLine == BoundedSeq(Line, 1)
=============================================================================
