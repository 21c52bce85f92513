---------------------------- MODULE MCRollforward ---------------------------
(***************************************************************************)
(* Assembly files for the model checker.                                   *)
(***************************************************************************)
EXTENDS Rollforward

L(op, name) == [op |-> op, name |-> name]

\* The slice of an outer loop, which calls that of a leaf loop, which calls a
\* function.
Outer == << L("global", "outer"), L("instruction", ""), L("local", "row"),
            L("call", "leaf"), L("branch", "row"), L("return", "") >>
Leaf  == << L("global", "leaf"), L("align", ""), L("local", "body"),
            L("call", "function"), L("test", ""), L("jumpIfSignal", "promote"),
            L("local", "latch"), L("branch", "body"), L("local", "end"), L("return", ""),
            L("local", "promote"), L("callHandler", ""), L("branch", "latch"),
            L("jump", "end") >>
Function == << L("global", "function"), L("tableJump", "case"),
               L("local", "case"), L("instruction", ""), L("return", "") >>
SliceFile == Outer \o Leaf \o Function

\* The promotion handler block of the leaf is its call of the handler.
HandlerBlocks == {i \in Line : File[i].op = "callHandler"}
=============================================================================
