------------------------------ MODULE Assembly ------------------------------
(***************************************************************************)
(* The assembly file of slice tasks that is compiled for rollforwarding:   *)
(* kinds of lines, and where control goes after a line.                    *)
(***************************************************************************)
EXTENDS Integers, Sequences

CONSTANT File   \* the lines, each [op, name]

Line == 1..Len(File)

\* Lines that are no instruction: a label, local or global, padding.
\* A global label has a line of its own.
Labels       == {"global", "local"}
Instructions == {"instruction", "call", "callHandler", "test", "jumpIfSignal",
                 "branch", "jump", "tableJump", "return"}

ASSUME FileAssumption ==
  /\ File \in Seq([op : STRING, name : STRING])
  /\ \A i \in Line : File[i].op \in Labels \cup Instructions \cup {"align"}

Global(f) == CHOOSE i \in Line : File[i] = [op |-> "global", name |-> f]
Local(l)  == CHOOSE i \in Line : File[i] = [op |-> "local", name |-> l]

\* Lines that take space in a copy of the text: what the second copy skips, global
\* labels and directives, takes none.
Space == {i \in Line : File[i].op \notin Labels}

\* The first line from i on that takes space in the text.
First(i) == CHOOSE j \in Space : j >= i /\ \A k \in Space : k >= i => k >= j

\* Where control goes from line i in the same activation, to the next line or to
\* the label that is its operand; and where a call of f begins.
FallsThrough   == (Instructions \ {"jump", "tableJump", "return"}) \cup {"align"}
JumpsTo        == {"jump", "branch", "tableJump", "jumpIfSignal"}
After(i)       == First(i + 1)
Destination(i) == First(Local(File[i].name))
Entry(f)       == First(Global(f))
=============================================================================
