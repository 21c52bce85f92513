--------------------------- MODULE LoopArithmetic ---------------------------
(***************************************************************************)
(* The arithmetic of the chunked leaf loop and of the promotion handler on *)
(* machine words: iterations are unsigned words that wrap around, while    *)
(* the loop of the program compares them as signed ones.  The halves of a  *)
(* split are run one after the other, in any order.                        *)
(***************************************************************************)
EXTENDS Integers

CONSTANTS
  Half,          \* how many words are not negative when read as signed
  LoopBounds,    \* first and last + 1 iteration of the loop, as words
  ChunkSizes     \* what CHUNKSIZE may be set to

Modulus == 2 * Half
Word    == 0 .. Modulus - 1

ASSUME ArithmeticAssumption ==
  /\ Half \in Nat \ {0}
  /\ LoopBounds \subseteq Word
  /\ ChunkSizes \subseteq Word \ {0}

VARIABLES
  from, to,               \* the loop of the program: for (i = from; i < to; i++)
  chunksize, remaining,   \* the task memory
  todo,                   \* slices that have not been run: first and last + 1
  pc, iv, max, low, chunk, \* the slice that is being run
  ran                     \* how many times each iteration has been run

vars == <<from, to, chunksize, remaining, todo, pc, iv, max, low, chunk, ran>>
-----------------------------------------------------------------------------
Add(a, b)  == (a + b) % Modulus
Sub(a, b)  == (a - b) % Modulus
Signed(a)  == IF a < Half THEN a ELSE a - Modulus

\* (the chunk not clamped to the loop)
HighUnclamped(a, b) == a

\* llvm.umin.
UMin(a, b) == IF a < b THEN a ELSE b

\* (a full chunk does not refill the allowance)
AllowanceNotReset(iterations) == Sub(remaining, iterations)

\* update_and_has_remaining_chunksize.
Allowance(iterations) ==
  IF iterations = remaining THEN chunksize ELSE Sub(remaining, iterations)

Init ==
  /\ from \in LoopBounds /\ to \in LoopBounds
  /\ chunksize \in ChunkSizes
  /\ remaining = chunksize
  /\ todo = {<<from, to>>}
  /\ pc = "idle" /\ iv = 0 /\ max = 0 /\ low = 0 /\ chunk = 0
  /\ ran = [i \in Word |-> 0]

\* A slice starts, after task_memory_reset.
Enter ==
  /\ pc = "idle"
  /\ \E s \in todo : iv' = s[1] /\ max' = s[2] /\ todo' = todo \ {s}
  /\ remaining' = chunksize
  /\ pc' = "header"
  /\ UNCHANGED <<from, to, chunksize, low, chunk, ran>>

\* The header of the outer chunked loop: the comparison is unsigned.
LeaveLoop ==
  /\ pc = "header" /\ iv >= max
  /\ pc' = "idle"
  /\ UNCHANGED <<from, to, chunksize, remaining, todo, iv, max, low, chunk, ran>>

\* A chunk: the inner loop runs from iv up to high.
RunChunk ==
  LET high       == UMin(Add(iv, remaining), max)
      iterations == Sub(high, iv)
  IN
  /\ pc = "header" /\ iv < max
  /\ ran' = [i \in Word |-> ran[i] + (IF iv <= i /\ i < high THEN 1 ELSE 0)]
  /\ low' = IF iv < high THEN high ELSE iv
  /\ chunk' = remaining
  /\ remaining' = Allowance(iterations)
  /\ pc' = IF iterations = remaining THEN "poll" ELSE "idle"
  /\ UNCHANGED <<from, to, chunksize, todo, iv, max>>

\* What the handler finds: the last iteration run, and the difference it tests.
LastRun    == Sub(low, 1)
Splittable == Sub(max, LastRun) >= 2

\* No heartbeat, or one with nothing left to split: the latch.
Latch ==
  /\ pc = "poll"
  /\ iv' = Add(iv, chunk)
  /\ pc' = "header"
  /\ UNCHANGED <<from, to, chunksize, remaining, todo, max, low, chunk, ran>>

\* A promotion.
Split ==
  LET mid == Add(Add(LastRun, 1), max) \div 2 IN
  /\ pc = "poll" /\ Splittable
  /\ todo' = todo \cup {<<Add(LastRun, 1), mid>>, <<mid, max>>}
  /\ pc' = "idle"
  /\ UNCHANGED <<from, to, chunksize, remaining, iv, max, low, chunk, ran>>

Over == pc = "idle" /\ todo = {}

Terminated == Over /\ UNCHANGED vars

Next == Enter \/ LeaveLoop \/ RunChunk \/ Latch \/ Split \/ Terminated

Spec == Init /\ [][Next]_vars

FairSpec == Spec /\ WF_vars(Enter \/ LeaveLoop \/ RunChunk \/ Latch \/ Split)
-----------------------------------------------------------------------------
\* The iterations of the loop as the program means it.
Meant(i) == Signed(from) <= Signed(i) /\ Signed(i) < Signed(to)

\* The words add up: no wrap of iv + chunk, of low + 1 + high or of max - start
\* makes a slice run an iteration the loop of the program does not have, run one
\* twice, or lose one.
RunsAsSigned ==
  /\ \A i \in Word : ran[i] <= 1 /\ (ran[i] = 1 => Meant(i))
  /\ Over => \A i \in Word : Meant(i) => ran[i] = 1

\* Every loop ends when the chunk size is at least 1.
Termination == <>Over
=============================================================================
