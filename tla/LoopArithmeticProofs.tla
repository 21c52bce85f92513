------------------------ MODULE LoopArithmeticProofs ------------------------
(***************************************************************************)
(* Proofs about LoopArithmetic: no sum or difference of the loop and the   *)
(* handler wraps around as long as the bounds of the loop and the chunk    *)
(* size are not negative when read as signed words, whatever their width.  *)
(***************************************************************************)
EXTENDS LoopArithmetic, TLAPS

\* The words that are not negative when read as signed.
Positives == 0 .. Half - 1

\* What the theorems assume of the inputs.
SignedInputs == LoopBounds \subseteq Positives /\ ChunkSizes \subseteq Positives

Covers(s, i)  == s[1] <= i /\ i < s[2]
Waiting(i)    == \E s \in todo : Covers(s, i)
\* The iterations that are left to the slice being run.
Current(i)    == \/ pc = "header" /\ iv  <= i /\ i < max
                 \/ pc = "poll"   /\ low <= i /\ i < max

TypeInv ==
  /\ from \in Positives /\ to \in Positives
  /\ chunksize \in Positives \ {0}
  /\ remaining \in Word
  /\ todo \subseteq Positives \X Positives
  /\ pc \in {"idle", "header", "poll"}
  /\ iv \in Positives /\ max \in Positives
  /\ low \in Word /\ chunk \in Word
  /\ ran \in [Word -> Nat]

\* A slice that is being run has its whole allowance, and its heartbeats come
\* after a whole chunk.
SliceInv ==
  /\ pc # "idle" => remaining = chunksize
  /\ pc = "poll" => /\ chunk = chunksize
                    /\ low = iv + chunk
                    /\ low <= max

\* Every iteration of the loop has been run, waits, or is left to the slice that
\* is being run, and no two of these.
IterationInv ==
  /\ \A i \in Word : Waiting(i) \/ Current(i) => Meant(i)
  /\ \A i \in Word : ~(Waiting(i) /\ Current(i))
  /\ \A i \in Word : ran[i] = IF Meant(i) /\ ~Waiting(i) /\ ~Current(i) THEN 1 ELSE 0
  /\ \A i \in Word : \A s, t \in todo : Covers(s, i) /\ Covers(t, i) => s = t

ArithmeticInv == TypeInv /\ SliceInv /\ IterationInv

-----------------------------------------------------------------------------
(***************************************************************************)
(* Arithmetic on words.                                                    *)
(***************************************************************************)

\* The range of the words, whatever the width.
LEMMA WordFacts ==
  /\ Half \in Nat /\ Half >= 1 /\ Modulus \in Nat /\ Modulus = 2 * Half
  /\ \A i : i \in Word <=> i \in Nat /\ i < Modulus
  /\ \A i : i \in Positives <=> i \in Nat /\ i < Half
BY ArithmeticAssumption DEF Modulus, Word, Positives

\* A sum or a difference that is a word is what the program means by it.
LEMMA ModOfWord ==
  ASSUME NEW x \in Word
  PROVE  x % Modulus = x
<1>1. Modulus \in Nat /\ Modulus > 0 /\ x \in Nat /\ x < Modulus
  BY WordFacts
<1> QED BY <1>1

LEMMA AddOfWords ==
  ASSUME NEW a \in Int, NEW b \in Int, a + b \in Word
  PROVE  Add(a, b) = a + b
BY ModOfWord DEF Add

LEMMA SubOfWords ==
  ASSUME NEW a \in Int, NEW b \in Int, a - b \in Word
  PROVE  Sub(a, b) = a - b
BY ModOfWord DEF Sub

\* Where the bounds are not negative the signed and the unsigned loop agree.
LEMMA MeantIsRange ==
  ASSUME TypeInv, NEW i \in Word
  PROVE  Meant(i) <=> from <= i /\ i < to
<1>1. from \in Nat /\ from < Half /\ to \in Nat /\ to < Half
  BY WordFacts DEF TypeInv
<1>2. i \in Nat /\ i < Modulus /\ Modulus = 2 * Half /\ Half \in Nat
  BY WordFacts
<1> QED BY <1>1, <1>2 DEF Meant, Signed

\* The inputs and the initial state.
LEMMA ArithmeticInit ==
  ASSUME SignedInputs, Init
  PROVE  ArithmeticInv
<1>1. TypeInv
  BY WordFacts, ArithmeticAssumption DEF Init, SignedInputs, TypeInv
<1>2. SliceInv
  BY DEF Init, SliceInv
<1>3. \A i \in Word : Waiting(i) <=> Meant(i)
  BY <1>1, MeantIsRange DEF Init, Waiting, Covers
<1>4. \A i \in Word : ~Current(i)
  BY DEF Init, Current
<1>5. \A s, t \in todo : s = t
  BY DEF Init
<1>6. \A i \in Word : ran[i] = 0
  BY DEF Init
<1>7. IterationInv
  BY <1>3, <1>4, <1>5, <1>6 DEF IterationInv
<1> QED BY <1>1, <1>2, <1>7 DEF ArithmeticInv

-----------------------------------------------------------------------------
(***************************************************************************)
(* The steps.                                                              *)
(***************************************************************************)

\* A step that runs nothing and leaves the same iterations to be run, once.
LEMMA SameWork ==
  ASSUME IterationInv, UNCHANGED <<from, to, ran>>,
         \A i \in Word : (Waiting(i) \/ Current(i))' <=> (Waiting(i) \/ Current(i)),
         \A i \in Word : ~(Waiting(i) /\ Current(i))',
         \A i \in Word : \A s, t \in todo' : Covers(s, i) /\ Covers(t, i) => s = t
  PROVE  IterationInv'
<1>1. \A i \in Word : Meant(i)' <=> Meant(i)
  BY DEF Meant
<1>2. \A i \in Word : (Waiting(i) \/ Current(i) => Meant(i))'
  BY <1>1 DEF IterationInv
<1>3. \A i \in Word : (ran[i] = IF Meant(i) /\ ~Waiting(i) /\ ~Current(i) THEN 1 ELSE 0)'
  BY <1>1 DEF IterationInv
<1>4. (\A i \in Word : \A s, t \in todo : Covers(s, i) /\ Covers(t, i) => s = t)'
  BY DEF Covers
<1> QED BY <1>2, <1>3, <1>4 DEF IterationInv

LEMMA EnterKeeps ==
  ASSUME ArithmeticInv, Enter
  PROVE  ArithmeticInv'
<1> USE DEF ArithmeticInv
<1>1. PICK s \in todo : iv' = s[1] /\ max' = s[2] /\ todo' = todo \ {s}
  BY DEF Enter
<1>2. s[1] \in Positives /\ s[2] \in Positives
  BY DEF TypeInv
<1>3. TypeInv'
  BY <1>1, <1>2, WordFacts DEF TypeInv, Enter
<1>4. SliceInv'
  BY DEF SliceInv, Enter
<1>5. \A i \in Word : Current(i)' <=> Covers(s, i)
  BY <1>1 DEF Enter, Current, Covers
<1>6. \A i \in Word : ~Current(i)
  BY DEF Enter, Current
<1>7. \A i \in Word : Waiting(i)' <=> \E t \in todo \ {s} : Covers(t, i)
  BY <1>1 DEF Waiting, Covers
<1>8. \A i \in Word : (Waiting(i) \/ Current(i))' <=> (Waiting(i) \/ Current(i))
  BY <1>5, <1>6, <1>7 DEF Waiting
<1>9. \A i \in Word : ~(Waiting(i) /\ Current(i))'
  BY <1>5, <1>7 DEF IterationInv
<1>10. \A i \in Word : \A r, t \in todo' : Covers(r, i) /\ Covers(t, i) => r = t
  BY <1>1 DEF IterationInv
<1> QED BY <1>3, <1>4, <1>8, <1>9, <1>10, SameWork DEF Enter

LEMMA LeaveLoopKeeps ==
  ASSUME ArithmeticInv, LeaveLoop
  PROVE  ArithmeticInv'
<1> USE DEF ArithmeticInv
<1>1. TypeInv'
  BY DEF TypeInv, LeaveLoop
<1>2. SliceInv'
  BY DEF SliceInv, LeaveLoop
<1>3. \A i \in Word : ~Current(i) /\ ~Current(i)'
  BY WordFacts DEF LeaveLoop, Current, TypeInv
<1>4. \A i \in Word : Waiting(i)' <=> Waiting(i)
  BY DEF LeaveLoop, Waiting, Covers
<1>5. \A i \in Word : \A s, t \in todo' : Covers(s, i) /\ Covers(t, i) => s = t
  BY DEF LeaveLoop, IterationInv
<1> QED BY <1>1, <1>2, <1>3, <1>4, <1>5, SameWork DEF LeaveLoop

LEMMA LatchKeeps ==
  ASSUME ArithmeticInv, Latch
  PROVE  ArithmeticInv'
<1> USE DEF ArithmeticInv
<1>1. /\ iv \in Nat /\ chunk \in Nat /\ max \in Nat /\ max < Half
      /\ low = iv + chunk /\ low <= max
  BY WordFacts DEF Latch, TypeInv, SliceInv
<1>2. iv + chunk \in Word
  BY <1>1, WordFacts
<1>3. iv' = low /\ low \in Positives
  BY <1>1, <1>2, AddOfWords, WordFacts DEF Latch
<1>4. TypeInv'
  BY <1>3 DEF TypeInv, Latch
<1>5. SliceInv'
  BY DEF SliceInv, Latch
<1>6. \A i \in Word : Current(i)' <=> Current(i)
  BY <1>3 DEF Latch, Current
<1>7. \A i \in Word : Waiting(i)' <=> Waiting(i)
  BY DEF Latch, Waiting, Covers
<1>8. \A i \in Word : \A s, t \in todo' : Covers(s, i) /\ Covers(t, i) => s = t
  BY DEF Latch, IterationInv
<1>9. \A i \in Word : ~(Waiting(i) /\ Current(i))
  BY DEF IterationInv
<1> QED BY <1>4, <1>5, <1>6, <1>7, <1>8, <1>9, SameWork DEF Latch

\* A split: the difference the handler tests and the sum it halves are those of
\* the integers, and the halves cover what was left.
LEMMA SplitKeeps ==
  ASSUME ArithmeticInv, Split
  PROVE  ArithmeticInv'
<1> USE DEF ArithmeticInv
<1> DEFINE mid == Add(Add(LastRun, 1), max) \div 2
           lower == <<Add(LastRun, 1), mid>>
           upper == <<mid, max>>
<1>1. /\ iv \in Nat /\ max \in Nat /\ low \in Nat /\ max < Half /\ low <= max
      /\ chunk \in Nat /\ chunk >= 1 /\ low = iv + chunk /\ low >= 1
  BY WordFacts DEF Split, TypeInv, SliceInv
<1>2. low \in Nat /\ max \in Nat /\ Half \in Nat /\ Modulus = 2 * Half
  BY <1>1, WordFacts
<1>3. low - 1 \in Word /\ (low - 1) + 1 \in Word /\ low + max \in Word /\ max - (low - 1) \in Word
  BY <1>1, <1>2, WordFacts
<1>4. LastRun = low - 1
  BY <1>2, <1>3, SubOfWords DEF LastRun
<1>5. Add(LastRun, 1) = low
  <2>1. Add(low - 1, 1) = (low - 1) + 1
    BY <1>2, <1>3, AddOfWords
  <2> QED BY <2>1, <1>2, <1>4
<1>6. low < max
  <2>1. Sub(max, low - 1) = max - (low - 1)
    BY <1>2, <1>3, SubOfWords
  <2> QED BY <2>1, <1>2, <1>4 DEF Split, Splittable
<1>7. mid = (low + max) \div 2
  BY <1>2, <1>3, <1>5, AddOfWords
<1>8. mid \in Nat /\ low <= mid /\ mid < max
  BY <1>2, <1>6, <1>7
<1>9. low \in Positives /\ mid \in Positives /\ max \in Positives
  BY <1>1, <1>8, WordFacts
<1>10. lower = <<low, mid>> /\ todo' = todo \cup {lower, upper}
  BY <1>5 DEF Split
<1> HIDE DEF mid
<1>11. TypeInv'
  BY <1>5, <1>9, <1>10 DEF TypeInv, Split
<1>12. SliceInv'
  BY DEF SliceInv, Split
<1>13. \A i \in Word : Current(i) <=> Covers(lower, i) \/ Covers(upper, i)
  BY <1>1, <1>8, <1>5, WordFacts DEF Current, Covers, Split
<1>14. \A i \in Word : ~(Covers(lower, i) /\ Covers(upper, i))
  BY <1>1, <1>8, <1>5, WordFacts DEF Covers
<1> HIDE DEF lower, upper
<1>15. \A i \in Word : Waiting(i)' <=> Waiting(i) \/ Covers(lower, i) \/ Covers(upper, i)
  BY <1>10 DEF Waiting, Covers
<1>16. \A i \in Word : ~Current(i)'
  BY DEF Current, Split
<1>17. \A i \in Word : ~(Waiting(i) /\ Current(i))
  BY DEF IterationInv
<1>18. \A i \in Word : \A s, t \in todo' : Covers(s, i) /\ Covers(t, i) => s = t
  BY <1>10, <1>13, <1>14, <1>17 DEF IterationInv, Waiting
<1> QED BY <1>11, <1>12, <1>13, <1>15, <1>16, <1>18, SameWork DEF Split

\* A chunk: it ends before iv + remaining wraps around, and runs what it takes
\* from the iterations left to the slice.
LEMMA RunChunkKeeps ==
  ASSUME ArithmeticInv, RunChunk
  PROVE  ArithmeticInv'
<1> USE DEF ArithmeticInv
<1> DEFINE high       == UMin(Add(iv, remaining), max)
           iterations == Sub(high, iv)
<1>1. /\ iv \in Nat /\ max \in Nat /\ remaining \in Nat /\ Half \in Nat /\ Modulus = 2 * Half
      /\ iv < max /\ max < Half /\ remaining = chunksize /\ remaining >= 1 /\ remaining < Half
  BY WordFacts DEF RunChunk, TypeInv, SliceInv
<1>2. Add(iv, remaining) = iv + remaining
  BY <1>1, AddOfWords, WordFacts
<1>3. /\ high \in Nat /\ iv < high /\ high <= max /\ high <= iv + remaining
      /\ high = iv + remaining \/ high = max
  BY <1>1, <1>2 DEF UMin
<1> HIDE DEF high
<1>4. high - iv \in Word /\ high \in Word
  BY <1>1, <1>3, WordFacts
<1>5. iterations = high - iv
  BY <1>1, <1>3, <1>4, SubOfWords
<1>6. /\ ran' = [i \in Word |-> ran[i] + (IF iv <= i /\ i < high THEN 1 ELSE 0)]
      /\ low' = high /\ chunk' = remaining /\ remaining' = Allowance(iterations)
      /\ pc' = IF iterations = remaining THEN "poll" ELSE "idle"
      /\ UNCHANGED <<from, to, chunksize, todo, iv, max>>
  BY <1>3, <1>1 DEF RunChunk, high
<1> HIDE DEF iterations
<1>7. remaining' \in Word /\ (iterations = remaining => remaining' = chunksize)
  <2>1. CASE iterations = remaining
    BY <2>1, <1>6, <1>1, WordFacts DEF Allowance
  <2>2. CASE iterations # remaining
    <3>1. remaining - iterations \in Word
      BY <1>1, <1>3, <1>5, WordFacts
    <3>2. iterations \in Int
      BY <1>1, <1>3, <1>5
    <3>3. Sub(remaining, iterations) = remaining - iterations
      BY <1>1, <3>1, <3>2, SubOfWords
    <3> QED BY <2>2, <1>6, <3>1, <3>3 DEF Allowance
  <2> QED BY <2>1, <2>2
<1>8. TypeInv'
  <2>1. chunk' \in Word /\ low' \in Word
    BY <1>6, <1>4, <1>1, WordFacts
  <2>2. ran' \in [Word -> Nat]
    BY <1>6 DEF TypeInv
  <2> QED BY <1>6, <1>7, <2>1, <2>2 DEF TypeInv
<1>9. SliceInv'
  BY <1>1, <1>3, <1>5, <1>6, <1>7 DEF SliceInv
<1>10. \A i \in Word : Current(i) <=> iv <= i /\ i < max
  BY DEF RunChunk, Current
<1>11. \A i \in Word : Current(i)' <=> high <= i /\ i < max
  <2>1. CASE iterations = remaining
    BY <2>1, <1>6 DEF Current
  <2>2. CASE iterations # remaining
    BY <2>2, <1>1, <1>3, <1>5, <1>6, WordFacts DEF Current
  <2> QED BY <2>1, <2>2
<1>12. \A i \in Word : Waiting(i)' <=> Waiting(i)
  BY <1>6 DEF Waiting, Covers
<1>13. \A i \in Word : Meant(i)' <=> Meant(i)
  BY <1>6 DEF Meant
<1>14. \A i \in Word : Current(i)' => Current(i)
  BY <1>1, <1>3, <1>10, <1>11, WordFacts
<1>15. ASSUME NEW i \in Word
       PROVE  ran'[i] = IF Meant(i)' /\ ~Waiting(i)' /\ ~Current(i)' THEN 1 ELSE 0
  <2>1. i \in Nat
    BY WordFacts
  <2>2. ran'[i] = ran[i] + (IF iv <= i /\ i < high THEN 1 ELSE 0)
    BY <1>6
  <2>3. ran[i] = IF Meant(i) /\ ~Waiting(i) /\ ~Current(i) THEN 1 ELSE 0
    BY DEF IterationInv
  <2>4. CASE iv <= i /\ i < high
    <3>1. Current(i) /\ ~Current(i)'
      BY <2>1, <2>4, <1>1, <1>3, <1>10, <1>11
    <3>2. Meant(i) /\ ~Waiting(i)
      BY <3>1 DEF IterationInv
    <3> QED BY <3>1, <3>2, <2>2, <2>3, <2>4, <1>12, <1>13
  <2>5. CASE ~(iv <= i /\ i < high)
    <3>1. Current(i)' <=> Current(i)
      BY <2>1, <2>5, <1>1, <1>3, <1>10, <1>11
    <3> QED BY <3>1, <2>2, <2>3, <2>5, <1>12, <1>13
  <2> QED BY <2>4, <2>5
<1>16. \A i \in Word : (Waiting(i) \/ Current(i) => Meant(i))'
  BY <1>12, <1>13, <1>14 DEF IterationInv
<1>17. \A i \in Word : ~(Waiting(i) /\ Current(i))'
  BY <1>12, <1>14 DEF IterationInv
<1>18. (\A i \in Word : \A s, t \in todo : Covers(s, i) /\ Covers(t, i) => s = t)'
  BY <1>6 DEF IterationInv, Covers
<1>19. IterationInv'
  BY <1>15, <1>16, <1>17, <1>18 DEF IterationInv
<1> QED BY <1>8, <1>9, <1>19

\* Enter, LeaveLoop, RunChunk, Latch and Split keep the three parts true.
THEOREM ArithmeticInvariance ==
  ASSUME SignedInputs
  PROVE  Spec => []ArithmeticInv
<1>1. Init => ArithmeticInv
  BY ArithmeticInit
<1>2. ArithmeticInv /\ [Next]_vars => ArithmeticInv'
  <2> SUFFICES ASSUME ArithmeticInv, [Next]_vars
               PROVE  ArithmeticInv'
    OBVIOUS
  <2>1. CASE Enter
    BY <2>1, EnterKeeps
  <2>2. CASE LeaveLoop
    BY <2>2, LeaveLoopKeeps
  <2>3. CASE RunChunk
    BY <2>3, RunChunkKeeps
  <2>4. CASE Latch
    BY <2>4, LatchKeeps
  <2>5. CASE Split
    BY <2>5, SplitKeeps
  <2>6. CASE UNCHANGED vars
    <3>1. UNCHANGED <<from, to, chunksize, remaining, todo, pc, iv, max, low, chunk, ran>>
      BY <2>6 DEF vars
    <3>2. TypeInv' /\ SliceInv'
      BY <3>1 DEF ArithmeticInv, TypeInv, SliceInv
    <3>3. \A i \in Word : /\ Waiting(i)' <=> Waiting(i)
                          /\ Current(i)' <=> Current(i)
      BY <3>1 DEF Waiting, Covers, Current
    <3>4. \A i \in Word : \A s, t \in todo' : Covers(s, i) /\ Covers(t, i) => s = t
      BY <3>1 DEF ArithmeticInv, IterationInv
    <3>5. \A i \in Word : ~(Waiting(i) /\ Current(i))
      BY DEF ArithmeticInv, IterationInv
    <3> QED BY <3>1, <3>2, <3>3, <3>4, <3>5, SameWork DEF ArithmeticInv
  <2> QED BY <2>1, <2>2, <2>3, <2>4, <2>5, <2>6 DEF Next, Terminated
<1> QED BY <1>1, <1>2, PTL DEF Spec

\* RunsAsSigned, of every width of the words, every loop whose bounds are not
\* negative and every chunk size: no wrap of iv + chunk (the chunked loop), of
\* low + 1 + high or of max - start (the handler) adds, repeats or loses an
\* iteration.
THEOREM NoWrapMatters ==
  ASSUME SignedInputs
  PROVE  Spec => []RunsAsSigned
<1>1. ArithmeticInv => RunsAsSigned
  <2> SUFFICES ASSUME ArithmeticInv
               PROVE  RunsAsSigned
    OBVIOUS
  <2>1. \A i \in Word : ran[i] <= 1 /\ (ran[i] = 1 => Meant(i))
    BY DEF ArithmeticInv, IterationInv
  <2>2. Over => \A i \in Word : ~Waiting(i) /\ ~Current(i)
    BY DEF Over, Waiting, Current
  <2>3. Over => \A i \in Word : Meant(i) => ran[i] = 1
    BY <2>2 DEF ArithmeticInv, IterationInv
  <2> QED BY <2>1, <2>3 DEF RunsAsSigned
<1>2. Spec => []ArithmeticInv
  BY ArithmeticInvariance
<1> QED BY <1>1, <1>2, PTL
=============================================================================
