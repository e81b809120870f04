------------------------------- MODULE Lookup5 -------------------------------
(***************************************************************************)
(* lookup5.c of SP_HW12 and of the three parts of SP_HW11: the binary      *)
(* search in a mapped file of sorted records.  The lower bound moves to    *)
(* the middle, not past it, so a word that is absent may keep the search   *)
(* going until it is cut off after Rounds comparisons (100 in the code).   *)
(* Words are integers, records are counted from 1.                         *)
(***************************************************************************)
EXTENDS Integers, Sequences

CONSTANTS Table,   \* the words of the largest data file
          Sought,  \* words that may be looked up
          Rounds,  \* comparisons after which the loop is left
          Pow2     \* Pow2[n] is 2 to the n

\* A file of n records needs a power of two of rounds: 100 are enough for any
\* file whose records an int can count.
ASSUME Lookup5Assumption ==
  /\ Table \in Seq(Int)
  /\ \A i, j \in 1..Len(Table) : i < j => Table[i] < Table[j]
  /\ Sought \subseteq Int
  /\ Rounds \in Nat \ {0}
  /\ Pow2 \in [0..Rounds -> Nat \ {0}]
  /\ Pow2[0] = 1
  /\ \A n \in 1..Rounds : Pow2[n] = 2 * Pow2[n - 1]
  /\ Len(Table) <= Pow2[Rounds - 1]

VARIABLES numrec,  \* records in the file
          sought,  \* the word
          start, end, cnt,  \* of the loop
          found    \* the record found, or 0
searchVars == <<numrec, sought, start, end, cnt, found>>

\* The file is opened and its records are counted.
SearchInit == /\ numrec \in 0..Len(Table)
              /\ sought \in Sought
              /\ start = 0 /\ end = numrec /\ cnt = 0 /\ found = 0

Mid == (end + start) \div 2

Searching == found = 0 /\ start # end /\ cnt # Rounds

\* Mutant: the upper bound is taken to be inside the interval.
Narrow_OffByOne == IF Table[Mid + 1] < sought THEN start' = Mid /\ UNCHANGED end
                                              ELSE end' = Mid - 1 /\ UNCHANGED start

Narrow == IF Table[Mid + 1] < sought THEN start' = Mid /\ UNCHANGED end
                                     ELSE end' = Mid /\ UNCHANGED start

\* One round of the loop.
Compare ==
  /\ Searching
  /\ IF Table[Mid + 1] = sought
       THEN found' = Mid + 1 /\ UNCHANGED <<start, end, cnt>>
       ELSE Narrow /\ cnt' = cnt + 1 /\ UNCHANGED found
  /\ UNCHANGED <<numrec, sought>>

\* A word is found when the loop has found a record.
FOUND    == ~Searching /\ found # 0
NOTFOUND == ~Searching /\ found = 0

SearchNext == Compare
SearchSpec == SearchInit /\ [][SearchNext]_searchVars

-----------------------------------------------------------------------------
Present == \E i \in 1..numrec : Table[i] = sought

\* The loop and its cut-off: when it is left, a record was found exactly if the
\* file has the word, and it is that word's.
SearchIsMembership ==
  /\ FOUND => found <= numrec /\ Table[found] = sought
  /\ NOTFOUND => ~Present

SearchTypeOK == /\ numrec \in 0..Len(Table)
                /\ sought \in Sought
                /\ start \in 0..numrec /\ end \in 0..numrec
                /\ cnt \in 0..Rounds
                /\ found \in 0..numrec

\* What the proof adds: the interval keeps the word, it halves, and once the
\* rounds are used up it was a single record that is not the word.
Keeps  == \A i \in 1..numrec : Table[i] = sought => start < i /\ i <= end
Halves == /\ start <= end
          /\ start < end => (end - start - 1) * Pow2[cnt] <= numrec - 1
UsedUp == cnt = Rounds /\ found = 0 => ~Present
Hit    == found # 0 => Table[found] = sought

SearchInv == SearchTypeOK /\ Keeps /\ Halves /\ UsedUp /\ Hit

=============================================================================
