------------------------------- MODULE Convert -------------------------------
(***************************************************************************)
(* SP_HW5/part3: convert makes fixed-length records of a text file whose   *)
(* entries are a word, the lines of its definition and a blank line; the   *)
(* main program looks words up among the records one after the other.      *)
(* A line is a number, Blank an empty one; the newline at its end is kept  *)
(* in the record and the last byte, whatever it is, is cut off by lookup.  *)
(***************************************************************************)
EXTENDS Integers, Sequences

CONSTANTS Texts,   \* sequences of lines
          Blank,
          Words    \* words that may be looked up

VARIABLES
  program,
  text,          \* lines of the input file
  terminated,    \* its last line ends in a newline
  pc, line,      \* lines convert has read
  word,          \* dr.word
  records,       \* the output file: [word, text]
  sought,        \* tryit, and the record lookup is at
  at, answer
reading == <<pc, line, word>>
query   == <<sought, at, answer>>
vars == <<program, text, terminated, reading, records, query>>

\* What is left of a line whose last byte is cut off.
Cut(n) == IF n = Len(text) /\ ~terminated THEN 0 - text[n] ELSE text[n]

-----------------------------------------------------------------------------
CRest == UNCHANGED <<program, text, terminated, query>>

AtEnd == /\ program = "convert" /\ pc \in {"word", "definition"}
         /\ line = Len(text)
         /\ pc' = "main"
         /\ CRest /\ UNCHANGED <<line, word, records>>

\* A blank line where a word should be is passed over.
GetWord ==
  /\ program = "convert" /\ pc = "word" /\ line < Len(text)
  /\ line' = line + 1
  /\ IF text[line + 1] = Blank THEN UNCHANGED <<pc, word>>
                               ELSE pc' = "definition" /\ word' = Cut(line + 1)
  /\ CRest /\ UNCHANGED records

\* A word with a blank line after it is dropped, a definition is one line.
GetDefinition ==
  /\ pc = "definition" /\ line < Len(text)
  /\ line' = line + 1
  /\ pc' = "word"
  /\ records' = IF text[line + 1] = Blank THEN records
                ELSE Append(records, [word |-> word, text |-> Cut(line + 1)])
  /\ CRest /\ UNCHANGED word

-----------------------------------------------------------------------------
(* main and lookup.  At the end of its input main asks for the same word   *)
(* again, for ever.                                                        *)

QRest == UNCHANGED <<program, text, terminated, line, word, records>>

Ask == /\ pc = "main"
       /\ sought' \in Words /\ at' = 1 /\ answer' = "none"
       /\ pc' = "lookup"
       /\ QRest

Compare == /\ pc = "lookup" /\ at <= Len(records) /\ records[at].word # sought
           /\ at' = at + 1
           /\ QRest /\ UNCHANGED <<pc, sought, answer>>

FOUND == /\ pc = "lookup" /\ at <= Len(records) /\ records[at].word = sought
         /\ answer' = "found" /\ pc' = "main"
         /\ QRest /\ UNCHANGED <<sought, at>>

NOTFOUND == /\ pc = "lookup" /\ at > Len(records)
            /\ answer' = "not found" /\ pc' = "main"
            /\ QRest /\ UNCHANGED <<sought, at>>

Init == /\ text \in IF program = "convert" THEN Texts ELSE {<<>>}
        /\ terminated \in IF text = <<>> \/ text[Len(text)] = Blank
                            THEN {TRUE} ELSE BOOLEAN
        /\ pc = "word" /\ line = 0 /\ word = Blank
        /\ records = <<>>
        /\ sought = Blank /\ at = 0 /\ answer = "none"

Next == AtEnd \/ GetWord \/ GetDefinition \/ Ask \/ Compare \/ FOUND \/ NOTFOUND

Fairness == WF_vars(Next)

-----------------------------------------------------------------------------
\* Entry n begins at line n, and it has a definition.
Entry(n) == /\ n < Len(text) /\ text[n] # Blank /\ text[n + 1] # Blank
            /\ n > 1 => text[n - 1] = Blank

\* No definition has more than one line.
OneLineEach == \A n \in 1..(Len(text) - 2) : \E k \in n..(n + 2) : text[k] = Blank

\* convert.c:39-78, lookup1.c:33-50: an entry with a definition can be found,
\* whatever stands before it in the file; and if no definition has more than one
\* line, what is found is the definition of the first entry for the word, unless
\* the file ends in it without a newline.  (Of longer definitions, which
\* convert.c:3-7 allows, see Claims.)
DictionaryIsKept ==
  /\ answer = "not found" => \A n \in DOMAIN text : Entry(n) => text[n] # sought
  /\ answer = "found" /\ OneLineEach =>
       \E n \in DOMAIN text :
         /\ Entry(n) /\ text[n] = sought
         /\ \A k \in 1..(n - 1) : Entry(k) => text[k] # sought
         /\ terminated \/ n + 1 < Len(text) => records[at].text = text[n + 1]

\* The text is converted and every question is answered.
Answers == (program = "convert") ~> (pc = "main")

=============================================================================
