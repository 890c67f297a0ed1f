----------------------------- MODULE ConfigFile -----------------------------
(***************************************************************************)
(* ConfigData::readConfigData: what it reads from Data\config.txt and what *)
(* it writes back.                                                         *)
(*                                                                         *)
(* A file is a sequence of lines and a line the sequence of its words; a   *)
(* line that is empty or starts with '#' is left out, since it is neither  *)
(* read nor kept.  The name of a car is a sequence of words too: the       *)
(* attribute of a car is its prefix joined to the first of them.           *)
(*                                                                         *)
(* A number is named by a word: by the text the program writes for it      *)
(* where that text is read back as the same number, otherwise by its own.  *)
(***************************************************************************)
EXTENDS Integers, Sequences, FiniteSets

CONSTANTS
  Words,        \* what a line may be made of
  FalseWords,   \* those that start with 0
  atoi,         \* the whole number a word starts with, 0 when it starts with none
  atof,         \* the number a word starts with
  sixDigits     \* a number as the stream writes it

Attributes ==
  {"DisplayFuelImperial", "UseDriverLapsRemaining", "SkipClearOnApply",
   "ServerPort", "ExtraLapsOfFuel"}

Flags == {"DisplayFuelImperial", "UseDriverLapsRemaining", "SkipClearOnApply"}
Car == "DisplayCarFuelAsWeight"

\* the order in which they are written
Order ==
  << "DisplayFuelImperial", "UseDriverLapsRemaining", "SkipClearOnApply",
     "ServerPort", "ExtraLapsOfFuel" >>

NoneSet == [a \in Attributes |-> "unset"]      \* mutant: no defaults
Defaults ==
  [a \in Attributes |->
     CASE a = "UseDriverLapsRemaining" -> "1"
       [] a = "ServerPort"             -> "48900"
       [] OTHER                        -> "0"]

\* the words of the program itself
Literals == Attributes \cup {Car, "0", "1", "48900", "missing"}

ASSUME ConfigFileAssumption ==
  /\ Literals \subseteq Words /\ "unset" \notin Words
  /\ FalseWords \subseteq Words /\ "0" \in FalseWords /\ "1" \notin FalseWords
  /\ atoi \in [Words -> Words] /\ atof \in [Words -> Words] /\ sixDigits \in [Words -> Words]
  /\ atoi["48900"] = "48900"
  /\ \A w \in Words : /\ atoi[atoi[w]] = atoi[w]
                      /\ atof[sixDigits[w]] = sixDigits[w]

NoFile == << <<"missing">> >>      \* there is no file, or it cannot be opened

-----------------------------------------------------------------------------
(* parseAttributeValue: the attribute's words, a space, and a value. *)

Sets(line, attribute) ==
  /\ Len(line) > Len(attribute)
  /\ SubSeq(line, 1, Len(attribute)) = attribute

Word(line, attribute) == line[Len(attribute) + 1]

\* a flag is whatever does not start with 0
Flag(word) == IF word \in FalseWords THEN "0" ELSE "1"

ValueOf(a, line) ==
  LET word == Word(line, << a >>)
  IN  CASE a \in Flags        -> Flag(word)
        [] a = "ServerPort"   -> atoi[word]
        [] OTHER              -> atof[word]

CarAttribute(car) == << Car, car[1] >> \o Tail(car)
IsCarLine(line) == line # << >> /\ line[1] = Car

-----------------------------------------------------------------------------
(* readConfigData. *)

\* the first line that sets an attribute counts
Setting(file, attribute) ==
  {n \in 1 .. Len(file) :
     /\ Sets(file[n], attribute)
     /\ \A k \in 1 .. n - 1 : ~Sets(file[k], attribute)}

\* what the program works with after reading; the car << >> is none
Values(file, car) ==
  LET defaults == Defaults
      of(a)    == Setting(file, << a >>)
  IN  [attribute |-> [a \in Attributes |->
                        IF of(a) = {} THEN defaults[a]
                        ELSE ValueOf(a, file[CHOOSE n \in of(a) : TRUE])],
       weight    |-> IF car = << >> \/ Setting(file, CarAttribute(car)) = {} THEN "0"
                     ELSE LET own == CarAttribute(car)
                          IN  Flag(Word(file[CHOOSE n \in Setting(file, own) : TRUE], own))]

NewCar(file, car) == car # << >> /\ Setting(file, CarAttribute(car)) = {}

UpdateRequired(file, car) ==
  \/ file = NoFile
  \/ \E a \in Attributes : Setting(file, << a >>) = {}
  \/ NewCar(file, car)

\* the new file: all attributes, the lines of the cars that were there, and the
\* car that was not
NoCarLines(file) == << >>              \* mutant: the cars' lines are not kept
CarLines(file) ==
  LET at      == {n \in 1 .. Len(file) : IsCarLine(file[n])}
      inOrder == CHOOSE s \in [1 .. Cardinality(at) -> at] :
                   \A i, j \in DOMAIN s : i < j => s[i] < s[j]
  IN  [k \in DOMAIN inOrder |-> file[inOrder[k]]]

\* the laps of extra fuel are written to six digits
Text(a, value) == IF a = "ExtraLapsOfFuel" THEN sixDigits[value] ELSE value
AsWritten(values) ==
  [attribute |-> [a \in Attributes |-> Text(a, values.attribute[a])],
   weight    |-> values.weight]

Rewritten(file, car) ==
  LET written == AsWritten(Values(file, car))
  IN  [k \in 1 .. Len(Order) |-> << Order[k], written.attribute[Order[k]] >>]
        \o CarLines(file)
        \o IF NewCar(file, car)
           THEN << Append(CarAttribute(car), written.weight) >>
           ELSE << >>

-----------------------------------------------------------------------------
(* What a rewriting has to leave as it was: all that is read of the file,  *)
(* but for the digits of the number, whichever car is driven.              *)

Kept(old, new, cars) ==
  /\ \A car \in cars \cup {<< >>} : Values(new, car) = AsWritten(Values(old, car))
  /\ \A n \in 1 .. Len(old) :
       IsCarLine(old[n]) => \E k \in 1 .. Len(new) : new[k] = old[n]
=============================================================================
