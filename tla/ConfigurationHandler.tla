------------------------- MODULE ConfigurationHandler -------------------------
(***************************************************************************)
(* _parse_configuration, one round of its loop: fgets fills `line', a      *)
(* buffer that keeps what the round leaves behind the NUL, and the round   *)
(* takes it apart without asking where the NUL is.                         *)
(***************************************************************************)
EXTENDS StringTools

CONSTANTS MaxFieldLength,    \* MAX_FIELD_LENGTH
          MaxValueLength,    \* MAX_VALUE_LENGTH
          WordSize,          \* where a size_t wraps
          Spelling,          \* the names in cfg_entries, by field
          Defaults,          \* the DEFAULT_ values, by field
          Refused

(* cfg_entries                                                             *)
Fields == {"max_connections", "port", "num_cores", "max_num_routes"}

ASSUME ConfigurationAssumption ==
  /\ MaxFieldLength \in Nat \ {0}
  /\ MaxValueLength \in Nat \ {0}
  /\ WordSize \in Nat \ {0, 1}
  /\ \A n \in 0..(MaxValueLength - 1) :        \* what fits the cache does not wrap
       \A t \in [1..n -> Digits] : Decimal(t) < WordSize
  /\ \A f \in Fields : /\ Spelling[f] \in Seq(Nat) /\ Len(Spelling[f]) > 1
                       /\ ToSet(Spelling[f]) \cap {Nul, Blank, NewLine, Return} = {}
                       /\ \A g \in Fields : Spelling[f] = Spelling[g] => f = g
  /\ Defaults \in [Fields -> Nat \ {0}]

(* How many characters of the file one fgets takes.                        *)
Taken(stream) ==
  LET n    == SelectInSeq(stream, LAMBDA c : c = NewLine)
      room == MaxFieldLength - 1
  IN  IF n \in 1..room THEN n ELSE IF Len(stream) < room THEN Len(stream) ELSE room

(* fgets: a NUL behind what it takes, and the old characters behind that.  *)
Fgets(stream, line) ==
  LET n == Taken(stream)
  IN  SubSeq(stream, 1, n) \o <<Nul>> \o SubSeq(line, n + 2, Len(line))

-----------------------------------------------------------------------------
(* The name is what stands before the first of these; a NUL does not end   *)
(* the scan, but it ends the name for strcmp.                              *)
Name(line)  == Before(line, {Blank, NewLine, Return})
Named(line) == {f \in Fields : Spelling[f] = Before(Name(line), {Nul})}

Skipped(line) == Len(Name(line)) < 2

(* The scan found nothing to stop at and leaves the buffer.                *)
LeavesLine(line) == Name(line) = line

(* Whatever stopped the scan is passed over.                               *)
Assignment(line) == SubSeq(line, Len(Name(line)) + 2, Len(line))

WellFormed(line) ==
  \E d \in Digits : IsPrefix(<<Equals, Blank, d>>, Assignment(line))

Value(line) ==
  Before(SubSeq(Assignment(line), 3, Len(Assignment(line))), {Nul, NewLine})

(* value = value * 10 + digit                                              *)
Number(text) == FoldLeft(LAMBDA value, c : (value * 10 + (c - Zero)) % WordSize, 0, text)

(* Mutant: the first digit, which has been looked at, is passed over.      *)
ParseRest(text) ==
  IF ToSet(text) \subseteq Digits /\ Number(Tail(text)) > 0 THEN {Number(Tail(text))}
  ELSE {Refused}

(* What the text of a value may be converted to.  One that fills the cache *)
(* leaves no room for a NUL: the conversion reads on past the cache and    *)
(* meets more digits, or a character that is none.                         *)
Anything == 1..(WordSize - 1) \cup {Refused}

ParseValue(text) ==
  IF \E i \in 1..Len(text) : i <= MaxValueLength /\ text[i] \notin Digits THEN {Refused}
  ELSE IF Len(text) >= MaxValueLength THEN Anything
  ELSE IF Number(text) = 0 THEN {Refused} ELSE {Number(text)}

(* What may become of a line that is not skipped.                          *)
ParseLine(line) ==
  IF Named(line) = {} THEN {Refused}
  ELSE IF LeavesLine(line) THEN Anything
  ELSE IF WellFormed(line) THEN ParseValue(Value(line)) ELSE {Refused}

-----------------------------------------------------------------------------
(* What the file says: its lines, by the place of their ends, and the last *)
(* one that gives a field.                                                 *)
LineEnds(file) == {e \in 1..Len(file) : file[e] = NewLine}

LineBefore(file, e) ==
  SubSeq(file, Max({0} \cup {s \in LineEnds(file) : s < e}) + 1, e - 1)

Assigns(l, f)  == \E c \in {Blank, Return} :
                    IsPrefix(Spelling[f] \o <<c, Equals, Blank>>, l)
Assigned(l, f) == SubSeq(l, Len(Spelling[f]) + 4, Len(l))

(* A text in which every line has its end and fits the buffer, and its     *)
(* value fits the cache.                                                   *)
Ordinary(file) ==
  /\ Nul \notin ToSet(file)
  /\ file = <<>> \/ Last(file) = NewLine
  /\ \A e \in LineEnds(file) :
       LET l == LineBefore(file, e)
       IN  /\ Len(l) < MaxFieldLength - 1
           /\ \A f \in Fields : Assigns(l, f) => Len(Assigned(l, f)) < MaxValueLength

Gives(file, f) == {e \in LineEnds(file) : Assigns(LineBefore(file, e), f)}

Said(file, f) ==
  IF Gives(file, f) = {} THEN Defaults[f]
  ELSE Decimal(Assigned(LineBefore(file, Max(Gives(file, f))), f))
=============================================================================
