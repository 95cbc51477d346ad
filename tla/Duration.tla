------------------------------ MODULE Duration ------------------------------
(***************************************************************************)
(* The duration of WinDV capture: the parser of OnInitDialog, and what the *)
(* usage text says it reads: [[HH:]MI:]SS[.ss]. A text is a sequence of    *)
(* digits, colons, points and other characters. The parser takes more: it  *)
(* reads a field without a digit as 0.                                     *)
(*                                                                         *)
(* The fields are 32-bit in the code; texts are short enough not to        *)
(* overflow them. TicksPerSecond is 10^7 in the code.                      *)
(***************************************************************************)
EXTENDS Integers, SequencesExt

CONSTANT TicksPerSecond

ASSUME DurationAssumption == TicksPerSecond \in Nat \ {0}

Colon == 10
Point == 11
Other == 12
IsDigit(c) == c < Colon

(* The result of a text the parser does not take: usage, and no capture.   *)
Malformed == -1

(* Where a run of digits that starts at p ends.                            *)
RunEnd(s, p) == CHOOSE q \in p .. Len(s) + 1 :
                  /\ \A i \in p .. q - 1 : IsDigit(s[i])
                  /\ q <= Len(s) => ~IsDigit(s[q])

Number(s, p) ==
  LET value[q \in p .. RunEnd(s, p)] ==
        IF q = p THEN 0 ELSE value[q - 1] * 10 + s[q - 1]
  IN  value[RunEnd(s, p)]

(* The digits from p on, each with a tenth of the weight before.           *)
Ticks(s, p) ==
  LET weight[q \in p .. RunEnd(s, p)] ==
        IF q = p THEN TicksPerSecond \div 10 ELSE weight[q - 1] \div 10
      us[q \in p .. RunEnd(s, p)] ==
        IF q = p THEN 0 ELSE us[q - 1] + weight[q - 1] * s[q - 1]
  IN  us[RunEnd(s, p)]

(* timusec.                                                                *)
Fraction(s, p, seconds) ==
  IF p > Len(s) THEN seconds * TicksPerSecond
  ELSE IF s[p] = Point /\ RunEnd(s, p + 1) > Len(s)
  THEN seconds * TicksPerSecond + Ticks(s, p + 1)
  ELSE Malformed

FieldEnds(s, p) == p > Len(s) \/ s[p] = Point

(* The first of two fields taken for hours, as it is when three follow.    *)
HoursFirstMutant(n1, n2) == (n1 * 60 + n2) * 60
MinutesSeconds(n1, n2) == n1 * 60 + n2

(* One field holds seconds, two minutes and seconds, three hours as well.  *)
ParseDuration(s) ==
  LET p1 == RunEnd(s, 1)
      p2 == RunEnd(s, p1 + 1)
      p3 == RunEnd(s, p2 + 1)
      n1 == Number(s, 1)
      n2 == Number(s, p1 + 1)
  IN  IF FieldEnds(s, p1) THEN Fraction(s, p1, n1)
      ELSE IF s[p1] # Colon THEN Malformed
      ELSE IF FieldEnds(s, p2) THEN Fraction(s, p2, MinutesSeconds(n1, n2))
      ELSE IF s[p2] # Colon THEN Malformed
      ELSE Fraction(s, p3, (n1 * 60 + n2) * 60 + Number(s, p2 + 1))

(* What the usage text describes: at most two colons and one point, in     *)
(* this order, and a digit on both sides of each, so that no field is      *)
(* empty. Every digit weighs by its place in its field.                    *)
At(s, c) == {i \in DOMAIN s : s[i] = c}
DigitPlaces(s) == {i \in DOMAIN s : IsDigit(s[i])}

Punctuated(s) ==
  /\ At(s, Other) = {}
  /\ Cardinality(At(s, Colon)) <= 2 /\ Cardinality(At(s, Point)) <= 1
  /\ \A i \in At(s, Colon), j \in At(s, Point) : i < j

IsDuration(s) ==
  /\ Punctuated(s)
  /\ s # <<>>
  /\ \A i \in At(s, Colon) \cup At(s, Point) : {i - 1, i + 1} \subseteq DigitPlaces(s)

PowerOfTen[n \in Nat] == IF n = 0 THEN 1 ELSE 10 * PowerOfTen[n - 1]

Weight(s, i) ==
  IF \E j \in At(s, Point) : j < i
  THEN TicksPerSecond \div PowerOfTen[i - CHOOSE j \in At(s, Point) : TRUE]
  ELSE LET colons == {j \in At(s, Colon) : j > i}
           after == {k \in DigitPlaces(s) : k > i /\ \A j \in i .. k : IsDigit(s[j])}
       IN  TicksPerSecond * <<1, 60, 3600>>[Cardinality(colons) + 1]
             * PowerOfTen[Cardinality(after)]

DurationOf(s) ==
  LET sum[n \in 0 .. Len(s)] ==
        IF n = 0 THEN 0
        ELSE sum[n - 1] + (IF n \in DigitPlaces(s) THEN s[n] * Weight(s, n) ELSE 0)
  IN  sum[Len(s)]
=============================================================================
