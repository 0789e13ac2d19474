------------------------------ MODULE Literals ------------------------------
(***************************************************************************)
(* Texts read as numbers, times and addresses.  A literal of a policy is   *)
(* read once by the compiler (tryParseIPOrCIDR and tryParseDateTimeOrTime  *)
(* of compiler.go); an attribute of a request is read at every evaluation  *)
(* by other code (parseFastTime and parseIPv4FastInto of evaluator.go).    *)
(* Addresses are IPv4.  A complete RFC 3339 timestamp is one character,    *)
(* for both readers give it to time.Parse; Stamps holds its value.         *)
(***************************************************************************)
EXTENDS Lexer, Integers, SequencesExt

CONSTANTS MaxInt,      \* the largest integer, 2^63 - 1 in the code
          Stamps,      \* RFC 3339 timestamps and their nanoseconds since 1970
          CharOrder    \* the characters in byte order

ASSUME LiteralAssumption ==
  /\ MaxInt \in Nat
  /\ \A c \in DOMAIN Stamps : Stamps[c] > 24 * 3600

IsNumber(s) == s # <<>> /\ \A i \in DOMAIN s : isDigit(s[i])

DigitValue == [d \in Digits |-> CHOOSE n \in 0 .. 9 : ToString(n) = d]
NumberOf(s) == FoldLeft(LAMBDA n, d : 10 * n + DigitValue[d], 0, s)

RECURSIVE Split(_, _)
Split(s, sep) ==
  IF ~Contains(s, sep) THEN <<s>>
  ELSE LET k == SelectInSeq(s, LAMBDA c : c = sep)
       IN <<SubSeq(s, 1, k - 1)>> \o Split(SubSeq(s, k + 1, Len(s)), sep)

HasSuffix(s, c) == s # <<>> /\ Last(s) = c

(* Strings are compared byte by byte.                                       *)
Rank(c) == CHOOSE i \in DOMAIN CharOrder : CharOrder[i] = c
TextBefore(s, t) ==
  \/ IsStrictPrefix(s, t)
  \/ \E k \in DOMAIN s \cap DOMAIN t :
       /\ \A j \in 1 .. k - 1 : s[j] = t[j]
       /\ Rank(s[k]) < Rank(t[k])

(* strconv.ParseInt in base 10: an optional sign and digits, within range.  *)
Signed(s) == s # <<>> /\ s[1] \in {"+", "-"}
IsInt(s) ==
  LET digits == IF Signed(s) THEN Tail(s) ELSE s
  IN /\ IsNumber(digits)
     /\ NumberOf(digits) <= IF Signed(s) /\ s[1] = "-" THEN MaxInt + 1 ELSE MaxInt
IntOf(s) == CASE ~Signed(s) -> NumberOf(s)
              [] s[1] = "+" -> NumberOf(Tail(s))
              [] s[1] = "-" -> -NumberOf(Tail(s))

(* strconv.ParseBool.                                                       *)
TrueTexts == {<<"1">>, <<"t">>, <<"T">>, <<"true">>, <<"TRUE">>, <<"True">>}
FalseTexts == {<<"0">>, <<"f">>, <<"F">>, <<"false">>, <<"FALSE">>, <<"False">>}

-----------------------------------------------------------------------------
(* Addresses: four octets, and for a network the length of its prefix.      *)

Octets(s) == LET part == Split(s, ".") IN [i \in DOMAIN part |-> NumberOf(part[i])]
IsQuad(s, IsOctet(_)) ==
  LET part == Split(s, ".")
  IN Len(part) = 4 /\ \A i \in 1 .. 4 : IsNumber(part[i]) /\ IsOctet(part[i])

(* net.ParseIP refuses leading zeros.                                       *)
ParsesAsIP(s) == IsQuad(s, LAMBDA d : NumberOf(d) <= 255 /\ (d[1] = "0" => Len(d) = 1))

(* net.ParseCIDR.                                                           *)
ParsesAsCIDR(s) ==
  LET part == Split(s, "/")
  IN /\ Len(part) = 2
     /\ ParsesAsIP(part[1])
     /\ IsNumber(part[2])
     /\ NumberOf(part[2]) <= 32

(* The reader of attributes takes up to three digits, leading zeros too.    *)
parseIPv4FastInto(s) == IsQuad(s, LAMBDA d : Len(d) <= 3 /\ NumberOf(d) <= 255)

(* IPNet.Contains: the octets agree on the bits of the prefix.              *)
HostBits(bits, k) == CASE bits >= 8 * k -> 0
                       [] bits <= 8 * (k - 1) -> 8
                       [] OTHER -> 8 * k - bits
NetContains(net, bits, ip) ==
  \A k \in 1 .. 4 : ip[k] \div 2 ^ HostBits(bits, k) = net[k] \div 2 ^ HostBits(bits, k)

-----------------------------------------------------------------------------
(* Times of day, in seconds; NoTime when the text is no time.               *)

NoTime == -1
IsStamp(s) == Len(s) = 1 /\ s[1] \in DOMAIN Stamps
IsClock(h, m, s) == h < 24 /\ m < 60 /\ s < 60
Clock(h, m, s) == 3600 * h + 60 * m + s

(* The digits a text starts with: %d of Sscanf stops there, and Sscanf      *)
(* ignores what follows the last verb.                                      *)
Leading(s) == SubSeq(s, 1, RunEnd(s, 1, isDigit) - 1)

(* tryParseDateTimeOrTime of the compiler: RFC 3339, then three numbers     *)
(* (before a Z when the text ends in one), then two, each of any length.    *)
HourMinute(part) ==
  LET minute == Leading(part[2])
  IN IF /\ Len(part) > 1 /\ IsNumber(part[1]) /\ minute # <<>>
        /\ IsClock(NumberOf(part[1]), NumberOf(minute), 0)
     THEN Clock(NumberOf(part[1]), NumberOf(minute), 0)
     ELSE NoTime
HourMinuteSecond(part, zulu) ==
  LET second == Leading(part[3])
  IN IF /\ Len(part) > 2 /\ IsNumber(part[1]) /\ IsNumber(part[2]) /\ second # <<>>
        /\ zulu => CharAt(part[3], Len(second) + 1) = "Z"
        /\ IsClock(NumberOf(part[1]), NumberOf(part[2]), NumberOf(second))
     THEN Clock(NumberOf(part[1]), NumberOf(part[2]), NumberOf(second))
     ELSE HourMinute(part)
tryParseDateTimeOrTime(s) ==
  IF IsStamp(s) THEN Stamps[s[1]] ELSE HourMinuteSecond(Split(s, ":"), HasSuffix(s, "Z"))

(* Mutant of parseFastTime: the seconds are dropped.                        *)
parseMinutes(s) ==
  LET part == Split(IF HasSuffix(s, "Z") THEN Front(s) ELSE s, ":")
  IN IF /\ Len(part) \in {2, 3}
        /\ \A i \in DOMAIN part : IsNumber(part[i]) /\ Len(part[i]) = 2
     THEN Clock(NumberOf(part[1]), NumberOf(part[2]), 0)
     ELSE NoTime

(* HH:MM:SS or HH:MM, two digits each, with an optional Z.                  *)
parseFastTime(s) ==
  LET part == Split(IF HasSuffix(s, "Z") THEN Front(s) ELSE s, ":")
      second == IF Len(part) = 3 THEN NumberOf(part[3]) ELSE 0
  IN IF /\ Len(part) \in {2, 3}
        /\ \A i \in DOMAIN part : IsNumber(part[i]) /\ Len(part[i]) = 2
        /\ IsClock(NumberOf(part[1]), NumberOf(part[2]), second)
     THEN Clock(NumberOf(part[1]), NumberOf(part[2]), second)
     ELSE NoTime

(* tryParseDateTimeOrTime of the evaluator.                                 *)
readDateTimeOrTime(s) ==
  IF parseFastTime(s) # NoTime THEN parseFastTime(s)
  ELSE IF IsStamp(s) THEN Stamps[s[1]] ELSE NoTime

=============================================================================
