---------------------------- MODULE DebianVersion ----------------------------
(***************************************************************************)
(* The order of Debian version strings, as python-debian's Version         *)
(* compares them (NativeVersion._compare, the dpkg algorithm).  The tools  *)
(* under src/ build version strings and rely on this order; the library    *)
(* itself is outside src/.                                                  *)
(*                                                                         *)
(* A string is a sequence of one-character strings.  A version is          *)
(* [epoch:]upstream[-revision]: the revision is what follows the last "-". *)
(* Each part is compared as alternating runs of non-digits and digits:     *)
(* non-digit runs character by character, "~" before the end of the run,  *)
(* letters before other characters; digit runs by their value.  This      *)
(* module takes no epochs: the tools copy them unchanged.                   *)
(***************************************************************************)
EXTENDS Integers, Sequences, SequencesExt

Digits == {"0", "1", "2", "3", "4", "5", "6", "7", "8", "9"}

DigitValue(c) == CHOOSE i \in 0..9 : <<"0", "1", "2", "3", "4", "5", "6", "7", "8", "9">>[i + 1] = c

(* int() of a run of digits; "" counts as 0, as an absent run does.        *)
RECURSIVE NumberOf(_)
NumberOf(s) == IF s = << >> THEN 0 ELSE 10 * NumberOf(Front(s)) + DigitValue(Last(s))

(* "%d": the decimal digits of n.                                          *)
RECURSIVE DecimalOf(_)
DecimalOf(n) ==
    IF n < 10 THEN << <<"0", "1", "2", "3", "4", "5", "6", "7", "8", "9">>[n + 1] >>
    ELSE DecimalOf(n \div 10) \o DecimalOf(n % 10)

(* ASCII codes of the letters and punctuation the versions here use.       *)
Ascii == [a |-> 97, b |-> 98, o |-> 111, p |-> 112, v |-> 118]

Letters == DOMAIN Ascii

Punctuation == [c \in {"+", "-", ".", ":"} |->
                  CASE c = "+" -> 43 [] c = "-" -> 45 [] c = "." -> 46 [] c = ":" -> 58]

(* _order: "~" sorts first, then the end of a run, letters, the rest.      *)
OrderOf(c) ==
    CASE c = "~"         -> -1
      [] c \in Digits    -> DigitValue(c) + 1
      [] c \in Letters   -> Ascii[c]
      [] OTHER           -> Punctuation[c] + 256

TailOrEmpty(s) == IF s = << >> THEN << >> ELSE Tail(s)

(* _version_cmp_string: -1, 0 or 1.                                         *)
RECURSIVE CmpString(_, _)
CmpString(a, b) ==
    IF a = << >> /\ b = << >> THEN 0
    ELSE LET x == IF a = << >> THEN 0 ELSE OrderOf(Head(a))
             y == IF b = << >> THEN 0 ELSE OrderOf(Head(b))
         IN IF x < y THEN -1 ELSE IF x > y THEN 1
            ELSE CmpString(TailOrEmpty(a), TailOrEmpty(b))

IsDigitRun(s) == s # << >> /\ \A i \in DOMAIN s : s[i] \in Digits

(* re_all_digits_or_not.findall: the maximal runs of digits and of         *)
(* non-digits, in order.                                                   *)
RECURSIVE Runs(_)
Runs(s) ==
    IF s = << >> THEN << >>
    ELSE LET other == SelectInSeq(s, LAMBDA c : (c \in Digits) # (s[1] \in Digits))
             k     == IF other = 0 THEN Len(s) ELSE other - 1
         IN << SubSeq(s, 1, k) >> \o Runs(SubSeq(s, k + 1, Len(s)))

(* _version_cmp_part over the run lists; a missing run is "0".             *)
RECURSIVE CmpRuns(_, _)
CmpRuns(la, lb) ==
    IF la = << >> /\ lb = << >> THEN 0
    ELSE LET a == IF la = << >> THEN <<"0">> ELSE Head(la)
             b == IF lb = << >> THEN <<"0">> ELSE Head(lb)
             r == IF IsDigitRun(a) /\ IsDigitRun(b)
                  THEN IF NumberOf(a) < NumberOf(b) THEN -1
                       ELSE IF NumberOf(a) > NumberOf(b) THEN 1 ELSE 0
                  ELSE CmpString(a, b)
         IN IF r # 0 THEN r ELSE CmpRuns(TailOrEmpty(la), TailOrEmpty(lb))

CmpPart(a, b) == CmpRuns(Runs(a), Runs(b))

(* The split at the last "-"; a version without one has revision "0".      *)
Upstream(v) ==
    LET i == SelectLastInSeq(v, LAMBDA c : c = "-")
    IN IF i = 0 THEN v ELSE SubSeq(v, 1, i - 1)

Revision(v) ==
    LET i == SelectLastInSeq(v, LAMBDA c : c = "-")
    IN IF i = 0 THEN <<"0">> ELSE SubSeq(v, i + 1, Len(v))

VersionCmp(v, w) ==
    LET u == CmpPart(Upstream(v), Upstream(w))
    IN IF u # 0 THEN u ELSE CmpPart(Revision(v), Revision(w))

VersionLess(v, w) == VersionCmp(v, w) < 0

====
