------------------------------ MODULE Content ------------------------------
(* What the program does to the text of a post: NormalizeContent of          *)
(* internal/domain and the checks of both connectors in internal/platform.   *)
(*                                                                           *)
(* A text is a sequence of symbols, one for each kind of character that the  *)
(* code tells apart:                                                         *)
(*   cr, lf    "\r" and "\n"                                                 *)
(*   sp        a space or a tab                                              *)
(*   nb        U+3000, white space to TrimSpace but not to the pattern \s    *)
(*   nul, ctl  NUL, and a control character that is not white space          *)
(*   a, w      characters that X counts once (ASCII) and twice (CJK)         *)
(*   url       the eight characters "https://"                               *)
(*   bad       a byte that is not UTF-8                                      *)
(* Form feed and vertical tab, control characters that TrimSpace trims, are  *)
(* left out.                                                                 *)
EXTENDS Naturals, Sequences, SequencesExt, FiniteSetsExt

CONSTANTS
  XMaxWeightedLength,    \* 280
  NostrMaxContent        \* 65536 bytes

ASSUME ContentAssumption == XMaxWeightedLength \in Nat /\ NostrMaxContent \in Nat

Symbols == {"cr", "lf", "sp", "nb", "nul", "ctl", "a", "w", "url", "bad"}

Valid(t) == ~Contains(t, "bad")

(* strings.TrimSpace leaves nothing. *)
Blank(t) == ToSet(t) \subseteq {"cr", "lf", "sp", "nb"}

(* len: UTF-8 bytes. *)
Bytes(t) ==
  FoldSeq(LAMBDA c, n : n + (CASE c \in {"nb", "w"} -> 3 [] c = "url" -> 8 [] OTHER -> 1), 0, t)

NewLineSymbols == {"cr", "lf"}

----------------------------------------------------------------------------
(* NormalizeContent *)

(* The two ReplaceAll: a "\r\n" becomes a "\n", and then so does every other *)
(* "\r".                                                                     *)
ReplaceCRLF(t) ==
  LET kept == {i \in DOMAIN t : ~(t[i] = "cr" /\ i < Len(t) /\ t[i + 1] = "lf")} IN
  [i \in 1 .. Cardinality(kept) |->
     t[CHOOSE k \in kept : Cardinality({j \in kept : j <= k}) = i]]

ReplaceCR(t) == [i \in DOMAIN t |-> IF t[i] = "cr" THEN "lf" ELSE t[i]]

NewLines_CRFirst(t) == ReplaceCRLF(ReplaceCR(t))

NewLines(t) == ReplaceCR(ReplaceCRLF(t))

Accepted(t) == Valid(t) /\ ~Contains(t, "nul") /\ ~Blank(t)

----------------------------------------------------------------------------
(* ValidateXText *)

(* xRuneWeight of one symbol; a byte that is not UTF-8 reads as U+FFFD. *)
RuneWeight(c) == CASE c \in {"nb", "w", "bad"} -> 2 [] c = "url" -> 8 [] OTHER -> 1

xRuneWeight(t) == FoldSeq(LAMBDA c, n : n + RuneWeight(c), 0, t)

(* The pattern \s of the regular expression. *)
Space == {"cr", "lf", "sp"}

(* FindAllStringIndex(https?://[^\s]+): the first match at or after i, as    *)
(* the indices of its first symbol and of the first symbol behind it.        *)
Starts(t, i) == {k \in i .. Len(t) - 1 : t[k] = "url" /\ t[k + 1] \notin Space}
MatchEnd(t, k) == Min({j \in k + 1 .. Len(t) + 1 : j > Len(t) \/ t[j] \in Space})

XWeightedLength_Unmatched(t) ==
  LET Weigh[last \in 1 .. Len(t) + 1] ==
        IF Starts(t, last) = {} THEN xRuneWeight(SubSeq(t, last, Len(t)))
        ELSE LET k == Min(Starts(t, last)) IN 23 + Weigh[MatchEnd(t, k)]
  IN Weigh[1]

XWeightedLength(t) ==
  LET Weigh[last \in 1 .. Len(t) + 1] ==
        IF Starts(t, last) = {} THEN xRuneWeight(SubSeq(t, last, Len(t)))
        ELSE LET k == Min(Starts(t, last)) IN
             xRuneWeight(SubSeq(t, last, k - 1)) + 23 + Weigh[MatchEnd(t, k)]
  IN Weigh[1]

ValidateXText(t) ==
  /\ Valid(t) /\ ~Blank(t)
  /\ ~Contains(t, "nul") /\ ~Contains(t, "ctl")
  /\ XWeightedLength(t) <= XMaxWeightedLength

(* NostrConnector.Publish on its own account. *)
ValidateNostrText(t) == ~Blank(t) /\ Valid(t) /\ Bytes(t) <= NostrMaxContent

----------------------------------------------------------------------------
(* What the properties compare with *)

(* The lines of a text: a line ends at a "\n", at a "\r" that no "\n"        *)
(* follows, or at the pair.  The breaks are counted by where they end.       *)
Breaks(t) ==
  {i \in DOMAIN t : t[i] = "lf" \/ (t[i] = "cr" /\ (i = Len(t) \/ t[i + 1] # "lf"))}

(* The text with its line breaks left out. *)
Words(t) ==
  FoldLeft(LAMBDA words, c : IF c \in NewLineSymbols THEN words ELSE Append(words, c), <<>>, t)

(* The symbols that belong to a URL, by themselves. *)
InURL(t, i) ==
  \E k \in 1 .. i :
    t[k] = "url" /\ k < Len(t) /\ \A j \in (k + 1 .. i) \cup {k + 1} : t[j] \notin Space

(* 23 for each run of such symbols and its own weight for every other. *)
WeightOf(t) ==
  LET url == {i \in DOMAIN t : InURL(t, i)} IN
  23 * Cardinality({i \in url : i - 1 \notin url})
    + FoldSet(LAMBDA i, n : n + RuneWeight(t[i]), 0, DOMAIN t \ url)
=============================================================================
