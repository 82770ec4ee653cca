---------------------------- MODULE NumberWords ----------------------------
(***************************************************************************)
(* The amount of an invoice in words (lib/number-to-words.ts).  A word     *)
(* stands for the number it names: "two hundred thirty-four" is            *)
(* <<2, 100, 30, 4>>.  Case, gender and endings of a word are left out.    *)
(* Amounts are in cents.                                                   *)
(***************************************************************************)
EXTENDS Integers, Sequences, SequencesExt

AllLanguages == {"en", "ru", "ka", "tr"}

\* Within a number nothing is said for zero.
Word(n) == IF n = 0 THEN <<>> ELSE <<n>>

\* Georgian counts in twenties; only Turkish has no words from eleven to nineteen.
Under100(lang, n) ==
  CASE lang = "ka" -> Word(n - (n % 20)) \o Word(n % 20)
    [] lang # "ka" /\ (n >= 20 \/ lang = "tr") -> Word(n - (n % 10)) \o Word(n % 10)
    [] OTHER -> Word(n)

\* Russian has a word for each of the hundreds; one hundred has no "one" in Georgian
\* and in Turkish.
Hundreds(lang, h) ==
  CASE lang = "ru" -> Word(100 * h)
    [] h = 0 \/ (h = 1 /\ lang # "en") -> Word(100 * h)
    [] OTHER -> <<h, 100>>

Below1000(lang, n) == Hundreds(lang, n \div 100) \o Under100(lang, n % 100)

\* One thousand, million or billion has no "one" in Georgian and in Turkish.
Scaled(lang, k, scale) ==
  CASE k = 0 -> <<>>
    [] k = 1 /\ lang \in {"ka", "tr"} -> <<scale>>
    [] OTHER -> Below1000(lang, k) \o <<scale>>

\* A whole number below 10^12: there is no word for a bigger scale.
Whole(lang, n) ==
  IF n = 0 THEN <<0>>
  ELSE Scaled(lang, n \div 1000000000, 1000000000)
       \o Scaled(lang, (n \div 1000000) % 1000, 1000000)
       \o Scaled(lang, (n \div 1000) % 1000, 1000)
       \o Below1000(lang, n % 1000)

\* A language without a converter is written in English.
NumberToWords(cents, lang, currency) ==
  [lang |-> lang, said |-> Whole(IF lang \in AllLanguages THEN lang ELSE "en", cents \div 100),
   cents |-> cents % 100, currency |-> currency]

-----------------------------------------------------------------------------
(* What a reader makes of the words, whatever the language: a word below a *)
(* hundred is added, a hundred multiplies what precedes it in its group,   *)
(* and a scale closes the group.                                           *)

Heard(r, w) ==
  LET times == IF r.group = 0 THEN 1 ELSE r.group
  IN  CASE w >= 1000 -> [sum |-> r.sum + times * w, group |-> 0]
        [] w = 100 -> [r EXCEPT !.group = times * 100]
        [] OTHER -> [r EXCEPT !.group = @ + w]

ReadBack(said) ==
  LET r == FoldLeft(Heard, [sum |-> 0, group |-> 0], said) IN r.sum + r.group
=============================================================================
