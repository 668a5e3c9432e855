-------------------------------- MODULE Glob --------------------------------
(***************************************************************************)
(* glob_match1 of c/linux/kernel/kernel_path_regex.c, on every pattern and *)
(* string of a small alphabet.  One step is one turn of its loop.  Both    *)
(* end with Nul.                                                           *)
(***************************************************************************)
EXTENDS Integers, Sequences, SequencesExt

CONSTANTS Letters,      \* characters without a meaning of their own
          Texts,        \* the characters of strings
          Rank(_),      \* the place of a character in the character set
          MaxPattern, MaxString     \* lengths (bounds)

Nul == "nul"
Special == {"?", "*", "[", "]", "!", "-", "bs"}     \* bs is the backslash

VARIABLES pattern, string,      \* the arguments
          pat, str,             \* the next characters, as indices from 1
          back_pat, back_str,   \* 0 for NULL, and for not initialized
          result                \* "none" while the loop runs, "true", "false";
                                \* "past" when str is past the end

vars == <<pattern, string, pat, str, back_pat, back_str, result>>

Init == /\ \E p \in BoundedSeq(Letters \union Special, MaxPattern) : pattern = p \o <<Nul>>
        /\ \E s \in BoundedSeq(Texts, MaxString) : string = s \o <<Nul>>
        /\ pat = 1 /\ str = 1 /\ back_pat = 0 /\ back_str = 0
        /\ result = "none"

c == string[str]
d == pattern[pat]

Return(r) == result' = r /\ UNCHANGED <<pattern, string, pat, str, back_pat, back_str>>

Goto(p, s) == /\ pat' = p /\ str' = s
              /\ result' = IF s > Len(string) THEN "past" ELSE "none"
              /\ UNCHANGED <<pattern, string, back_pat, back_str>>

\* Mutant: the string goes on from where it is.
BacktrackOn == IF c = Nul \/ back_pat = 0 THEN Return("false") ELSE Goto(back_pat, str + 1)

\* The label backtrack: again from the last *, one character later.
Backtrack ==
  IF c = Nul \/ back_pat = 0 THEN Return("false")
  ELSE /\ pat' = back_pat /\ back_str' = back_str + 1 /\ str' = back_str + 1
       /\ UNCHANGED <<pattern, string, back_pat, result>>

\* The label literal, of the character at p of the pattern.
Literal(p) == IF c # pattern[p] THEN Backtrack
              ELSE IF c = Nul THEN Return("true") ELSE Goto(p + 1, str + 1)

Question == d = "?" /\ IF c = Nul THEN Return("false") ELSE Goto(pat + 1, str + 1)

Star == /\ d = "*"
        /\ IF pattern[pat + 1] = Nul THEN Return("true")
           ELSE /\ pat' = pat + 1
                /\ back_pat' = pat + 1 /\ back_str' = str
                /\ UNCHANGED <<pattern, string, str, result>>

\* The spans of a class from the index k on, against the character ch: where
\* the class ends, 0 if it does not, and whether a span has ch.  The first span
\* may begin with "]".
Spans[k \in 1 .. Len(pattern)] == [first \in BOOLEAN |-> [ch \in Texts \union {Nul} |->
  LET a == pattern[k]
      ranged == pattern[k + 1] = "-" /\ pattern[k + 2] # "]"
      b == IF ranged THEN pattern[k + 2] ELSE a
      rest == Spans[IF ranged THEN k + 3 ELSE k + 1][FALSE][ch]
      within == Rank(a) <= Rank(ch) /\ Rank(ch) <= Rank(b)
  IN  IF a = "]" /\ ~first THEN [end |-> k, has |-> FALSE]
      ELSE IF a = Nul \/ b = Nul THEN [end |-> 0, has |-> FALSE]
      ELSE [end |-> rest.end, has |-> rest.has \/ within]]]

ClassAt(p, ch) ==
  LET inverted == pattern[p + 1] = "!"
      spans == Spans[IF inverted THEN p + 2 ELSE p + 1][TRUE][ch]
  IN  [end |-> spans.end, matches |-> spans.has # inverted]

Class ==
  /\ d = "["
  /\ LET class == ClassAt(pat, c)
     IN  IF class.end = 0 THEN Literal(pat)
         ELSE IF class.matches THEN Goto(class.end + 1, str + 1)
         ELSE Backtrack

Escape == d = "bs" /\ Literal(pat + 1)

Other == d \notin {"?", "*", "[", "bs"} /\ Literal(pat)

Next == result = "none" /\ (Question \/ Star \/ Class \/ Escape \/ Other)

-----------------------------------------------------------------------------
(***************************************************************************)
(* What a pattern means: does the text from the index s on match what is   *)
(* at p and after it?  A class that does not end is a bracket, and no      *)
(* class has the end of the string in it.                                  *)
(***************************************************************************)
Matches[p \in 1 .. Len(pattern)] == [s \in 1 .. Len(string) |->
  LET ch == string[s]
      Is(q) == IF pattern[q] = Nul THEN ch = Nul
               ELSE ch = pattern[q] /\ Matches[q + 1][s + 1]
  IN  CASE pattern[p] = "?" -> ch # Nul /\ Matches[p + 1][s + 1]
        [] pattern[p] = "*" -> \E t \in s .. Len(string) : Matches[p + 1][t]
        [] pattern[p] = "[" /\ ClassAt(p, ch).end > 0 ->
             LET class == ClassAt(p, ch)
             IN  ch # Nul /\ class.matches /\ Matches[class.end + 1][s + 1]
        [] pattern[p] = "bs" -> Is(p + 1)
        [] OTHER -> Is(p)]

\* One level of backtracking is enough: glob_match1 returns what the pattern
\* means, whatever stars, classes and escapes it has.
ResultRight == result \in {"true", "false"} => (result = "true") = Matches[1][1]
=============================================================================
