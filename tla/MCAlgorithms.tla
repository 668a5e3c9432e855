---------------------------- MODULE MCAlgorithms ----------------------------
(***************************************************************************)
(* Small instances of Rbtree and Glob for TLC, in one run: at the start    *)
(* one of the two is chosen, and the other stays in an initial state.      *)
(***************************************************************************)
EXTENDS Rbtree

CONSTANTS Letters, Texts, Rank(_), MaxPattern, MaxString

VARIABLES which, pattern, string, pat, str, back_pat, back_str, result

globVars == <<pattern, string, pat, str, back_pat, back_str, result>>

Globs == INSTANCE Glob

\* No letter has a meaning of its own, and no text has the end of a string in it.
ASSUME GlobAssumption ==
    /\ MaxPattern \in Nat /\ MaxString \in Nat
    /\ Letters \cap (Globs!Special \union {Globs!Nul}) = {} /\ Globs!Nul \notin Texts

MCKeys == 1 .. 10
MCLetters == {"a", "b"}
MCTexts == {"b", "["}

\* Two letters, and the special characters in the order of ASCII.
CharSet == <<"!", "*", "-", "?", "[", "bs", "]", "a", "b">>
Place(x) == IF \E n \in DOMAIN CharSet : CharSet[n] = x
            THEN CHOOSE n \in DOMAIN CharSet : CharSet[n] = x ELSE 0

AlgorithmsInit ==
    /\ which \in {"rbtree", "glob"}
    /\ Init
    /\ IF which = "glob" THEN Globs!Init
       ELSE /\ pattern = <<Globs!Nul>> /\ string = <<Globs!Nul>> /\ pat = 1 /\ str = 1
            /\ back_pat = 0 /\ back_str = 0 /\ result = "none"

AlgorithmsNext ==
    /\ UNCHANGED which
    /\ \/ which = "rbtree" /\ Next /\ UNCHANGED globVars
       \/ which = "glob" /\ Globs!Next /\ UNCHANGED vars

AlgorithmsSpec == AlgorithmsInit /\ [][AlgorithmsNext]_<<which, vars, globVars>>

-----------------------------------------------------------------------------
\* glob_match1 finds a match exactly when there is one.
GlobRight == Globs!ResultRight
=============================================================================
