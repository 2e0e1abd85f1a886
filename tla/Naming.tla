------------------------------- MODULE Naming -------------------------------
(***************************************************************************)
(* sanitize_filename, over classes of characters: what it does depends on  *)
(* nothing else.  "w" and "v" stand for letters, digits and the hyphen,    *)
(* "blank" for any other ASCII character, "accented" for one whose NFKD    *)
(* form is a letter and a mark, "han" for one without an ASCII form.       *)
(***************************************************************************)
EXTENDS SequencesExt

CONSTANT MaxFilenameLength

ASSUME LengthAssumption == MaxFilenameLength \in Nat \ {0}

Letters == {"w", "v"}
Separators == {"_", "."}
Safe == Letters \cup Separators
Characters ==
    Safe \cup {"/", "backslash", "blank", "null", "accented", "han", "wideslash", "ellipsis"}

\* The members of S in s, in their order: SelectSeq as a function a proof can unfold.
Only(s, S) ==
    LET of[n \in 0..Len(s)] ==
          IF n = 0 THEN <<>> ELSE IF s[n] \in S THEN Append(of[n - 1], s[n]) ELSE of[n - 1]
    IN  of[Len(s)]

\* The null bytes removed, the NFKD form encoded as ASCII.
Ascii(c) ==
    CASE c \in {"null", "han"} -> <<>>
      [] c = "accented" -> <<"w">>
      [] c = "wideslash" -> <<"/">>
      [] c = "ellipsis" -> <<".", ".", ".">>
      [] OTHER -> <<c>>

Normalised(s) == FlattenSeq([i \in DOMAIN s |-> Ascii(s[i])])

MutPosixName(s) ==
    LET cuts == {i \in DOMAIN s : s[i] = "/"} IN
    IF cuts = {} THEN s ELSE SubSeq(s, 1, Min(cuts) - 1)

\* PurePosixPath(s).name: the last component that is neither empty nor ".".
PosixName(s) ==
    LET component(i, j) ==
          /\ \A k \in i..j : s[k] # "/"
          /\ i > 1 => s[i - 1] = "/"
          /\ j < Len(s) => s[j + 1] = "/"
        components == {r \in (DOMAIN s) \X (DOMAIN s) :
                         r[1] <= r[2] /\ component(r[1], r[2]) /\ SubSeq(s, r[1], r[2]) # <<".">>}
    IN  IF components = {} THEN <<>>
        ELSE LET last == CHOOSE r \in components : \A q \in components : q[1] <= r[1]
             IN  SubSeq(s, last[1], last[2])

\* rsplit("\\", 1)[-1]
WindowsName(s) ==
    LET cuts == {i \in DOMAIN s : s[i] = "backslash"} IN
    IF cuts = {} THEN s ELSE SubSeq(s, Max(cuts) + 1, Len(s))

\* lstrip and strip of a set of characters.
LStrip(s, chars) ==
    LET kept == {i \in DOMAIN s : s[i] \notin chars} IN
    IF kept = {} THEN <<>> ELSE SubSeq(s, Min(kept), Len(s))
Strip(s, chars) == Reverse(LStrip(Reverse(LStrip(s, chars)), chars))

MutReplaced(s) ==
    FlattenSeq([i \in DOMAIN s |-> IF s[i] \in Safe THEN <<s[i]>> ELSE <<"_", "w", "w">>])

Replaced(s) == [i \in DOMAIN s |-> IF s[i] \in Safe THEN s[i] ELSE "_"]

MutCollapsed(s) == s

\* A run of two or more separators becomes one underscore, in place of its first.
Collapsed(s) ==
    LET separator(i) == i \in DOMAIN s /\ s[i] \in Separators
        kept == [i \in DOMAIN s |->
                    IF separator(i) /\ separator(i - 1) THEN "gone"
                    ELSE IF separator(i) /\ separator(i + 1) THEN "_" ELSE s[i]]
    IN  Only(kept, Safe)

Truncated(s) == SubSeq(s, 1, IF Len(s) > MaxFilenameLength THEN MaxFilenameLength ELSE Len(s))

\* "unnamed" is made of letters; one stands for its seven, which is harmless at a limit of
\* 255.  Only here does a name get longer.
Unnamed == <<"w">>
OrUnnamed(s) == IF s = <<>> THEN Unnamed ELSE s

LastComponent(s) == WindowsName(PosixName(Normalised(s)))

sanitize_filename(s) ==
    LET replaced == Replaced(LStrip(LastComponent(s), {"."})) IN
    OrUnnamed(Truncated(Strip(Collapsed(replaced), Separators)))
=============================================================================
