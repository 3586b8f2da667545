----------------------------- MODULE ConfigFile -----------------------------
(***************************************************************************)
(* What CConfigFileReader (src/c++/base/ConfigFileReader.cpp) reads from a *)
(* file of `key = value' lines.  A text is a sequence of characters.       *)
(***************************************************************************)
EXTENDS Integers, SequencesExt

CONSTANT BUF_SIZE  \* _LoadFile's buf: 256 in the code

ASSUME BufHoldsText == BUF_SIZE \in Nat /\ BUF_SIZE > 1

NULL == <<>>   \* no function below returns an empty text
Blank == {" ", "\t"}

\* strchr: the part of a text before the first c.
Before(text, c) ==
    LET at == {i \in 1..Len(text) : text[i] = c}
    IN  IF at = {} THEN text ELSE SubSeq(text, 1, Min(at) - 1)

(* Fault variant: blanks are removed in front only. *)
TrimSpaceLeft(name) ==
    LET kept == {i \in 1..Len(name) : name[i] \notin Blank}
    IN  IF kept = {} THEN NULL ELSE SubSeq(name, Min(kept), Len(name))

_TrimSpace(name) ==
    LET kept == {i \in 1..Len(name) : name[i] \notin Blank}
    IN  IF kept = {} THEN NULL ELSE SubSeq(name, Min(kept), Max(kept))

\* fgets() over a whole file: a piece ends with a newline, with the file, or
\* when buf is full.
Pieces(file) ==
    LET End(p) == Min({Len(file), p + BUF_SIZE - 1}
                      \cup {i \in (p + 1)..Len(file) : file[i] = "\n"})
        from[p \in 0..Len(file)] ==
            IF p = Len(file) THEN <<>>
            ELSE <<SubSeq(file, p + 1, End(p))>> \o from[End(p)]
    IN  from[0]

\* m_config_map: insert() leaves a key that is there as it is.
_ParseLine(map, line) ==
    LET key == _TrimSpace(Before(line, "="))
        value == _TrimSpace(SubSeq(line, Len(Before(line, "=")) + 2, Len(line)))
    IN  IF ~Contains(line, "=") \/ key = NULL \/ value = NULL \/ key \in DOMAIN map
        THEN map
        ELSE [k \in DOMAIN map \cup {key} |-> IF k = key THEN value ELSE map[k]]

\* The newline and a comment are cut off.
_LoadFile(file) ==
    FoldLeft(LAMBDA map, piece : _ParseLine(map, Before(Before(piece, "\n"), "#")),
             [k \in {} |-> NULL], Pieces(file))

\* Of a file that could not be opened m_load_ok is not initialised; the map
\* is empty all the same.
GetConfigName(map, name) == IF name \in DOMAIN map THEN map[name] ELSE NULL

-----------------------------------------------------------------------------
(* What the file says, line by line.                                       *)

\* A line is a pair of the positions around it.
LinesOf(file) ==
    LET ends == {0, Len(file) + 1} \cup {i \in 1..Len(file) : file[i] = "\n"}
    IN  {l \in ends \X ends : l[1] < l[2] /\ \A e \in ends : e <= l[1] \/ e >= l[2]}

\* What is left of the text at positions a to b without the blanks around it:
\* one text or none.
Core(file, a, b) ==
    {SubSeq(file, ij[1], ij[2]) : ij \in
        {ij \in (a..b) \X (a..b) :
            /\ ij[1] <= ij[2] /\ {file[ij[1]], file[ij[2]]} \cap Blank = {}
            /\ \A k \in a..b : k \in ij[1]..ij[2] \/ file[k] \in Blank}}

\* The key and the value that a line gives: around its first = in front of a
\* comment.
Entry(file, l) ==
    LET at == (l[1] + 1)..(l[2] - 1)
        First(c) == {i \in at : file[i] = c /\ \A j \in at : j < i => file[j] # c}
        ends == IF First("#") = {} THEN {l[2]} ELSE First("#")
    IN  UNION {Core(file, l[1] + 1, ec[1] - 1) \X Core(file, ec[1] + 1, ec[2] - 1) :
                   ec \in {ec \in First("=") \X ends : ec[1] < ec[2]}}

\* The map holds exactly what the lines give, of a key the first line's.  A
\* line that does not fit into buf is read as several, comments included.
AsWritten(map, file) ==
    (\A l \in LinesOf(file) : l[2] - l[1] <= BUF_SIZE)
    => {<<key, GetConfigName(map, key)>> : key \in DOMAIN map}
       = UNION {{kv \in Entry(file, l) :
                    \A k \in LinesOf(file) :
                        k[1] < l[1] => \A other \in Entry(file, k) : other[1] # kv[1]} :
                l \in LinesOf(file)}
=============================================================================
