----------------------------- MODULE MCControl -----------------------------
(* Instance of Control for TLC: one shell whose user types every kind of   *)
(* line, and one that lists, reads messages and stays at its prompt.       *)
EXTENDS Control, TLC

CONSTANTS s1, s2

MCShell == {s1, s2}
MCCommands ==
    LET plain == {<<c, "">> : c \in {"/quit", "EOF", "/peers", "/msgs", "other"}}
        msg   == {<<"/msg", g>> : g \in {"no_space", "1", "2"}}
        file  == {<<"/file", g>> : g \in {"not_a_number", "2"}}
        all   == {<<"/all", g>> : g \in {"CR", "text"}}
    IN  (s1 :> plain \cup msg \cup file \cup all) @@ (s2 :> {})

(* The same without files.                                                 *)
MCTalk == [s \in MCShell |-> {t \in MCCommands[s] : t[1] # "/file"}]

(* One text of two lines with every special character, and one that is     *)
(* longer than MAX_LINES and has as many control characters as a text may. *)
MCTexts ==
    << <<"\\", "n", "LF", "CR">>,
       <<"LF", "LF", "BEL">> \o [i \in 1 .. 7 |-> "x"] >>
MCto_string == [n \in Number |-> ToString(n)]

(* The display of every short text, binary ones included.                  *)
ASSUME DisplaysConvey == \A text \in BoundedSeq(Char, 4) : Conveys(Display(text), text)
=============================================================================
