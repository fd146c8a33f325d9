------------------------------ MODULE FileOps -------------------------------
(***************************************************************************)
(* What one file operation of the Agent-MD-API does to one file.  A file   *)
(* is a sequence of tokens, or None when it is not there; a token is a     *)
(* piece of text, the end of a line, or bytes that are no UTF-8.           *)
(***************************************************************************)
EXTENDS Naturals, Sequences, FiniteSets

CONSTANTS
    None,       \* Python's None: no file, no version, no text
    Crlf, Lf,   \* a line end \r\n (or a lone \r), and \n
    NoUtf8      \* bytes that do not decode

(* read_text: universal newlines.  write_text and an append store what they *)
(* are given, the program runs on Linux.                                    *)
AsText(c) == [i \in 1 .. Len(c) |-> IF c[i] = Crlf THEN Lf ELSE c[i]]

(* Whether read_text(encoding="utf-8") decodes the file or raises.          *)
IsUtf8(c) == \A i \in 1 .. Len(c) : c[i] # NoUtf8

(* Occurrences of x in c; an edit's old_str is one token.                   *)
Count(c, x) == Cardinality({i \in 1 .. Len(c) : c[i] = x})

(* str.replace(old, new, 1)                                                 *)
ReplaceFirst(c, x, s) ==
    IF \E i \in 1 .. Len(c) : c[i] = x
    THEN LET i == CHOOSE k \in 1 .. Len(c) : c[k] = x /\ \A j \in 1 .. k - 1 : c[j] # x
         IN  SubSeq(c, 1, i - 1) \o s \o SubSeq(c, i + 1, Len(c))
    ELSE c

(* What the work-tree half of an operation makes of the file it finds.      *)
Result(op, c) ==
    CASE op.type \in {"write", "upload"} -> op.text
      [] op.type = "append" -> IF c = None THEN op.text ELSE c \o op.text
      [] op.type = "edit"   -> ReplaceFirst(AsText(c), op.old, op.text)
      [] op.type = "delete" -> None

(* unlink() and read_text() raise on a file that is not there, read_text()  *)
(* on one that is no UTF-8.                                                 *)
Applicable(op, c) ==
    /\ op.type \in {"edit", "delete"} => c # None
    /\ op.type = "edit" => IsUtf8(c)

(* What a write interrupted by an I/O error leaves: open() has truncated    *)
(* (or, for an append, created) the file already.                           *)
Torn(op, c) ==
    CASE op.type = "append" -> IF c = None THEN <<>> ELSE c
      [] op.type = "delete" -> c
      [] OTHER -> <<>>
=============================================================================
