---------------------------- MODULE MCGitStorage ----------------------------
(* Instances of GitStorage for TLC: up to four paths, two words and two line *)
(* ends, and batches chosen so that every verdict of the validation and      *)
(* every way to fail half-way occurs.                                        *)
EXTENDS GitStorage, TLC

CONSTANTS t1, t2, a, b, c, d, x, y

MCThreads     == {t1, t2}
MCTextPaths   == {a, b}
MCBinaryPaths == {c}
MCTokens      == {x, y, Crlf, Lf}

(* With a text that a person committed in another encoding.                  *)
MCForeignTextPaths == {a, b, d}
MCForeignTokens    == {x, y, Crlf, Lf, NoUtf8}

Op(type, path, old, text) == [type |-> type, path |-> path, old |-> old, text |-> text]

(* a ends in \r\n, c is a binary, b is not there, d does not decode.         *)
MCInitialFiles ==
    [p \in Paths |-> CASE p = a -> <<x, Crlf>>
                       [] p = b -> None
                       [] p = c -> <<x>>
                       [] p = d -> <<NoUtf8>>]

WriteA    == Op("write", a, None, <<y>>)
WriteB    == Op("write", b, None, <<x>>)
EditA     == Op("edit", a, x, <<y>>)
AppendA   == Op("append", a, None, <<x>>)
DeleteA   == Op("delete", a, None, None)
UploadC   == Op("upload", c, None, <<y>>)
DeleteC   == Op("delete", c, None, None)

(* Batches that can commit, among them two that fail in phase 2 once a was   *)
(* deleted, and one whose edit no longer matches once.                       *)
CoreScripts ==
    { <<WriteA>>, <<EditA>>, <<DeleteA>>, <<UploadC>>,
      <<DeleteA, EditA>>,
      <<AppendA, WriteB>> }

(* Batches that the validation refuses for their form.                       *)
RefusedScripts ==
    { <<>>,
      <<Op("upload", a, None, <<y>>)>>,
      <<Op("write", c, None, <<y>>)>>,
      <<Op("write", a, None, None)>>,
      <<Op("append", a, None, None)>>,
      <<Op("edit", a, None, <<y>>)>>,
      <<Op("edit", c, x, <<y>>)>>,
      <<Op("edit", a, y, <<x>>)>>,
      <<Op("edit", a, Crlf, <<x>>)>> }

MixedScripts == CoreScripts \cup RefusedScripts \cup
    { <<AppendA, EditA>>, <<DeleteA, WriteA>>, <<DeleteC>> }

(* A text that does not decode is neither replaced nor deleted.              *)
ForeignScripts == MixedScripts \cup
    { <<Op("write", d, None, <<y>>)>>, <<Op("delete", d, None, None)>> }

ThreadSymmetry == Permutations(MCThreads)
=============================================================================
