---------------------------- MODULE ArchiveNames ----------------------------
(***************************************************************************)
(* The names of archive members: what CanonicalArchivePath (sanitize.go)   *)
(* admits and what an envelope may show (safePublicText,                   *)
(* ingestion_verify.go).                                                   *)
(*                                                                         *)
(* A name is a sequence of symbols.  A symbol is a class of characters     *)
(* that both predicates treat alike, percent-encoded `coded` times over:   *)
(* until it has been decoded that often it shows as an escape.             *)
(***************************************************************************)
EXTENDS Integers, Sequences, FiniteSetsExt

CONSTANTS
    MaxDecodeRounds     \* maxDecodeRounds and maxPublicPercentDecodeRounds

(***************************************************************************)
(* bracket : a quote, bracket, comma, semicolon or equals sign             *)
(* tilde   : ~ or `                                                        *)
(* mark    : \ ? # or :                                                    *)
(***************************************************************************)
Char   == {"letter", "slash", "dot", "space", "bracket", "tilde", "mark", "control"}
Symbol == [char : Char, coded : Nat]

ASSUME NamesAssumption == MaxDecodeRounds \in Nat

\* The name after n rounds of decoding.
Form(name, n) ==
    [i \in DOMAIN name |-> IF name[i].coded > n THEN "escape" ELSE name[i].char]

Deep(name) == Max({0} \cup {name[i].coded : i \in DOMAIN name})
CharsOf(f) == {f[i] : i \in DOMAIN f}
Count(c, f) == Cardinality({i \in DOMAIN f : f[i] = c})

TrimSpace(name) ==
    LET Ink == {i \in DOMAIN name : name[i] # [char |-> "space", coded |-> 0]}
    IN  IF Ink = {} THEN <<>> ELSE SubSeq(name, Min(Ink), Max(Ink))

-----------------------------------------------------------------------------
\* safeDecodedForm: a relative path none of whose segments is empty, dots, or
\* ends in a dot or a space.
SafeForm(f) ==
    /\ f # <<>>
    /\ CharsOf(f) \cap {"mark", "control"} = {}
    /\ f[1] # "slash"
    /\ \A i \in DOMAIN f :
          i = Len(f) \/ f[i + 1] = "slash" => f[i] \notin {"slash", "dot", "space"}

\* Mutation: decoding may bring slashes to light.
InspectDecoded_anySlash(name) ==
    /\ Deep(name) <= MaxDecodeRounds
    /\ \A n \in 0..Deep(name) : SafeForm(Form(name, n))

\* inspectDecoded: every form on the way is safe, decoding makes no slash and
\* comes to an end in time.
InspectDecoded(name) ==
    /\ Deep(name) <= MaxDecodeRounds
    /\ \A n \in 0..Deep(name) :
          /\ SafeForm(Form(name, n))
          /\ Count("slash", Form(name, n + 1)) <= Count("slash", Form(name, n))

Admitted(name) ==
    /\ "control" \notin CharsOf(Form(name, 0))
    /\ InspectDecoded(TrimSpace(name))

\* safePublicTextForm, for the symbols a name is made of.
Splits == {"space", "bracket", "mark"}
Starts(f, i) == i = 1 \/ f[i - 1] \in Splits

ContainsAbsolutePath(f) ==
    \E i, j \in DOMAIN f : /\ i <= j /\ Starts(f, i)
                           /\ f[j] = "slash"
                           /\ \A k \in i..(j - 1) : f[k] = "tilde"

ContainsPathTraversal(f) ==
    \E i \in 1..(Len(f) - 1) :
        /\ f[i] = "dot" /\ f[i + 1] = "dot"
        /\ Starts(f, i) \/ f[i - 1] = "slash"
        /\ i + 1 = Len(f) \/ f[i + 2] \in Splits \cup {"slash"}

SafePublicText(name) ==
    /\ Deep(name) <= MaxDecodeRounds
    /\ \A n \in 0..Deep(name) :
          LET f == Form(name, n)
          IN  /\ "control" \notin CharsOf(f)
              /\ ~ContainsAbsolutePath(f) /\ ~ContainsPathTraversal(f)

-----------------------------------------------------------------------------
\* Mutation: the name is compared as it was written.
Collides_asWritten(name, seen) == name \in seen

\* Upper and lower case, which the key folds, are one class here.
Collides(name, seen) == TrimSpace(name) \in seen

-----------------------------------------------------------------------------
\* Where a path leads, segment by segment, from the root of the archive.
StaysInside(f) ==
    LET ends == {i \in 1..(Len(f) + 1) : i = Len(f) + 1 \/ f[i] = "slash"}
        segment(i) == SubSeq(f, 1 + Max({0} \cup {j \in ends : j < i}), i - 1)
        step(i) == CASE segment(i) = <<"dot", "dot">> -> -1
                     [] segment(i) \in {<<>>, <<"dot">>} -> 0
                     [] OTHER -> 1
        level(i) == MapThenSumSet(step, {j \in ends : j <= i})
    IN  /\ f # <<>> /\ f[1] # "slash"
        /\ \A i \in ends : level(i) >= 0
        /\ level(Len(f) + 1) >= 1
=============================================================================
