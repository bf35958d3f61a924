----------------------------- MODULE Conversion -----------------------------
(***************************************************************************)
(* What a converter answers (result.go, ingestion_model.go): an error,     *)
(* told by its class, or Markdown with artifacts and warnings.             *)
(*                                                                         *)
(* Markdown is a sequence of parts.  A part names the piece of the         *)
(* document it shows; a reference to an artifact has the ordinal it is     *)
(* written with, `ref`, and, if the converter has written it, the image    *)
(* its text describes, `meant`.                                            *)
(***************************************************************************)
EXTENDS Integers, Sequences, FiniteSetsExt

\* Errors that end a request, and those another converter may make up for.
Terminal == {"malformed", "limit", "policy", "integrity"}
Passing  == {"unsupported", "failed"}

Converted(parts, artifacts, warnings) ==
    [class |-> "ok", parts |-> parts, artifacts |-> artifacts, warnings |-> warnings]

Failure(class) == [class |-> class, parts |-> <<>>, artifacts |-> <<>>, warnings |-> {}]

\* The members of a finite set in the order of a relation, a set of pairs.
InOrder(S, before) ==
    [n \in 1..Cardinality(S) |->
        CHOOSE i \in S : Cardinality({j \in S : <<j, i>> \in before}) = n - 1]

\* Indices, from the first to the last.
Ascending(S) == InOrder(S, {p \in S \X S : p[1] < p[2]})

\* Text of the document that reads like a reference, if it has any.
Quotes(doc) == IF doc.quotes = 0 THEN <<>> ELSE <<[ref |-> doc.quotes]>>

\* The empty Location.
Nowhere == [nowhere |-> TRUE]

Warning(category, location) == [category |-> category, location |-> location]
=============================================================================
