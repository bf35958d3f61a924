-------------------------- MODULE MCContainerWalk --------------------------
(***************************************************************************)
(* ContainerWalk on a catalog of small archives, chosen so that every      *)
(* refusal, every converter result and every nesting case happens.         *)
(***************************************************************************)
EXTENDS ContainerWalk

CONSTANTS nameA, nameB, nameC, unsafe       \* member names

\* A stored member of n bytes, and a directory.
File(name, n, content) ==
    [name |-> name, directory |-> FALSE, declared |-> n, compressed |-> n,
     actual |-> n, sound |-> TRUE, content |-> content]
Directory(name) == [File(name, 0, "blank") EXCEPT !.directory = TRUE]

Zip(members) == [converters |-> <<"zip">>, readable |-> TRUE, body |-> "ok",
                 members |-> members]
Package(converters, body, members) ==
    [converters |-> converters, readable |-> TRUE, body |-> body, members |-> members]

AllArchives ==
    [ mixed     |-> Zip(<<Directory(nameA), File(nameB, 1, "document"), File(nameC, 1, "unsupported")>>),
      outer     |-> Zip(<<File(nameA, 2, "inner"), File(nameB, 1, "failed")>>),
      inner     |-> Zip(<<File(nameA, 1, "blank")>>),
      deep      |-> Zip(<<File(nameA, 2, "outer")>>),
      books     |-> Zip(<<File(nameA, 1, "book"), File(nameB, 1, "document")>>),
      book      |-> Package(<<"epub">>, "ok", <<Directory(nameA), File(nameB, 1, "document")>>),
      notabook  |-> Package(<<"epub">>, "unsupported", <<File(nameA, 1, "document")>>),
      sheet     |-> Package(<<"package">>, "failed", <<File(nameA, 1, "document"), Directory(nameB)>>),
      relabel   |-> Package(<<"epub", "zip">>, "unsupported", <<File(nameA, 1, "document")>>),
      clash     |-> Zip(<<File(nameA, 1, "document"), File(nameA, 1, "document")>>),
      escape    |-> Zip(<<File(nameA, 1, "document"), File(unsafe, 1, "document")>>),
      garbled   |-> [Zip(<<>>) EXCEPT !.readable = FALSE],
      broken    |-> [Package(<<"package">>, "ok", <<>>) EXCEPT !.readable = FALSE],
      carrier   |-> Zip(<<File(nameA, 1, "garbled"), File(nameB, 1, "document")>>),
      large     |-> Zip(<<File(nameA, 4, "document")>>),
      source    |-> Zip(<<File(nameA, 3, "document")>>),
      bomb      |-> Zip(<<[File(nameA, 3, "document") EXCEPT !.compressed = 1]>>),
      latebig   |-> Zip(<<File(nameA, 2, "document"), File(nameB, 3, "document")>>),
      squeezed  |-> Package(<<"package">>, "ok",
                            <<[File(nameA, 3, "document") EXCEPT !.compressed = 1]>>),
      truncated |-> Package(<<"package">>, "ok",
                            <<[File(nameA, 2, "document") EXCEPT !.actual = 1, !.sound = FALSE]>>),
      dangling  |-> Package(<<"package">>, "integrity", <<File(nameA, 1, "document")>>),
      stuffed   |-> Zip(<<[Directory(nameA) EXCEPT !.declared = 1, !.compressed = 1,
                                               !.sound = FALSE],
                          File(nameB, 1, "document")>>),
      corrupt   |-> Zip(<<[File(nameA, 1, "document") EXCEPT !.sound = FALSE]>>),
      hostile   |-> Zip(<<File(nameA, 1, "malformed")>>),
      hoard     |-> Zip(<<File(nameA, 2, "document"), File(nameB, 2, "document"), File(nameC, 3, "document")>>),
      foreign   |-> Package(<<>>, "ok", <<>>),
      quine     |-> Zip(<<File(nameA, 1, "quine")>>) ]      \* an archive that holds itself

Everything == DOMAIN AllArchives
NameSet == {nameA, nameB, nameC}

\* Two walkers with archives whose walks interact through the ledger, one with
\* nesting only the limits end among them; and any archive with one that no
\* converter accepts.
Sharing == {"mixed", "outer", "book", "relabel", "stuffed", "deep", "quine"}
Pairs == [Walkers -> Sharing]
         \cup {r \in [Walkers -> Everything] : \E w \in Walkers : r[w] = "foreign"}
=============================================================================
