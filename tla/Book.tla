-------------------------------- MODULE Book --------------------------------
(***************************************************************************)
(* The EPUB converter (epub.go): from the container to the package         *)
(* document, and from its spine through the manifest to the chapters.      *)
(*                                                                         *)
(*   book.members  : what the members hold, by path: prose, blank or broken*)
(*   book.opf      : the path the container gives, its directory and       *)
(*                   what stands there                                     *)
(*   book.manifest : identifiers and the paths they stand for              *)
(*   book.spine    : the identifiers, in reading order                     *)
(*   book.sound    : the archive can be read and its names are admitted    *)
(***************************************************************************)
EXTENDS Conversion, SequencesExt

CONSTANT
    Unspeakable     \* identifiers that CanonicalLogicalName refuses

\* present : a package document; broken : not XML; absent : no such member,
\* or no container that names one; foul : a path that is not admitted
PackageDocument == {"present", "broken", "absent", "foul"}

Chapter == {"prose", "blank", "broken"}

ManifestHolds(book) ==
    \A i \in DOMAIN book.manifest :
        LET item == book.manifest[i]
        IN  /\ item.id # "" /\ item.href # <<>> /\ ".." \notin ToSet(item.href)
            /\ \A j \in DOMAIN book.manifest : book.manifest[j].id = item.id => i = j

Listed(book, id) == \E i \in DOMAIN book.manifest : book.manifest[i].id = id

\* Where the chapter is that an identifier stands for.
FullPath(book, id) ==
    book.base \o book.manifest[CHOOSE i \in DOMAIN book.manifest : book.manifest[i].id = id].href

\* safeEPUBWarningLocation
SafeLocation(id) == IF id \in Unspeakable THEN Nowhere ELSE [item |-> id]

\* What one entry of the spine leaves behind.
ChapterWarnings(book, id) ==
    IF ~Listed(book, id) THEN {Warning("missing_manifest_item", SafeLocation(id))}
    ELSE IF FullPath(book, id) \notin DOMAIN book.members
    THEN {Warning("missing_spine_content", [part |-> FullPath(book, id)])}
    ELSE {}

Found(book, id) == Listed(book, id) /\ FullPath(book, id) \in DOMAIN book.members

BookConversion(book) ==
    LET holds(state) == {i \in DOMAIN book.spine : /\ Found(book, book.spine[i])
                                                   /\ book.members[FullPath(book, book.spine[i])] = state}
        prose == Ascending(holds("prose"))
    IN  IF ~book.sound THEN Failure("malformed")
        ELSE IF book.opf = "absent" THEN Failure("unsupported")
        ELSE IF book.opf # "present" \/ ~ManifestHolds(book) THEN Failure("malformed")
        ELSE IF holds("broken") # {} THEN Failure("failed")
        ELSE Converted((IF book.titled THEN <<[metadata |-> TRUE]>> ELSE <<>>)
                           \o [k \in 1..Len(prose) |-> [chapter |-> prose[k]]],
                       <<>>,
                       UNION {ChapterWarnings(book, book.spine[i]) : i \in DOMAIN book.spine})
=============================================================================
