---------------------------- MODULE PackageLinks ----------------------------
(***************************************************************************)
(* The relationships between the parts of an OOXML package (package.go):   *)
(* what Open demands of them and what a converter reads of them later.     *)
(*                                                                         *)
(* A path is the sequence of its segments.  A link of a .rels part has an  *)
(* identifier, a target, which is a URL or a path from the root or from    *)
(* the part's directory, and a mode; `spelling` tells what else is wrong   *)
(* with the text of its target.                                            *)
(*                                                                         *)
(*   package.parts : what the members hold, by path                        *)
(*   package.rels  : the .rels parts, with the directory they are in and   *)
(*                   the name that stands before .rels                     *)
(*   package.sound : the archive can be read and its names are admitted    *)
(***************************************************************************)
EXTENDS Conversion, SequencesExt

Root == "root"      \* a target that starts with a slash
Near == "near"      \* a target relative to the part
Web  == "web"       \* http:, https: or mailto:

Mode     == {"none", "external", "internal"}
Spelling == {"plain", "padded", "backslash", "query"}

-----------------------------------------------------------------------------
\* path.Clean
Clean(segments) ==
    LET walk(path, segment) ==
            CASE segment \in {"", "."} -> path
              [] segment = ".." /\ path # <<>> /\ path[Len(path)] # ".." -> SubSeq(path, 1, Len(path) - 1)
              [] OTHER -> Append(path, segment)
    IN  FoldLeft(walk, <<>>, segments)

Resolved(link, base) == Clean(IF link.from = Root THEN link.target ELSE base \o link.target)

IsExternal(link) == link.mode = "external" \/ link.from = Web

\* What RelationshipMap demands of the links of one part.
LinksHold(links, base) ==
    /\ \A i, j \in DOMAIN links : links[i].id = links[j].id => i = j
    /\ \A i \in DOMAIN links :
          LET link == links[i]
          IN  /\ link.id # ""
              /\ link.spelling # "padded"
              /\ link.mode # "internal"
              /\ IsExternal(link) => link.from = Web
              /\ ~IsExternal(link) => /\ link.spelling = "plain"
                                      /\ Resolved(link, base) # <<>>
                                      /\ ".." \notin ToSet(Resolved(link, base))

\* RelationshipMap, for links that hold: where each identifier leads.
RelationshipMap(links, base) ==
    [id \in {links[i].id : i \in DOMAIN links} |->
        LET link == links[CHOOSE i \in DOMAIN links : links[i].id = id]
        IN  IF IsExternal(link) THEN [url |-> link.target, bare |-> link.spelling # "query"]
            ELSE [part |-> Resolved(link, base)]]

-----------------------------------------------------------------------------
InRels(rels) == rels.dir # <<>> /\ rels.dir[Len(rels.dir)] = "_rels"
Above(path)  == SubSeq(path, 1, Len(path) - 1)

\* relationshipBase: the directory of the part that the .rels part is about.
HasBase(rels) == InRels(rels) /\ (rels.of # "" \/ rels.dir = <<"_rels">>)

RelationshipBase(rels) == Above(rels.dir)

\* validateRelationshipParts
PartsAreLinked(package) ==
    \A i \in DOMAIN package.rels :
        LET rels == package.rels[i]
            base == RelationshipBase(rels)
        IN  /\ HasBase(rels)
            /\ rels.parses
            /\ LinksHold(rels.links, base)
            /\ \A k \in DOMAIN rels.links :
                  IsExternal(rels.links[k])
                  \/ Resolved(rels.links[k], base) \in DOMAIN package.parts

Opens(package) == package.sound /\ PartsAreLinked(package)

\* relationshipsForPart: the links of one part, as its converter reads them.
RelationsOf(package, path) ==
    LET Of == {i \in DOMAIN package.rels : /\ package.rels[i].dir = Append(Above(path), "_rels")
                                           /\ package.rels[i].of = path[Len(path)]}
    IN  IF Of = {} THEN <<>>
        ELSE RelationshipMap(package.rels[CHOOSE i \in Of : TRUE].links, Above(path))
=============================================================================
