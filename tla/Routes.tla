------------------------------- MODULE Routes -------------------------------
(***************************************************************************)
(* What a URL asks the proxy for: the router (internal/proxy/router.go,    *)
(* proxy.go:70-96), the four ecosystem handlers (internal/ecosystem) and   *)
(* the rewriting of the links in npm and PyPI metadata.                    *)
(*                                                                         *)
(* A path is the sequence of its segments.  A segment is a sequence of     *)
(* strings, the parts that the handlers cut it into:                       *)
(*    <<"lodash">>                    a plain segment                      *)
(*    <<"@", "types">>                an npm scope                         *)
(*    <<"a", "1.0", "py3", ".whl">>   the file a-1.0-py3.whl               *)
(*    <<"org", "x">>                  the Maven directory org.x            *)
(*    <<"">>                          nothing, after a slash that ends     *)
(*                                    the path or precedes another         *)
(* A URL is a pair <<host, path>>.                                         *)
(*                                                                         *)
(* Definitions whose comment begins with "Mutant" are no part of the       *)
(* model: each is a form that the definition below it could have taken by  *)
(* a mistake in the code, and breaks a property that a run checks.         *)
(***************************************************************************)
EXTENDS Integers, Sequences, FiniteSets, SequencesExt

CONSTANTS
    Ecosystems,     \* enabled ecosystems, in lower case
    Paths,          \* paths that are asked for
    Links           \* URLs in the metadata that npm and PyPI publish

Empty == <<"">>
Segments ==
    {seg \in Seq(STRING) : seg # <<>> /\ (seg = Empty \/ \A i \in DOMAIN seg : seg[i] # "")}

ASSUME PathsAssumption == Paths \subseteq Seq(Segments) \ {<<>>}

Handlers == {"npm", "pypi", "maven", "go"} \cap Ecosystems

Is(seg, word) == seg = <<word>>
Has(seg, ext) == Last(seg) = ext                    \* strings.HasSuffix
Ends(seg, ext) == Len(seg) > 1 /\ Last(seg) = ext   \* [^/]+ and the extension
Some(segs) == segs \notin {<<>>, <<Empty>>}         \* .+

\* strings.TrimPrefix
Trim(path, prefix) == IF IsPrefix(prefix, path) THEN SubSeq(path, Len(prefix) + 1, Len(path))
                      ELSE path

-----------------------------------------------------------------------------
(* npm: /npm/<name>/-/<file>.tgz and the manifest /npm/<name>, where name  *)
(* may have a scope.                                                       *)
IsName(segs) ==
    \/ Len(segs) = 1 /\ segs[1] # Empty /\ segs[1][1] # "@"
    \/ Len(segs) = 2 /\ Len(segs[1]) > 1 /\ segs[1][1] = "@" /\ segs[2] # Empty

NpmManifest(path) == IsName(Tail(path))

NpmTarball(path) ==
    /\ Len(path) > 3
    /\ IsName(SubSeq(path, 2, Len(path) - 2))
    /\ Is(path[Len(path) - 1], "-") /\ Ends(Last(path), ".tgz")

\* Mutant: the version is what stands before the extension.
LastPartOf(name, file) == <<file[Len(file) - 1]>>

\* A file that goes on after the name has a dash there.
extractNPMVersion(name, file) ==
    Front(IF Len(file) > Len(Last(name)) + 1 THEN Trim(file, Last(name)) ELSE file)

NpmParse(path) ==
    LET name == SubSeq(path, 2, Len(path) - 2)
    IN  [eco |-> "npm", name |-> name, version |-> extractNPMVersion(name, Last(path)),
         file |-> Last(path), up |-> <<>>]

-----------------------------------------------------------------------------
(* PyPI: /pypi/packages/<2>/<2>/<hash>/<project>-<version>.<type>, found   *)
(* anywhere in the path; the simple index; the metadata of a wheel.        *)
PypiTypes == {".tar.gz", ".whl", ".zip"}

PypiMetadata(path) ==
    \/ Len(path) > 2 /\ Is(path[2], "simple")
    \/ Has(Last(path), ".whl.metadata")

PypiArtifact(path) ==
    /\ ~\E i \in 2..(Len(path) - 1) : Is(path[i], "simple")
    /\ Len(path) > 5
    /\ Is(path[Len(path) - 5], "pypi") /\ Is(path[Len(path) - 4], "packages")
    /\ \A i \in 1..3 : path[Len(path) - i] # Empty
    /\ Len(Last(path)) > 2 /\ Last(Last(path)) \in PypiTypes

\* Some projects are spelled in more than one way.
normalise(project) == IF project = "My_Pkg" THEN "my-pkg" ELSE project

PypiParse(path) ==
    LET file == Last(path)
    IN  [eco |-> "pypi", name |-> <<<<normalise(file[1])>>>>,
         version |-> SubSeq(file, 2, Len(file) - 1), file |-> file,
         up |-> Trim(path, <<<<"pypi">>, <<"packages">>>>)]

-----------------------------------------------------------------------------
(* Maven: /maven/<group>/<artifact>/<version>/<file>.jar; POMs, checksums  *)
(* and maven-metadata.xml.                                                 *)
MavenMetadata(path) ==
    \/ Last(path) = <<"maven-metadata", ".xml">> /\ Some(SubSeq(path, 2, Len(path) - 1))
    \/ /\ \E ext \in {".pom", ".md5", ".sha1", ".sha256"} : Has(Last(path), ext)
       /\ Len(path) > 2 \/ Len(Last(path)) > 1

MavenArtifact(path) ==
    /\ Some(SubSeq(path, 2, Len(path) - 3)) /\ Ends(Last(path), ".jar")
    /\ path[Len(path) - 2] # Empty /\ path[Len(path) - 1] # Empty
    /\ IsPrefix(path[Len(path) - 2] \o path[Len(path) - 1], Last(path))

MavenParse(path) ==
    [eco |-> "maven",
     name |-> <<FlattenSeq(SubSeq(path, 2, Len(path) - 3)), path[Len(path) - 2]>>,
     version |-> path[Len(path) - 1], file |-> Last(path), up |-> <<>>]

-----------------------------------------------------------------------------
(* Go: /go/<module>/@v/<version>.zip, where an upper-case letter of the    *)
(* module is written as ! and the lower-case one; the other endpoints of   *)
(* the module proxy protocol.                                              *)
GoMetadata(path) ==
    \/ Some(SubSeq(path, 2, Len(path) - 1)) /\ Is(Last(path), "@latest")
    \/ /\ Some(SubSeq(path, 2, Len(path) - 2)) /\ Is(path[Len(path) - 1], "@v")
       /\ Is(Last(path), "list") \/ \E ext \in {".info", ".mod"} : Ends(Last(path), ext)

GoArtifact(path) ==
    /\ Some(SubSeq(path, 2, Len(path) - 2))
    /\ Is(path[Len(path) - 1], "@v") /\ Ends(Last(path), ".zip")

decodeCaseEncoding(module) ==
    [i \in DOMAIN module |-> [j \in DOMAIN module[i] |->
        IF module[i][j] = "!burnt" THEN "Burnt" ELSE module[i][j]]]

GoParse(path) ==
    LET file == Last(path)
    IN  [eco |-> "go", name |-> decodeCaseEncoding(SubSeq(path, 2, Len(path) - 2)),
         version |-> Front(file), file |-> file, up |-> Tail(path)]

-----------------------------------------------------------------------------
IsMetadataRequest(eco, path) ==
    CASE eco = "npm" -> NpmManifest(path) [] eco = "pypi" -> PypiMetadata(path)
      [] eco = "maven" -> MavenMetadata(path) [] eco = "go" -> GoMetadata(path)

IsArtifact(eco, path) ==
    CASE eco = "npm" -> NpmTarball(path) [] eco = "pypi" -> PypiArtifact(path)
      [] eco = "maven" -> MavenArtifact(path) /\ ~MavenMetadata(path)
      [] eco = "go" -> GoArtifact(path)

Parse(eco, path) ==
    CASE eco = "npm" -> NpmParse(path) [] eco = "pypi" -> PypiParse(path)
      [] eco = "maven" -> MavenParse(path) [] eco = "go" -> GoParse(path)

UpstreamURL(pkg) ==
    CASE pkg.eco = "npm" -> <<"registry", pkg.name \o <<<<"-">>, pkg.file>>>>
      [] pkg.eco = "pypi" -> <<"pythonhosted", <<<<"packages">>>> \o pkg.up>>
      [] pkg.eco = "maven" ->
            <<"maven", [i \in DOMAIN pkg.name[1] |-> <<pkg.name[1][i]>>]
                        \o <<pkg.name[2], pkg.version, pkg.file>>>>
      [] pkg.eco = "go" -> <<"goproxy", pkg.up>>

\* Mutant: all PyPI metadata is asked of the index.
MetadataFromIndex(eco, path) ==
    CASE eco = "npm" -> <<"registry", Tail(path)>> [] eco = "pypi" -> <<"pypi", Tail(path)>>
      [] eco = "maven" -> <<"maven", Tail(path)>> [] eco = "go" -> <<"goproxy", Tail(path)>>

MetadataUpstreamURL(eco, path) ==
    CASE eco = "npm" -> <<"registry", Tail(path)>>
      [] eco = "pypi" -> <<IF Has(Last(path), ".whl.metadata") THEN "pythonhosted" ELSE "pypi",
                           Tail(path)>>
      [] eco = "maven" -> <<"maven", Tail(path)>>
      [] eco = "go" -> <<"goproxy", Tail(path)>>

(* Router.Match and the beginning of ServeHTTP.  Of a path of one segment  *)
(* only /healthz is known.                                                 *)
Route(path) ==
    IF path = <<<<"healthz">>>> THEN "health"
    ELSE IF Len(path) < 2 \/ ~\E eco \in Handlers : Is(path[1], eco) THEN "unknown"
    ELSE IF IsMetadataRequest(path[1][1], path) THEN "metadata"
    ELSE IF IsArtifact(path[1][1], path) THEN "artifact"
    ELSE "unknown"

\* The URL that a request for path makes the proxy ask.
Upstream(path) == IF Route(path) = "metadata" THEN MetadataUpstreamURL(path[1][1], path)
                  ELSE UpstreamURL(Parse(path[1][1], path))

Index(pkg) == <<pkg.eco, pkg.name, pkg.version>>    \* of Redis, the table and the shared fetch
CacheKey(pkg) == <<pkg.eco, pkg.name, pkg.version, pkg.file>>

\* RewriteMetadata, for a link in the document.
Rewritten(link) ==
    CASE link[1] = "registry" -> <<"proxy", <<<<"npm">>>> \o link[2]>>
      [] link[1] = "pythonhosted" -> <<"proxy", <<<<"pypi">>>> \o link[2]>>

(* What the registries publish: the tarballs of npm, and the files of PyPI *)
(* and the metadata of its wheels.                                         *)
TarballLink(link) ==
    LET path == link[2]
    IN  /\ link[1] = "registry"
        /\ Len(path) > 2 /\ IsName(SubSeq(path, 1, Len(path) - 2))
        /\ Is(path[Len(path) - 1], "-") /\ Ends(Last(path), ".tgz")

FileLink(link) ==
    LET path == link[2]
    IN  /\ link[1] = "pythonhosted"
        /\ Len(path) = 5 /\ Is(path[1], "packages") /\ Len(path[5]) > 2
        /\ \A i \in 2..4 : path[i] # Empty /\ ~Is(path[i], "simple")

ASSUME LinksAssumption ==
    /\ Links \subseteq {"registry", "pythonhosted"} \X Seq(Segments)
    /\ \A link \in Links : TarballLink(link) \/ FileLink(link)

-----------------------------------------------------------------------------
Artifacts == {path \in Paths : Route(path) = "artifact"}
Pkg(path) == Parse(path[1][1], path)

\* An npm file that is named as the registry names it.
Canonical(pkg) ==
    pkg.eco = "npm" => /\ IsPrefix(Last(pkg.name), pkg.file)
                       /\ Len(pkg.file) > Len(Last(pkg.name)) + 1

(* What the three keys of an artifact tell apart.  Two URLs with one       *)
(* CacheKey are fetched from one upstream URL, except in PyPI and Go,      *)
(* whose handlers fetch UpstreamPath (interface.go:19-21); two files with  *)
(* one index key are files of a Maven version or of a PyPI version, or are *)
(* not named as npm names them.                                            *)
KeysTellFilesApart ==
    \A p, q \in {Pkg(path) : path \in Artifacts} :
        /\ CacheKey(p) = CacheKey(q) =>
              UpstreamURL(p) = UpstreamURL(q) \/ p.eco \in {"pypi", "go"}
        /\ Index(p) = Index(q) /\ p.file # q.file =>
              p.eco \in {"maven", "pypi"} \/ ~Canonical(p) \/ ~Canonical(q)

\* The handler of the link's ecosystem is there and knows the file's type.
Handles(link) ==
    \/ "npm" \in Handlers /\ TarballLink(link)
    \/ /\ "pypi" \in Handlers /\ FileLink(link)
       /\ Last(Last(link[2])) \in PypiTypes \cup {".whl.metadata"}

(* A link in the metadata of npm or PyPI, rewritten to lead through the    *)
(* proxy (npm.go:69-76, pypi.go:75-82), is routed there to a request that  *)
(* asks for exactly what the link named, if it is of a type that the       *)
(* handler knows.                                                          *)
LinksLeadBack ==
    \A link \in Links : Handles(link) =>
        /\ Rewritten(link)[1] = "proxy"
        /\ Route(Rewritten(link)[2]) # "unknown"
        /\ Upstream(Rewritten(link)[2]) = link
=============================================================================
