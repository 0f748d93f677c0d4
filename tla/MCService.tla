----------------------------- MODULE MCService -----------------------------
(* Service, its routes and the rules of the security check on small sets.  *)
EXTENDS Service

NpmNames == {<<<<"lodash">>>>, <<<<"@", "types">>, <<"lodash">>>>}
NpmFiles == {<<"lodash", "1.0", ".tgz">>, <<"1.0", ".tgz">>,
             <<"lodash", ".tgz">>, <<"lodash", "lodash", ".tgz">>,
             <<"lodash", "1.0", "beta", ".tgz">>, <<"lodash", "2.0", "beta", ".tgz">>}
PypiFiles == {<<"my-pkg", "1.0", ".zip">>, <<"my-pkg", "1.0", ".tar.gz">>,
              <<"My_Pkg", "1.0", ".tar.gz">>, <<"my-pkg", "1.0", "py3", ".whl">>,
              <<"my-pkg", "1.0", "py3", ".whl.metadata">>, <<"my-pkg", "1.0", ".egg">>}
JarFiles == {<<"lib", "1", ".jar">>, <<"lib", "1", "sources", ".jar">>, <<"lib", "2", ".jar">>,
             <<"lib", "1", ".pom">>, <<"lib", "1", ".jar", ".sha1">>, <<"maven-metadata", ".xml">>}
GoFiles == {<<"v1", ".zip">>, <<"v1", ".mod">>, <<"v2", ".zip">>, <<"list">>}
GoModules == {<<<<"x.com">>, <<"!burnt">>>>, <<<<"x.com">>, <<"Burnt">>>>}
PypiDir(hash) == <<<<"packages">>, <<"ab">>, <<"cd">>, <<hash>>>>
GroupDirs == {<<<<"org">>, <<"x">>>>, <<<<"org", "x">>>>}

MCPaths ==
    {<<<<"healthz">>>>, <<<<"npm">>>>, <<<<"gems">>, <<"x">>>>}
    \cup {<<<<"npm">>>> \o n : n \in NpmNames}
    \cup {<<<<"npm">>>> \o n \o <<<<"-">>, f>> : n \in NpmNames, f \in NpmFiles}
    \cup {<<<<"pypi">>, <<"simple">>, <<"my-pkg">>, <<"">>>>}
    \cup {<<<<"pypi">>>> \o PypiDir(h) \o <<f>> : h \in {"h1", "h2"}, f \in PypiFiles}
    \cup {<<<<"pypi">>, <<"pypi">>>> \o PypiDir("h1") \o <<f>> : f \in PypiFiles}
    \cup {<<<<"maven">>>> \o g \o <<<<"lib">>, <<v>>, f>> :
            g \in GroupDirs, v \in {"1", "2"}, f \in JarFiles}
    \cup {<<<<"go">>>> \o m \o <<<<"@v">>, f>> : m \in GoModules, f \in GoFiles}
    \cup {<<<<"go">>>> \o m \o <<<<"@latest">>>> : m \in GoModules}

MCLinks ==
    {<<"registry", n \o <<<<"-">>, f>>>> : n \in NpmNames, f \in NpmFiles}
    \cup {<<"pythonhosted", PypiDir(h) \o <<f>>>> : h \in {"h1", "h2"}, f \in PypiFiles}

Vuln(id, stated, impacts) == [ID |-> id, stated |-> stated, impacts |-> impacts]
Impact(c, i, a) == [m \in {"C", "I", "A"} |->
                        IF m = "C" THEN c ELSE IF m = "I" THEN i ELSE a]
MCKnown ==
    {Vuln("other", w, Nil) : w \in {"CRITICAL", "MODERATE", "NONE", "other"}}
    \cup {Vuln("GO", Nil, Impact("H", "N", "H")), Vuln("GO", Nil, Impact("N", "L", "N")),
          Vuln("GO", Nil, Nil), Vuln("other", Nil, Impact("N", "N", "H"))}
=============================================================================
