-------------------------- MODULE MCModuleResolve --------------------------
EXTENDS ModuleResolve

S(x)    == <<x>>
Js(x)   == <<x, ".js">>
Rel(p)  == [root |-> "rel", segs |-> p]

Home == <<S("p")>>

AllMains ==
    {Rel(<<Js("main")>>), Rel(<<S("."), Js("main")>>), Rel(<<S("src"), Js("main")>>),
     [root |-> "abs", segs |-> <<S("p"), S("src"), Js("main")>>]}

AllBases == {{}, {Home}}

AllImports ==
    {Rel(<<S("."), S("lib")>>), Rel(<<S("."), Js("lib")>>),
     Rel(<<S(".."), S("lib")>>), Rel(<<<<"", ".rc">>>>), Rel(<<S("lib")>>), Rel(<<S("src"), S("lib")>>),
     [root |-> "beamjs", segs |-> <<S("match")>>],
     [root |-> "beamjs", segs |-> <<S("console")>>]}

\* Next to the main file, above it, below it, and in beamjs_modules.
AllFiles ==
    {Home \o p : p \in
        {<<Js("lib")>>, <<S("lib"), <<"index", ".ts">>>>, <<S("src"), Js("lib")>>,
         <<S("src"), S("lib"), Js("index")>>, <<S("src"), <<"lib", ".mjs">>>>,
         <<S("src"), S("src"), Js("lib")>>,
         <<S("beamjs_modules"), S("lib"), Js("index")>>,
         <<S("beamjs_modules"), S("src"), S("lib"), Js("index")>>}}
=============================================================================
