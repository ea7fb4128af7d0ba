--------------------------- MODULE ModuleResolve ---------------------------
(***************************************************************************)
(* Imports of the main source of one context: beamjs_module_normalize      *)
(* makes a module name of the specifier and of the name of the importing   *)
(* file, QuickJS looks it up in its module table, and for a new name the   *)
(* owner's ModuleResolver looks for a file, starting from the base_dir     *)
(* that init chose.  Files can appear while the process runs.              *)
(*                                                                         *)
(* How the request travels, and what an import inside a module does, is in *)
(* HostBridge.  A path is a sequence of segments, a segment a sequence of  *)
(* a name and its extensions: <<"lib", ".js">> is lib.js, <<"", ".rc">> is *)
(* .rc.                                                                    *)
(***************************************************************************)
EXTENDS Naturals, Sequences, SequencesExt

CONSTANTS
    Cwd,      \* the current directory, a path
    Mains,    \* the file names the main source may be given
    Bases,    \* the base_dir option: a set of sets of at most one path
    Imports,  \* the specifiers
    Files,    \* the paths at which files may be
    MaxLoads  \* bound on imports

Path == Seq(Seq(STRING))

\* A file name or a specifier: root is "abs", "rel" or "beamjs".
Name == [root : {"abs", "rel", "beamjs"}, segs : Path]

Dot(s) == s \in {<<".">>, <<"..">>}

\* Every directory has a file in it.
Dirs(fs) == UNION {{SubSeq(f, 1, k) : k \in 0..Len(f) - 1} : f \in fs}

\* A main source has a file's name, and no path is a file's and a
\* directory's.
ASSUME ResolveAssumption ==
    /\ Cwd \in Path /\ Mains \subseteq Name /\ Imports \subseteq Name
    /\ \A m \in Mains : m.root # "beamjs" /\ m.segs # <<>> /\ ~Dot(Last(m.segs))
    /\ \A n \in Imports : n.segs # <<>>
    /\ \A b \in Bases : b \subseteq Path /\ \A p, q \in b : p = q
    /\ Files \cap Dirs(Files) = {}
    /\ MaxLoads \in Nat

VARIABLES
    main,   \* the name of the main source
    base,   \* its base_dir option
    files,  \* the files there are
    table,  \* QuickJS's module table: the file of each module name
    loads,  \* the imports so far
    last    \* the last import and what it was answered with

vars == <<main, base, files, table, loads, last>>

Error == [ok |-> FALSE, file |-> <<>>]
Ok(f) == [ok |-> TRUE, file |-> f]
NoImport == [name |-> [root |-> "rel", segs |-> <<>>], result |-> Error]

\* Path.expand: . and .. are taken out.
Enter(p, s) ==
    IF s = <<".">> THEN p
    ELSE IF s # <<"..">> THEN Append(p, s)
    ELSE IF p = <<>> THEN p ELSE Front(p)

Collapse(segs) ==
    LET path[i \in 0..Len(segs)] ==
          IF i = 0 THEN <<>> ELSE Enter(path[i - 1], segs[i])
    IN  path[Len(segs)]

Expand(n, dir) == Collapse(IF n.root = "abs" THEN n.segs ELSE dir \o n.segs)

Init ==
    /\ main \in Mains /\ base \in Bases
    /\ files \in SUBSET Files
    /\ table = [n \in {} |-> <<>>]
    /\ loads = 0
    /\ last = NoImport

-----------------------------------------------------------------------------
\* base_dir as init sets it: the option, or the directory of the file.
BaseDir ==
    IF base # {} THEN CHOOSE p \in base : TRUE
    ELSE Front(Expand(main, Cwd))

\* The normaliser's test: the specifier starts with ./ or ../
IsRelative(n) == n.root = "rel" /\ Dot(n.segs[1]) /\ Len(n.segs) > 1

\* A relative specifier is put after the directory in the name of the file
\* that imports it, the way that name was given.
beamjs_module_normalize(from, n) ==
    IF IsRelative(n) /\ Len(from.segs) > 1
    THEN [root |-> from.root, segs |-> Front(from.segs) \o n.segs]
    ELSE n

With(p, ext) == Append(Front(p), Append(Last(p), ext))

\* The paths resolve_file tries, in their order.
Candidates(p) ==
    <<p, With(p, ".js"), With(p, ".ts"), With(p, ".mjs"),
      Append(p, <<"index", ".js">>), Append(p, <<"index", ".ts">>)>>

\* The first of the paths ps that is in S, if there is one.
FirstIn(S, ps) ==
    {ps[i] : i \in {k \in DOMAIN ps : ps[k] \in S /\ \A j \in 1..k - 1 : ps[j] \notin S}}

\* Mutant: only files are looked for.
FirstFile(fs, ps) == FirstIn(fs, ps)

\* File.exists? is true of a directory too.
FirstExisting(fs, ps) == FirstIn(fs \cup Dirs(fs), ps)

\* The modules of the library: console is in the list of names, and not in
\* the directory.
Stdlib == {"process", "gen_server", "supervisor", "match", "pipe", "task",
           "agent", "timer", "test"}
StdlibPath(n) == <<<<"js_stdlib">>, <<n.segs[1][1], ".js">>>>

\* The resolver's test: any name that starts with a dot, . and .rc too.
StartsWithDot(n) == n.root = "rel" /\ (Dot(n.segs[1]) \/ n.segs[1][1] = "")

\* The last resort is a package.  Path.join leaves the dots to the system,
\* which follows .. only out of a directory that is there.
PackageSegs(n) == BaseDir \o <<<<"beamjs_modules">>>> \o n.segs \o <<<<"index", ".js">>>>
Packages(n) ==
    IF StartsWithDot(n) \/ \E k \in DOMAIN PackageSegs(n) :
           /\ PackageSegs(n)[k] = <<"..">>
           /\ Collapse(SubSeq(PackageSegs(n), 1, k - 1)) \notin Dirs(files)
    THEN <<>> ELSE <<Collapse(PackageSegs(n))>>

Found(n) == FirstExisting(files, Candidates(Expand(n, BaseDir)) \o Packages(n))

\* resolve_and_load: the first path that exists is read, and a directory
\* cannot be.
resolve_and_load(n) ==
    IF n.root = "beamjs"
    THEN IF n.segs[1][1] \in Stdlib THEN Ok(StdlibPath(n)) ELSE Error
    ELSE IF Found(n) \cap files = {} THEN Error
    ELSE Ok(CHOOSE f \in Found(n) : TRUE)

\* A name that is in the table is not looked for again, one that was not
\* found is.
Lookup(m) == IF m \in DOMAIN table THEN Ok(table[m]) ELSE resolve_and_load(m)

Import(n) ==
    LET m == beamjs_module_normalize(main, n)
        r == Lookup(m)
    IN  /\ loads < MaxLoads
        /\ loads' = loads + 1
        /\ last' = [name |-> n, result |-> r]
        /\ table' = IF r.ok THEN [k \in DOMAIN table \cup {m} |->
                                     IF k = m THEN r.file ELSE table[k]]
                    ELSE table
        /\ UNCHANGED <<main, base, files>>

\* Somebody writes a file.
WriteFile(f) ==
    /\ files' = files \cup {f}
    /\ UNCHANGED <<main, base, table, loads, last>>

Next ==
    \/ \E n \in Imports : Import(n)
    \/ \E f \in Files : WriteFile(f)

Spec == Init /\ [][Next]_vars

-----------------------------------------------------------------------------
(***************************************************************************)
(* Properties.                                                             *)
(***************************************************************************)
\* Where the main file is, the path next to it that an import names, and the
\* file it means.
MainDir   == Front(Expand(main, IF base # {} THEN BaseDir ELSE Cwd))
Beside(n) == Collapse(MainDir \o n.segs)
Meant(n)  == FirstIn(files, Candidates(Beside(n)))

\* A directory comes before that file in the order of extensions.
Hidden(n) == FirstIn(files \cup Dirs(files), Candidates(Beside(n))) \cap Dirs(files) # {}

\* init knows where the main file is: by a base_dir, from which its relative
\* name leads there, or by its name, if that is absolute or has no directory.
Placed ==
    IF main.root = "abs" THEN Len(main.segs) > 1 \/ base = {}
    ELSE base # {} \/ Len(main.segs) = 1

\* An import that QuickJS has not answered from its table.
Loads(n) ==
    /\ loads' = loads + 1 /\ last'.name = n
    /\ beamjs_module_normalize(main, n) \notin DOMAIN table

\* A relative import finds the file next to the main file, in the order of
\* module_resolver.ex:58, if init knows where that is (process.ex:74) and no
\* directory hides it: a directory lib hides lib.js and lib/index.js alike.
\* Where there is no such file, a package can take its place, but only if
\* the main file's name has a directory, which makes the specifier a name
\* that no longer starts with a dot.
FoundNextToMain ==
    [][\A n \in Imports : IsRelative(n) /\ Loads(n) /\ Placed =>
          \/ Hidden(n) /\ last'.result = Error
          \/ ~Hidden(n) /\ last'.result \in {Ok(f) : f \in Meant(n)}
          \/ /\ ~Hidden(n) /\ Meant(n) = {}
             /\ \/ last'.result = Error
                \/ /\ Len(main.segs) > 1
                   /\ \E f \in ToSet(Packages(beamjs_module_normalize(main, n))) \cap files :
                         last'.result = Ok(f)]_vars

\* module_loader.c:19: "Relative imports: resolve against base_name's
\* directory".  A relative import loads the file next to the main file if
\* there is one that no directory hides.
RelativeToMain ==
    [][\A n \in Imports : IsRelative(n) /\ Loads(n) /\ ~Hidden(n) /\ Meant(n) # {} =>
          last'.result \in {Ok(f) : f \in Meant(n)}]_vars
=============================================================================
