----------------------------- MODULE Evaluation -----------------------------
(***************************************************************************)
(* What evaluating a source does to a context, and what the command line   *)
(* makes of it: nif_eval decides by a search for "import " and "export "   *)
(* in the text whether the source is a script or a module, and the shell,  *)
(* the commands run and test, and a process that serves calls build on it. *)
(*                                                                         *)
(* Everyone here evaluates in a context of its own, so a host call, and a  *)
(* module that must be loaded, is waited for without end (HostBridge,      *)
(* SelfCallNeverReturns): the result "hangs".                              *)
(***************************************************************************)
EXTENDS Naturals, Sequences, SequencesExt

CONSTANTS
    Names,     \* the global names that sources declare
    Handler,   \* of these, __genserver_handle_call
    Sources,   \* lines and files, see Source
    MaxLines,  \* bound on the lines typed into the shell
    MaxFiles   \* bound on the files of one test run

\* marked: the text contains "import " or "export ", in code, in a string or
\* in a comment; imports: it has a static import.  decl: "const" is const,
\* let or class, "var" is var or function.  does: what running it comes to;
\* "report" is a value with the fields passed and failed, "unconvertible" a
\* value, or a thrown one, that is or holds NaN or an infinity, and "waits" a
\* host call or a dynamic import.  reached: the constants that have a value
\* by then.  callable: the names that hold a function in the end.  What a
\* source assigns to globalThis is left out.
Source == [marked : BOOLEAN, imports : BOOLEAN,
           decl : [Names -> {"no", "const", "var"}],
           does : {"value", "report", "throws", "syntax", "unconvertible", "waits"},
           reached : SUBSET Names, callable : SUBSET Names,
           failed : 0..1]

\* A file that is not there, and one that cannot be read.
NoFile == [does |-> "missing"]
Folder == [does |-> "folder"]
Files  == Sources \cup {NoFile, Folder}

ASSUME EvaluationAssumption ==
    /\ Handler \in Names
    /\ Sources \subseteq Source
    /\ \A s \in Sources :
          /\ s.imports => s.marked
          /\ s.does \in {"value", "report"} => s.reached = Names
    /\ MaxLines \in Nat /\ MaxFiles \in Nat

VARIABLES
    cmd,       \* "shell", "run", "test" or "serve"
    state,     \* "open", "hung", or how it ended
    context,   \* the globals of the context: shell and serve
    functions, \* of these, the ones that hold a function: serve
    line,      \* line_num of the shell
    files,     \* the files still to be run
    total,     \* total_failed of the test run so far
    answer,    \* what the last call was answered with: serve
    lines,     \* history: the sources the context has evaluated
    ran        \* history: the files that were run

vars == <<cmd, state, context, functions, line, files, total, answer, lines, ran>>

\* A name is absent, or declared and usable, or, when its declaration threw
\* before it had a value, "dead": it can be neither read nor declared again.
Empty == [n \in Names |-> "absent"]

\* The command returned, halted with 1, or died of an exception that nobody
\* catches; the process could not be started.
Ends == {"exit0", "exit1", "crashed", "failed"}

-----------------------------------------------------------------------------
(***************************************************************************)
(* nif_eval.                                                               *)
(***************************************************************************)
\* Mutant: only a source that really imports is a module.
ByImport(s) == s.imports

IsModule(s) == s.marked

\* Mutant: a name that never got a value can be declared again.
ClashesAlive(c, s) ==
    \E n \in Names :
        \/ s.decl[n] = "const" /\ c[n] \in {"const", "var"}
        \/ s.decl[n] = "var" /\ c[n] = "const"

\* A script that declares a name anew is refused before it runs, except for
\* a var or function in place of a var or function.
Clashes(c, s) ==
    \E n \in Names :
        \/ s.decl[n] = "const" /\ c[n] # "absent"
        \/ s.decl[n] = "var" /\ c[n] \in {"const", "dead"}

\* A var is there from the start, a constant once the script got there.
Declared(c, s) ==
    [n \in Names |->
        IF s.decl[n] = "no" THEN c[n]
        ELSE IF s.decl[n] = "const" /\ n \notin s.reached THEN "dead"
        ELSE s.decl[n]]

Refused(c, s) == s.does = "syntax" \/ (~IsModule(s) /\ Clashes(c, s))

\* The context after the evaluation.  What a module declares is its own.
After(c, s) == IF Refused(c, s) \/ IsModule(s) THEN c ELSE Declared(c, s)

Hangs(s) == s.imports \/ s.does = "waits"

\* The result.  A module's is a promise, which becomes the empty map whether
\* the module ended or threw; enif_make_double refuses what is not finite,
\* and the NIF raises badarg.
Result(c, s) ==
    CASE Refused(c, s)                -> "error"
      [] ~Refused(c, s) /\ Hangs(s)   -> "hangs"
      [] ~Refused(c, s) /\ ~Hangs(s)  ->
             IF IsModule(s) THEN "value"
             ELSE IF s.does = "throws" THEN "error"
             ELSE IF s.does = "unconvertible" THEN "raises"
             ELSE s.does

-----------------------------------------------------------------------------
Init ==
    /\ cmd \in {"shell", "run", "test", "serve"}
    /\ state = "open"
    /\ context = Empty /\ functions = {}
    /\ line = 1
    /\ \/ cmd = "shell" /\ files = <<>>
       \/ cmd = "run" /\ \E n \in 0..1 : files \in [1..n -> Files]
       \/ cmd = "test" /\ \E n \in 0..MaxFiles : files \in [1..n -> Files]
       \/ cmd = "serve" /\ \E s \in Sources : files = <<s>>
    /\ total = 0
    /\ answer = "none"
    /\ lines = <<>> /\ ran = <<>>

(***************************************************************************)
(* The shell: one context for all lines.  An empty line and .help change   *)
(* nothing.                                                                *)
(***************************************************************************)
\* Mutant: every line gets a context of its own.
AfterLineAlone(s) == After(Empty, s)

AfterLine(s) == After(context, s)

ReplEval(s) ==
    /\ cmd = "shell" /\ state = "open" /\ line <= MaxLines
    /\ context' = AfterLine(s)
    /\ state' = CASE Result(context, s) = "hangs"  -> "hung"
                  [] Result(context, s) = "raises" -> "crashed"
                  [] OTHER                         -> "open"
    /\ line' = line + 1
    /\ lines' = Append(lines, s)
    /\ UNCHANGED <<cmd, functions, files, total, answer, ran>>

ReplClear ==
    /\ cmd = "shell" /\ state = "open"
    /\ context' = Empty
    /\ line' = 1
    /\ lines' = <<>>
    /\ UNCHANGED <<cmd, state, functions, files, total, answer, ran>>

\* .exit, .quit, or the end of the input.
ReplExit ==
    /\ cmd = "shell" /\ state = "open"
    /\ state' = "exit0"
    /\ UNCHANGED <<cmd, context, functions, line, files, total, answer, lines, ran>>

(***************************************************************************)
(* The commands run and test: eval_sync, a new context for every file.     *)
(***************************************************************************)
eval_sync(s) == Result(Empty, s)

\* File.read! and eval_sync.
Outcome(f) == IF f.does \in {"missing", "folder"} THEN f.does ELSE eval_sync(f)

\* run: without an argument, and with a file; one that does not exist is
\* told apart before it is read.
RunNoFile ==
    /\ cmd = "run" /\ state = "open" /\ files = <<>>
    /\ state' = "exit1"
    /\ UNCHANGED <<cmd, context, functions, line, files, total, answer, lines, ran>>

RunFile ==
    /\ cmd = "run" /\ state = "open" /\ files # <<>>
    /\ LET o == Outcome(Head(files))
       IN  state' = CASE o = "hangs"                -> "hung"
                      [] o \in {"missing", "error"} -> "exit1"
                      [] o \in {"folder", "raises"} -> "crashed"
                      [] OTHER                      -> "exit0"
    /\ files' = Tail(files) /\ ran' = Append(ran, Head(files))
    /\ UNCHANGED <<cmd, context, functions, line, total, answer, lines>>

\* Mutant: a file that could not be evaluated adds nothing to the total.
ErrorsUncounted(f) == IF Outcome(f) = "report" THEN f.failed ELSE 0

\* What run_test_file returns as failed.
Failed(f) ==
    CASE Outcome(f) = "report" -> f.failed
      [] Outcome(f) = "error"  -> 1
      [] OTHER                 -> 0

\* test: a file that hangs or raises takes the whole run with it.
TestFile ==
    /\ cmd = "test" /\ state = "open" /\ files # <<>>
    /\ LET o == Outcome(Head(files))
       IN  state' = CASE o = "hangs"                           -> "hung"
                      [] o \in {"missing", "folder", "raises"} -> "crashed"
                      [] OTHER                                 -> "open"
    /\ total' = total + Failed(Head(files))
    /\ files' = Tail(files) /\ ran' = Append(ran, Head(files))
    /\ UNCHANGED <<cmd, context, functions, line, answer, lines>>

\* Mutant: the command only ends by halting.
TestDoneByHalt ==
    /\ cmd = "test" /\ state = "open" /\ files = <<>> /\ total > 0
    /\ state' = "exit1"
    /\ UNCHANGED <<cmd, context, functions, line, files, total, answer, lines, ran>>

TestDone ==
    /\ cmd = "test" /\ state = "open" /\ files = <<>>
    /\ state' = IF total > 0 THEN "exit1" ELSE "exit0"
    /\ UNCHANGED <<cmd, context, functions, line, files, total, answer, lines, ran>>

(***************************************************************************)
(* A process that serves calls: init evaluates its source, handle_call a   *)
(* script that looks for the handler.                                      *)
(***************************************************************************)
ServeInit ==
    /\ cmd = "serve" /\ state = "open" /\ files # <<>>
    /\ LET s == Head(files)
       IN  /\ context' = After(Empty, s)
           /\ functions' = {n \in s.callable : context'[n] # "absent"}
           /\ lines' = <<s>>
           /\ state' = CASE Result(Empty, s) = "hangs"              -> "hung"
                         [] Result(Empty, s) \in {"error", "raises"} -> "failed"
                         [] OTHER                                   -> "open"
    /\ files' = <<>>
    /\ UNCHANGED <<cmd, line, total, answer, ran>>

\* The handler is called if typeof says that it is a function.
ServeCall ==
    /\ cmd = "serve" /\ state = "open" /\ files = <<>>
    /\ answer' = IF Handler \in functions THEN "handled" ELSE "no_handler"
    /\ UNCHANGED <<cmd, state, context, functions, line, files, total, lines, ran>>

Run == RunNoFile \/ RunFile \/ TestFile \/ TestDone

Next ==
    \/ \E s \in Sources : ReplEval(s)
    \/ ReplClear
    \/ ReplExit
    \/ Run
    \/ ServeInit
    \/ ServeCall

\* A command that can go on goes on.
Spec == Init /\ [][Next]_vars /\ WF_vars(Run)

-----------------------------------------------------------------------------
(***************************************************************************)
(* Properties.                                                             *)
(***************************************************************************)
Usable(n) == context[n] \in {"const", "var"}

\* A line that is run as a script, if no name is in its way.
Script(l) == ~l.marked /\ l.does # "syntax"

\* Line l, if it was run, has declared a name that line m cannot declare.
InTheWay(l, m) ==
    \E n \in Names :
        l.decl[n] # "no" /\ m.decl[n] # "no" /\ "const" \in {l.decl[n], m.decl[n]}

\* A is the set of the lines that were run since the last .clear.
WereRun(A) ==
    \A i \in DOMAIN lines :
        i \in A <=> Script(lines[i]) /\ \A j \in A : j < i => ~InTheWay(lines[j], lines[i])

\* beamjs_nif.c:160 seen from the shell (.help: "const x = ..", then "x"):
\* a name can be read exactly if one of the lines that were run declared it
\* and, a constant, got as far as its value.  A line is not run, and none of
\* its names is declared, if an earlier one that was run is in its way for a
\* single name; modules, the ones that are modules only for a word in a
\* comment too, leave no trace.
ReplRemembers ==
    cmd = "shell" => \E A \in SUBSET (DOMAIN lines) :
        /\ WereRun(A)
        /\ \A n \in Names :
              Usable(n) <=> \E i \in A :
                  /\ lines[i].decl[n] # "no"
                  /\ lines[i].decl[n] = "const" => n \in lines[i].reached

\* A constant whose line threw is lost for the shell until .clear: no line
\* can read it or declare it again (repl.ex:43 keeps one context).
DeadUntilClear ==
    [][\A n \in Names : cmd = "shell" /\ context[n] = "dead"
            => context'[n] = "dead" \/ lines' = <<>>]_vars

\* A file that the command c cannot get a result from, and one it fails for.
Breaks(c, f) ==
    \/ f.does = "folder" \/ (c = "test" /\ f.does = "missing")
    \/ f.does = "unconvertible" /\ ~f.marked
Fails(c, f) ==
    \/ f.does \in {"missing", "syntax"}
    \/ f.does = "throws" /\ ~f.marked
    \/ c = "test" /\ f.does = "report" /\ ~f.marked /\ f.failed = 1

\* How a command ends (run.ex:7 to 40, test.ex:29, 45): it succeeds exactly
\* if there is a file for run and every file can be read, compiles and is no
\* script that throws, has a value that cannot be converted or, for test,
\* reports a failure; it dies exactly if a file cannot be read or its value
\* not be converted.  What a file throws, reports or returns that is taken
\* for a module is not seen.
ExitStatus ==
    cmd \in {"run", "test"} /\ state \in Ends =>
        /\ state = "exit0" <=> /\ cmd = "run" => ran # <<>>
                               /\ \A i \in DOMAIN ran : ~Breaks(cmd, ran[i]) /\ ~Fails(cmd, ran[i])
        /\ state = "crashed" <=> \E i \in DOMAIN ran : Breaks(cmd, ran[i])

\* A process whose source is taken for a module starts, and then answers
\* every call with no_handler, whatever its source declares (process.ex:118);
\* of a script it calls any handler that is a function, however declared.
ServedByScript ==
    answer # "none" =>
        (answer = "handled" <=> /\ ~lines[1].marked
                                /\ lines[1].decl[Handler] # "no"
                                /\ Handler \in lines[1].callable)

\* Every command ends, unless a file imports or makes a host call (test.ex:18
\* runs the files one after the other, with no time limit).
RunEnds ==
    (cmd \in {"run", "test"} /\ state = "open"
        /\ \A i \in DOMAIN files : files[i] \in Sources => ~Hangs(files[i]))
        ~> state \in Ends
=============================================================================
