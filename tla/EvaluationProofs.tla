-------------------------- MODULE EvaluationProofs --------------------------
(***************************************************************************)
(* Proofs about Evaluation, for all sources, any number of lines, files    *)
(* and names: what the shell remembers, what the commands run and test     *)
(* exit with, and whether a process that serves calls has its handler.     *)
(***************************************************************************)
EXTENDS Evaluation, TLAPS

Kinds == {"absent", "const", "var", "dead"}

Types ==
    /\ cmd \in {"shell", "run", "test", "serve"}
    /\ context \in [Names -> Kinds]
    /\ files \in Seq(Files) /\ lines \in Seq(Sources) /\ ran \in Seq(Files)
    /\ total \in Nat

\* The lines that were run since the last .clear account for every name:
\* for those that have a value and for those that are lost or free.
DeclaredBy(A, n, kind) ==
    \E i \in A : lines[i].decl[n] = kind

Explains(A, c) ==
    \A n \in Names :
        /\ c[n] = "absent" <=> ~DeclaredBy(A, n, "const") /\ ~DeclaredBy(A, n, "var")
        /\ c[n] = "var" <=> DeclaredBy(A, n, "var")
        /\ c[n] = "dead" <=> \E i \in A : lines[i].decl[n] = "const" /\ n \notin lines[i].reached
        /\ c[n] = "const" <=> \E i \in A : lines[i].decl[n] = "const" /\ n \in lines[i].reached

ShellInv ==
    cmd = "shell" => \E A \in SUBSET (DOMAIN lines) : WereRun(A) /\ Explains(A, context)

\* How a command ended follows from the files that were run.
StatusInv ==
    /\ cmd = "run" =>
          /\ state = "open" => ran = <<>>
          /\ state # "failed"
          /\ state = "exit0" => \E f \in Files : ran = <<f>> /\ ~Breaks("run", f) /\ ~Fails("run", f)
          /\ state = "exit1" =>
                ran = <<>> \/ \E f \in Files : ran = <<f>> /\ ~Breaks("run", f) /\ Fails("run", f)
          /\ state = "crashed" => \E f \in Files : ran = <<f>> /\ Breaks("run", f)
    /\ cmd = "test" =>
          /\ state \in {"open", "exit0", "exit1"} =>
                /\ total > 0 <=> \E i \in DOMAIN ran : Fails("test", ran[i])
                /\ \A i \in DOMAIN ran : ~Breaks("test", ran[i])
          /\ state # "failed"
          /\ state = "exit0" => total = 0
          /\ state = "exit1" => total > 0
          /\ state = "crashed" => \E i \in DOMAIN ran : Breaks("test", ran[i])

\* A process that serves calls has the context and the functions its source
\* left, and that source compiled.
ServeInv ==
    /\ cmd = "serve" /\ state = "open" =>
          \/ files # <<>> /\ \E s \in Sources : files = <<s>>
          \/ files = <<>> /\ \E s \in Sources :
                /\ lines = <<s>> /\ context = After(Empty, s) /\ s.does # "syntax"
                /\ functions = {n \in s.callable : context[n] # "absent"}
    /\ answer # "none" =>
          /\ cmd = "serve" /\ state = "open" /\ files = <<>>
          /\ answer = IF Handler \in functions THEN "handled" ELSE "no_handler"

EvalInv == Types /\ ShellInv /\ StatusInv /\ ServeInv

-----------------------------------------------------------------------------
(* nif_eval.                                                               *)

\* The fields of a source.
LEMMA SourceFields ==
    ASSUME NEW s \in Sources
    PROVE  /\ s.marked \in BOOLEAN /\ s.imports \in BOOLEAN /\ (s.imports => s.marked)
           /\ \A n \in Names : s.decl[n] \in {"no", "const", "var"}
           /\ s.does \in {"value", "report", "throws", "syntax", "unconvertible", "waits"}
           /\ s.failed \in {0, 1}
           /\ s.callable \subseteq Names
<1>1. s \in Source /\ (s.imports => s.marked)
  BY EvaluationAssumption
<1>2. 0..1 = {0, 1}
  OBVIOUS
<1> QED BY <1>1, <1>2 DEF Source

\* A file is a source, or is not there, or cannot be read.
LEMMA FileKinds ==
    ASSUME NEW f \in Files
    PROVE  \/ f \in Sources /\ f.does \notin {"missing", "folder"}
           \/ f.does \in {"missing", "folder"}
<1>1. CASE f \in Sources
  BY <1>1, SourceFields
<1>2. CASE f \in {NoFile, Folder}
  BY <1>2 DEF NoFile, Folder
<1> QED BY <1>1, <1>2 DEF Files

\* In a new context nothing is in the way: the source alone decides.
LEMMA FreshEval ==
    ASSUME NEW s \in Sources
    PROVE  /\ Refused(Empty, s) <=> s.does = "syntax"
           /\ s.does = "syntax" => eval_sync(s) = "error"
           /\ s.does # "syntax" /\ Hangs(s) => eval_sync(s) = "hangs"
           /\ s.does # "syntax" /\ ~Hangs(s) =>
                 /\ s.marked => eval_sync(s) = "value"
                 /\ ~s.marked /\ s.does = "throws" => eval_sync(s) = "error"
                 /\ ~s.marked /\ s.does = "unconvertible" => eval_sync(s) = "raises"
                 /\ ~s.marked /\ s.does \in {"value", "report"} => eval_sync(s) = s.does
<1>1. ~Clashes(Empty, s)
  BY DEF Clashes, Empty
<1>2. Refused(Empty, s) <=> s.does = "syntax"
  BY <1>1 DEF Refused
<1>3. CASE s.does = "syntax"
  BY <1>2, <1>3 DEF eval_sync, Result
<1>4. CASE s.does # "syntax" /\ Hangs(s)
  BY <1>2, <1>4 DEF eval_sync, Result
<1>5. CASE s.does # "syntax" /\ ~Hangs(s)
  <2>1. eval_sync(s) = IF s.marked THEN "value"
                       ELSE IF s.does = "throws" THEN "error"
                       ELSE IF s.does = "unconvertible" THEN "raises"
                       ELSE s.does
    BY <1>2, <1>5 DEF eval_sync, Result, IsModule
  <2> QED BY <1>2, <1>5, <2>1
<1> QED BY <1>2, <1>3, <1>4, <1>5

\* What run and test make of a file, each told from the other outcomes.
LEMMA OutcomeIs ==
    ASSUME NEW f \in Files, Outcome(f) # "hangs"
    PROVE  /\ Breaks("run", f) <=> Outcome(f) \in {"folder", "raises"}
           /\ Fails("run", f) <=> Outcome(f) \in {"missing", "error"}
           /\ Breaks("test", f) <=> Outcome(f) \in {"missing", "folder", "raises"}
           /\ ~Breaks("test", f) =>
                (Fails("test", f) <=> \/ Outcome(f) = "error"
                                      \/ Outcome(f) = "report" /\ f.failed = 1)
           /\ Outcome(f) = "report" => f.failed \in {0, 1}
<1>1. CASE f.does \in {"missing", "folder"}
  BY <1>1 DEF Outcome, Breaks, Fails
<1>2. CASE f \in Sources /\ f.does \notin {"missing", "folder"}
  <2>1. Outcome(f) = eval_sync(f)
    BY <1>2 DEF Outcome
  <2>2. /\ f.does \in {"value", "report", "throws", "syntax", "unconvertible", "waits"}
        /\ f.marked \in BOOLEAN /\ f.failed \in {0, 1}
    BY <1>2, SourceFields
  <2>3. CASE f.does = "syntax"
    BY <1>2, <2>1, <2>3, FreshEval DEF Breaks, Fails
  <2>4. CASE f.does # "syntax" /\ f.marked
    <3>1. Outcome(f) = "value"
      BY <1>2, <2>1, <2>4, FreshEval
    <3> QED BY <1>2, <2>4, <3>1 DEF Breaks, Fails
  <2>5. CASE f.does # "syntax" /\ ~f.marked
    <3>1. ~Hangs(f)
      BY <1>2, <2>1, <2>5, FreshEval
    <3>2. /\ f.does = "throws" => Outcome(f) = "error"
          /\ f.does = "unconvertible" => Outcome(f) = "raises"
          /\ f.does \in {"value", "report"} => Outcome(f) = f.does
          /\ f.does # "waits"
      BY <1>2, <2>1, <2>5, <3>1, FreshEval DEF Hangs
    <3> QED BY <2>2, <2>5, <3>2 DEF Breaks, Fails
  <2> QED BY <2>2, <2>3, <2>4, <2>5
<1> QED BY <1>1, <1>2, FileKinds

\* What a file adds to the total.
LEMMA FailedIs ==
    ASSUME NEW f \in Files
    PROVE  /\ Failed(f) \in {0, 1}
           /\ Outcome(f) # "hangs" /\ ~Breaks("test", f) =>
                 Failed(f) = IF Fails("test", f) THEN 1 ELSE 0
<1>1. CASE Outcome(f) = "hangs"
  BY <1>1 DEF Failed
<1>2. CASE Outcome(f) = "report"
  BY <1>2, OutcomeIs DEF Failed
<1>3. CASE Outcome(f) = "error"
  BY <1>3, OutcomeIs DEF Failed
<1>4. CASE Outcome(f) \notin {"hangs", "report", "error"}
  BY <1>4, OutcomeIs DEF Failed
<1> QED BY <1>1, <1>2, <1>3, <1>4

\* The context after an evaluation.
LEMMA AfterIs ==
    ASSUME NEW c \in [Names -> Kinds], NEW s \in Sources
    PROVE  /\ After(c, s) \in [Names -> Kinds]
           /\ ~Script(s) \/ Clashes(c, s) => After(c, s) = c
           /\ Script(s) /\ ~Clashes(c, s) => After(c, s) = Declared(c, s)
<1>1. Declared(c, s) \in [Names -> Kinds]
  BY SourceFields DEF Declared, Kinds
<1> QED BY <1>1 DEF After, Refused, IsModule, Script

\* A name that has no value and never will stays that way.
LEMMA DeadStays ==
    ASSUME NEW c \in [Names -> Kinds], NEW s \in Sources, NEW n \in Names, c[n] = "dead"
    PROVE  After(c, s)[n] = "dead"
<1>1. CASE ~Script(s) \/ Clashes(c, s)
  BY <1>1, AfterIs
<1>2. CASE Script(s) /\ ~Clashes(c, s)
  <2>1. s.decl[n] = "no"
    BY <1>2, SourceFields DEF Clashes
  <2> QED BY <1>2, <2>1, AfterIs DEF Declared
<1> QED BY <1>1, <1>2

-----------------------------------------------------------------------------
(* The shell.                                                              *)

\* A line clashes with the context exactly if a line that was run is in its
\* way.
LEMMA ClashIs ==
    ASSUME lines \in Seq(Sources), context \in [Names -> Kinds], NEW s \in Sources,
           NEW A \in SUBSET (DOMAIN lines), Explains(A, context)
    PROVE  Clashes(context, s) <=> \E j \in A : InTheWay(lines[j], s)
<1>0. \A j \in A : lines[j] \in Sources
  OBVIOUS
<1>1. \A j \in A : \A n \in Names : lines[j].decl[n] \in {"no", "const", "var"}
  BY <1>0, SourceFields
<1>2. \A n \in Names : s.decl[n] \in {"no", "const", "var"} /\ context[n] \in Kinds
  BY SourceFields
<1>3. ASSUME NEW n \in Names
      PROVE  /\ context[n] # "absent" <=> \E j \in A : lines[j].decl[n] # "no"
             /\ context[n] \in {"const", "dead"} <=> \E j \in A : lines[j].decl[n] = "const"
  BY <1>1 DEF Explains, DeclaredBy
<1>4. ASSUME Clashes(context, s) PROVE \E j \in A : InTheWay(lines[j], s)
  <2>1. PICK n \in Names : \/ s.decl[n] = "const" /\ context[n] # "absent"
                           \/ s.decl[n] = "var" /\ context[n] \in {"const", "dead"}
    BY <1>4 DEF Clashes
  <2>2. CASE s.decl[n] = "const"
    <3>1. PICK j \in A : lines[j].decl[n] # "no"
      BY <1>3, <2>1, <2>2
    <3> QED BY <2>2, <3>1 DEF InTheWay
  <2>3. CASE s.decl[n] = "var"
    <3>1. PICK j \in A : lines[j].decl[n] = "const"
      BY <1>3, <2>1, <2>3
    <3> QED BY <2>3, <3>1 DEF InTheWay
  <2> QED BY <2>1, <2>2, <2>3
<1>5. ASSUME NEW j \in A, InTheWay(lines[j], s) PROVE Clashes(context, s)
  <2>1. PICK n \in Names : /\ lines[j].decl[n] # "no" /\ s.decl[n] # "no"
                           /\ lines[j].decl[n] = "const" \/ s.decl[n] = "const"
    BY <1>5 DEF InTheWay
  <2>2. context[n] # "absent" /\ (lines[j].decl[n] = "const" => context[n] \in {"const", "dead"})
    BY <1>3, <2>1
  <2> QED BY <1>2, <2>1, <2>2 DEF Clashes
<1> QED BY <1>4, <1>5

\* A line typed into the shell.
LEMMA LineKeepsShell ==
    ASSUME EvalInv, NEW s \in Sources, ReplEval(s)
    PROVE  ShellInv'
<1>0. /\ lines \in Seq(Sources) /\ context \in [Names -> Kinds] /\ cmd = "shell"
      /\ lines' = Append(lines, s) /\ context' = After(context, s)
  BY DEF EvalInv, Types, ReplEval, AfterLine
<1>1. PICK A \in SUBSET (DOMAIN lines) : WereRun(A) /\ Explains(A, context)
  BY <1>0 DEF EvalInv, ShellInv
<1>2. PICK k \in Nat :
      /\ DOMAIN lines' = DOMAIN lines \cup {k} /\ k \notin DOMAIN lines
      /\ lines'[k] = s /\ \A i \in DOMAIN lines : lines'[i] = lines[i] /\ i < k /\ ~(k < i)
      /\ \A i \in DOMAIN lines : lines[i] \in Sources
  <2> DEFINE l == Len(lines) + 1
  <2>1. /\ DOMAIN lines' = DOMAIN lines \cup {l} /\ l \notin DOMAIN lines /\ l \in Nat
        /\ lines'[l] = s /\ \A i \in DOMAIN lines : lines'[i] = lines[i] /\ i < l /\ ~(l < i)
        /\ \A i \in DOMAIN lines : lines[i] \in Sources
    BY <1>0
  <2> QED BY <2>1
<1>3. Clashes(context, s) <=> \E j \in A : InTheWay(lines[j], s)
  BY <1>0, <1>1, ClashIs
<1>4. CASE Script(s) /\ ~Clashes(context, s)
  <2> DEFINE B == A \cup {k}
  <2>1. B \in SUBSET (DOMAIN lines')
    BY <1>2
  <2>2. WereRun(B)'
    <3>1. ASSUME NEW i \in DOMAIN lines
          PROVE  i \in B <=> Script(lines'[i]) /\ \A j \in B : j < i => ~InTheWay(lines'[j], lines'[i])
      <4>1. i \in B <=> i \in A
        BY <1>2
      <4>2. (\A j \in B : j < i => ~InTheWay(lines'[j], lines'[i]))
              <=> \A j \in A : j < i => ~InTheWay(lines[j], lines[i])
        BY <1>2
      <4> QED BY <1>1, <1>2, <4>1, <4>2 DEF WereRun
    <3>2. /\ k \in B /\ Script(lines'[k])
          /\ \A j \in B : j < k => ~InTheWay(lines'[j], lines'[k])
      BY <1>2, <1>3, <1>4
    <3> QED BY <1>2, <3>1, <3>2 DEF WereRun
  <2>3. Explains(B, context)'
    <3>0. context' = Declared(context, s)
      BY <1>0, <1>4, AfterIs
    <3>1. ASSUME NEW n \in Names
          PROVE  /\ context'[n] = "absent" <=>
                      ~(\E i \in B : lines'[i].decl[n] = "const")
                      /\ ~(\E i \in B : lines'[i].decl[n] = "var")
                 /\ context'[n] = "var" <=> \E i \in B : lines'[i].decl[n] = "var"
                 /\ context'[n] = "dead" <=>
                      \E i \in B : lines'[i].decl[n] = "const" /\ n \notin lines'[i].reached
                 /\ context'[n] = "const" <=>
                      \E i \in B : lines'[i].decl[n] = "const" /\ n \in lines'[i].reached
      <4>1. /\ context[n] = "absent" <=> ~(\E i \in A : lines[i].decl[n] = "const")
                                         /\ ~(\E i \in A : lines[i].decl[n] = "var")
            /\ context[n] = "var" <=> \E i \in A : lines[i].decl[n] = "var"
            /\ context[n] = "dead" <=>
                  \E i \in A : lines[i].decl[n] = "const" /\ n \notin lines[i].reached
            /\ context[n] = "const" <=>
                  \E i \in A : lines[i].decl[n] = "const" /\ n \in lines[i].reached
        BY <1>1 DEF Explains, DeclaredBy
      <4>2. /\ context'[n] = IF s.decl[n] = "no" THEN context[n]
                             ELSE IF s.decl[n] = "const" /\ n \notin s.reached THEN "dead"
                             ELSE s.decl[n]
            /\ s.decl[n] \in {"no", "const", "var"} /\ context[n] \in Kinds
        BY <1>0, <3>0, SourceFields DEF Declared
      <4>3. /\ s.decl[n] = "const" => context[n] = "absent"
            /\ s.decl[n] = "var" => context[n] \in {"absent", "var"}
        BY <1>4, <4>2 DEF Clashes, Kinds
      <4>4. \A i \in A : lines'[i] = lines[i]
        BY <1>2
      <4>5. CASE s.decl[n] = "no"
        BY <1>2, <4>1, <4>2, <4>4, <4>5
      <4>6. CASE s.decl[n] = "const"
        BY <1>2, <4>1, <4>2, <4>3, <4>4, <4>6
      <4>7. CASE s.decl[n] = "var"
        BY <1>2, <4>1, <4>2, <4>3, <4>4, <4>7
      <4> QED BY <4>2, <4>5, <4>6, <4>7
    <3> QED BY <3>1 DEF Explains, DeclaredBy
  <2> QED BY <2>1, <2>2, <2>3 DEF ShellInv
<1>5. CASE ~Script(s) \/ Clashes(context, s)
  <2>1. context' = context /\ A \in SUBSET (DOMAIN lines')
    BY <1>0, <1>2, <1>5, AfterIs
  <2>2. WereRun(A)'
    <3>1. ASSUME NEW i \in DOMAIN lines
          PROVE  i \in A <=> Script(lines'[i]) /\ \A j \in A : j < i => ~InTheWay(lines'[j], lines'[i])
      BY <1>1, <1>2 DEF WereRun
    <3>2. ~(Script(lines'[k]) /\ \A j \in A : j < k => ~InTheWay(lines'[j], lines'[k]))
      BY <1>2, <1>3, <1>5
    <3>3. k \notin A
      BY <1>2
    <3> QED BY <1>2, <3>1, <3>2, <3>3 DEF WereRun
  <2>3. Explains(A, context)'
    BY <1>1, <1>2, <2>1 DEF Explains, DeclaredBy
  <2> QED BY <2>1, <2>2, <2>3 DEF ShellInv
<1> QED BY <1>4, <1>5

-----------------------------------------------------------------------------
(* The other steps.                                                        *)

\* What a step must leave alone for the shell's part of the invariant.
LEMMA ShellFrame ==
    ASSUME ShellInv, cmd' = cmd, cmd # "shell" \/ (lines' = lines /\ context' = context)
    PROVE  ShellInv'
<1>1. CASE cmd # "shell"
  BY <1>1 DEF ShellInv
<1>2. CASE cmd = "shell"
  <2>1. PICK A \in SUBSET (DOMAIN lines) : WereRun(A) /\ Explains(A, context)
    BY <1>2 DEF ShellInv
  <2>2. lines' = lines /\ context' = context
    BY <1>2
  <2>3. A \in SUBSET (DOMAIN lines') /\ WereRun(A)' /\ Explains(A, context)'
    BY <2>1, <2>2 DEF WereRun, Explains, DeclaredBy
  <2> QED BY <2>3 DEF ShellInv
<1> QED BY <1>1, <1>2

\* The shell.
LEMMA ReplKeeps ==
    ASSUME EvalInv, (\E s \in Sources : ReplEval(s)) \/ ReplClear \/ ReplExit
    PROVE  EvalInv'
<1>0. /\ Types /\ ShellInv /\ StatusInv /\ ServeInv /\ cmd = "shell" /\ cmd' = "shell"
      /\ answer = "none"
      /\ files' = files /\ ran' = ran /\ total' = total /\ answer' = answer
  BY DEF EvalInv, ServeInv, ReplEval, ReplClear, ReplExit
<1>1. StatusInv' /\ ServeInv'
  BY <1>0 DEF StatusInv, ServeInv
<1>2. ASSUME NEW s \in Sources, ReplEval(s) PROVE Types' /\ ShellInv'
  <2>1. lines' \in Seq(Sources) /\ context' \in [Names -> Kinds]
    BY <1>0, <1>2, AfterIs DEF Types, ReplEval, AfterLine
  <2> QED BY <1>0, <1>2, <2>1, LineKeepsShell DEF Types
<1>3. CASE ReplClear
  <2>1. lines' = <<>> /\ context' = Empty
    BY <1>3 DEF ReplClear
  <2>2. Types'
    BY <1>0, <2>1 DEF Types, Empty, Kinds
  <2>3. {} \in SUBSET (DOMAIN lines') /\ WereRun({})' /\ Explains({}, context)'
    BY <2>1 DEF WereRun, Explains, DeclaredBy, Empty
  <2>4. ShellInv'
    BY <2>3 DEF ShellInv
  <2> QED BY <1>1, <2>2, <2>4 DEF EvalInv
<1>4. CASE ReplExit
  <2>1. lines' = lines /\ context' = context
    BY <1>4 DEF ReplExit
  <2>2. Types' /\ ShellInv'
    BY <1>0, <2>1, ShellFrame DEF Types
  <2> QED BY <1>1, <2>2 DEF EvalInv
<1> QED BY <1>0, <1>1, <1>2, <1>3, <1>4 DEF EvalInv

\* The command run.
LEMMA RunKeeps ==
    ASSUME EvalInv, RunNoFile \/ RunFile
    PROVE  EvalInv'
<1> DEFINE f == Head(files)
           o == Outcome(f)
<1>0. /\ Types /\ ShellInv /\ StatusInv /\ ServeInv /\ cmd = "run" /\ cmd' = "run"
      /\ state = "open" /\ lines' = lines /\ context' = context
      /\ total' = total /\ answer' = answer /\ answer = "none"
  BY DEF EvalInv, ServeInv, RunFile, RunNoFile
<1>1. ran = <<>>
  BY <1>0 DEF StatusInv
<1>2. ShellInv' /\ ServeInv'
  BY <1>0, ShellFrame DEF ServeInv
<1>3. CASE RunNoFile
  BY <1>0, <1>1, <1>2, <1>3 DEF RunNoFile, EvalInv, Types, StatusInv
<1>4. CASE RunFile
  <2>1. /\ files # <<>> /\ files' = Tail(files) /\ ran' = Append(ran, f)
        /\ state' = CASE o = "hangs"                -> "hung"
                      [] o \in {"missing", "error"} -> "exit1"
                      [] o \in {"folder", "raises"} -> "crashed"
                      [] OTHER                      -> "exit0"
    BY <1>4 DEF RunFile
  <2>2. f \in Files /\ files' \in Seq(Files) /\ ran' = <<f>> /\ ran' \in Seq(Files)
    BY <1>0, <1>1, <2>1 DEF Types
  <2> HIDE DEF f
  <2>3. Types'
    BY <1>0, <2>2 DEF Types
  <2>4. o # "hangs" => /\ Breaks("run", f) <=> o \in {"folder", "raises"}
                       /\ Fails("run", f) <=> o \in {"missing", "error"}
    BY <2>2, OutcomeIs
  <2> HIDE DEF o
  <2>5. StatusInv'
    <3>1. CASE o = "hangs"
      BY <1>0, <2>1, <3>1 DEF StatusInv
    <3>2. CASE o \in {"missing", "error"}
      <4>1. state' = "exit1" /\ ~Breaks("run", f) /\ Fails("run", f)
        BY <2>1, <2>4, <3>2
      <4> QED BY <1>0, <2>2, <4>1 DEF StatusInv
    <3>3. CASE o \in {"folder", "raises"}
      <4>1. state' = "crashed" /\ Breaks("run", f)
        BY <2>1, <2>4, <3>3
      <4> QED BY <1>0, <2>2, <4>1 DEF StatusInv
    <3>4. CASE o \notin {"hangs", "missing", "error", "folder", "raises"}
      <4>1. state' = "exit0" /\ ~Breaks("run", f) /\ ~Fails("run", f)
        BY <2>1, <2>4, <3>4
      <4> QED BY <1>0, <2>2, <4>1 DEF StatusInv
    <3> QED BY <3>1, <3>2, <3>3, <3>4
  <2> QED BY <1>2, <2>3, <2>5 DEF EvalInv
<1> QED BY <1>3, <1>4

\* The command test.
LEMMA TestKeeps ==
    ASSUME EvalInv, TestFile \/ TestDone
    PROVE  EvalInv'
<1> DEFINE f == Head(files)
           o == Outcome(f)
<1>0. /\ Types /\ ShellInv /\ StatusInv /\ ServeInv /\ cmd = "test" /\ cmd' = "test"
      /\ state = "open" /\ lines' = lines /\ context' = context
      /\ answer' = answer /\ answer = "none"
  BY DEF EvalInv, ServeInv, TestFile, TestDone
<1>1. ShellInv' /\ ServeInv'
  BY <1>0, ShellFrame DEF ServeInv
<1>3. /\ total > 0 <=> \E i \in DOMAIN ran : Fails("test", ran[i])
      /\ \A i \in DOMAIN ran : ~Breaks("test", ran[i])
      /\ total \in Nat
  BY <1>0 DEF StatusInv, Types
<1>4. CASE TestDone
  <2>1. state' = (IF total > 0 THEN "exit1" ELSE "exit0") /\ ran' = ran /\ total' = total
        /\ files' = files
    BY <1>4 DEF TestDone
  <2>2. StatusInv'
    BY <1>0, <1>3, <2>1 DEF StatusInv
  <2> QED BY <1>0, <1>1, <2>1, <2>2 DEF EvalInv, Types
<1>5. CASE TestFile
  <2>1. /\ total' = total + Failed(f)
        /\ files' = Tail(files) /\ ran' = Append(ran, f) /\ files # <<>>
        /\ state' = CASE o = "hangs"                           -> "hung"
                      [] o \in {"missing", "folder", "raises"} -> "crashed"
                      [] OTHER                                 -> "open"
    BY <1>5 DEF TestFile
  <2>2. f \in Files /\ files' \in Seq(Files) /\ ran' \in Seq(Files)
    BY <1>0, <2>1 DEF Types
  <2> HIDE DEF f
  <2>3. /\ \A i \in DOMAIN ran : i \in DOMAIN ran' /\ ran'[i] = ran[i]
        /\ Len(ran) + 1 \in DOMAIN ran' /\ ran'[Len(ran) + 1] = f
        /\ \A i \in DOMAIN ran' : i \in DOMAIN ran \/ i = Len(ran) + 1
    <3>1. ran \in Seq(Files) /\ ran' = Append(ran, f)
      BY <1>0, <2>1 DEF Types
    <3> QED BY <2>2, <3>1
  <2>4. /\ Failed(f) \in {0, 1}
        /\ o # "hangs" /\ ~Breaks("test", f) => Failed(f) = IF Fails("test", f) THEN 1 ELSE 0
    BY <2>2, FailedIs
  <2>5. o # "hangs" => (Breaks("test", f) <=> o \in {"missing", "folder", "raises"})
    BY <2>2, OutcomeIs
  <2>6. total' \in Nat
    BY <1>3, <2>1, <2>4
  <2>7. Types'
    BY <1>0, <2>2, <2>6 DEF Types
  <2> HIDE DEF o
  <2>8. CASE o = "hangs"
    <3>1. state' = "hung"
      BY <2>1, <2>8
    <3> QED BY <1>0, <1>1, <2>7, <3>1 DEF EvalInv, StatusInv
  <2>9. CASE o \in {"missing", "folder", "raises"}
    <3>1. state' = "crashed" /\ Breaks("test", f)
      BY <2>1, <2>5, <2>9
    <3>2. \E i \in DOMAIN ran' : Breaks("test", ran'[i])
      BY <2>3, <3>1
    <3> QED BY <1>0, <1>1, <2>7, <3>1, <3>2 DEF EvalInv, StatusInv
  <2>10. CASE o \notin {"hangs", "missing", "folder", "raises"}
    <3>1. state' = "open" /\ ~Breaks("test", f) /\ Failed(f) = IF Fails("test", f) THEN 1 ELSE 0
      BY <2>1, <2>4, <2>5, <2>10
    <3>2. total' > 0 <=> total > 0 \/ Fails("test", f)
      BY <1>3, <2>1, <3>1
    <3>3. (\E i \in DOMAIN ran' : Fails("test", ran'[i])) <=> (\E i \in DOMAIN ran : Fails("test", ran[i])) \/ Fails("test", f)
      BY <2>3
    <3>4. \A i \in DOMAIN ran' : ~Breaks("test", ran'[i])
      BY <1>3, <2>3, <3>1
    <3>5. total' > 0 <=> \E i \in DOMAIN ran' : Fails("test", ran'[i])
      BY <1>3, <3>2, <3>3
    <3> QED BY <1>0, <1>1, <2>7, <3>1, <3>4, <3>5 DEF EvalInv, StatusInv
  <2> QED BY <2>8, <2>9, <2>10
<1> QED BY <1>4, <1>5

\* A process that serves calls.
LEMMA ServeKeeps ==
    ASSUME EvalInv, ServeInit \/ ServeCall
    PROVE  EvalInv'
<1> DEFINE s == Head(files)
<1>0. /\ Types /\ ShellInv /\ StatusInv /\ ServeInv /\ cmd = "serve" /\ cmd' = "serve"
      /\ state = "open" /\ ran' = ran /\ total' = total
  BY DEF EvalInv, ServeInit, ServeCall
<1>1. ShellInv' /\ StatusInv'
  BY <1>0, ShellFrame DEF StatusInv
<1>2. CASE ServeInit
  <2>1. /\ files # <<>> /\ context' = After(Empty, s) /\ lines' = <<s>> /\ files' = <<>>
        /\ functions' = {n \in s.callable : context'[n] # "absent"}
        /\ state' = CASE Result(Empty, s) = "hangs"              -> "hung"
                      [] Result(Empty, s) \in {"error", "raises"} -> "failed"
                      [] OTHER                                   -> "open"
        /\ answer' = answer
    BY <1>2 DEF ServeInit
  <2>2. s \in Sources /\ answer = "none"
    BY <1>0, <2>1 DEF ServeInv
  <2> HIDE DEF s
  <2>3. Empty \in [Names -> Kinds]
    BY DEF Empty, Kinds
  <2>4. Types'
    <3>1. <<>> \in Seq(Files) /\ <<s>> \in Seq(Sources)
      BY <2>2
    <3>2. After(Empty, s) \in [Names -> Kinds]
      BY <2>2, <2>3, AfterIs
    <3> QED BY <1>0, <2>1, <3>1, <3>2 DEF Types
  <2>5. state' = "open" => s.does # "syntax"
    BY <2>1, <2>2, FreshEval DEF eval_sync
  <2>6. ServeInv'
    BY <2>1, <2>2, <2>5 DEF ServeInv, After, Empty, Refused, IsModule, Clashes, Declared
  <2> QED BY <1>1, <2>4, <2>6 DEF EvalInv
<1>3. CASE ServeCall
  <2>1. Types'
    BY <1>0, <1>3 DEF Types, ServeCall
  <2>2. /\ files' = files /\ files = <<>> /\ state' = "open" /\ lines' = lines
        /\ context' = context /\ functions' = functions
        /\ answer' = IF Handler \in functions THEN "handled" ELSE "no_handler"
    BY <1>0, <1>3 DEF ServeCall
  <2>3. PICK t \in Sources : /\ lines = <<t>> /\ context = After(Empty, t) /\ t.does # "syntax"
                             /\ functions = {n \in t.callable : context[n] # "absent"}
    BY <1>0, <2>2 DEF ServeInv
  <2>4. ServeInv'
    BY <1>0, <2>2, <2>3 DEF ServeInv
  <2> QED BY <1>1, <2>1, <2>4 DEF EvalInv
<1> QED BY <1>2, <1>3

\* The invariant is inductive.
LEMMA EvalInvNext ==
    ASSUME EvalInv, [Next]_vars
    PROVE  EvalInv'
<1>1. CASE UNCHANGED vars
  <2>1. Types' /\ ServeInv'
    BY <1>1 DEF vars, EvalInv, Types, ServeInv
  <2>3. StatusInv'
    BY <1>1 DEF vars, EvalInv, StatusInv
  <2>2. ShellInv'
    <3>1. lines' = lines /\ cmd' = cmd /\ context' = context
      BY <1>1 DEF vars
    <3>2. \A A : (WereRun(A))' <=> WereRun(A)
      BY <3>1 DEF WereRun
    <3>3. \A A : Explains(A, context)' <=> Explains(A, context)
      BY <3>1 DEF Explains, DeclaredBy
    <3> QED BY <3>1, <3>2, <3>3 DEF EvalInv, ShellInv
  <2> QED BY <2>1, <2>2, <2>3 DEF EvalInv
<1>2. CASE Next
  BY <1>2, ReplKeeps, RunKeeps, TestKeeps, ServeKeeps DEF Next, Run
<1> QED BY <1>1, <1>2

\* Nothing has been evaluated yet.
LEMMA EvalInvInit == Init => EvalInv
<1> SUFFICES ASSUME Init PROVE EvalInv
  OBVIOUS
<1>1. files \in Seq(Files)
  <2>1. CASE cmd = "shell"
    BY <2>1 DEF Init
  <2>2. CASE cmd = "serve"
    <3>1. PICK s \in Sources : files = <<s>>
      BY <2>2 DEF Init
    <3>2. s \in Files
      BY DEF Files
    <3> QED BY <3>1, <3>2
  <2>3. CASE cmd \in {"run", "test"}
    <3>1. CASE cmd = "run"
      <4>1. PICK n \in 0..1 : files \in [1..n -> Files]
        BY <3>1 DEF Init
      <4> QED BY <4>1
    <3>2. CASE cmd = "test"
      <4>1. PICK n \in 0..MaxFiles : files \in [1..n -> Files]
        BY <3>2 DEF Init
      <4>2. n \in Nat
        BY <4>1, EvaluationAssumption
      <4> QED BY <4>1, <4>2
    <3> QED BY <2>3, <3>1, <3>2
  <2> QED BY <2>1, <2>2, <2>3 DEF Init
<1>2. Types
  BY <1>1 DEF Init, Types, Empty, Kinds
<1>3. ShellInv
  <2>1. {} \in SUBSET (DOMAIN lines) /\ WereRun({}) /\ Explains({}, context)
    BY DEF Init, WereRun, Explains, DeclaredBy, Empty
  <2> QED BY <2>1 DEF ShellInv
<1>4. StatusInv
  BY DEF Init, StatusInv
<1>5. ServeInv
  <2>1. cmd = "serve" => \E s \in Sources : files = <<s>>
    BY DEF Init
  <2> QED BY <2>1 DEF Init, ServeInv
<1> QED BY <1>2, <1>3, <1>4, <1>5 DEF EvalInv

-----------------------------------------------------------------------------
(***************************************************************************)
(* Theorems.                                                               *)
(***************************************************************************)

\* The context, the total and the answers follow from the sources that were
\* evaluated (beamjs_nif.c:157, repl.ex, test.ex, process.ex).
THEOREM EvaluationsAccounted == Spec => []EvalInv
<1>1. Init => EvalInv
  BY EvalInvInit
<1>2. EvalInv /\ [Next]_vars => EvalInv'
  BY EvalInvNext
<1> QED BY <1>1, <1>2, PTL DEF Spec

\* The shell remembers what the lines that were run have declared.
THEOREM ShellRemembers == Spec => []ReplRemembers
<1>1. ASSUME EvalInv PROVE ReplRemembers
  <2>1. ASSUME cmd = "shell"
        PROVE  \E A \in SUBSET (DOMAIN lines) :
                 /\ WereRun(A)
                 /\ \A n \in Names :
                       Usable(n) <=> \E i \in A :
                           /\ lines[i].decl[n] # "no"
                           /\ lines[i].decl[n] = "const" => n \in lines[i].reached
    <3>1. PICK A \in SUBSET (DOMAIN lines) : WereRun(A) /\ Explains(A, context)
      BY <1>1, <2>1 DEF EvalInv, ShellInv
    <3>2. \A i \in A : lines[i] \in Sources
      BY <1>1 DEF EvalInv, Types
    <3>3. ASSUME NEW n \in Names
          PROVE  Usable(n) <=> \E i \in A :
                           /\ lines[i].decl[n] # "no"
                           /\ lines[i].decl[n] = "const" => n \in lines[i].reached
      <4>1. \A i \in A : lines[i].decl[n] \in {"no", "const", "var"}
        BY <3>2, SourceFields
      <4> QED BY <3>1, <4>1 DEF Explains, DeclaredBy, Usable
    <3> QED BY <3>1, <3>3
  <2> QED BY <2>1 DEF ReplRemembers
<1> QED BY <1>1, EvaluationsAccounted, PTL

\* A constant whose line threw is lost until .clear.
THEOREM LostUntilClear == Spec => DeadUntilClear
<1> DEFINE B == \A n \in Names : cmd = "shell" /\ context[n] = "dead"
                    => context'[n] = "dead" \/ lines' = <<>>
<1>1. EvalInv /\ [Next]_vars => [B]_vars
  <2> SUFFICES ASSUME EvalInv, [Next]_vars, NEW n \in Names, cmd = "shell", context[n] = "dead"
               PROVE  context'[n] = "dead" \/ lines' = <<>>
    OBVIOUS
  <2>0. context \in [Names -> Kinds]
    BY DEF EvalInv, Types
  <2>1. ASSUME NEW s \in Sources, ReplEval(s) PROVE context'[n] = "dead"
    BY <2>0, <2>1, DeadStays DEF ReplEval, AfterLine
  <2>2. CASE ReplClear
    BY <2>2 DEF ReplClear
  <2>3. CASE ReplExit \/ Run \/ ServeInit \/ ServeCall \/ UNCHANGED vars
    BY <2>3 DEF ReplExit, Run, RunNoFile, RunFile, TestFile, TestDone, ServeInit, ServeCall, vars
  <2> QED BY <2>1, <2>2, <2>3 DEF Next
<1> HIDE DEF B
<1>2. Spec => [][B]_vars
  BY <1>1, EvaluationsAccounted, PTL DEF Spec
<1> QED BY <1>2 DEF DeadUntilClear, B

\* How run and test end says what became of their files, for any number of
\* files.
THEOREM StatusTells == Spec => []ExitStatus
<1>1. ASSUME EvalInv PROVE ExitStatus
  <2>0. Types /\ StatusInv
    BY <1>1 DEF EvalInv
  <2>1. CASE cmd = "run" /\ state = "exit0"
    <3>1. PICK f \in Files : ran = <<f>> /\ ~Breaks("run", f) /\ ~Fails("run", f)
      BY <2>0, <2>1 DEF StatusInv
    <3>2. ran # <<>> /\ \A i \in DOMAIN ran : ran[i] = f
      BY <3>1
    <3> QED BY <2>1, <3>1, <3>2 DEF ExitStatus
  <2>2. CASE cmd = "run" /\ state = "exit1"
    <3>1. CASE ran = <<>>
      BY <2>2, <3>1 DEF ExitStatus
    <3>2. CASE ran # <<>>
      <4>1. PICK f \in Files : ran = <<f>> /\ ~Breaks("run", f) /\ Fails("run", f)
        BY <2>0, <2>2, <3>2 DEF StatusInv
      <4>2. 1 \in DOMAIN ran /\ \A i \in DOMAIN ran : ran[i] = f
        BY <4>1
      <4> QED BY <2>2, <4>1, <4>2 DEF ExitStatus
    <3> QED BY <3>1, <3>2
  <2>3. CASE cmd = "run" /\ state = "crashed"
    <3>1. PICK f \in Files : ran = <<f>> /\ Breaks("run", f)
      BY <2>0, <2>3 DEF StatusInv
    <3>2. 1 \in DOMAIN ran /\ ran[1] = f
      BY <3>1
    <3> QED BY <2>3, <3>1, <3>2 DEF ExitStatus
  <2>4. CASE cmd = "test"
    BY <2>0, <2>4 DEF StatusInv, Types, ExitStatus, Ends
  <2>5. cmd = "run" => state # "failed"
    BY <2>0 DEF StatusInv
  <2> QED BY <2>1, <2>2, <2>3, <2>4, <2>5 DEF ExitStatus, Ends
<1> QED BY <1>1, EvaluationsAccounted, PTL

\* A process serves calls exactly if its source is a script that declares
\* the handler, in whatever way, and leaves a function in it.
THEOREM ScriptsServe == Spec => []ServedByScript
<1>1. ASSUME EvalInv PROVE ServedByScript
  <2> SUFFICES ASSUME answer # "none"
               PROVE  answer = "handled" <=> /\ ~lines[1].marked
                                             /\ lines[1].decl[Handler] # "no"
                                             /\ Handler \in lines[1].callable
    BY DEF ServedByScript
  <2>1. PICK s \in Sources : /\ lines = <<s>> /\ context = After(Empty, s) /\ s.does # "syntax"
                             /\ functions = {n \in s.callable : context[n] # "absent"}
    BY <1>1 DEF EvalInv, ServeInv
  <2>2. answer = "handled" <=> Handler \in s.callable /\ context[Handler] # "absent"
    BY <1>1, <2>1 DEF EvalInv, ServeInv
  <2>3. Handler \in Names /\ lines[1] = s
    BY <2>1, EvaluationAssumption
  <2>4. ~Refused(Empty, s)
    BY <2>1, FreshEval
  <2>5. CASE s.marked
    BY <2>1, <2>2, <2>3, <2>4, <2>5 DEF After, IsModule, Empty
  <2>6. CASE ~s.marked
    <3>1. context = Declared(Empty, s)
      BY <2>1, <2>4, <2>6 DEF After, IsModule
    <3>2. s.decl[Handler] \in {"no", "const", "var"}
      BY <2>3, SourceFields
    <3> QED BY <2>2, <2>3, <2>6, <3>1, <3>2 DEF Declared, Empty
  <2> QED BY <2>5, <2>6
<1> QED BY <1>1, EvaluationsAccounted, PTL
=============================================================================
