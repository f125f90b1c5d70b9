---------------------------- MODULE ModuleResolution ----------------------------
(***************************************************************************)
(* The resolution of require (Frontend/Module/Conversion.hs): resolve      *)
(* parses a file, walks over its statements, resolves the files it         *)
(* requires on the way, and appends the statements to resultState when all *)
(* of them are done.  Three global references hold the state; calls is the *)
(* stack of the calls of resolve that have not returned.                   *)
(*                                                                         *)
(* The files are arbitrary: each has one of the texts of Texts, chosen     *)
(* when it is read.  A text is a sequence of requires, which the parser    *)
(* accepts at the top level only, and of statements, told apart by the     *)
(* variables they define and use.                                          *)
(*                                                                         *)
(* resolve knows a file by its path, as text: makeAbsolute leaves ".."     *)
(* where it is, so that a file has a path for every way to its directory,  *)
(* "p/a.bzi" and "p/lib/../a.bzi".  Directories are such texts, and Place  *)
(* tells where they lead.                                                  *)
(***************************************************************************)
EXTENDS Integers, Sequences, SequencesExt

CONSTANTS
  Directories, \* the directories of paths, as text
  Place,       \* Place[d]: the directory of the file system that d leads to
  Ways,        \* the directories of required paths: "", "../", "std:", ...
  Here,        \* "", the directory of the file that requires
  Standard,    \* the ways that begin with "std:"
  Under,       \* Under[d][w]: the text of way w from directory d
  Names,       \* the names of files, without directory and extension
  Files,       \* the paths of the files that exist
  Root,        \* the file the compiler is started with
  Variables,
  Texts,       \* Texts[f]: what may be in f
  Dot,         \* makeRelative of a path to itself
  MaxCalls     \* bound: the calls of resolve that wait for another one

Paths == [dir : Directories, name : Names]

Items ==
  [kind : {"require"}, dir : Ways, name : Names] \cup
  [kind : {"statement"}, defines : SUBSET Variables, uses : SUBSET Variables]

ASSUME ResolutionAssumption ==
  /\ Files \subseteq Paths
  /\ Root \in Files
  /\ Here \in Ways /\ Standard \subseteq Ways
  /\ Under \in [Directories -> [Ways -> Directories]]
  /\ Dot \notin Paths
  /\ Texts \in [Files -> SUBSET Seq(Items)]
  /\ MaxCalls \in Nat

(* Two paths of one file.                                                  *)
SameFile(f, g) == Place[f.dir] = Place[g.dir] /\ f.name = g.name

VARIABLES
  content,           \* content[f]: what was in file f when it was read
  bonzaiPath,        \* is the environment variable BONZAI_PATH set?
  calls,             \* the calls of resolve, the innermost one last
  importStack,
  initialPath,       \* moduleState: the file that resolve was last called for
  currentDirectory,  \* moduleState: where a path is looked up
  resolved,          \* moduleState: the variables of each module by its name
  result,            \* resultState
  outcome,           \* "running", "resolved" or the error thrown
  culprit,           \* the path an error is about
  parsed             \* history: the files parsed, in order

vars == <<content, bonzaiPath, calls, importStack, initialPath, currentDirectory, resolved,
          result, outcome, culprit, parsed>>

moduleState == <<initialPath, currentDirectory, resolved>>

Top == calls[Len(calls)]

Running == outcome = "running"

Text == content[Top.file]

(* What the walk over the innermost file comes to next.                    *)
InFile == Running /\ calls # << >> /\ Top.at <= Len(Text)
Item   == Text[Top.at]

(* The path resolve is called with next: that of the root file, or that of *)
(* the require the walk has come to.                                       *)
Calls(path) ==
  \/ Running /\ parsed = << >> /\ path = [dir |-> Here, name |-> Root.name]
  \/ InFile /\ Item.kind = "require" /\ path = [dir |-> Item.dir, name |-> Item.name]

(* getCorrectPath                                                          *)
CorrectPath(path) == [path EXCEPT !.dir = Under[currentDirectory][@]]

(* makeRelative st.initialPath newPath                                     *)
ModuleName(newPath) == IF newPath = initialPath THEN Dot ELSE newPath

(* The innermost call goes on behind a require of a module with variables. *)
GoOn(cs, variables, again) ==
  IF cs = << >> THEN cs
  ELSE [cs EXCEPT ![Len(cs)].at = @ + 1, ![Len(cs)].imported = @ \cup variables,
                  ![Len(cs)].again = @ \/ again]
-----------------------------------------------------------------------------
Init ==
  /\ content = << >>
  /\ bonzaiPath \in BOOLEAN
  /\ calls = << >>
  /\ importStack = << >>
  /\ initialPath = Dot
  /\ currentDirectory = Root.dir
  /\ resolved = << >>
  /\ result = << >>
  /\ outcome = "running"
  /\ culprit = Root
  /\ parsed = << >>

(* The beginning of resolve: moduleState moves to the new file.            *)
Enter(newPath) ==
  /\ initialPath' = newPath
  /\ currentDirectory' = newPath.dir

Throw(error, path) ==
  /\ outcome' = error
  /\ culprit' = path
  /\ UNCHANGED <<content, bonzaiPath, calls, resolved, result, parsed>>

(* A path with "std:" needs the environment variable.                      *)
HasDirectory(path) == path.dir \notin Standard \/ bonzaiPath

EnvironmentVariableNotFound(path) ==
  /\ Calls(path)
  /\ ~HasDirectory(path)
  /\ Throw("noStandard", CorrectPath(path))
  /\ UNCHANGED <<importStack, initialPath, currentDirectory>>

ModuleNotFound(path) ==
  LET newPath == CorrectPath(path)
  IN  /\ Calls(path)
      /\ HasDirectory(path)
      /\ newPath \notin Files
      /\ Enter(newPath)
      /\ Throw("notFound", newPath)
      /\ UNCHANGED importStack

CyclicModuleDependency(path) ==
  LET newPath == CorrectPath(path)
  IN  /\ Calls(path)
      /\ HasDirectory(path)
      /\ newPath \in Files
      /\ Contains(importStack, newPath)
      /\ Enter(newPath)
      /\ Throw("cyclic", newPath)
      /\ UNCHANGED importStack

\* Mutant: the file is not put on the stack.
StackKept(f) == importStack

(* modifyIORef importStack (newPath :)                                     *)
StackWith(f) == Cons(f, importStack)

(* The file exists and is not on importStack, where it is put.             *)
Accept(path, newPath) ==
  /\ Calls(path)
  /\ HasDirectory(path)
  /\ newPath \in Files
  /\ ~Contains(importStack, newPath)
  /\ Len(calls) <= MaxCalls
  /\ importStack' = StackWith(newPath)
  /\ Enter(newPath)

(* The module is resolved already.  Neither importStack nor moduleState is *)
(* set back.                                                               *)
RequireAgain(path) ==
  LET newPath == CorrectPath(path)
  IN  /\ Accept(path, newPath)
      /\ ModuleName(newPath) \in DOMAIN resolved
      /\ calls' = GoOn(calls, resolved[ModuleName(newPath)], TRUE)
      /\ UNCHANGED <<content, bonzaiPath, resolved, result, outcome, culprit, parsed>>

(* What may be found in a file: anything at first, the same later.         *)
Readable(f) ==
  LET read == {g \in DOMAIN content : SameFile(f, g)}
  IN  IF read = {} THEN Texts[f] ELSE {content[g] : g \in read}

(* The file is read and parsed, and the walk over it begins; st, the       *)
(* moduleState of before, is kept.                                         *)
Parse(path) ==
  LET newPath == CorrectPath(path)
  IN  /\ Accept(path, newPath)
      /\ ModuleName(newPath) \notin DOMAIN resolved
      /\ \E text \in Readable(newPath) :
           content' = [f \in DOMAIN content \cup {newPath} |->
                         IF f = newPath THEN text ELSE content[f]]
      /\ calls' = Append(calls,
           [file |-> newPath, name |-> ModuleName(newPath), at |-> 1, variables |-> {},
            imported |-> {}, initialPath |-> initialPath,
            currentDirectory |-> currentDirectory, again |-> FALSE])
      /\ parsed' = Append(parsed, newPath)
      /\ UNCHANGED <<bonzaiPath, resolved, result, outcome, culprit>>

ParseError(path) ==
  LET newPath == CorrectPath(path)
  IN  /\ Accept(path, newPath)
      /\ ModuleName(newPath) \notin DOMAIN resolved
      /\ Throw("noParse", newPath)

(* isVariableDefined: the module's own variables and those of the modules  *)
(* it requires; of theirs only public ones, and require makes none public. *)
(* A definition sees its own name.                                         *)
Visible == Top.variables \cup Top.imported \cup Item.defines

(* resolveImports of a statement                                           *)
Statement ==
  /\ InFile
  /\ Item.kind = "statement"
  /\ Item.uses \subseteq Visible
  /\ calls' = [calls EXCEPT ![Len(calls)].at = @ + 1,
                            ![Len(calls)].variables = @ \cup Item.defines]
  /\ UNCHANGED <<content, bonzaiPath, importStack, moduleState, result, outcome, culprit, parsed>>

VariableNotFound ==
  /\ InFile
  /\ Item.kind = "statement"
  /\ ~(Item.uses \subseteq Visible)
  /\ Throw("undefined", Top.file)
  /\ UNCHANGED <<importStack, initialPath, currentDirectory>>

\* Mutant: the modules resolved on the way are forgotten.
OnlyThis(name, variables) == [n \in {name} |-> variables]

(* Map.insert newModuleName modUnit st'.resolved                           *)
Inserted(name, variables) ==
  [n \in DOMAIN resolved \cup {name} |-> IF n = name THEN variables ELSE resolved[n]]

(* drop 1                                                                  *)
StackDropped == SubSeq(importStack, 2, Len(importStack))

(* What is left of the first i elements of s when only the first of equal  *)
(* ones is kept.                                                           *)
Nubs(s) ==
  LET nub[i \in 0 .. Len(s)] ==
        IF i = 0 THEN << >>
        ELSE IF Contains(nub[i - 1], s[i]) THEN nub[i - 1]
        ELSE Append(nub[i - 1], s[i])
  IN  nub

\* Mutant: the later of two equal statements is kept.
NubLast(s) == Reverse(Nubs(Reverse(s))[Len(s)])

(* List.nub keeps the first of equal statements; positions do not count.   *)
Nub(s) == Nubs(s)[Len(s)]

\* Mutant: the directory stays that of the file that was resolved.
DirectoryKept == currentDirectory

(* st, the moduleState of before, but for resolved.                        *)
DirectoryAfter == Top.currentDirectory

(* The end of resolve: the module is entered, moduleState is that of       *)
(* before, and the statements are appended.                                *)
Return ==
  /\ Running
  /\ calls # << >>
  /\ Top.at > Len(Text)
  /\ resolved' = Inserted(Top.name, Top.variables)
  /\ initialPath' = Top.initialPath
  /\ currentDirectory' = DirectoryAfter
  /\ result' = Nub(result \o Text)
  /\ importStack' = StackDropped
  /\ calls' = GoOn(Front(calls), Top.variables, FALSE)
  /\ outcome' = IF Len(calls) = 1 THEN "resolved" ELSE "running"
  /\ UNCHANGED <<content, bonzaiPath, culprit, parsed>>

Resolve(path) ==
  \/ EnvironmentVariableNotFound(path)
  \/ ModuleNotFound(path)
  \/ CyclicModuleDependency(path)
  \/ RequireAgain(path)
  \/ Parse(path)
  \/ ParseError(path)

Next ==
  \/ \E path \in [dir : Ways, name : Names] : Resolve(path)
  \/ Statement
  \/ VariableNotFound
  \/ Return

Spec == Init /\ [][Next]_vars

(* The compiler runs until it is done.                                     *)
FairSpec == Spec /\ WF_vars(Next)
-----------------------------------------------------------------------------
Resolutions ==
  [file : Files, name : Files, at : Nat \ {0}, variables : SUBSET Variables,
   imported : SUBSET Variables, initialPath : Files \cup {Dot},
   currentDirectory : Directories, again : BOOLEAN]

TypeOK ==
  /\ DOMAIN content = ToSet(parsed)
  /\ \A f \in DOMAIN content : content[f] \in Seq(Items)
  /\ importStack \in Seq(Files)
  /\ initialPath \in Paths \cup {Dot}
  /\ currentDirectory \in Directories
  /\ DOMAIN resolved \subseteq Files
  /\ \A name \in DOMAIN resolved : resolved[name] \subseteq Variables
  /\ result \in Seq(Items)
  /\ bonzaiPath \in BOOLEAN
  /\ outcome \in {"running", "resolved", "noStandard", "notFound", "cyclic", "noParse", "undefined"}
  /\ culprit \in Paths
  /\ parsed \in Seq(Files)
  /\ calls \in Seq(Resolutions)
  /\ \A i \in 1 .. Len(calls) :
       /\ calls[i].file \in DOMAIN content
       /\ calls[i].at <= Len(content[calls[i].file]) + 1

(* Whatever happens on the way, resolve comes to an end: an import cycle,  *)
(* of any length, is found when it comes back to a path, and one that goes *)
(* on to other paths, at the longest path that the system opens.           *)
Terminates == <>(outcome # "running")

(* No path is parsed twice, however many files require it and in whatever  *)
(* order: of a file, only one that is reached by several paths is.         *)
ParsedOnce == TypeOK /\ \A i, j \in 1 .. Len(parsed) : parsed[i] = parsed[j] => i = j

(* The paths of a file are looked up in the file's own directory, also     *)
(* after a require of a file elsewhere has returned, as long as the file   *)
(* has not required what is resolved already.                              *)
OwnDirectory ==
  Running /\ calls # << >> /\ ~Top.again => currentDirectory = Top.file.dir

(* The statements of all files make one program in which every variable is *)
(* defined before it is used, though equal statements are dropped.         *)
DefinedBeforeUse ==
  \A i \in 1 .. Len(result) :
    result[i].kind = "statement" =>
      \A v \in result[i].uses :
        \E j \in 1 .. i : result[j].kind = "statement" /\ v \in result[j].defines

(* A file is called cyclic only if its own resolution is under way         *)
(* (test/Internal/Module.hs, "detects cyclic module dependency").          *)
CyclesAreReal ==
  outcome = "cyclic" => \E i \in 1 .. Len(calls) : calls[i].file = culprit

(* No file is resolved while its own resolution is under way: the cycle is *)
(* found (test/Internal/Module.hs, "detects cyclic module dependency").    *)
CyclesAreFound ==
  \A i, j \in 1 .. Len(calls) : SameFile(calls[i].file, calls[j].file) => i = j
=============================================================================
