-------------------------- MODULE MC_ModuleResolution --------------------------
(* A program of two files with a directory "lib" of one file, and a         *)
(* standard directory with a file that has the name of that one.  Texts are *)
(* all short sequences of the items of each file.                           *)
EXTENDS ModuleResolution

CONSTANTS program, lib, standard, nowhere

(* "lib/" leads from program to lib and "../" back, in the text of a path   *)
(* as far as Longest allows; what is longer, or leads elsewhere, does not   *)
(* exist.                                                                   *)
Longest  == 4
Spelled  == {s \in BoundedSeq({"lib", ".."}, Longest) :
               \A i \in 1 .. Len(s) : s[i] = IF i % 2 = 1 THEN "lib" ELSE ".."}
MCDirectories == Spelled \cup {standard, nowhere}
MCPlace ==
  [d \in MCDirectories |-> IF d \notin Spelled THEN d
                           ELSE IF Len(d) % 2 = 0 THEN program ELSE lib]

MCWays     == {"", "lib", "..", "std:"}
MCStandard == {"std:"}
MCUnder ==
  [d \in MCDirectories |-> [w \in MCWays |->
     IF w = "std:" THEN standard
     ELSE IF w = "" THEN d
     ELSE IF d \in Spelled /\ Append(d, w) \in Spelled THEN Append(d, w)
     ELSE nowhere]]

Programs  == {s \in Spelled : MCPlace[s] = program}
Libraries == {s \in Spelled : MCPlace[s] = lib}
MCFiles ==
  [dir : Programs, name : {"main", "a"}] \cup [dir : Libraries \cup {standard}, name : {"b"}]

MCRoot == [dir |-> << >>, name |-> "main"]

Require(way, name)   == [kind |-> "require", dir |-> way, name |-> name]
Define(v, uses)      == [kind |-> "statement", defines |-> {v}, uses |-> uses]
Use(v)               == [kind |-> "statement", defines |-> {}, uses |-> {v}]

RequireA    == Require("", "a")
RequireUpA  == Require("..", "a")
RequireLibB == Require("lib", "b")
RequireB    == Require("", "b")
RequireMain == Require("", "main")
RequireStd  == Require("std:", "b")

MCTexts ==
  [f \in MCFiles |->
     IF f.name = "main" THEN BoundedSeq({RequireA, RequireLibB, RequireStd, Use("x")}, 3)
     ELSE IF f.name = "a" THEN BoundedSeq({RequireLibB, RequireMain, RequireStd, Define("x", {"y"})}, 2)
     ELSE IF f.dir # standard THEN BoundedSeq({RequireUpA, Define("y", {})}, 1)
     ELSE BoundedSeq({RequireB, Define("y", {}), Define("x", {})}, 1)]
=============================================================================
