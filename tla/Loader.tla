------------------------------- MODULE Loader -------------------------------
(***************************************************************************)
(* How a compiled program gets into memory: what the compiler writes       *)
(* (Backend/Bytecode/Serialize.hs), and main, deserialize and the library  *)
(* options that read it (runtime/src/main.c, deserialize.c, library.c).    *)
(*                                                                         *)
(* A file is the sequence of its fields, each with the width it was        *)
(* written with.  A text is the sequence of its bytes; those of a native's *)
(* name count as one.                                                      *)
(***************************************************************************)
EXTENDS Values, Sequences, SequencesExt, FiniteSets

CONSTANTS
  Files,         \* Files[name]: the program in a file: its constants, its code, and
                 \* the address and the local space of every function in it
  CommandLines,  \* the command lines, sequences of texts
  Libraries,     \* Libraries[name]: the symbols of the library dlopen finds there
  Symbols        \* the symbols of the program itself and of libc

NULL == "NULL"

(* What the compiler writes: literals, and instructions of up to five      *)
(* int32; the lengths and the numbers of both are int32 as well.           *)
Fits(n) == n < HIGH * HALF

Texts == {text \in Seq(STRING) : Fits(Len(text))}

Literals == [kind : {"int"}, value : Int]
            \cup [kind : {"float"}, value : -MaxFloat .. MaxFloat]
            \cup [kind : {"string", "native"}, value : Texts]

Instructions == {instr \in Seq(-(HIGH * HALF) .. HIGH * HALF - 1) : Len(instr) <= 5}

ASSUME LoaderAssumption ==
  /\ CommandLines \subseteq Seq(STRING)
  /\ NULL \notin DOMAIN Libraries
  /\ \A name \in DOMAIN Files :
       /\ Files[name].constants \in Seq(Literals) /\ Fits(Len(Files[name].constants))
       /\ Files[name].code \in Seq(Instructions) /\ Fits(Len(Files[name].code))
       /\ Files[name].functions \subseteq Int \X Int

VARIABLES
  stage,      \* how far main is
  argv,       \* the command line
  file,       \* the fields that are not read yet
  handles,    \* module.handles: names of libraries, or NULL
  expected,   \* how many constants are still to be read
  heap,       \* heap[a]: the HeapValue at address a
  memory,     \* memory[b]: the cells of the array or the text b
  constants,  \* module.constants
  instrs,     \* module.instrs
  args        \* the array of module.argv, an index of memory

loaderVars == <<stage, argv, file, handles, expected, heap, memory, constants, instrs, args>>

Object(type, length, block) == [type |-> type, length |-> length, block |-> block]
-----------------------------------------------------------------------------
Field(width, value) == [width |-> width, value |-> value]

(* encodeInteger: putInt32le . fromIntegral                                *)
Int32(n) == Field("i32", Signed(Unsigned(n)))

(* encodeConstant                                                          *)
Encoded(literal) ==
  CASE literal.kind = "int"    -> <<Field("u8", 0), Int32(literal.value)>>
    [] literal.kind = "float"  -> <<Field("u8", 1), Field("f64", literal.value)>>
    [] literal.kind \in {"string", "native"} ->
         <<Field("u8", 2), Int32(Len(literal.value)), Field("text", literal.value)>>

\* Mutant: an instruction is as long as its operands.
NotPadded(instr) == instr

(* encodeInstruction: five words for every instruction the code generator  *)
(* emits.                                                                  *)
Padded(instr) == instr \o [i \in 1 .. 5 - Len(instr) |-> 0]

(* runSerializer                                                           *)
Serialized(program) ==
  LET Fields(instr) == [i \in 1 .. Len(Padded(instr)) |-> Int32(Padded(instr)[i])]
  IN  <<Int32(Len(program.constants))>>
      \o FlattenSeq([i \in 1 .. Len(program.constants) |-> Encoded(program.constants[i])])
      \o <<Int32(Len(program.code))>>
      \o FlattenSeq([i \in 1 .. Len(program.code) |-> Fields(program.code[i])])
-----------------------------------------------------------------------------
Init ==
  /\ stage = "start"
  /\ argv \in CommandLines
  /\ file = <<>>
  /\ handles = <<>>
  /\ expected = 0
  /\ heap = <<>>
  /\ memory = <<>>
  /\ constants = <<>>
  /\ instrs = <<>>
  /\ args = 0

(* argc < 2, or fopen(argv[1]) fails.                                      *)
Readable == Len(argv) >= 2 /\ argv[2] \in DOMAIN Files

(* The usage message and "Could not open file".                            *)
Refuse ==
  /\ stage = "start"
  /\ ~Readable
  /\ stage' = "thrown"
  /\ UNCHANGED <<argv, file, handles, expected, heap, memory, constants, instrs, args>>

\* Mutant: the option itself is opened.
TheOption(i) == argv[i]

(* lib->name = argv[i + 1]; behind the last argument there is NULL.        *)
Named(i) == IF i < Len(argv) THEN argv[i + 1] ELSE NULL

(* load_library: dlopen gives NULL for a library it does not find.         *)
Opened(name) == IF name \in DOMAIN Libraries THEN name ELSE NULL

(* The options among the first i arguments.                                *)
OptionsUpTo ==
  LET options[i \in 0 .. Len(argv)] ==
        IF i = 0 THEN <<>>
        ELSE IF argv[i] = "-l" THEN Append(options[i - 1], i)
        ELSE options[i - 1]
  IN  options

Options == OptionsUpTo[Len(argv)]

(* get_libraries, and the copy of the list into libs.                      *)
LoadLibraries ==
  /\ stage = "start"
  /\ Readable
  /\ file' = Serialized(Files[argv[2]])
  /\ handles' = [k \in 1 .. Len(Options) |-> Opened(Named(Options[k]))]
  /\ stage' = "count"
  /\ UNCHANGED <<argv, expected, heap, memory, constants, instrs, args>>

(* fread of a field; the bytes of a field of another width make no sense.  *)
Read(i, width) == IF i <= Len(file) /\ file[i].width = width THEN file[i].value ELSE 0

Skip(n) == file' = SubSeq(file, n + 1, Len(file))

ReadCount ==
  /\ stage = "count"
  /\ expected' = Read(1, "i32")
  /\ Skip(1)
  /\ stage' = "constants"
  /\ UNCHANGED <<argv, handles, heap, memory, constants, instrs, args>>

(* deserialize_value.  The HeapValue of a string is on no module's list.   *)
ReadConstant ==
  /\ stage = "constants"
  /\ expected > 0
  /\ expected' = expected - 1
  /\ \/ /\ Read(1, "u8") = 0
        /\ constants' = Append(constants, MAKE_INTEGER(Read(2, "i32")))
        /\ Skip(2)
        /\ UNCHANGED <<heap, memory>>
     \/ /\ Read(1, "u8") = 1
        /\ constants' = Append(constants, MAKE_FLOAT(Read(2, "f64")))
        /\ Skip(2)
        /\ UNCHANGED <<heap, memory>>
     \/ /\ Read(1, "u8") = 2
        /\ memory' = Append(memory, Read(3, "text"))
        /\ heap' = Append(heap, Object("TYPE_STRING", Read(2, "i32"), Len(memory')))
        /\ constants' = Append(constants, MAKE_PTR(Len(heap')))
        /\ Skip(3)
  /\ UNCHANGED <<stage, argv, handles, instrs, args>>

(* instr_count * 5 words.                                                  *)
ReadCode ==
  /\ stage = "constants"
  /\ expected = 0
  /\ instrs' = [i \in 1 .. Read(1, "i32") * 5 |-> Read(i + 1, "i32")]
  /\ Skip(1 + Len(instrs'))
  /\ stage' = "arguments"
  /\ UNCHANGED <<argv, handles, expected, heap, memory, constants, args>>

(* args[i] = MAKE_STRING(&module, argv[i]), and run_interpreter begins.    *)
PassArguments ==
  LET n == Len(argv)
  IN  /\ stage = "arguments"
      /\ heap' = heap \o [i \in 1 .. n |-> Object("TYPE_STRING", 1, Len(memory) + i)]
      /\ memory' = memory \o [i \in 1 .. n |-> <<argv[i]>>]
                          \o <<[i \in 1 .. n |-> MAKE_PTR(Len(heap) + i)]>>
      /\ args' = Len(memory')
      /\ stage' = "running"
      /\ UNCHANGED <<argv, file, handles, expected, constants, instrs>>

Load == \/ Refuse
        \/ LoadLibraries
        \/ ReadCount
        \/ ReadConstant
        \/ ReadCode
        \/ PassArguments

(* get_proc_address: dlsym with NULL searches the program and libc.        *)
Defines(handle) == IF handle = NULL THEN Symbols ELSE Libraries[handle]

(* find_function: the first handle that has the symbol; 0 if none has.     *)
FindFunction(callee) ==
  SelectInSeq(handles, LAMBDA handle : callee \in Defines(handle))
=============================================================================
