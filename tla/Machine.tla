------------------------------ MODULE Machine ------------------------------
(***************************************************************************)
(* The data side of the interpreter: from main's loading of a file to its  *)
(* freeing of the memory, the instructions that make and take apart values *)
(* (runtime/src/interpreter.c), native calls (call.c) and the natives of   *)
(* bindings/src/maths.c and operations.c.                                  *)
(*                                                                         *)
(* The programs are arbitrary but well typed: every slot and every cell    *)
(* has the type the checker gave it, and a native is called at an instance *)
(* of the type that natives.bzi and packages/bpm/main.bzi declare for it.  *)
(* Three things the checker accepts leave the types behind, and strayed    *)
(* says that one was done: a slice whose start is behind its end, an       *)
(* arithmetic whose result is no finite float, a function whose numbers    *)
(* MAKE_FUNCTION has no room for.                                          *)
(* Calls of functions, locals and jumps are in CallStack, collections in   *)
(* GarbageCollector: nothing is collected here.                            *)
(***************************************************************************)
EXTENDS Loader

CONSTANTS
  Depth,         \* bound: the slots of the stack
  MaxElements,   \* bound: the elements of a list that is written out
  MaxObjects,    \* bound: the objects a program makes
  MaxSteps,      \* bound: the instructions a program executes
  TypeDepth      \* bound: how deep list<...> and mutable<...> nest

VARIABLES
  stack,      \* the words between the globals and stack_pointer
  types,      \* types[i]: the type of the slot i
  contents,   \* contents[a]: the type of what the list or mutable a holds
  functions,  \* what MAKE_FUNCTION was given, with the word it made
  last,       \* the last native call: its name, its arguments, its result
  steps,      \* the instructions executed
  error,      \* the reason of a THROW
  freed,      \* what was passed to free at the end
  strayed     \* was anything done that leaves the types behind?

machineVars == <<stack, types, contents, functions, last, steps, error, freed, strayed>>
vars == <<loaderVars, machineVars>>

(* A type is a path: <<"list", "int">> is list<int>.                       *)
int    == <<"int">>
float  == <<"float">>
string == <<"string">>
fn     == <<"fn">>
list(t)    == <<"list">> \o t
mutable(t) == <<"mutable">> \o t

NoCall == [name |-> "", given |-> <<>>, result |-> kNull]

MachineInit ==
  /\ Init
  /\ stack = <<>>
  /\ types = <<>>
  /\ contents = <<>>
  /\ functions = {}
  /\ last = NoCall
  /\ steps = 0
  /\ error = ""
  /\ freed = <<>>
  /\ strayed = FALSE
-----------------------------------------------------------------------------
Cells(w)  == memory[heap[GET_PTR(w)].block]
Length(w) == heap[GET_PTR(w)].length

(* get_type.  Behind the null pointer of a NaN there is no type to read:   *)
(* that ends the process, like the THROW at a type no case is for.         *)
GetType(w) ==
  CASE w.signature = "FLOAT"    -> "TYPE_FLOAT"
    [] w.signature = "INTEGER"  -> "TYPE_INTEGER"
    [] w.signature = "FUNCTION" -> "TYPE_FUNCTION"
    [] w.signature = "SPECIAL"  -> "TYPE_SPECIAL"
    [] IS_PTR(w) /\ GET_PTR(w) # 0 -> heap[GET_PTR(w)].type
    [] OTHER -> "TYPE_UNKNOWN"

(* The type that the word w must have to be a t.                           *)
HasType(w, t) ==
  CASE Head(t) = "int"    -> GetType(w) = "TYPE_INTEGER"
    [] Head(t) = "float"  -> GetType(w) = "TYPE_FLOAT"
    [] Head(t) = "string" -> GetType(w) = "TYPE_STRING"
    [] Head(t) = "fn"     -> GetType(w) = "TYPE_FUNCTION"
    [] Head(t) = "list"   -> GetType(w) = "TYPE_LIST" /\ contents[GET_PTR(w)] = Tail(t)
    [] Head(t) = "mutable" -> GetType(w) = "TYPE_MUTABLE" /\ contents[GET_PTR(w)] = Tail(t)

Types == {path \o t : path \in BoundedSeq({"list", "mutable"}, TypeDepth - 1), t \in {int, float, string}}
-----------------------------------------------------------------------------
(* How an instruction goes on: every one counts, and only native calls     *)
(* leave something in last.                                                *)
Executes ==
  /\ stage = "running"
  /\ steps < MaxSteps
  /\ steps' = steps + 1

OnlyLoader == UNCHANGED <<argv, file, handles, expected, constants, instrs, args>>
Quietly    == last' = NoCall /\ UNCHANGED <<stage, error, freed>>
SameHeap   == UNCHANGED <<heap, memory, contents>>

(* n operands are popped, w of type t is pushed.                           *)
Replace(n, w, t) ==
  /\ Len(stack) - n < Depth
  /\ stack' = Append(SubSeq(stack, 1, Len(stack) - n), w)
  /\ types' = Append(SubSeq(types, 1, Len(types) - n), t)

Drop(n) ==
  /\ stack' = SubSeq(stack, 1, Len(stack) - n)
  /\ types' = SubSeq(types, 1, Len(types) - n)

(* allocate: the address of the new object.                                *)
NewAddress == Len(heap) + 1

WithContents(t) ==
  [a \in DOMAIN contents \cup {NewAddress} |-> IF a = NewAddress THEN t ELSE contents[a]]

(* Bound: there are no 2^32 cells in a list.                               *)
MakeObject(type, cells, length, t) ==
  /\ Len(heap) < Len(constants) + Len(argv) + MaxObjects
  /\ Len(cells) < INT
  /\ memory' = Append(memory, cells)
  /\ heap' = Append(heap, Object(type, length, Len(memory')))
  /\ contents' = WithContents(t)

(* A THROW prints and exits: nothing is freed, no other actor goes on.     *)
Throw(reason) ==
  /\ stage' = "thrown"
  /\ error' = reason
  /\ last' = NoCall
  /\ UNCHANGED <<stack, types, heap, memory, contents, functions, freed, strayed>>

Top(n) == stack[Len(stack) - n]
TypeOfTop(n) == types[Len(types) - n]
Operands(n) == SubSeq(stack, Len(stack) - n + 1, Len(stack))
-----------------------------------------------------------------------------
KindOf(i) == Files[argv[2]].constants[i].kind

(* case_load_constant                                                      *)
LoadConstant(i) ==
  /\ Executes
  /\ KindOf(i) # "native"
  /\ Replace(0, constants[i], <<KindOf(i)>>)
  /\ Quietly /\ SameHeap /\ OnlyLoader
  /\ UNCHANGED <<functions, strayed>>

(* case_load_local, case_load_global: a value that has a slot already.     *)
LoadSlot(i) ==
  /\ Executes
  /\ i \in DOMAIN stack
  /\ Replace(0, stack[i], types[i])
  /\ Quietly /\ SameHeap /\ OnlyLoader
  /\ UNCHANGED <<functions, strayed>>

(* Numbers that come out of the two halves of a word as they were put in.  *)
FitWord(new_pc, local) == new_pc \in -HIGH .. HIGH - 1 /\ local \in 0 .. HIGH - 1

(* case_make_function_and_store and case_event_on.                         *)
MakeFunction(new_pc, local) ==
  LET lambda == MAKE_FUNCTION(new_pc, local)
  IN  /\ Executes
      /\ Replace(0, lambda, fn)
      /\ functions' = functions \cup {<<lambda, new_pc, local>>}
      /\ strayed' = (strayed \/ ~FitWord(new_pc, local))
      /\ Quietly /\ SameHeap /\ OnlyLoader

(* case_make_list                                                          *)
MakeList(n, t) ==
  /\ Executes
  /\ n <= Len(stack)
  /\ \A k \in 0 .. n - 1 : TypeOfTop(k) = t
  /\ list(t) \in Types
  /\ MakeObject("TYPE_LIST", Operands(n), n, t)
  /\ Replace(n, MAKE_PTR(NewAddress), list(t))
  /\ Quietly /\ OnlyLoader
  /\ UNCHANGED <<functions, strayed>>

(* case_make_mutable                                                       *)
MakeMutable ==
  /\ Executes
  /\ stack # <<>>
  /\ mutable(TypeOfTop(0)) \in Types
  /\ MakeObject("TYPE_MUTABLE", <<Top(0)>>, 1, TypeOfTop(0))
  /\ Replace(1, MAKE_PTR(NewAddress), mutable(TypeOfTop(0)))
  /\ Quietly /\ OnlyLoader
  /\ UNCHANGED <<functions, strayed>>

(* case_update: GET_MUTABLE(variable) = value                              *)
Update ==
  /\ Executes
  /\ Len(stack) >= 2
  /\ TypeOfTop(0) = mutable(TypeOfTop(1))
  /\ IF GetType(Top(0)) # "TYPE_MUTABLE"
     THEN Throw("type")
     ELSE /\ memory' = [memory EXCEPT ![heap[GET_PTR(Top(0))].block] = <<Top(1)>>]
          /\ Drop(2)
          /\ Quietly
          /\ UNCHANGED <<heap, contents, functions, strayed>>
  /\ OnlyLoader

(* What is read from a cell that nothing was stored to.  Only a list whose *)
(* length wrapped has such cells, in gigabytes of fresh memory: zeros.     *)
Garbage == Word("FLOAT", 0)

Element(w, i) == IF i < Len(Cells(w)) THEN Cells(w)[i + 1] ELSE Garbage

(* case_list_get and case_get_index, without the index that is popped.     *)
Take(popped, w, i) ==
  IF GetType(w) # "TYPE_LIST" THEN Throw("type")
  ELSE IF i >= Length(w) THEN Throw("Index out of bounds")
  ELSE /\ Replace(popped, Element(w, i), Tail(TypeOfTop(popped - 1)))
       /\ Quietly /\ SameHeap
       /\ UNCHANGED <<functions, strayed>>

ListGet(i) ==
  /\ Executes
  /\ stack # <<>>
  /\ Head(TypeOfTop(0)) = "list"
  /\ Take(1, Top(0), Unsigned(i))
  /\ OnlyLoader

GetIndex ==
  /\ Executes
  /\ Len(stack) >= 2
  /\ TypeOfTop(0) = int
  /\ Head(TypeOfTop(1)) = "list"
  /\ IF GetType(Top(0)) # "TYPE_INTEGER" THEN Throw("type") ELSE Take(2, Top(1), GET_INT(Top(0)))
  /\ OnlyLoader
-----------------------------------------------------------------------------
(* value_eq: 1, 0, or THROWN if a THROW ends the process.                  *)
THROWN == 2

\* Mutant: a list equals every list that begins with it.
NotLonger(a, b) == Length(a) <= Length(b)

SameLength(a, b) == Length(a) = Length(b)

Bit(p) == IF p THEN 1 ELSE 0

(* What value_eq gives for two words when it gives sub for those in them.  *)
Compared(a, b, sub) ==
  LET ty == GetType(a)
      Elements(i) == sub[<<Element(a, i), Element(b, i)>>]
      Differ == {i \in 0 .. Length(a) - 1 : Elements(i) # 1}
  IN  CASE GetType(b) # ty \/ a = NAN -> THROWN
        [] GetType(b) = ty /\ ty \in {"TYPE_INTEGER", "TYPE_FLOAT"} -> Bit(a.payload = b.payload)
        [] GetType(b) = ty /\ ty = "TYPE_STRING" -> Bit(Cells(a) = Cells(b))
        [] GetType(b) = ty /\ ty = "TYPE_LIST" ->
             IF ~SameLength(a, b) THEN 0
             ELSE IF Differ = {} THEN 1
             ELSE Elements(CHOOSE i \in Differ : \A j \in Differ : i <= j)
        [] GetType(b) = ty /\ ty = "TYPE_MUTABLE" -> sub[<<Cells(a)[1], Cells(b)[1]>>]
        [] GetType(b) = ty /\ ty \in {"TYPE_SPECIAL", "TYPE_FUNCTION"} -> 1
        [] OTHER -> 0

(* value_eq for words that nest at most n deep.                            *)
Equality ==
  LET equal[n \in 0 .. TypeDepth] ==
        [p \in Words \X Words |-> IF n = 0 THEN THROWN ELSE Compared(p[1], p[2], equal[n - 1])]
  IN  equal

value_eq(a, b) == Equality[TypeDepth][<<a, b>>]

(* What a native does: it throws, returns a word, or makes an object; a    *)
(* block of 0 stands for memory that it allocates.                         *)
Throws(reason) == [does |-> "throw", reason |-> reason]
Returns(w)     == [does |-> "return", word |-> w]
Makes(type, block, cells, length) ==
  [does |-> "make", type |-> type, block |-> block, cells |-> cells, length |-> length]

(* The elements a native copies: as many as the list says it has.          *)
Copied(w) == [i \in 1 .. Length(w) |-> Element(w, i - 1)]

(* add_value on two strings or two lists.                                  *)
Joined(a, b) ==
  IF GetType(a) = "TYPE_LIST"
  THEN Makes("TYPE_LIST", 0, Copied(a) \o Copied(b), Unsigned(Length(a) + Length(b)))
  ELSE Makes("TYPE_STRING", 0, Cells(a) \o Cells(b), Unsigned(Len(Cells(a)) + Len(Cells(b))))

(* The types each operation of maths.c has a case for.                     *)
Supported(f) ==
  {"TYPE_INTEGER"}
  \cup (IF f \notin Logic THEN {"TYPE_FLOAT"} ELSE {})
  \cup (IF f \in {"add_value", "eq_value"} THEN {"TYPE_STRING", "TYPE_LIST"} ELSE {})

Operation(f, a, b) ==
  LET ty == GetType(b)
  IN  CASE GetType(a) # ty -> Throws("type")
        [] GetType(a) = ty /\ ty \notin Supported(f) -> Throws("Unsupported type")
        [] GetType(a) = ty /\ ty \in Supported(f) /\ ty = "TYPE_INTEGER" ->
             IF f = "div_value" /\ GET_INT(b) = 0 THEN Throws("SIGFPE")
             ELSE Returns(OnIntegers(f, GET_INT(a), GET_INT(b)))
        [] GetType(a) = ty /\ ty \in Supported(f) /\ ty = "TYPE_FLOAT" ->
             Returns(OnFloats(f, GET_FLOAT(a), GET_FLOAT(b)))
        [] OTHER ->
             IF f = "add_value" THEN Joined(a, b)
             ELSE IF value_eq(a, b) = THROWN THEN Throws("type")
             ELSE Returns(MAKE_INTEGER(value_eq(a, b)))

(* not_value                                                               *)
Negation(w) ==
  IF GetType(w) # "TYPE_INTEGER" THEN Throws("Unsupported type") ELSE Returns(BOOL(GET_INT(w) = 0))

\* Mutant: the mutable itself.
TheMutable(w) == Returns(w)

(* mutable_value                                                           *)
ValueOf(w) == IF GetType(w) # "TYPE_MUTABLE" THEN Throws("type") ELSE Returns(Cells(w)[1])

(* start and end are uint32_t: no negative number is below 0.              *)
WithinList(start, end, length) == start <= length /\ end <= length

(* end - start is a uint32_t as well.                                      *)
SliceLength(start, end) == Unsigned(end - start)

slice(xs, from, to) ==
  LET start == GET_INT(from)
      end   == GET_INT(to)
  IN  IF ~(/\ GetType(xs) = "TYPE_LIST"
           /\ GetType(from) = "TYPE_INTEGER"
           /\ GetType(to) = "TYPE_INTEGER") THEN Throws("type")
      ELSE IF ~WithinList(start, end, Length(xs)) THEN Throws("Index out of bounds")
      ELSE Makes("TYPE_LIST", 0, [i \in 1 .. end - start |-> Element(xs, start + i - 1)],
                 SliceLength(start, end))

length(w) ==
  CASE GetType(w) = "TYPE_STRING" -> Returns(MAKE_INTEGER(Len(Cells(w))))
    [] GetType(w) = "TYPE_LIST"   -> Returns(MAKE_INTEGER(Length(w)))
    [] OTHER -> Throws("Unsupported type for length")

\* Mutant: the list is made of module.argv itself.
SharedArguments == Makes("TYPE_LIST", args, <<>>, Len(argv))

get_args == Makes("TYPE_LIST", 0, memory[args], Len(argv))

Arity(f) ==
  CASE f = "get_args" -> 0
    [] f \in {"length", "mutable_value", "not_value"} -> 1
    [] f = "slice" -> 3
    [] OTHER -> 2

Natives == Arithmetic \cup Order \cup Logic
           \cup {"eq_value", "not_value", "mutable_value", "slice", "length", "get_args"}

ASSUME MachineAssumption ==
  /\ {Depth, MaxElements, MaxObjects, MaxSteps} \subseteq Nat
  /\ TypeDepth \in Nat \ {0, 1}   \* get_args gives a list<string>
  /\ \A name \in DOMAIN Libraries : Libraries[name] \subseteq Natives

(* The native f of a library, on the arguments xs.                         *)
Outcome(f, xs) ==
  CASE f = "get_args"      -> get_args
    [] f = "length"        -> length(xs[1])
    [] f = "mutable_value" -> ValueOf(xs[1])
    [] f = "not_value"     -> Negation(xs[1])
    [] f = "slice"         -> slice(xs[1], xs[2], xs[3])
    [] OTHER               -> Operation(f, xs[1], xs[2])

(* The result types of the instances of the type that natives.bzi and      *)
(* main.bzi declare for f, for arguments of the types ts; a bool is an int  *)
(* at run time and here.                                                   *)
ResultTypes(f, ts) ==
  LET When(p, r) == IF p THEN {r} ELSE {}
  IN  CASE f \in Arithmetic             -> When(ts[1] = ts[2], ts[1])
        [] f \in Order \cup {"eq_value"} -> When(ts[1] = ts[2], int)
        [] f \in Logic \cup {"not_value"} -> When(Range(ts) = {int}, int)
        [] f = "mutable_value" -> When(Head(ts[1]) = "mutable", Tail(ts[1]))
        [] f = "slice"    -> When(Head(ts[1]) = "list" /\ ts[2] = int /\ ts[3] = int, ts[1])
        [] f = "length"   -> When(Head(ts[1]) = "list", int)
        [] f = "get_args" -> {list(string)}

(* Arguments are popped in reverse order.                                  *)
Arguments(n) == Operands(n)

(* A call of f on xs whose result is not what its type says: slice does not *)
(* compare start and end, and an infinity or a NaN has not the word of a   *)
(* float.                                                                  *)
Strays(f, xs) ==
  \/ f = "slice" /\ GET_INT(xs[2]) > GET_INT(xs[3])
  \/ /\ f \in Arithmetic
     /\ GetType(xs[1]) = "TYPE_FLOAT"
     /\ OnFloats(f, GET_FLOAT(xs[1]), GET_FLOAT(xs[2])).signature # "FLOAT"

(* A new object in memory that is allocated for it, or in the block b.     *)
MakeIn(out, t) ==
  IF out.block = 0 THEN MakeObject(out.type, out.cells, out.length, t)
  ELSE /\ heap' = Append(heap, Object(out.type, out.length, out.block))
       /\ contents' = WithContents(t)
       /\ UNCHANGED memory

(* The call of f on the n words on top returned w, of type r.              *)
Returned(f, n, w, r) ==
  /\ Replace(n, w, r)
  /\ last' = [name |-> f, given |-> Operands(n), result |-> w]
  /\ strayed' = (strayed \/ Strays(f, Operands(n)))
  /\ UNCHANGED <<stage, error, freed, functions>>

(* case_load_native of the constant i and case_call: op_native_call.  What *)
(* a function of libc does with the arguments, if it has the name, is left *)
(* out.                                                                    *)
NativeCall(i) ==
  LET f   == Cells(constants[i])[1]
      n   == Arity(f)
      out == Outcome(f, Arguments(n))
  IN  /\ Executes
      /\ KindOf(i) = "native"
      /\ IF FindFunction(f) = 0 THEN Throw("Function not found")
         ELSE /\ handles[FindFunction(f)] # NULL
              /\ n <= Len(stack)
              /\ \E r \in ResultTypes(f, SubSeq(types, Len(types) - n + 1, Len(types))) :
                 \/ out.does = "throw" /\ Throw(out.reason)
                 \/ out.does = "return" /\ Returned(f, n, out.word, r) /\ SameHeap
                 \/ /\ out.does = "make"
                    /\ MakeIn(out, Tail(r))
                    /\ Returned(f, n, MAKE_PTR(NewAddress), r)
      /\ OnlyLoader
-----------------------------------------------------------------------------
(* free_constant, force_sweep, free(args): the objects of the list in     *)
(* the order in which they were made.                                      *)
Frees ==
  LET FreesOf(w) == IF IS_PTR(w) THEN <<<<"text", heap[GET_PTR(w)].block>>, <<"object", GET_PTR(w)>>>>
                    ELSE <<>>
      ofConstants == {GET_PTR(w) : w \in {c \in Range(constants) : IS_PTR(c)}}
      Swept(a) == IF a \in ofConstants THEN <<>>
                  ELSE IF heap[a].type = "TYPE_STRING" THEN <<<<"object", a>>>>
                  ELSE <<<<"array", heap[a].block>>, <<"object", a>>>>
  IN  FlattenSeq([i \in DOMAIN constants |-> FreesOf(constants[i])])
      \o FlattenSeq([a \in DOMAIN heap |-> Swept(a)])
      \o <<<<"array", args>>>>

(* case_halt, and the end of main.                                         *)
Halt ==
  /\ stage = "running"
  /\ stage' = "over"
  /\ freed' = Frees
  /\ UNCHANGED <<stack, types, heap, memory, contents, functions, last, steps, error, strayed>>
  /\ OnlyLoader

Next ==
  \/ Load /\ UNCHANGED machineVars
  \/ \E i \in DOMAIN constants : LoadConstant(i)
  \/ \E i \in 1 .. Depth : LoadSlot(i)
  \/ stage = "running" /\ \E f \in Files[argv[2]].functions : MakeFunction(f[1], f[2])
  \/ \E n \in 0 .. MaxElements, t \in Types : MakeList(n, t)
  \/ MakeMutable
  \/ Update
  \/ \E i \in 0 .. MaxElements : ListGet(i)
  \/ GetIndex
  \/ \E i \in DOMAIN constants : NativeCall(i)
  \/ Halt

Spec == MachineInit /\ [][Next]_vars
-----------------------------------------------------------------------------
TypeOK ==
  /\ stage \in {"start", "count", "constants", "arguments", "running", "thrown", "over"}
  /\ Len(stack) <= Depth /\ Len(types) = Len(stack)
  /\ \A a \in DOMAIN heap : heap[a].block \in DOMAIN memory
  /\ DOMAIN contents \subseteq DOMAIN heap
  /\ \A i \in DOMAIN stack : IS_PTR(stack[i]) => GET_PTR(stack[i]) \in {0} \cup DOMAIN heap
  /\ steps \in 0 .. MaxSteps
  /\ strayed \in BOOLEAN

(* What deserialize leaves in memory is what the compiler wrote: every     *)
(* literal, the int32 of an integer, and every instruction with its        *)
(* operands where the interpreter looks for them, five words apart.        *)
LoadedAsCompiled ==
  stage \in {"arguments", "over"} =>
    LET program == Files[argv[2]]
        Same(w, literal) ==
          CASE literal.kind = "int"    -> /\ GetType(w) = "TYPE_INTEGER"
                                          /\ (GET_INT(w) - literal.value) % INT = 0
            [] literal.kind = "float"  -> w = Word("FLOAT", literal.value)
            [] literal.kind \in {"string", "native"} ->
                                          /\ GetType(w) = "TYPE_STRING"
                                          /\ Cells(w) = literal.value
                                          /\ Length(w) = Len(literal.value)
    IN  /\ Len(constants) = Len(program.constants)
        /\ \A i \in DOMAIN constants : Same(constants[i], program.constants[i])
        /\ Len(instrs) = 5 * Len(program.code)
        /\ \A k \in DOMAIN program.code : \A i \in DOMAIN program.code[k] :
             instrs[5 * (k - 1) + i] = program.code[k][i]

(* Every -l names a library that dlopen finds: then a native is taken from *)
(* the first library on the command line that has it, and it is found      *)
(* there (call.c, find_function over the handles main copies from the list *)
(* of options).                                                            *)
NativesFromTheirLibrary ==
  LET Given(i) == i < Len(argv) /\ argv[i + 1] \in DOMAIN Libraries
      With(f)  == {i \in Range(Options) : f \in Libraries[argv[i + 1]]}
  IN  stage \in {"arguments", "over"} /\ (\A i \in Range(Options) : Given(i)) =>
        \A f \in Natives : With(f) # {} =>
          /\ FindFunction(f) \in DOMAIN handles
          /\ handles[FindFunction(f)] = argv[1 + CHOOSE i \in With(f) : \A j \in With(f) : i <= j]

(* A function is called at the address and with the local space it was     *)
(* made with, through the 16 bits of each that its word keeps.             *)
FunctionsKeepTheirAddress ==
  \A f \in functions :
    /\ IS_FUN(f[1])
    /\ FunctionAddress(f[1]) = f[2]
    /\ FunctionLocalSpace(f[1]) = f[3]

(* Every slot, and every cell of a list or a mutable, holds a value of the *)
(* type the checker gave it: what README.md says of the type checker, that *)
(* it guarantees types and computations.                                   *)
TypesAreGuaranteed ==
  stage \in {"running", "over"} =>
    /\ \A i \in DOMAIN stack : HasType(stack[i], types[i])
    /\ \A a \in {b \in DOMAIN contents : contents[b] # <<>>} : \A i \in DOMAIN memory[heap[a].block] :
         HasType(memory[heap[a].block][i], contents[a])

(* Until a program does one of the three things that leave the types,      *)
(* slots and cells hold values of their types: natives return what         *)
(* natives.bzi declares, and no instruction mixes up its operands.  Until  *)
(* then functions keep their address and no ASSERT_TYPE fails.             *)
WellTyped ==
  /\ TypeOK
  /\ ~strayed =>
       /\ TypesAreGuaranteed
       /\ FunctionsKeepTheirAddress
       /\ error # "type"

(* The length that the index of a list is compared with ("Index out of     *)
(* bounds") is that of the cells that were stored to.                      *)
LengthIsOfCells ==
  \A a \in DOMAIN heap : heap[a].length = Len(memory[heap[a].block])

(* What a value is, apart from where it is stored, when sub says it of     *)
(* those in it.                                                            *)
Denoted(w, sub) ==
  CASE GetType(w) \in {"TYPE_INTEGER", "TYPE_FLOAT"} -> w.payload
    [] GetType(w) = "TYPE_STRING" -> Cells(w)
    [] GetType(w) \in {"TYPE_LIST", "TYPE_MUTABLE"} -> [i \in DOMAIN Cells(w) |-> sub[Cells(w)[i]]]

Denotations ==
  LET denoted[n \in 0 .. TypeDepth] ==
        [w \in Words |-> IF n = 0 THEN w ELSE Denoted(w, denoted[n - 1])]
  IN  denoted

Denotation(w) == Denotations[TypeDepth][w]

(* What the natives give is what a reader of printed values expects: two   *)
(* values of their types are equal (eq_value, and value_eq for what is in  *)
(* lists) exactly when they look alike, wherever they are.  On integers,   *)
(* with the numbers that print shows, the int32_t: sums, differences and   *)
(* products modulo 2^32, quotients and the order as long as no number is   *)
(* negative (maths.c takes them as uint64_t: OrderAsPrinted fails).        *)
EqualityIsStructural ==
  last.name = "eq_value" /\ stage = "running" /\ ~strayed =>
    last.result = BOOL(Denotation(last.given[1]) = Denotation(last.given[2]))

IntegersAsPrinted ==
  LET Printed(i) == Signed(GET_INT(last.given[i]))
      x == Printed(1)
      y == Printed(2)
      r == GET_INT(last.result)
  IN  last.name \in Arithmetic \cup Order /\ GetType(last.given[1]) = "TYPE_INTEGER" =>
        /\ last.name = "add_value" => (r - (x + y)) % INT = 0
        /\ last.name = "sub_value" => (r - (x - y)) % INT = 0
        /\ last.name = "mul_value" => (r - (x * y)) % INT = 0
        /\ x >= 0 /\ y >= 0 =>
             /\ last.name = "div_value" => y * r <= x /\ x < y * (r + 1)
             /\ last.name = "lt_value"  => (r = 1 <=> x < y)
             /\ last.name = "gt_value"  => (r = 1 <=> y < x)
             /\ last.name = "lte_value" => (r = 1 <=> ~(y < x))
             /\ last.name = "gte_value" => (r = 1 <=> ~(x < y))

(* A comparison of integers is that of the numbers that print shows, the   *)
(* negative ones too.                                                      *)
OrderAsPrinted ==
  last.name \in Order /\ GetType(last.given[1]) = "TYPE_INTEGER" =>
    last.result = BOOL(Holds(last.name, Signed(GET_INT(last.given[1])), Signed(GET_INT(last.given[2]))))

ResultsAsPrinted == EqualityIsStructural /\ IntegersAsPrinted

(* main frees no block twice, though free_constant, force_sweep and        *)
(* free(args) do not know of each other: natives copy what they put into a *)
(* list.                                                                   *)
NothingFreedTwice == IsInjective(freed)
=============================================================================
